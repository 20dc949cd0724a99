------------------------ MODULE GrpcServerConnection ------------------------
(***************************************************************************)
(* One connection of the server: GrpcServerConnection and the GrpcStreams  *)
(* it owns (src/src/server.rs), driven by the thread GrpcServer::run       *)
(* spawned for it, with the dispatch of method.rs.  The peer is any client *)
(* that keeps to the HTTP/2 stream life cycle; it is not assumed to be the *)
(* GrpcClient of this repository.                                          *)
(*                                                                         *)
(* The request body of a stream is a sequence of pieces.  A piece is a     *)
(* fragment of a length-prefixed gRPC frame; the first piece of a frame    *)
(* holds its five-byte header, hence its size and its compression flag.    *)
(* A DATA frame delivers any number of pieces, so every way of cutting the *)
(* body into DATA frames at piece boundaries is a behaviour.               *)
(***************************************************************************)
EXTENDS Integers, Sequences, FiniteSets, Http2Stream

CONSTANTS
  StreamIds,    \* HTTP/2 streams the peer may open on this connection
  NoStream,     \* no stream at all
  Bodies,       \* request bodies the peer may send on a stream
  Paths,        \* values of the :path header the peer may send
  Methods,      \* names of ServerServiceDefinition.methods, in order
  MaxFrames     \* bound: HTTP/2 frames the peer sends in a behaviour

Piece == [no : Nat \ {0}, part : Nat \ {0}, size : Nat \ {0}, flag : {0, 1}]

\* A body is made of whole frames, the last one possibly cut short: frame
\* number no has its parts 1 .. size next to each other and in order.
WellFormed(b) ==
  /\ b # <<>> => b[1].no = 1 /\ b[1].part = 1
  /\ \A i \in 1 .. Len(b) : b[i].part = 1 =>
       \A k \in 0 .. b[i].size - 1 :
         i + k <= Len(b) => b[i + k] = [b[i] EXCEPT !.part = k + 1]
  /\ \A i \in 1 .. Len(b) - 1 : b[i].part = b[i].size =>
       b[i + 1].part = 1 /\ b[i + 1].no = b[i].no + 1

ASSUME BodiesAssumption ==
  \A b \in Bodies : b \in Seq(Piece) /\ WellFormed(b)

NoPath == ""

ASSUME MethodsAssumption == Methods \in Seq(Paths) /\ NoPath \notin Paths

ASSUME MaxFramesAssumption == MaxFrames \in Nat

VARIABLES
  live,       \* ids in state.streams (DefaultSessionState)
  path,       \* GrpcStream.path
  req_buf,    \* GrpcStream.req_buf, as pieces
  resp_buf,   \* GrpcStream.resp_buf, as a sequence of responses
  state,      \* GrpcStream.state
  pc,         \* where the connection's thread is
  cur,        \* the DATA frame new_data_chunk is working on
  responses,  \* the Vec handle_requests returned, what is left of it
  sending,    \* the element of responses being written
  out,        \* HTTP/2 frames of streams written to the peer, ever
  handled,    \* history: calls made to handle_method, per stream
  peer,       \* the peer's side of each stream
  body,       \* the request body the peer sends on each stream
  pos,        \* how many of its pieces have been received
  frames      \* how many HTTP/2 frames have been received

streamVars == <<live, path, req_buf, resp_buf, state>>
sendVars   == <<responses, sending, out>>
peerVars   == <<peer, body, pos, frames>>
vars == <<streamVars, pc, cur, sendVars, handled, peerVars>>

Running     == {"read", "process", "handle_requests", "prepare_responses",
                "send_data", "send_trailers"}
Stopped     == {"returned", "panicked"}
Response    == [method : Nat \ {0}, no : Nat \ {0}]
Call        == [path : Paths, no : Nat \ {0}]
OutFrame    == [stream : StreamIds, kind : {"headers", "data", "trailers"},
                body : Seq(Response)]

Reply       == [stream : StreamIds, buf : Seq(Response)]

TypeOK ==
  /\ live \subseteq StreamIds
  /\ path \in [StreamIds -> Paths \cup {NoPath}]
  /\ req_buf \in [StreamIds -> Seq(Piece)]
  /\ resp_buf \in [StreamIds -> Seq(Response)]
  /\ state \in [StreamIds -> StreamState]
  /\ pc \in {"new"} \cup Running \cup Stopped
  /\ pc = "process" => cur \in [stream : live, end : BOOLEAN]
  /\ responses \subseteq Reply
  /\ pc \in {"send_data", "send_trailers"} => sending \in responses
  /\ out \in Seq(OutFrame)
  /\ handled \in [StreamIds -> Seq(Call)]
  /\ peer \in [StreamIds -> {"idle", "open", "ended", "reset"}]
  /\ body \in [StreamIds -> Bodies]
  /\ pos \in [StreamIds -> Nat]
  /\ \A s \in StreamIds : pos[s] <= Len(body[s])
  /\ frames \in 0 .. MaxFrames

-----------------------------------------------------------------------------
(* Helpers of the handlers *)

\* Mutant: the comparison with the buffer's length, off by one.
ParseFrameLate(buf) ==
  IF buf # <<>> /\ buf[1].size < Len(buf) THEN buf[1].size ELSE 0

\* The size of the frame at the head of buf, 0 for None (grpc::parse_frame).
\* The flag is looked at first, see ProcessPanic.
ParseFrame(buf) ==
  IF buf # <<>> /\ buf[1].size <= Len(buf) THEN buf[1].size ELSE 0

BadFlag(buf) == buf # <<>> /\ buf[1].flag # 0

\* Mutants: nothing is drained, or one piece too many.
DrainNone(buf, n) == buf
DrainOneMore(buf, n) == SubSeq(buf, n + 2, Len(buf))

\* req_buf.drain(..pos)
Drain(buf, n) == SubSeq(buf, n + 1, Len(buf))

MethodsNamed(name) == {i \in 1 .. Len(Methods) : Methods[i] = name}

\* Mutant: the last method of that name.
FindMethodLast(name) ==
  CHOOSE i \in MethodsNamed(name) : \A j \in MethodsNamed(name) : i >= j

\* ServerServiceDefinition::find_method: the first method of that name.
FindMethod(name) ==
  CHOOSE i \in MethodsNamed(name) : \A j \in MethodsNamed(name) : i <= j

\* Mutant: only the streams whose request has ended are answered.
HandleRequestsHalfClosed ==
  {[stream |-> s, buf |-> resp_buf[s]] :
     s \in {t \in live : resp_buf[t] # <<>> /\ state[t] = "HalfClosedRemote"}}

\* GrpcServerConnection::handle_requests: every stream with a response
\* buffer that is not empty, with a copy of that buffer.
HandleRequests ==
  {[stream |-> s, buf |-> resp_buf[s]] : s \in {t \in live : resp_buf[t] # <<>>}}

\* Mutant: a stream closed on one side only counts as closed.
ClosedStreamsAnyHalf == {s \in live : state[s] # "Open"}

\* SessionState::get_closed of solicit, as reap_streams uses it.
ClosedStreams == {s \in live : state[s] = "Closed"}

-----------------------------------------------------------------------------
(* The initial state: GrpcServer::run has accepted the socket. *)

Init ==
  /\ live = {}
  /\ path = [s \in StreamIds |-> NoPath]
  /\ req_buf = [s \in StreamIds |-> <<>>]
  /\ resp_buf = [s \in StreamIds |-> <<>>]
  /\ state = [s \in StreamIds |-> "Open"]
  /\ pc = "new"
  /\ cur = [stream |-> NoStream, end |-> FALSE]
  /\ responses = {}
  /\ sending = [stream |-> NoStream, buf |-> <<>>]
  /\ out = <<>>
  /\ handled = [s \in StreamIds |-> <<>>]
  /\ peer = [s \in StreamIds |-> "idle"]
  /\ body \in [StreamIds -> Bodies]
  /\ pos = [s \in StreamIds |-> 0]
  /\ frames = 0

Goto(label) == pc' = label

\* GrpcServerConnection::new: read_exact and the comparison with the preface
\* either succeed or panic, and the panic ends this thread only.
New ==
  /\ pc = "new"
  /\ Goto("read") \/ Goto("panicked")
  /\ UNCHANGED <<streamVars, cur, sendVars, handled, peerVars>>

-----------------------------------------------------------------------------
(* handle_next_frame: the frame that HttpConnection reads is given to the  *)
(* ServerSession, which calls back into the stream.                        *)

Receive ==
  /\ pc = "read"
  /\ frames < MaxFrames
  /\ frames' = frames + 1

\* HEADERS that open stream s: GrpcStreamFactory::create, set_headers,
\* insert_incoming, and close_remote when END_STREAM is set.
RecvNewStream(s, p, end) ==
  /\ Receive
  /\ peer[s] = "idle"
  /\ live' = live \cup {s}
  /\ path' = [path EXCEPT ![s] = p]
  /\ req_buf' = [req_buf EXCEPT ![s] = <<>>]
  /\ resp_buf' = [resp_buf EXCEPT ![s] = <<>>]
  /\ state' = [state EXCEPT ![s] = IF end THEN CloseRemote("Open") ELSE "Open"]
  /\ peer' = [peer EXCEPT ![s] = IF end THEN "ended" ELSE "open"]
  /\ Goto("handle_requests")
  /\ UNCHANGED <<cur, sendVars, handled, body, pos>>

\* HEADERS on an open stream are request trailers and carry END_STREAM;
\* set_headers overwrites the path only when :path is among them.
RecvTrailers(s) ==
  /\ Receive
  /\ s \in live /\ peer[s] = "open"
  /\ state' = [state EXCEPT ![s] = CloseRemote(@)]
  /\ peer' = [peer EXCEPT ![s] = "ended"]
  /\ Goto("handle_requests")
  /\ UNCHANGED <<live, path, req_buf, resp_buf, cur, sendVars, handled, body, pos>>

\* HEADERS whose :path is not UTF-8: set_headers unwraps the error.
RecvBadPath(s) ==
  /\ Receive
  /\ peer[s] = "idle"
  /\ peer' = [peer EXCEPT ![s] = "open"]
  /\ Goto("panicked")
  /\ UNCHANGED <<streamVars, cur, sendVars, handled, body, pos>>

\* DATA with the next n pieces of the body: new_data_chunk appends them to
\* req_buf and calls process_buf.  Nothing stops an empty DATA frame that ends
\* a stream once more; GrpcClient sends such frames.
RecvData(s, n, end) ==
  /\ Receive
  /\ s \in live
  /\ peer[s] = "open" \/ (peer[s] = "ended" /\ end /\ n = 0)
  /\ n <= Len(body[s]) - pos[s]
  /\ req_buf' = [req_buf EXCEPT ![s] = @ \o SubSeq(body[s], pos[s] + 1, pos[s] + n)]
  /\ pos' = [pos EXCEPT ![s] = @ + n]
  /\ cur' = [stream |-> s, end |-> end]
  /\ peer' = IF end THEN [peer EXCEPT ![s] = "ended"] ELSE peer
  /\ Goto("process")
  /\ UNCHANGED <<live, path, resp_buf, state, sendVars, handled, body>>

\* RST_STREAM: on_rst_stream closes the stream; reap_streams will drop it.
RecvRstStream(s) ==
  /\ Receive
  /\ s \in live /\ peer[s] \in {"open", "ended"}
  /\ state' = [state EXCEPT ![s] = "Closed"]
  /\ peer' = [peer EXCEPT ![s] = "reset"]
  /\ Goto("handle_requests")
  /\ UNCHANGED <<live, path, req_buf, resp_buf, cur, sendVars, handled, body, pos>>

\* SETTINGS, PING, WINDOW_UPDATE, ...: no stream is touched.
RecvOther ==
  /\ Receive
  /\ Goto("handle_requests")
  /\ UNCHANGED <<streamVars, cur, sendVars, handled, peer, body, pos>>

\* End of the TCP stream, or an HTTP/2 error: handle_next returns the error
\* and run returns.
RecvError ==
  /\ pc = "read"
  /\ Goto("returned")
  /\ UNCHANGED <<streamVars, cur, sendVars, handled, peerVars>>

-----------------------------------------------------------------------------
(* process_buf, one iteration of its loop at a time *)

\* A whole frame is buffered: handle_method runs, its answer is appended to
\* resp_buf with write_frame, and the frame leaves req_buf.
ProcessFrame ==
  /\ pc = "process"
  /\ LET s == cur.stream
         n == ParseFrame(req_buf[s])
         no == req_buf[s][1].no
     IN  /\ ~ BadFlag(req_buf[s])
         /\ n > 0
         /\ MethodsNamed(path[s]) # {}
         /\ handled' = [handled EXCEPT ![s] = Append(@, [path |-> path[s], no |-> no])]
         /\ req_buf' = [req_buf EXCEPT ![s] = Drain(@, n)]
         /\ resp_buf' = [resp_buf EXCEPT ![s] =
                            Append(@, [method |-> FindMethod(path[s]), no |-> no])]
  /\ UNCHANGED <<live, path, state, pc, cur, sendVars, peerVars>>

\* The thread panics: the compression flag is set, or a whole frame is there
\* and find_method knows no such name, or a marshaller or the handler panics.
ProcessPanic ==
  /\ pc = "process"
  /\ BadFlag(req_buf[cur.stream]) \/ ParseFrame(req_buf[cur.stream]) > 0
  /\ Goto("panicked")
  /\ UNCHANGED <<streamVars, cur, sendVars, handled, peerVars>>

\* No whole frame is left: process_buf returns, and END_STREAM of the DATA
\* frame closes the remote side.
ProcessReturn ==
  /\ pc = "process"
  /\ LET s == cur.stream
     IN  /\ ~ BadFlag(req_buf[s])
         /\ ParseFrame(req_buf[s]) = 0
         /\ state' = IF cur.end THEN [state EXCEPT ![s] = CloseRemote(@)] ELSE state
  /\ Goto("handle_requests")
  /\ UNCHANGED <<live, path, req_buf, resp_buf, cur, sendVars, handled, peerVars>>

-----------------------------------------------------------------------------
(* The rest of handle_next *)

CollectResponses ==
  /\ pc = "handle_requests"
  /\ responses' = HandleRequests
  /\ Goto("prepare_responses")
  /\ UNCHANGED <<streamVars, cur, sending, out, handled, peerVars>>

SendFrame(r, kind, buf) ==
  out' = Append(out, [stream |-> r.stream, kind |-> kind, body |-> buf])

\* Mutants: the response is taken off first; the trailers are skipped.
SendHeadersConsumes(r) ==
  /\ pc = "prepare_responses"
  /\ r \in responses
  /\ SendFrame(r, "headers", <<>>)
  /\ sending' = r
  /\ responses' = responses \ {r}
  /\ Goto("send_data")
  /\ UNCHANGED <<streamVars, cur, handled, peerVars>>

SendDataEnds ==
  /\ pc = "send_data"
  /\ SendFrame(sending, "data", sending.buf)
  /\ responses' = responses \ {sending}
  /\ Goto("prepare_responses")
  /\ UNCHANGED <<streamVars, cur, sending, handled, peerVars>>

\* prepare_responses, per response: the status headers, all of the response
\* buffer in one DATA frame, and the trailers, which end the stream.
SendHeaders(r) ==
  /\ pc = "prepare_responses"
  /\ r \in responses
  /\ SendFrame(r, "headers", <<>>)
  /\ sending' = r
  /\ Goto("send_data")
  /\ UNCHANGED <<streamVars, cur, responses, handled, peerVars>>

SendData ==
  /\ pc = "send_data"
  /\ SendFrame(sending, "data", sending.buf)
  /\ Goto("send_trailers")
  /\ UNCHANGED <<streamVars, cur, responses, sending, handled, peerVars>>

SendTrailers ==
  /\ pc = "send_trailers"
  /\ SendFrame(sending, "trailers", <<>>)
  /\ responses' = responses \ {sending}
  /\ Goto("prepare_responses")
  /\ UNCHANGED <<streamVars, cur, sending, handled, peerVars>>

\* A write fails: try! leaves prepare_responses and run returns.
SendError ==
  /\ \/ pc = "prepare_responses" /\ responses # {}
     \/ pc \in {"send_data", "send_trailers"}
  /\ Goto("returned")
  /\ UNCHANGED <<streamVars, cur, sendVars, handled, peerVars>>

\* flush_streams finds nothing to send, since GrpcStream.data is None from
\* with_id on and get_data_chunk answers Unavailable or Closed; reap_streams
\* drops the closed streams; run calls handle_next again.
ReapStreams ==
  /\ pc = "prepare_responses"
  /\ responses = {}
  /\ live' = live \ ClosedStreams
  /\ Goto("read")
  /\ UNCHANGED <<path, req_buf, resp_buf, state, cur, sendVars, handled, peerVars>>

-----------------------------------------------------------------------------
RecvFrame ==
  \/ \E s \in StreamIds, end \in BOOLEAN :
       \/ \E p \in Paths : RecvNewStream(s, p, end)
       \/ \E n \in 0 .. Len(body[s]) : RecvData(s, n, end)
  \/ \E s \in StreamIds : RecvTrailers(s) \/ RecvBadPath(s) \/ RecvRstStream(s)
  \/ RecvOther
  \/ RecvError

ProcessBuf == ProcessFrame \/ ProcessPanic \/ ProcessReturn

PrepareResponses ==
  \/ \E r \in responses : SendHeaders(r)
  \/ SendData \/ SendTrailers \/ SendError \/ ReapStreams

\* What the thread does between two reads
ThreadStep == New \/ ProcessBuf \/ CollectResponses \/ PrepareResponses

Next == RecvFrame \/ ThreadStep

Spec == Init /\ [][Next]_vars

\* A frame that is there and that no handler gets to see
Refused(s) == BadFlag(req_buf[s]) \/ MethodsNamed(path[s]) = {}

\* What it does without waiting for anybody
OwnStep ==
  \/ ProcessReturn
  \/ ProcessPanic /\ Refused(cur.stream)
  \/ CollectResponses
  \/ ReapStreams

\* The user's handler returns or panics.
HandlerEnds == ProcessFrame \/ ProcessPanic

\* A write of prepare_responses blocks until there is room in the socket's
\* buffer, which is until the peer reads, or fails.
WriteEnds ==
  \/ \E r \in responses : SendHeaders(r)
  \/ SendData \/ SendTrailers \/ SendError

\* The thread is scheduled.  Nobody has to send or to read anything, and no
\* handler has to return.
FairSpec == Spec /\ WF_vars(OwnStep)

-----------------------------------------------------------------------------
(* Properties *)

\* The numbers a message may have.
MessageNumbers == UNION {{b[i].no : i \in 1 .. Len(b)} : b \in Bodies}

\* Numbers of the messages of s of which every piece has been received.
Received(s) ==
  {body[s][i].no : i \in {k \in 1 .. pos[s] : body[s][k].part = body[s][k].size}}

\* process_buf calls handle_method for the messages of a stream in the order
\* they were sent, for each at most once, and for none before its last byte
\* is there, however the body is cut into DATA frames.
DispatchInOrder ==
  \A s \in StreamIds :
    \A j \in 1 .. Len(handled[s]) : handled[s][j].no = j /\ j \in Received(s)

\* When handle_next_frame has returned, no complete message is left in a
\* request buffer: each one received on a stream has been dispatched.
DispatchPrompt ==
  pc \in Running \ {"process"} =>
    \A s \in StreamIds : \A n \in Received(s) : n <= Len(handled[s])

DataFrames == {i \in 1 .. Len(out) : out[i].kind = "data"}

\* What prepare_responses puts in a DATA frame are answers to messages of the
\* very stream it writes to: the j-th answer is that of the j-th call, given
\* by the first method registered under the path of that call.
AnswersOwnStream ==
  \A i \in DataFrames :
    LET f == out[i]
        calls == handled[f.stream]
    IN  /\ Len(f.body) \in 1 .. Len(calls)
        /\ \A j \in 1 .. Len(f.body) :
             /\ f.body[j].no = j
             /\ f.body[j].method \in MethodsNamed(calls[j].path)
             /\ \A m \in MethodsNamed(calls[j].path) : f.body[j].method <= m

\* Back at the read, nothing waits to be answered: on every stream with calls,
\* also on those reaped, some DATA frame has carried the answers to all of them.
AnsweredAtRead ==
  pc = "read" =>
    \A s \in StreamIds : handled[s] # <<>> =>
      \E i \in DataFrames : out[i].stream = s /\ Len(out[i].body) = Len(handled[s])

\* On the wire responses are not interleaved: headers, data and trailers of
\* one stream follow each other, whatever the order of the streams.
ResponseBlocks ==
  \A i \in 1 .. Len(out) :
    /\ out[i].kind = "headers"  <=> i % 3 = 1
    /\ out[i].kind = "trailers" <=> i % 3 = 0
    /\ i % 3 # 1 => out[i].stream = out[i - 1].stream

\* reap_streams forgets a stream only after the peer has reset it.
ReapOnlyReset == [][\A s \in live \ live' : peer[s] = "reset"]_vars

\* If handlers end and the peer reads what is written to it, or its connection
\* fails, every message that is complete on a stream is answered on that stream,
\* or the thread stops; it takes no further frame from the peer.
EveryMessageAnswered ==
  WF_vars(HandlerEnds) /\ WF_vars(WriteEnds) =>
    \A s \in StreamIds : \A n \in MessageNumbers :
      n \in Received(s) ~>
        \/ pc \in Stopped
        \/ \E k \in DataFrames : out[k].stream = s /\ n <= Len(out[k].body)

\* What the thread has left to do before it reads again, at most: pieces to
\* dispatch, and three frames for each stream it holds.
ThreadWork ==
  CASE pc = "new"               -> 2
    [] pc = "read"              -> 1
    [] pc = "process"           -> 3 * Cardinality(live) + 4 + Len(req_buf[cur.stream])
    [] pc = "handle_requests"   -> 3 * Cardinality(live) + 3
    [] pc = "prepare_responses" -> 3 * Cardinality(responses) + 2
    [] pc = "send_data"         -> 3 * Cardinality(responses) + 1
    [] pc = "send_trailers"     -> 3 * Cardinality(responses)
    [] OTHER                    -> 0

\* The loop over a request buffer and the one over the responses end: with
\* every step but a read the thread comes closer to the next read.
ThreadComesBack == [][pc = "read" \/ ThreadWork' < ThreadWork]_vars

-----------------------------------------------------------------------------
(* The connection as an exchange of messages *)

Exchange == INSTANCE MessageExchange WITH
  Streams    <- StreamIds,
  Messages   <- MessageNumbers,
  received   <- [s \in StreamIds |-> Received(s)],
  dispatched <- [s \in StreamIds |-> 1 .. Len(handled[s])],
  answered   <- [s \in StreamIds |->
                   UNION {1 .. Len(out[i].body) :
                            i \in {k \in DataFrames : out[k].stream = s}}],
  up         <- pc \notin Stopped

\* The connection keeps the promise of MessageExchange: what arrives is handed
\* to the handlers in order and answered before anything more is read.
ImplementsExchange == Exchange!Spec

-----------------------------------------------------------------------------
(* Statements of the documentation that the code does not keep *)

\* README.md: calls without streaming work.  Such a call has one response, so
\* the trailers that end a stream are sent on it once.
EndStreamOnce ==
  \A i, j \in 1 .. Len(out) :
    out[i].kind = "trailers" /\ out[j].kind = "trailers"
      /\ out[i].stream = out[j].stream => i = j

\* server.rs: sending the final data closes the stream locally, and closed
\* streams are moved out of the state and dropped.  So no stream ended by both
\* sides is still kept at the read.
FinishedStreamsReaped ==
  pc = "read" =>
    \A s \in live : peer[s] = "ended" =>
      ~ \E i \in 1 .. Len(out) : out[i].stream = s /\ out[i].kind = "trailers"

=============================================================================
