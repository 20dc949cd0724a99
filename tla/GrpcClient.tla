----------------------------- MODULE GrpcClient -----------------------------
(***************************************************************************)
(* GrpcClient (src/src/client.rs): one thread makes unary calls, one after *)
(* the other, on one connection.  Call k uses the k-th stream the client   *)
(* opens.  The frames of the server are an input: HandleNextFrame(f) for   *)
(* any f, so that the module can be run against any server or composed     *)
(* with the one of this repository.                                        *)
(*                                                                         *)
(* A request or a response is cut into pieces, parts 1 .. size of one      *)
(* length-prefixed gRPC frame; a piece of a request is the up to 8 KiB     *)
(* that get_data_chunk puts in a DATA frame.                               *)
(***************************************************************************)
EXTENDS Integers, SequencesExt, Http2Stream

CONSTANTS
  MaxCalls,     \* bound: calls made on the connection
  Paths,        \* names of the methods called
  MaxSize,      \* bound: pieces of a request
  Messages,     \* what responses may say
  ServerFrames, \* frames the server may send
  MaxFrames     \* bound: frames of the server that are read

ASSUME MaxCallsAssumption == MaxCalls \in Nat

ASSUME MaxSizeAssumption == MaxSize \in Nat \ {0}

Calls == 1 .. MaxCalls

VARIABLES
  at,           \* where the client's thread is
  calls,        \* calls begun
  state,        \* DefaultStream.state of each call's stream
  size,         \* pieces of each call's request body (DefaultStream.data)
  cursor,       \* how many of them have been read
  headers,      \* whether DefaultStream.headers is Some
  body,         \* DefaultStream.body, as pieces
  result,       \* history: what each call has returned
  rcvd,         \* history: frames of the server that have been read
  sent          \* HTTP/2 frames written to the server, ever

streamVars == <<state, size, cursor, headers, body>>
vars == <<at, calls, streamVars, result, rcvd, sent>>

Piece == [msg : Messages, part : Nat \ {0}, size : Nat \ {0}]

\* A frame of the server: HEADERS, DATA or RST_STREAM.  Others do not touch a
\* stream.
ServerFrame == [stream : Calls, kind : {"headers", "data", "rst"},
                end : BOOLEAN, body : Seq(Piece)]

ASSUME ServerFramesAssumption == ServerFrames \subseteq ServerFrame

ClientFrame == [kind : {"settings"}]
          \cup [kind : {"headers"}, stream : Calls, path : Paths]
          \cup [kind : {"data"}, stream : Calls, part : 0 .. MaxSize, end : BOOLEAN]

NoAnswer == <<>>

TypeOK ==
  /\ at \in {"new", "idle", "start", "send", "response", "panicked"}
  /\ calls \in 0 .. MaxCalls
  /\ at \in {"start", "send", "response"} => calls > 0
  /\ state \in [Calls -> StreamState]
  /\ size \in [Calls -> 0 .. MaxSize]
  /\ cursor \in [Calls -> 0 .. MaxSize]
  /\ \A k \in Calls : cursor[k] <= size[k]
  /\ headers \in [Calls -> BOOLEAN]
  /\ body \in [Calls -> Seq(Piece)]
  /\ result \in [Calls -> Seq(Piece)]
  /\ rcvd \in Seq(ServerFrame)
  /\ sent \in Seq(ClientFrame)

-----------------------------------------------------------------------------
Init ==
  /\ at = "new"
  /\ calls = 0
  /\ state = [k \in Calls |-> "Open"]
  /\ size = [k \in Calls |-> 0]
  /\ cursor = [k \in Calls |-> 0]
  /\ headers = [k \in Calls |-> FALSE]
  /\ body = [k \in Calls |-> <<>>]
  /\ result = [k \in Calls |-> NoAnswer]
  /\ rcvd = <<>>
  /\ sent = <<>>

Goto(label) == at' = label

\* GrpcClient::new: the connector writes the preface and SETTINGS.  (Where
\* connect fails, new panics and there is no client.)
New ==
  /\ at = "new"
  /\ sent' = Append(sent, [kind |-> "settings"])
  /\ Goto("idle")
  /\ UNCHANGED <<calls, streamVars, result, rcvd>>

\* call, down to new_stream: the request is marshalled, framed with
\* write_frame and becomes the data of a new DefaultStream.
Call(n) ==
  /\ at = "idle"
  /\ calls < MaxCalls
  /\ calls' = calls + 1
  /\ size' = [size EXCEPT ![calls'] = n]
  /\ Goto("start")
  /\ UNCHANGED <<state, cursor, headers, body, result, rcvd, sent>>

\* start_request: HEADERS without END_STREAM, as the stream has data.
StartRequest(p) ==
  /\ at = "start"
  /\ sent' = Append(sent, [kind |-> "headers", stream |-> calls, path |-> p])
  /\ Goto("send")
  /\ UNCHANGED <<calls, streamVars, result, rcvd>>

\* Streams the prioritizer of send_next_data asks for data: any stream of the
\* connection not closed locally, in the order of a HashMap.
Sendable == {k \in 1 .. calls : ~ IsClosedLocal(state[k])}

\* Mutant: reading goes on past the end.
NextCursorPast(k) == cursor[k] + 1

\* Where the cursor is after the next read of up to 8 KiB.
NextCursor(k) == IF cursor[k] < size[k] THEN cursor[k] + 1 ELSE size[k]

\* Mutants: the end is noticed a chunk late; every chunk is the last.
IsLastLate(k) == cursor[k] = size[k]
IsLastAlways(k) == TRUE

\* StreamDataChunk::Last, not Chunk
IsLast(k) == NextCursor(k) = size[k]

\* get_data_chunk of a DefaultStream and the DATA frame it makes: the next
\* piece, or nothing at all when the cursor is at the end; END_STREAM and
\* close_local when nothing is left.
SendNextData(k) ==
  /\ at = "send"
  /\ k \in Sendable
  /\ cursor' = [cursor EXCEPT ![k] = NextCursor(k)]
  /\ sent' = Append(sent, [kind |-> "data", stream |-> k, end |-> IsLast(k),
                           part |-> IF cursor[k] < size[k] THEN cursor[k] + 1 ELSE 0])
  /\ state' = [state EXCEPT ![k] = IF IsLast(k) THEN CloseLocal(@) ELSE @]
  /\ UNCHANGED <<at, calls, size, headers, body, result, rcvd>>

\* SendStatus::Nothing ends the loop of request.
RequestSent ==
  /\ at = "send"
  /\ Sendable = {}
  /\ Goto("response")
  /\ UNCHANGED <<calls, streamVars, result, rcvd, sent>>

\* A write fails: call unwraps the error of request.
WriteFails ==
  /\ at \in {"start", "send"}
  /\ Goto("panicked")
  /\ UNCHANGED <<calls, streamVars, result, rcvd, sent>>

-----------------------------------------------------------------------------
(* get_response: as long as the stream is not closed, handle one frame *)

\* Mutant: one frame more may be handled after the stream is closed.
WaitingTooLong == at = "response"

Waiting == at = "response" /\ state[calls] # "Closed"

\* Mutant: every frame is taken for one of the call being made.
HandleNextFrameCurrent(f) ==
  /\ Waiting
  /\ f.stream \in 1 .. calls
  /\ headers' = [headers EXCEPT ![calls] = @ \/ f.kind = "headers"]
  /\ body' = [body EXCEPT ![calls] = IF f.kind = "data" THEN @ \o f.body ELSE @]
  /\ state' = [state EXCEPT ![calls] = IF f.kind = "rst" THEN "Closed"
                                       ELSE IF f.end THEN CloseRemote(@) ELSE @]
  /\ rcvd' = Append(rcvd, f)
  /\ UNCHANGED <<at, calls, size, cursor, result, sent>>

\* The frame goes to its stream, whichever call that belongs to.
HandleNextFrame(f) ==
  /\ Waiting
  /\ f.stream \in 1 .. calls
  /\ headers' = [headers EXCEPT ![f.stream] = @ \/ f.kind = "headers"]
  /\ body' = [body EXCEPT ![f.stream] = IF f.kind = "data" THEN @ \o f.body ELSE @]
  /\ state' = [state EXCEPT ![f.stream] = IF f.kind = "rst" THEN "Closed"
                                          ELSE IF f.end THEN CloseRemote(@) ELSE @]
  /\ rcvd' = Append(rcvd, f)
  /\ UNCHANGED <<at, calls, size, cursor, result, sent>>

\* A read fails, or the server says GOAWAY: call unwraps the error.
ReadFails ==
  /\ Waiting
  /\ Goto("panicked")
  /\ UNCHANGED <<calls, streamVars, result, rcvd, sent>>

\* parse_frame_completely: the body is one gRPC frame and nothing else.
OneFrame(b) == b # <<>> /\ b[1].size = Len(b)

\* Mutant: the call returns as soon as there is a message.
AnsweredByBody == at = "response" /\ OneFrame(body[calls])

Answered == at = "response" /\ state[calls] = "Closed"

\* The call returns: there are headers and the body is one frame.
Return ==
  /\ Answered
  /\ headers[calls]
  /\ OneFrame(body[calls])
  /\ result' = [result EXCEPT ![calls] = body[calls]]
  /\ Goto("idle")
  /\ UNCHANGED <<calls, streamVars, rcvd, sent>>

\* Otherwise an unwrap panics: reset before the headers, an error status
\* without a message, a message cut short, several messages.
BadResponse ==
  /\ Answered
  /\ ~ (headers[calls] /\ OneFrame(body[calls]))
  /\ Goto("panicked")
  /\ UNCHANGED <<calls, streamVars, result, rcvd, sent>>

\* The marshaller panics on a message it cannot read.
BadMessage ==
  /\ Answered
  /\ headers[calls] /\ OneFrame(body[calls])
  /\ Goto("panicked")
  /\ UNCHANGED <<calls, streamVars, result, rcvd, sent>>

-----------------------------------------------------------------------------
Request ==
  \/ New
  \/ \E n \in 1 .. MaxSize : Call(n)
  \/ \E p \in Paths : StartRequest(p)
  \/ \E k \in Calls : SendNextData(k)
  \/ RequestSent
  \/ WriteFails

\* The parts of a gRPC frame follow each other, the last frame possibly cut.
WellFramed(b) ==
  /\ b # <<>> => b[1].part = 1
  /\ \A i \in 1 .. Len(b) : b[i].part = 1 =>
       \A d \in 0 .. b[i].size - 1 :
         i + d <= Len(b) => b[i + d] = [b[i] EXCEPT !.part = d + 1]
  /\ \A i \in 1 .. Len(b) - 1 : b[i].part = b[i].size => b[i + 1].part = 1

\* The server may cut a frame short, send several or none, and go on after
\* END_STREAM.
KeepsFraming(f) == WellFramed(body[f.stream] \o f.body)

Reads == \E f \in ServerFrames : KeepsFraming(f) /\ HandleNextFrame(f)

GetResponse ==
  \/ Len(rcvd) < MaxFrames /\ Reads
  \/ ReadFails
  \/ Return
  \/ BadResponse
  \/ BadMessage

\* The client and any server that cuts its messages into frames properly
Next == Request \/ GetResponse

Spec == Init /\ [][Next]_vars

-----------------------------------------------------------------------------
(* Properties *)

DataSent(k, i) == {j \in 1 .. i : sent[j].kind = "data" /\ sent[j].stream = k}

\* DATA frame i is the next piece of its request, or is empty and ends it again.
FramedWell(i) ==
  LET k == sent[i].stream
      earlier == {j \in DataSent(k, i - 1) : sent[j].part > 0}
  IN  /\ \E j \in 1 .. i - 1 : sent[j].kind = "headers" /\ sent[j].stream = k
      /\ \A j \in earlier : sent[j].part < sent[i].part \/ sent[i].part = 0
      /\ \A p \in 1 .. sent[i].part - 1 : \E j \in earlier : sent[j].part = p
      /\ sent[i].end <=> sent[i].part \in {0, size[k]}
      /\ sent[i].part = 0 => \E j \in earlier : sent[j].end

\* The request on the wire: whatever other streams the prioritizer finds open,
\* the DATA frames of a call carry its pieces one by one, in order, each once,
\* after its HEADERS, and the last piece alone ends the stream; a frame that
\* ends it again is empty.
RequestFraming ==
  \A i \in 1 .. Len(sent) : sent[i].kind = "data" => FramedWell(i)

\* A stream that has been ended, and that a frame of the server has opened
\* again, is ended again at most once for each later call, so that the loop
\* over the open streams ends: between two frames on it there are the HEADERS
\* of a new call.
EndsAgainOncePerCall ==
  \A j \in 1 .. Len(sent) : sent[j].kind = "data" /\ sent[j].part = 0 =>
    \A i \in DataSent(sent[j].stream, j - 1) :
      \E h \in i + 1 .. j - 1 : sent[h].kind = "headers"

\* A client that waits for a response has sent its whole request.
SentBeforeWaiting ==
  at = "response" =>
    \A p \in 1 .. size[calls] : \E j \in DataSent(calls, Len(sent)) : sent[j].part = p

Ends(f) == f.end \/ f.kind = "rst"

\* The frames read on the stream of call k, up to the first that ended it
OwnFrames(k) ==
  {i \in 1 .. Len(rcvd) : rcvd[i].stream = k
     /\ \A j \in 1 .. i - 1 : rcvd[j].stream = k => ~ Ends(rcvd[j])}

\* The pieces they carried, by frame and place in it, in the order they came
Arrived(k) ==
  UNION {{i} \X (1 .. Len(rcvd[i].body)) :
           i \in {j \in OwnFrames(k) : rcvd[j].kind = "data"}}

PieceAt(p) == rcvd[p[1]].body[p[2]]

Precedes(p, q) == p[1] < q[1] \/ (p[1] = q[1] /\ p[2] < q[2])

\* answer is one message, and all that arrived for call k, in that order.
IsAllOf(answer, k) ==
  /\ \A n \in 1 .. Len(answer) :
       answer[n] = [answer[1] EXCEPT !.part = n, !.size = Len(answer)]
  /\ {PieceAt(p) : p \in Arrived(k)} = {answer[n] : n \in 1 .. Len(answer)}
  /\ \A p, q \in Arrived(k) : Precedes(p, q) => PieceAt(p).part < PieceAt(q).part

\* What a call returns is all that came on its own stream up to the first
\* frame that ended it, and is one message after HEADERS.  Frames of earlier
\* calls, which a server may still send at any time, add nothing to it.
AnswerIsStreamBody ==
  \A k \in Calls : result[k] # NoAnswer =>
    /\ \E i \in OwnFrames(k) : Ends(rcvd[i])
    /\ \E i \in OwnFrames(k) : rcvd[i].kind = "headers"
    /\ IsAllOf(result[k], k)

=============================================================================
