------------------------------ MODULE GrpcUnary ------------------------------
(***************************************************************************)
(* A GrpcClient connected to a GrpcServerConnection: the pair of programs  *)
(* README.md shows.  The frames each side writes are kept in order, and    *)
(* the TCP buffers hold a bounded number of them: a write waits for room.  *)
(* The connection may break at any time.                                   *)
(*                                                                         *)
(* Call k uses stream k.  Its request is one message, whose size in pieces *)
(* is that of the body the server's model has for the stream; every DATA   *)
(* frame of the client carries one piece.                                  *)
(***************************************************************************)
EXTENDS Integers, SequencesExt

CONSTANTS
  MaxCalls,     \* bound: calls made
  MaxSize,      \* bound: pieces of a request
  SizesOf,      \* of each call, the pieces its request may have
  PathsOf,      \* of each call, the methods it may name
  Methods,      \* names of the methods of the server, in order
  ToServer,     \* frames that the buffers to the server hold
  ToClient      \* frames that the buffers to the client hold

Calls == 1 .. MaxCalls

Sizes == UNION {SizesOf[k] : k \in Calls}
Paths == (UNION {PathsOf[k] : k \in Calls}) \cup Range(Methods)

ASSUME BoundsAssumption == MaxCalls \in Nat /\ MaxSize \in Nat \ {0}

ASSUME CallsAssumption ==
  \A k \in Calls : SizesOf[k] # {} /\ SizesOf[k] \subseteq 1 .. MaxSize

ASSUME BuffersAssumption == ToServer \in Nat \ {0} /\ ToClient \in Nat \ {0}

ASSUME NamesAssumption == Methods \in Seq(STRING) /\ "" \notin Paths

VARIABLES
  at, calls, c_state, size, cursor, headers, c_body, result, rcvd, sent,
                \* the client: see GrpcClient
  live, path, req_buf, resp_buf, state, pc, cur, responses, sending, out,
  handled, peer, body, pos, frames,
                \* the server: see GrpcServerConnection
  link          \* "up", or "down" once the connection is broken

clientVars == <<at, calls, c_state, size, cursor, headers, c_body, result, rcvd, sent>>
serverVars == <<live, path, req_buf, resp_buf, state, pc, cur, responses, sending,
                out, handled, peer, body, pos, frames>>
vars == <<clientVars, serverVars, link>>

\* A message of one stream, in n pieces
Request(n) == [i \in 1 .. n |-> [no |-> 1, part |-> i, size |-> n, flag |-> 0]]

\* The client never sends more frames than this: SETTINGS, and for each call
\* HEADERS, the pieces, and an empty DATA frame on each earlier stream.
MaxFrames == 1 + MaxCalls * (1 + MaxSize + MaxCalls)

Server == INSTANCE GrpcServerConnection WITH
  StreamIds <- Calls, NoStream <- 0, Bodies <- {Request(n) : n \in Sizes}

Client == INSTANCE GrpcClient WITH
  state <- c_state, body <- c_body, ServerFrames <- {},
  Messages <- Server!Response, MaxFrames <- 0

Init ==
  /\ Client!Init
  /\ Server!Init
  /\ \A k \in Calls : Len(body[k]) \in SizesOf[k]
  /\ link = "up"

-----------------------------------------------------------------------------
(* The client's thread *)

\* A write of the client, when the buffers have room.  Frames are counted by
\* what the server has read of them.
ClientWrites ==
  /\ Len(sent) - frames < ToServer
  /\ \/ \E p \in Paths : Client!StartRequest(p) /\ p \in PathsOf[calls]
     \/ \E k \in Calls : Client!SendNextData(k)

\* The next frame of the server, as the client reads it: END_STREAM is set on
\* trailers, and a response is a frame of one piece.
Incoming ==
  LET f == out[Len(rcvd) + 1]
  IN  [stream |-> f.stream,
       kind |-> IF f.kind = "data" THEN "data" ELSE "headers",
       end |-> f.kind = "trailers",
       body |-> [i \in 1 .. Len(f.body) |->
                   [msg |-> f.body[i], part |-> 1, size |-> 1]]]

ClientReads ==
  /\ Len(rcvd) < Len(out)
  /\ Client!HandleNextFrame(Incoming)

Gone == link = "down" \/ pc \in {"returned", "panicked"}

\* What the client's thread does without the user.
ClientStep ==
  /\ \/ Client!New
     \/ ClientWrites
     \/ Client!RequestSent
     \/ ClientReads
     \/ Client!Return \/ Client!BadResponse \/ Client!BadMessage
     \/ Gone /\ (Client!WriteFails \/ Client!ReadFails)
  /\ UNCHANGED <<serverVars, link>>

\* The user calls.
MakeCall ==
  /\ calls < MaxCalls
  /\ Client!Call(Len(body[calls + 1]))
  /\ UNCHANGED <<serverVars, link>>

-----------------------------------------------------------------------------
(* The thread of the server connection *)

\* handle_next_frame takes the next frame of the client.
ServerReads ==
  /\ frames < Len(sent)
  /\ LET f == sent[frames + 1]
     IN  CASE f.kind = "settings" -> Server!RecvOther
           [] f.kind = "headers"  -> Server!RecvNewStream(f.stream, f.path, FALSE)
           [] f.kind = "data"     ->
                Server!RecvData(f.stream, IF f.part > 0 THEN 1 ELSE 0, f.end)

ServerWrites ==
  /\ Len(out) - Len(rcvd) < ToClient
  /\ (\E r \in responses : Server!SendHeaders(r)) \/ Server!SendData \/ Server!SendTrailers

ClientGone == link = "down" \/ at = "panicked"

ServerStep ==
  /\ \/ at # "new" /\ Server!New
     \/ ServerReads
     \/ Server!ProcessBuf
     \/ Server!CollectResponses
     \/ ServerWrites
     \/ Server!ReapStreams
     \/ ClientGone /\ (Server!RecvError \/ Server!SendError)
  /\ UNCHANGED <<clientVars, link>>

\* The connection breaks.
LinkDown ==
  /\ link = "up"
  /\ link' = "down"
  /\ UNCHANGED <<clientVars, serverVars>>

Next == ClientStep \/ MakeCall \/ ServerStep \/ LinkDown

Spec == Init /\ [][Next]_vars

\* Both threads are scheduled and so go on reading; handlers end, and a thread
\* that reads or writes on a broken connection is told.  Nobody has to call, and
\* the link may hold.
FairSpec == Spec /\ WF_vars(ClientStep) /\ WF_vars(ServerStep)

-----------------------------------------------------------------------------
(* Properties *)

Rpc == INSTANCE UnaryRpc WITH
  MethodOf <- Server!FindMethod,
  Nobody <- 0,
  asked <- [k \in Calls |->
              {sent[i].path : i \in {j \in 1 .. Len(sent) :
                 sent[j].kind = "headers" /\ sent[j].stream = k}}],
  executed <- [k \in Calls |-> Len(handled[k])],
  answer <- [k \in Calls |-> IF result[k] = <<>> THEN 0 ELSE result[k][1].msg.method],
  failed <- at = "panicked"

\* For all the responses the server sends again, a call is executed at most
\* once, and what it returns is the answer of the method it named.
ImplementsRpc == Rpc!Spec

\* A call that returns has read the whole response block of its stream, the
\* trailers with the status last, though the client looks at no status.
ReturnsAfterTrailers ==
  \A k \in Calls : result[k] # <<>> =>
    \E i \in 1 .. Len(rcvd) :
      /\ out[i].stream = k /\ out[i].kind = "trailers"
      /\ \E j \in 1 .. i - 1 : out[j].stream = k /\ out[j].kind = "data"

\* Every frame the client has written is one the server can take when its turn
\* comes: HEADERS open a stream that is not open, DATA carry the very piece that
\* is missing of a request not ended yet, or nothing and end it once more; and
\* the bound on frames is no restriction.
FramesFit ==
  frames < Len(sent) =>
    LET f == sent[frames + 1]
    IN  /\ frames < MaxFrames
        /\ f.kind = "headers" => peer[f.stream] = "idle"
        /\ f.kind = "data" => f.stream \in live
        /\ f.kind = "data" /\ f.part > 0 =>
             peer[f.stream] = "open" /\ f.part = pos[f.stream] + 1
               /\ (f.end <=> f.part = Len(body[f.stream]))
        /\ f.kind = "data" /\ f.part = 0 => peer[f.stream] = "ended" /\ f.end

\* A thread waits in a read for which nothing has been written, or in a write
\* for which there is no room.
ClientWaitsToRead  == Client!Waiting /\ Len(rcvd) = Len(out)
ClientWaitsToWrite ==
  /\ at = "start" \/ (at = "send" /\ Client!Sendable # {})
  /\ Len(sent) - frames >= ToServer

ServerWaitsToRead  == pc = "read" /\ frames = Len(sent)
ServerWaitsToWrite ==
  /\ pc \in {"send_data", "send_trailers"} \/ (pc = "prepare_responses" /\ responses # {})
  /\ Len(out) - Len(rcvd) >= ToClient

\* The two programs wait for each other only where both are writing, each to a
\* full buffer that the other does not empty (see run unary_blocked).  A client
\* that waits for its answer has a server that is still at work on it, or whose
\* last frames it has still to read.
OnlyWritersDeadlock ==
  (ClientWaitsToRead \/ ClientWaitsToWrite) /\ (ServerWaitsToRead \/ ServerWaitsToWrite)
    => ClientWaitsToWrite /\ ServerWaitsToWrite

\* What is left to be done in all, at most: calls to make, frames to write and to
\* read, and for each frame of the client what it makes the server do.
ClientRank ==
  CASE at = "start"    -> 4
    [] at = "send"     -> 3
    [] at = "response" -> 2
    [] at = "panicked" -> 0
    [] OTHER           -> 1

ServerWork == (MaxFrames - frames) * (3 * MaxCalls + MaxSize + 4) + Server!ThreadWork

Work ==
  2 * ServerWork + (Len(out) - Len(rcvd)) + (MaxFrames - Len(sent))
    + 4 * (MaxCalls - calls) + ClientRank + (IF link = "up" THEN 1 ELSE 0)

\* However often responses are sent again and streams ended again, every step
\* of either program leaves less to be done: none of them is ever busy for ever.
WorkDecreases == [][Work' < Work /\ Work' \in Nat]_vars

\* Every call returns or panics, whether or not the link breaks or the server's
\* thread stops, as long as handlers end and a broken link is noticed.
EveryCallEnds ==
  \A k \in Calls : calls = k ~> at = "panicked" \/ result[k] # <<>>

=============================================================================
