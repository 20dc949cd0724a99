--------------------- MODULE GrpcServerConnectionProofs ---------------------
(***************************************************************************)
(* Theorems of GrpcServerConnection, for every set of streams, bodies,     *)
(* paths and methods, and every bound on the number of frames.  First the  *)
(* types, the dispatch of messages and the dropping of streams; then what  *)
(* the server writes: answers go to their own stream, nothing is left      *)
(* unanswered at the read, and the frames of a response stay together;     *)
(* hence that the connection implements MessageExchange.                   *)
(***************************************************************************)
EXTENDS GrpcServerConnection, SequenceTheorems, FiniteSetTheorems, WellFoundedInduction, TLAPS

-----------------------------------------------------------------------------
(* The parts of the inductive invariant about dispatch *)

\* The first d pieces of body b were dispatched, whole messages that are those
\* of calls; the next ones are in buf.
Buffered(b, d, buf, calls) ==
  /\ d \in Nat
  /\ \A j \in 1 .. Len(buf) : buf[j] = b[d + j]
  /\ d = 0 => calls = <<>>
  /\ d > 0 => b[d].part = b[d].size /\ b[d].no = Len(calls)
  /\ \A i \in 1 .. d : b[i].no <= Len(calls)
  /\ \A j \in 1 .. Len(calls) :
       calls[j].no = j /\ \E i \in 1 .. d : b[i].part = b[i].size /\ b[i].no = j

BufferInv ==
  \A s \in StreamIds :
    Buffered(body[s], pos[s] - Len(req_buf[s]), req_buf[s], handled[s])

\* A stream that the peer has not opened is untouched.
IdleInv ==
  \A s \in StreamIds : peer[s] = "idle" =>
    /\ s \notin live
    /\ pos[s] = 0
    /\ req_buf[s] = <<>> /\ resp_buf[s] = <<>> /\ handled[s] = <<>>

\* Only the buffer that process_buf is working on may hold a whole frame.
DrainedInv ==
  pc \notin Stopped =>
    \A s \in StreamIds :
      (pc = "process" /\ s = cur.stream) \/ ParseFrame(req_buf[s]) = 0

\* Only RST_STREAM closes a stream.
StateInv ==
  \A s \in StreamIds :
    /\ state[s] # "HalfClosedLocal"
    /\ state[s] = "Closed" => peer[s] = "reset"

-----------------------------------------------------------------------------
(* Lemmas about the operators of the model *)

\* find_method answers with the first method of the name it looks for.
LEMMA FindMethodFirst ==
  ASSUME NEW name, MethodsNamed(name) # {}
  PROVE  /\ FindMethod(name) \in MethodsNamed(name)
         /\ FindMethod(name) \in Nat \ {0}
         /\ \A m \in MethodsNamed(name) : FindMethod(name) <= m
<1> DEFINE T == MethodsNamed(name)
           R == OpToRel(<, Nat)
<1>1. Len(Methods) \in Nat /\ T \subseteq Nat /\ \A i \in T : i # 0
  BY MethodsAssumption, LenProperties DEF MethodsNamed
<1>2. \A x, y \in Nat : <<x, y>> \in R <=> x < y
  BY DEF OpToRel
<1>3. IsWellFoundedOn(R, Nat)
  BY NatLessThanWellFounded
<1>4. T \subseteq Nat /\ T # {}
  BY <1>1
<1> HIDE DEF T, R
<1>5. PICK x \in T : \A y \in T : <<y, x>> \notin R
  BY <1>3, <1>4, WFMin
<1>6. \A y \in T : x <= y
  <2> SUFFICES ASSUME NEW y \in T PROVE x <= y
    OBVIOUS
  <2>1. x \in Nat /\ y \in Nat
    BY <1>4
  <2>2. <<y, x>> \notin R
    BY <1>5
  <2>3. ~ (y < x)
    BY <1>2, <2>1, <2>2
  <2> QED
    BY <2>1, <2>3
<1>7. \E i \in T : \A j \in T : i <= j
  BY <1>6
<1>8. FindMethod(name) = CHOOSE i \in T : \A j \in T : i <= j
  BY DEF FindMethod, T
<1>9. FindMethod(name) \in T /\ \A m \in T : FindMethod(name) <= m
  BY <1>7, <1>8
<1> QED
  BY <1>1, <1>9 DEF T

\* A frame that parse_frame finds is not empty and lies within the buffer.
LEMMA ParseFrameWithin ==
  ASSUME NEW buf \in Seq(Piece)
  PROVE  /\ ParseFrame(buf) \in 0 .. Len(buf)
         /\ ParseFrame(buf) > 0 => buf # <<>> /\ ParseFrame(buf) = buf[1].size
         /\ Drain(buf, ParseFrame(buf)) \in Seq(Piece)
         /\ Len(Drain(buf, ParseFrame(buf))) = Len(buf) - ParseFrame(buf)
         /\ \A j \in 1 .. Len(buf) - ParseFrame(buf) :
              Drain(buf, ParseFrame(buf))[j] = buf[ParseFrame(buf) + j]
<1>1. Len(buf) \in Nat /\ (buf # <<>> => buf[1] \in Piece)
  BY EmptySeq, LenProperties, ElementOfSeq
<1>2. ParseFrame(buf) \in 0 .. Len(buf)
  BY <1>1 DEF ParseFrame, Piece
<1>3. ParseFrame(buf) > 0 => buf # <<>> /\ ParseFrame(buf) = buf[1].size
  BY DEF ParseFrame
<1> DEFINE n == ParseFrame(buf)
<1> HIDE DEF n
<1>4. n \in Nat /\ n <= Len(buf)
  BY <1>1, <1>2 DEF n
<1>5. \A i \in n + 1 .. Len(buf) : buf[i] \in Piece
  BY <1>1, <1>4, ElementOfSeq
<1>6. /\ SubSeq(buf, n + 1, Len(buf)) \in Seq(Piece)
      /\ Len(SubSeq(buf, n + 1, Len(buf))) = Len(buf) - n
      /\ \A j \in 1 .. Len(buf) - n : SubSeq(buf, n + 1, Len(buf))[j] = buf[n + j]
  BY <1>1, <1>4, <1>5, SubSeqProperties
<1> QED
  BY <1>2, <1>3, <1>6 DEF Drain, n

\* The part of a body that a DATA frame carries.
LEMMA DataWithin ==
  ASSUME NEW b \in Bodies, NEW k \in Nat, NEW n \in Nat, n <= Len(b) - k
  PROVE  /\ Len(b) \in Nat
         /\ SubSeq(b, k + 1, k + n) \in Seq(Piece)
         /\ Len(SubSeq(b, k + 1, k + n)) = n
         /\ \A j \in 1 .. n : SubSeq(b, k + 1, k + n)[j] = b[k + j]
<1>1. b \in Seq(Piece) /\ Len(b) \in Nat
  BY BodiesAssumption, LenProperties
<1>2. \A i \in k + 1 .. k + n : b[i] \in Piece
  BY <1>1, ElementOfSeq
<1> QED
  BY <1>1, <1>2, SubSeqProperties

-----------------------------------------------------------------------------
(* Type correctness *)

LEMMA TypeInit == Init => TypeOK
<1> SUFFICES ASSUME Init PROVE TypeOK
  OBVIOUS
<1>1. \A b \in Bodies : Len(b) \in Nat
  BY BodiesAssumption, LenProperties
<1>2. <<>> \in Seq(Piece) /\ <<>> \in Seq(Response) /\ <<>> \in Seq(Call)
        /\ <<>> \in Seq(OutFrame)
  BY EmptySeq
<1> QED
  BY <1>1, <1>2, MaxFramesAssumption DEF Init, TypeOK, StreamState, Running, Stopped, Reply

LEMMA TypeStep == TypeOK /\ [Next]_vars => TypeOK'
<1> SUFFICES ASSUME TypeOK, [Next]_vars PROVE TypeOK'
  OBVIOUS
<1> USE DEF TypeOK, Running, Stopped, StreamState, Goto
<1>0. Receive => frames' \in 0 .. MaxFrames
  BY MaxFramesAssumption DEF Receive
<1>1. CASE UNCHANGED vars
  BY <1>1 DEF vars, streamVars, sendVars, peerVars
<1>2. CASE New
  BY <1>2 DEF New, streamVars, sendVars, peerVars
<1>3. ASSUME NEW s \in StreamIds, NEW p \in Paths, NEW end \in BOOLEAN,
             RecvNewStream(s, p, end)
      PROVE  TypeOK'
  <2>1. <<>> \in Seq(Piece) /\ <<>> \in Seq(Response)
    BY EmptySeq
  <2>2. CloseRemote("Open") \in StreamState
    BY DEF CloseRemote
  <2> QED
    BY <1>0, <1>3, <2>1, <2>2 DEF RecvNewStream, sendVars
<1>4. ASSUME NEW s \in StreamIds, RecvTrailers(s) PROVE TypeOK'
  BY <1>0, <1>4 DEF RecvTrailers, CloseRemote, sendVars
<1>5. ASSUME NEW s \in StreamIds, RecvBadPath(s) PROVE TypeOK'
  BY <1>0, <1>5 DEF RecvBadPath, streamVars, sendVars
<1>6. ASSUME NEW s \in StreamIds, NEW end \in BOOLEAN, NEW n \in 0 .. Len(body[s]),
             RecvData(s, n, end)
      PROVE  TypeOK'
  <2> DEFINE chunk == SubSeq(body[s], pos[s] + 1, pos[s] + n)
  <2>1. Len(body[s]) \in Nat /\ chunk \in Seq(Piece)
    BY <1>6, DataWithin, BodiesAssumption, LenProperties DEF RecvData
  <2> HIDE DEF chunk
  <2>2. req_buf[s] \o chunk \in Seq(Piece)
    BY <2>1, ConcatProperties
  <2>3. req_buf' = [req_buf EXCEPT ![s] = req_buf[s] \o chunk]
    BY <1>6 DEF RecvData, chunk
  <2>4. pos' \in [StreamIds -> Nat] /\ \A t \in StreamIds : pos'[t] <= Len(body'[t])
    <3>1. /\ pos' = [pos EXCEPT ![s] = pos[s] + n]
          /\ n <= Len(body[s]) - pos[s] /\ body' = body
      BY <1>6, Zenon DEF RecvData
    <3> QED
      BY <2>1, <3>1
  <2>5. peer' \in [StreamIds -> {"idle", "open", "ended", "reset"}]
    BY <1>6, Zenon DEF RecvData
  <2>6. cur' \in [stream : live', end : BOOLEAN]
    BY <1>6 DEF RecvData
  <2>7. req_buf' \in [StreamIds -> Seq(Piece)]
    BY <2>2, <2>3
  <2> QED
    BY <1>0, <1>6, <2>4, <2>5, <2>6, <2>7 DEF RecvData, sendVars
<1>7. ASSUME NEW s \in StreamIds, RecvRstStream(s) PROVE TypeOK'
  BY <1>0, <1>7 DEF RecvRstStream, sendVars
<1>8. CASE RecvOther
  BY <1>0, <1>8 DEF RecvOther, streamVars, sendVars
<1>9. CASE RecvError
  BY <1>9 DEF RecvError, streamVars, sendVars, peerVars
<1>10. CASE ProcessFrame
  <2> DEFINE s == cur.stream
             n == ParseFrame(req_buf[s])
             no == req_buf[s][1].no
             call == [path |-> path[s], no |-> no]
             answer == [method |-> FindMethod(path[s]), no |-> no]
  <2>1. s \in StreamIds /\ req_buf[s] \in Seq(Piece)
    BY <1>10 DEF ProcessFrame
  <2>2. n > 0 /\ MethodsNamed(path[s]) # {}
    BY <1>10 DEF ProcessFrame
  <2>3. req_buf[s] # <<>> /\ Drain(req_buf[s], n) \in Seq(Piece)
    BY <2>1, <2>2, ParseFrameWithin
  <2>4. no \in Nat \ {0}
    <3>1. Len(req_buf[s]) \in Nat \ {0}
      BY <2>1, <2>3, EmptySeq
    <3>2. req_buf[s][1] \in Piece
      BY <2>1, <3>1, ElementOfSeq
    <3> QED
      BY <3>2 DEF Piece
  <2>5. call \in Call
    BY <2>1, <2>2, <2>4, MethodsAssumption, ElementOfSeq DEF Call, MethodsNamed
  <2>6. answer \in Response
    BY <2>2, <2>4, FindMethodFirst DEF Response
  <2>7. Append(handled[s], call) \in Seq(Call) /\ Append(resp_buf[s], answer) \in Seq(Response)
    BY <2>1, <2>5, <2>6, AppendProperties
  <2>8. /\ handled' = [handled EXCEPT ![s] = Append(handled[s], call)]
        /\ req_buf' = [req_buf EXCEPT ![s] = Drain(req_buf[s], n)]
        /\ resp_buf' = [resp_buf EXCEPT ![s] = Append(resp_buf[s], answer)]
        /\ UNCHANGED <<live, path, state, pc, cur, sendVars, peerVars>>
    BY <1>10 DEF ProcessFrame
  <2> HIDE DEF s, n, call, answer
  <2> QED
    BY <2>1, <2>3, <2>7, <2>8 DEF sendVars, peerVars
<1>11. CASE ProcessPanic
  BY <1>11 DEF ProcessPanic, streamVars, sendVars, peerVars
<1>12. CASE ProcessReturn
  BY <1>12 DEF ProcessReturn, CloseRemote, sendVars, peerVars
<1>13. CASE CollectResponses
  <2>1. HandleRequests \subseteq Reply
    BY DEF HandleRequests, Reply
  <2> QED
    BY <1>13, <2>1 DEF CollectResponses, streamVars, peerVars
<1>14. ASSUME NEW r \in responses, SendHeaders(r) PROVE TypeOK'
  <2>1. [stream |-> r.stream, kind |-> "headers", body |-> <<>>] \in OutFrame
    BY EmptySeq DEF OutFrame, Reply
  <2>2. out' \in Seq(OutFrame)
    BY <1>14, <2>1, AppendProperties DEF SendHeaders, SendFrame
  <2> QED
    BY <1>14, <2>2 DEF SendHeaders, streamVars, peerVars
<1>15. CASE SendData
  <2>1. sending \in Reply
    BY <1>15 DEF SendData
  <2>2. [stream |-> sending.stream, kind |-> "data", body |-> sending.buf] \in OutFrame
    BY <2>1 DEF OutFrame, Reply
  <2>3. out' \in Seq(OutFrame)
    BY <1>15, <2>2, AppendProperties DEF SendData, SendFrame
  <2> QED
    BY <1>15, <2>3 DEF SendData, streamVars, peerVars
<1>16. CASE SendTrailers
  <2>1. sending \in Reply
    BY <1>16 DEF SendTrailers
  <2>2. [stream |-> sending.stream, kind |-> "trailers", body |-> <<>>] \in OutFrame
    BY <2>1, EmptySeq DEF OutFrame, Reply
  <2>3. out' \in Seq(OutFrame)
    BY <1>16, <2>2, AppendProperties DEF SendTrailers, SendFrame
  <2> QED
    BY <1>16, <2>3 DEF SendTrailers, streamVars, peerVars
<1>17. CASE SendError
  BY <1>17 DEF SendError, streamVars, sendVars, peerVars
<1>18. CASE ReapStreams
  BY <1>18 DEF ReapStreams, sendVars, peerVars
<1> HIDE DEF TypeOK
<1> QED
  BY <1>1, <1>2, <1>3, <1>4, <1>5, <1>6, <1>7, <1>8, <1>9, <1>10, <1>11, <1>12,
     <1>13, <1>14, <1>15, <1>16, <1>17, <1>18
  DEF Next, RecvFrame, ThreadStep, ProcessBuf, PrepareResponses

\* Every reachable state is well typed; in particular the stream that
\* process_buf works on is one the session still holds.
THEOREM TypeCorrect == Spec => []TypeOK
<1> QED
  BY TypeInit, TypeStep, PTL DEF Spec

-----------------------------------------------------------------------------
(* The request buffer, on constants *)

\* new_data_chunk appends what the DATA frame carries.
LEMMA BufferedData ==
  ASSUME NEW b \in Bodies, NEW d \in Nat, NEW buf \in Seq(Piece),
         NEW calls \in Seq(Call), Buffered(b, d, buf, calls),
         NEW p \in Nat, p = d + Len(buf), NEW n \in Nat, n <= Len(b) - p
  PROVE  Buffered(b, d, buf \o SubSeq(b, p + 1, p + n), calls)
<1> DEFINE chunk == SubSeq(b, p + 1, p + n)
           more == buf \o chunk
<1>1. /\ chunk \in Seq(Piece) /\ Len(chunk) = n
      /\ \A j \in 1 .. n : chunk[j] = b[p + j]
  BY DataWithin
<1> HIDE DEF chunk
<1>2. Len(buf) \in Nat
  BY LenProperties
<1>3. /\ Len(more) = Len(buf) + n
      /\ \A j \in 1 .. Len(buf) + n :
           more[j] = IF j <= Len(buf) THEN buf[j] ELSE chunk[j - Len(buf)]
  BY <1>1, ConcatProperties
<1> HIDE DEF more
<1>4. ASSUME NEW j \in 1 .. Len(more) PROVE more[j] = b[d + j]
  <2>1. CASE j <= Len(buf)
    <3>1. j \in 1 .. Len(buf)
      BY <2>1, <1>2, <1>3
    <3>2. buf[j] = b[d + j]
      BY <3>1 DEF Buffered
    <3> QED
      BY <2>1, <3>2, <1>2, <1>3
  <2>2. CASE j > Len(buf)
    <3>1. j - Len(buf) \in 1 .. n /\ p + (j - Len(buf)) = d + j
      BY <2>2, <1>2, <1>3
    <3>2. more[j] = chunk[j - Len(buf)]
      BY <2>2, <1>2, <1>3
    <3> QED
      BY <3>1, <3>2, <1>1
  <2> QED
    BY <2>1, <2>2, <1>2, <1>3
<1>5. Buffered(b, d, more, calls)
  BY <1>4 DEF Buffered
<1> QED
  BY <1>5 DEF more, chunk

\* What is at the head of a buffer that is not empty starts a message.
LEMMA BufferedHead ==
  ASSUME NEW b \in Bodies, NEW d \in Nat, NEW buf \in Seq(Piece),
         NEW calls \in Seq(Call), Buffered(b, d, buf, calls),
         d + Len(buf) <= Len(b), buf # <<>>
  PROVE  /\ buf[1] \in Piece
         /\ buf[1].no = Len(calls) + 1
         /\ \A k \in 1 .. buf[1].size :
              d + k <= Len(b) => b[d + k] = [buf[1] EXCEPT !.part = k]
<1>1. Len(buf) \in Nat \ {0} /\ Len(calls) \in Nat /\ Len(b) \in Nat /\ b \in Seq(Piece)
  BY EmptySeq, LenProperties, BodiesAssumption
<1>2. buf[1] = b[d + 1]
  BY <1>1 DEF Buffered
<1>3. d + 1 \in 1 .. Len(b) /\ b[d + 1] \in Piece
  BY <1>1, ElementOfSeq
<1>4. WellFormed(b) /\ b # <<>>
  BY <1>1, <1>3, BodiesAssumption, EmptySeq
<1>5. b[d + 1].part = 1 /\ b[d + 1].no = Len(calls) + 1
  <2>1. CASE d = 0
    <3>1. Len(calls) = 0
      BY <2>1, EmptySeq DEF Buffered
    <3>2. b[1].no = 1 /\ b[1].part = 1
      BY <1>4 DEF WellFormed
    <3> QED
      BY <2>1, <3>1, <3>2
  <2>2. CASE d > 0
    <3>1. b[d].part = b[d].size /\ b[d].no = Len(calls)
      BY <2>2 DEF Buffered
    <3>2. d \in 1 .. Len(b) - 1
      BY <2>2, <1>1, <1>3
    <3> QED
      BY <3>1, <3>2, <1>4 DEF WellFormed
  <2> QED
    BY <2>1, <2>2
<1>6. b[d + 1].size \in Nat \ {0}
  BY <1>3 DEF Piece
<1>7. \A k \in 0 .. b[d + 1].size - 1 :
        d + 1 + k <= Len(b) => b[d + 1 + k] = [b[d + 1] EXCEPT !.part = k + 1]
  BY <1>3, <1>4, <1>5 DEF WellFormed
<1>8. ASSUME NEW k \in 1 .. b[d + 1].size, d + k <= Len(b)
      PROVE  b[d + k] = [b[d + 1] EXCEPT !.part = k]
  <2>1. k - 1 \in 0 .. b[d + 1].size - 1 /\ d + 1 + (k - 1) = d + k /\ (k - 1) + 1 = k
    BY <1>6
  <2> QED
    BY <2>1, <1>7, <1>8
<1> QED
  BY <1>2, <1>3, <1>5, <1>8

\* process_buf drains a message when it has handed it to handle_method.
LEMMA BufferedFrame ==
  ASSUME NEW b \in Bodies, NEW d \in Nat, NEW buf \in Seq(Piece),
         NEW calls \in Seq(Call), Buffered(b, d, buf, calls),
         d + Len(buf) <= Len(b), ParseFrame(buf) > 0,
         NEW call \in Call, call.no = buf[1].no
  PROVE  Buffered(b, d + ParseFrame(buf), Drain(buf, ParseFrame(buf)),
                  Append(calls, call))
<1> DEFINE n == ParseFrame(buf)
           rest == Drain(buf, n)
           all == Append(calls, call)
<1>1. /\ n \in 0 .. Len(buf) /\ n > 0 /\ n = buf[1].size /\ buf # <<>>
      /\ Len(rest) = Len(buf) - n
      /\ \A j \in 1 .. Len(buf) - n : rest[j] = buf[n + j]
  BY ParseFrameWithin
<1>2. Len(buf) \in Nat /\ Len(calls) \in Nat /\ Len(b) \in Nat
  BY BodiesAssumption, LenProperties
<1>3. /\ Len(all) = Len(calls) + 1
      /\ \A j \in 1 .. Len(calls) : all[j] = calls[j]
      /\ all[Len(calls) + 1] = call
  BY AppendProperties
<1>4. /\ buf[1] \in Piece
      /\ buf[1].no = Len(calls) + 1
      /\ \A k \in 1 .. n : d + k <= Len(b) => b[d + k] = [buf[1] EXCEPT !.part = k]
  BY <1>1, BufferedHead
<1> HIDE DEF n, rest, all
<1>5. ASSUME NEW j \in 1 .. Len(rest) PROVE rest[j] = b[(d + n) + j]
  <2>1. \A i \in 1 .. Len(buf) : buf[i] = b[d + i]
    BY DEF Buffered
  <2>2. n \in Nat /\ j \in 1 .. Len(buf) - n
    BY <1>1, <1>2, <1>5
  <2>3. n + j \in 1 .. Len(buf) /\ (d + n) + j = d + (n + j)
    BY <2>2, <1>2
  <2> QED
    BY <2>1, <2>2, <2>3, <1>1
<1>6. ASSUME NEW k \in 1 .. n
      PROVE  b[d + k].no = Len(calls) + 1 /\ b[d + k].part = k /\ b[d + k].size = n
  <2>1. b[d + k] = [buf[1] EXCEPT !.part = k]
    BY <1>1, <1>2, <1>4
  <2> QED
    BY <2>1, <1>1, <1>4 DEF Piece
<1>7. ASSUME NEW i \in 1 .. d + n PROVE b[i].no <= Len(all)
  <2>1. CASE i <= d
    <3>1. b[i].no <= Len(calls)
      BY <2>1, <1>1, <1>2 DEF Buffered
    <3>2. b[i] \in Piece
      <4>1. b \in Seq(Piece) /\ i \in 1 .. Len(b)
        BY <2>1, <1>1, <1>2, BodiesAssumption
      <4> QED
        BY <4>1, ElementOfSeq
    <3> QED
      BY <3>1, <3>2, <1>2, <1>3 DEF Piece
  <2>2. CASE i > d
    <3>1. i - d \in 1 .. n /\ d + (i - d) = i
      BY <2>2, <1>1, <1>2
    <3>2. b[i].no = Len(calls) + 1
      BY <3>1, <1>6
    <3> QED
      BY <3>2, <1>2, <1>3
  <2> QED
    BY <2>1, <2>2, <1>1, <1>2
<1>8. b[d + n].part = b[d + n].size /\ b[d + n].no = Len(all)
  <2>1. n \in 1 .. n
    BY <1>1, <1>2
  <2> QED
    BY <2>1, <1>3, <1>6
<1>9. ASSUME NEW j \in 1 .. Len(all)
      PROVE  all[j].no = j /\ \E i \in 1 .. d + n : b[i].part = b[i].size /\ b[i].no = j
  <2>1. CASE j \in 1 .. Len(calls)
    <3>1. PICK i \in 1 .. d : b[i].part = b[i].size /\ b[i].no = j
      BY <2>1 DEF Buffered
    <3>2. i \in 1 .. d + n
      BY <1>1, <1>2
    <3> QED
      BY <2>1, <3>1, <3>2, <1>3 DEF Buffered
  <2>2. CASE j = Len(calls) + 1
    <3>1. d + n \in 1 .. d + n
      BY <1>1, <1>2
    <3> QED
      BY <2>2, <3>1, <1>3, <1>4, <1>8
  <2> QED
    BY <2>1, <2>2, <1>2, <1>3
<1>10. d + n \in Nat /\ d + n > 0
  BY <1>1, <1>2
<1>11. Buffered(b, d + n, rest, all)
  BY <1>5, <1>7, <1>8, <1>9, <1>10 DEF Buffered
<1> QED
  BY <1>11 DEF rest, all, n

\* When parse_frame finds nothing, every message that is complete was dispatched.
LEMMA BufferedDrained ==
  ASSUME NEW b \in Bodies, NEW d \in Nat, NEW buf \in Seq(Piece),
         NEW calls \in Seq(Call), Buffered(b, d, buf, calls),
         d + Len(buf) <= Len(b), ParseFrame(buf) = 0,
         NEW k \in 1 .. d + Len(buf), b[k].part = b[k].size
  PROVE  b[k].no <= Len(calls)
<1>1. Len(buf) \in Nat
  BY LenProperties
<1>2. CASE k <= d
  BY <1>1, <1>2 DEF Buffered
<1>3. CASE k > d
  <2> DEFINE i == k - d
  <2>1. i \in 1 .. Len(buf) /\ d + i = k
    BY <1>1, <1>3
  <2>2. buf # <<>> /\ k <= Len(b)
    <3>1. Len(buf) # 0
      BY <2>1, <1>1
    <3>2. Len(b) \in Nat
      BY BodiesAssumption, LenProperties
    <3> QED
      BY <3>1, <3>2, <1>1, EmptySeq
  <2> HIDE DEF i
  <2>3. /\ buf[1] \in Piece
        /\ \A j \in 1 .. buf[1].size :
             d + j <= Len(b) => b[d + j] = [buf[1] EXCEPT !.part = j]
    BY <2>2, BufferedHead
  <2>4. buf[1].size \in Nat \ {0}
    BY <2>3 DEF Piece
  <2>5. buf[1].size > Len(buf)
    BY <2>2, <2>4, <1>1 DEF ParseFrame
  <2>6. i \in 1 .. buf[1].size /\ i < buf[1].size
    BY <1>1, <2>1, <2>4, <2>5
  <2>7. b[k] = [buf[1] EXCEPT !.part = i]
    BY <2>1, <2>2, <2>3, <2>6
  <2>8. b[k].part = i /\ b[k].size = buf[1].size
    BY <2>3, <2>7 DEF Piece
  <2>9. i # buf[1].size
    BY <2>4, <2>6
  <2> QED
    BY <2>8, <2>9
<1> QED
  BY <1>1, <1>2, <1>3

-----------------------------------------------------------------------------
(* Dispatch: the buffers of the streams under every step *)

\* The facts about one stream that the lemmas above need.
LEMMA StreamTyped ==
  ASSUME TypeOK, BufferInv, NEW s \in StreamIds
  PROVE  /\ body[s] \in Bodies /\ pos[s] \in Nat /\ pos[s] <= Len(body[s])
         /\ req_buf[s] \in Seq(Piece) /\ handled[s] \in Seq(Call)
         /\ Len(req_buf[s]) \in Nat
         /\ pos[s] - Len(req_buf[s]) \in Nat
         /\ pos[s] = (pos[s] - Len(req_buf[s])) + Len(req_buf[s])
         /\ (pos[s] - Len(req_buf[s])) + Len(req_buf[s]) <= Len(body[s])
         /\ Buffered(body[s], pos[s] - Len(req_buf[s]), req_buf[s], handled[s])
<1>1. Len(req_buf[s]) \in Nat
  BY LenProperties DEF TypeOK
<1>2. Buffered(body[s], pos[s] - Len(req_buf[s]), req_buf[s], handled[s])
  BY DEF BufferInv
<1>3. pos[s] - Len(req_buf[s]) \in Nat
  BY <1>2 DEF Buffered
<1> QED
  BY <1>1, <1>2, <1>3 DEF TypeOK

\* No action but these three touches what BufferInv speaks of.
LEMMA BufferFrameCondition ==
  ASSUME [Next]_vars
  PROVE  \/ \E s \in StreamIds, p \in Paths, end \in BOOLEAN : RecvNewStream(s, p, end)
         \/ \E s \in StreamIds, end \in BOOLEAN :
              \E n \in 0 .. Len(body[s]) : RecvData(s, n, end)
         \/ ProcessFrame
         \/ UNCHANGED <<req_buf, handled, pos, body>>
BY DEF Next, RecvFrame, ThreadStep, ProcessBuf, PrepareResponses, vars, streamVars,
       sendVars, peerVars, New, RecvTrailers, RecvBadPath, RecvRstStream, RecvOther,
       RecvError, ProcessPanic, ProcessReturn, CollectResponses, SendHeaders, SendData,
       SendTrailers, SendError, ReapStreams

LEMMA BufferStep == TypeOK /\ BufferInv /\ IdleInv /\ [Next]_vars => BufferInv'
<1> SUFFICES ASSUME TypeOK, BufferInv, IdleInv, [Next]_vars PROVE BufferInv'
  OBVIOUS
<1>1. ASSUME NEW s \in StreamIds, NEW p \in Paths, NEW end \in BOOLEAN,
             RecvNewStream(s, p, end)
      PROVE  BufferInv'
  <2>1. req_buf[s] = <<>> /\ req_buf' = [req_buf EXCEPT ![s] = <<>>]
    BY <1>1 DEF RecvNewStream, IdleInv
  <2>2. req_buf' = req_buf
    BY <2>1 DEF TypeOK
  <2> QED
    BY <1>1, <2>2 DEF RecvNewStream, BufferInv
<1>2. ASSUME NEW s \in StreamIds, NEW end \in BOOLEAN, NEW n \in 0 .. Len(body[s]),
             RecvData(s, n, end)
      PROVE  BufferInv'
  <2> DEFINE d == pos[s] - Len(req_buf[s])
             chunk == SubSeq(body[s], pos[s] + 1, pos[s] + n)
  <2>1. /\ n \in Nat /\ n <= Len(body[s]) - pos[s]
        /\ req_buf' = [req_buf EXCEPT ![s] = req_buf[s] \o chunk]
        /\ pos' = [pos EXCEPT ![s] = pos[s] + n]
        /\ UNCHANGED <<handled, body>>
    BY <1>2 DEF RecvData
  <2>2. Buffered(body[s], d, req_buf[s] \o chunk, handled[s])
    BY <2>1, StreamTyped, BufferedData
  <2>3. Len(req_buf[s] \o chunk) = Len(req_buf[s]) + n
    <3>1. chunk \in Seq(Piece) /\ Len(chunk) = n /\ req_buf[s] \in Seq(Piece)
      BY <2>1, StreamTyped, DataWithin
    <3> HIDE DEF chunk
    <3> QED
      BY <3>1, ConcatProperties
  <2>4. pos'[s] - Len(req_buf'[s]) = d
    BY <2>1, <2>3, StreamTyped DEF TypeOK
  <2>5. Buffered(body[s], pos'[s] - Len(req_buf'[s]), req_buf'[s], handled[s])
    BY <2>1, <2>2, <2>4 DEF TypeOK
  <2>6. \A t \in StreamIds \ {s} : req_buf'[t] = req_buf[t] /\ pos'[t] = pos[t]
    BY <2>1 DEF TypeOK
  <2> HIDE DEF d, chunk
  <2> QED
    BY <2>1, <2>5, <2>6 DEF BufferInv
<1>3. CASE ProcessFrame
  <2> DEFINE s == cur.stream
             n == ParseFrame(req_buf[s])
             rest == Drain(req_buf[s], n)
             call == [path |-> path[s], no |-> req_buf[s][1].no]
  <2>1. /\ s \in StreamIds /\ n > 0
        /\ req_buf' = [req_buf EXCEPT ![s] = rest]
        /\ handled' = [handled EXCEPT ![s] = Append(handled[s], call)]
        /\ UNCHANGED <<pos, body>>
    BY <1>3 DEF ProcessFrame, peerVars, TypeOK
  <2>2. call \in Call
    <3>1. handled'[s] = Append(handled[s], call)
      BY <2>1 DEF TypeOK
    <3>2. req_buf[s][1] \in Piece
      BY <2>1, StreamTyped, BufferedHead, ParseFrameWithin
    <3>3. path[s] \in Paths
      BY <1>3, MethodsAssumption, ElementOfSeq DEF ProcessFrame, MethodsNamed
    <3> QED
      BY <3>2, <3>3 DEF Call, Piece
  <2>3. /\ n \in 0 .. Len(req_buf[s]) /\ Len(rest) = Len(req_buf[s]) - n
    BY <2>1, StreamTyped, ParseFrameWithin
  <2>4. Buffered(body[s], (pos[s] - Len(req_buf[s])) + n, rest, Append(handled[s], call))
    <3> DEFINE d == pos[s] - Len(req_buf[s])
    <3>1. /\ body[s] \in Bodies /\ d \in Nat /\ req_buf[s] \in Seq(Piece)
          /\ handled[s] \in Seq(Call) /\ d + Len(req_buf[s]) <= Len(body[s])
          /\ Buffered(body[s], d, req_buf[s], handled[s])
      BY <2>1, StreamTyped
    <3>2. call.no = req_buf[s][1].no
      OBVIOUS
    <3> HIDE DEF d, s, call
    <3>3. Buffered(body[s], d + n, rest, Append(handled[s], call))
      BY <2>1, <2>2, <3>1, <3>2, BufferedFrame
    <3> QED
      BY <3>3 DEF d
  <2>5. (pos[s] - Len(req_buf[s])) + n = pos[s] - Len(rest)
    <3>1. pos[s] \in Nat /\ Len(req_buf[s]) \in Nat
      BY <2>1, StreamTyped
    <3> HIDE DEF s, n, rest
    <3> QED
      BY <3>1, <2>3
  <2>6. Buffered(body[s], pos[s] - Len(rest), rest, Append(handled[s], call))
    BY <2>4, <2>5
  <2>7. req_buf'[s] = rest /\ handled'[s] = Append(handled[s], call)
    BY <2>1 DEF TypeOK
  <2>8. \A t \in StreamIds \ {s} : req_buf'[t] = req_buf[t] /\ handled'[t] = handled[t]
    BY <2>1 DEF TypeOK
  <2> HIDE DEF s, rest, call
  <2> QED
    BY <2>1, <2>6, <2>7, <2>8 DEF BufferInv
<1>4. CASE UNCHANGED <<req_buf, handled, pos, body>>
  BY <1>4 DEF BufferInv
<1> QED
  BY <1>1, <1>2, <1>3, <1>4, BufferFrameCondition

LEMMA IdleStep == TypeOK /\ IdleInv /\ [Next]_vars => IdleInv'
<1> SUFFICES ASSUME TypeOK, IdleInv, [Next]_vars,
                    NEW t \in StreamIds, peer'[t] = "idle"
             PROVE  /\ peer[t] = "idle"
                    /\ t \notin live'
                    /\ UNCHANGED <<pos[t], req_buf[t], resp_buf[t], handled[t]>>
  BY DEF IdleInv
<1> DEFINE Kept == /\ peer[t] = "idle"
                   /\ t \notin live'
                   /\ UNCHANGED <<pos[t], req_buf[t], resp_buf[t], handled[t]>>
<1> USE DEF TypeOK, IdleInv
<1>1. CASE ~ RecvFrame /\ ~ ProcessFrame
  BY <1>1 DEF Next, ThreadStep, ProcessBuf, PrepareResponses, vars, streamVars, sendVars,
     peerVars, New, ProcessPanic, ProcessReturn, CollectResponses, SendHeaders, SendData,
     SendTrailers, SendError, ReapStreams
<1>2. ASSUME NEW s \in StreamIds, NEW p \in Paths, NEW end \in BOOLEAN,
             RecvNewStream(s, p, end)
      PROVE  Kept
  <2>1. peer' = [peer EXCEPT ![s] = IF end THEN "ended" ELSE "open"]
    BY <1>2 DEF RecvNewStream
  <2>2. peer'[s] # "idle"
    BY <2>1
  <2> QED
    BY <1>2, <2>1, <2>2 DEF RecvNewStream
<1>3. ASSUME NEW s \in StreamIds, NEW end \in BOOLEAN, NEW n \in 0 .. Len(body[s]),
             RecvData(s, n, end)
      PROVE  Kept
  <2>1. peer[s] \in {"open", "ended"} /\ peer' \in {peer, [peer EXCEPT ![s] = "ended"]}
    BY <1>3 DEF RecvData
  <2>2. s # t /\ peer[t] = "idle"
    BY <2>1
  <2> QED
    BY <1>3, <2>2 DEF RecvData
<1>4. ASSUME NEW s \in StreamIds, RecvTrailers(s) \/ RecvBadPath(s) \/ RecvRstStream(s)
      PROVE  Kept
  BY <1>4 DEF RecvTrailers, RecvBadPath, RecvRstStream, streamVars
<1>5. CASE RecvOther \/ RecvError
  BY <1>5 DEF RecvOther, RecvError, streamVars, peerVars
<1>6. CASE ProcessFrame
  <2>1. cur.stream \in live /\ UNCHANGED <<live, peer, pos>>
    BY <1>6 DEF ProcessFrame, peerVars
  <2>2. t # cur.stream
    BY <2>1
  <2> QED
    BY <1>6, <2>1, <2>2 DEF ProcessFrame
<1> QED
  BY <1>1, <1>2, <1>3, <1>4, <1>5, <1>6 DEF RecvFrame

LEMMA StateStep == TypeOK /\ IdleInv /\ StateInv /\ [Next]_vars => StateInv'
<1> SUFFICES ASSUME TypeOK, IdleInv, StateInv, [Next]_vars PROVE StateInv'
  OBVIOUS
<1> USE DEF TypeOK, StateInv
<1>1. CASE UNCHANGED <<state, peer>>
  BY <1>1
<1>2. ASSUME NEW s \in StreamIds, NEW p \in Paths, NEW end \in BOOLEAN,
             RecvNewStream(s, p, end)
      PROVE  StateInv'
  BY <1>2 DEF RecvNewStream, CloseRemote
<1>3. ASSUME NEW s \in StreamIds, NEW end \in BOOLEAN, NEW n \in 0 .. Len(body[s]),
             RecvData(s, n, end)
      PROVE  StateInv'
  <2>1. state' = state /\ peer' \in {peer, [peer EXCEPT ![s] = "ended"]}
        /\ peer[s] \in {"open", "ended"}
    BY <1>3 DEF RecvData
  <2> QED
    BY <2>1
<1>4. ASSUME NEW s \in StreamIds, RecvTrailers(s) PROVE StateInv'
  BY <1>4 DEF RecvTrailers, CloseRemote
<1>5. ASSUME NEW s \in StreamIds, RecvBadPath(s) PROVE StateInv'
  BY <1>5 DEF RecvBadPath, streamVars
<1>6. ASSUME NEW s \in StreamIds, RecvRstStream(s) PROVE StateInv'
  BY <1>6 DEF RecvRstStream
<1>7. CASE ProcessReturn
  <2>1. state' \in {state, [state EXCEPT ![cur.stream] = CloseRemote(state[cur.stream])]}
        /\ peer' = peer
    BY <1>7 DEF ProcessReturn, peerVars
  <2> QED
    BY <2>1 DEF CloseRemote
<1> HIDE DEF TypeOK, StateInv
<1> QED
  BY <1>1, <1>2, <1>3, <1>4, <1>5, <1>6, <1>7
  DEF Next, RecvFrame, ThreadStep, ProcessBuf, PrepareResponses, vars, streamVars,
      sendVars, peerVars, New, RecvOther, RecvError, ProcessFrame, ProcessPanic,
      CollectResponses, SendHeaders, SendData, SendTrailers, SendError, ReapStreams

LEMMA DrainedStep == TypeOK /\ IdleInv /\ DrainedInv /\ [Next]_vars => DrainedInv'
<1> SUFFICES ASSUME TypeOK, IdleInv, DrainedInv, [Next]_vars PROVE DrainedInv'
  OBVIOUS
<1> USE DEF TypeOK, DrainedInv, Goto, Stopped
<1>1. CASE pc' \in Stopped
  BY <1>1
<1>2. CASE UNCHANGED <<pc, cur, req_buf>>
  BY <1>2
<1>3. CASE pc \notin Stopped /\ pc # "process" /\ pc' # "process" /\ UNCHANGED req_buf
  BY <1>3
<1>4. ASSUME NEW s \in StreamIds, NEW p \in Paths, NEW end \in BOOLEAN,
             RecvNewStream(s, p, end)
      PROVE  DrainedInv'
  <2>1. req_buf' = req_buf
    BY <1>4 DEF RecvNewStream, IdleInv
  <2> QED
    BY <1>4, <2>1 DEF RecvNewStream, Receive
<1>5. ASSUME NEW s \in StreamIds, NEW end \in BOOLEAN, NEW n \in 0 .. Len(body[s]),
             RecvData(s, n, end)
      PROVE  DrainedInv'
  BY <1>5 DEF RecvData, Receive
<1>6. CASE ProcessFrame
  BY <1>6 DEF ProcessFrame
<1>7. CASE ProcessReturn
  BY <1>7 DEF ProcessReturn, streamVars
<1>8. Next => \/ pc' \in Stopped
              \/ pc \notin Stopped /\ pc # "process" /\ pc' # "process" /\ UNCHANGED req_buf
              \/ \E s \in StreamIds, p \in Paths, end \in BOOLEAN : RecvNewStream(s, p, end)
              \/ \E s \in StreamIds, end \in BOOLEAN :
                   \E n \in 0 .. Len(body[s]) : RecvData(s, n, end)
              \/ ProcessFrame \/ ProcessReturn
  <2> HIDE DEF TypeOK, DrainedInv
  <2> QED
    BY DEF Next, RecvFrame, ThreadStep, ProcessBuf, PrepareResponses, streamVars, New,
       Receive, RecvTrailers, RecvBadPath, RecvRstStream, RecvOther, RecvError,
       ProcessPanic, CollectResponses, SendHeaders, SendData, SendTrailers, SendError,
       ReapStreams
<1>9. CASE UNCHANGED vars
  BY <1>2, <1>9 DEF vars, streamVars
<1> HIDE DEF TypeOK, DrainedInv
<1> QED
  BY <1>1, <1>3, <1>4, <1>5, <1>6, <1>7, <1>8, <1>9

DispatchInv == TypeOK /\ BufferInv /\ IdleInv /\ DrainedInv /\ StateInv

LEMMA DispatchInvInit == Init => DispatchInv
<1> SUFFICES ASSUME Init PROVE DispatchInv
  OBVIOUS
<1>1. TypeOK
  BY TypeInit
<1>2. \A b \in Bodies : Buffered(b, 0, <<>>, <<>>)
  BY EmptySeq DEF Buffered
<1>3. Len(<<>>) = 0 /\ 0 - 0 = 0
  BY EmptySeq
<1>4. BufferInv
  BY <1>2, <1>3 DEF Init, BufferInv
<1>5. IdleInv
  BY DEF Init, IdleInv
<1>6. DrainedInv
  BY DEF Init, DrainedInv, ParseFrame
<1>7. StateInv
  BY DEF Init, StateInv
<1> QED
  BY <1>1, <1>4, <1>5, <1>6, <1>7 DEF DispatchInv

LEMMA DispatchInvStep == DispatchInv /\ [Next]_vars => DispatchInv'
BY TypeStep, BufferStep, IdleStep, DrainedStep, StateStep DEF DispatchInv

LEMMA DispatchInvariant == Spec => []DispatchInv
<1> QED
  BY DispatchInvInit, DispatchInvStep, PTL DEF Spec

\* handle_method sees the messages of a stream in the order they were sent,
\* each at most once and not before it is complete, however DATA frames cut
\* the body.
THEOREM DispatchesInOrder == Spec => []DispatchInOrder
<1>1. DispatchInv => DispatchInOrder
  <2> SUFFICES ASSUME DispatchInv, NEW s \in StreamIds,
                      NEW j \in 1 .. Len(handled[s])
               PROVE  handled[s][j].no = j /\ j \in Received(s)
    BY DEF DispatchInOrder
  <2> DEFINE d == pos[s] - Len(req_buf[s])
  <2>1. /\ d \in Nat /\ pos[s] \in Nat /\ d <= pos[s]
        /\ Buffered(body[s], d, req_buf[s], handled[s])
    BY StreamTyped DEF DispatchInv
  <2> HIDE DEF d
  <2>2. handled[s][j].no = j
    BY <2>1 DEF Buffered
  <2>3. PICK i \in 1 .. d : body[s][i].part = body[s][i].size /\ body[s][i].no = j
    BY <2>1 DEF Buffered
  <2>4. i \in 1 .. pos[s]
    BY <2>1
  <2> QED
    BY <2>2, <2>3, <2>4 DEF Received
<1> QED
  BY <1>1, DispatchInvariant, PTL

\* Outside process_buf every complete message of every stream was dispatched.
THEOREM DispatchesPromptly == Spec => []DispatchPrompt
<1>1. DispatchInv => DispatchPrompt
  <2> SUFFICES ASSUME DispatchInv, pc \in Running \ {"process"},
                      NEW s \in StreamIds, NEW n \in Received(s)
               PROVE  n <= Len(handled[s])
    BY DEF DispatchPrompt
  <2> DEFINE d == pos[s] - Len(req_buf[s])
  <2>1. ParseFrame(req_buf[s]) = 0
    BY DEF DispatchInv, DrainedInv, Running, Stopped
  <2>2. PICK k \in 1 .. pos[s] : body[s][k].part = body[s][k].size /\ n = body[s][k].no
    BY DEF Received
  <2>3. /\ body[s] \in Bodies /\ d \in Nat /\ req_buf[s] \in Seq(Piece)
        /\ handled[s] \in Seq(Call) /\ Buffered(body[s], d, req_buf[s], handled[s])
        /\ d + Len(req_buf[s]) <= Len(body[s]) /\ pos[s] = d + Len(req_buf[s])
    BY StreamTyped DEF DispatchInv
  <2> HIDE DEF d
  <2>4. k \in 1 .. d + Len(req_buf[s])
    BY <2>3
  <2> QED
    BY <2>1, <2>2, <2>3, <2>4, BufferedDrained
<1> QED
  BY <1>1, DispatchInvariant, PTL

\* reap_streams drops a stream only after the peer has reset it.
THEOREM ReapsOnlyReset == Spec => ReapOnlyReset
<1>1. DispatchInv /\ [Next]_vars => [\A s \in live \ live' : peer[s] = "reset"]_vars
  <2> SUFFICES ASSUME DispatchInv, Next PROVE \A s \in live \ live' : peer[s] = "reset"
    OBVIOUS
  <2>1. live \subseteq live' \/ live' = live \ ClosedStreams
    BY DEF Next, RecvFrame, ThreadStep, ProcessBuf, PrepareResponses, streamVars, New,
       RecvNewStream, RecvTrailers, RecvBadPath, RecvData, RecvRstStream, RecvOther,
       RecvError, ProcessFrame, ProcessPanic, ProcessReturn, CollectResponses,
       SendHeaders, SendData, SendTrailers, SendError, ReapStreams
  <2>2. \A s \in ClosedStreams : s \in StreamIds /\ state[s] = "Closed"
    BY DEF ClosedStreams, DispatchInv, TypeOK
  <2> QED
    BY <2>1, <2>2 DEF DispatchInv, StateInv
<1> QED
  BY <1>1, DispatchInvariant, PTL DEF Spec, ReapOnlyReset

-----------------------------------------------------------------------------
(* The parts of the inductive invariant about the answers *)

\* buf answers a prefix of calls, each call by its first method.
Answers(buf, calls) ==
  /\ Len(buf) <= Len(calls)
  /\ \A j \in 1 .. Len(buf) :
       /\ buf[j].no = j
       /\ buf[j].method \in MethodsNamed(calls[j].path)
       /\ \A m \in MethodsNamed(calls[j].path) : buf[j].method <= m

\* resp_buf answers all the calls of its stream, and what handle_requests
\* copied answers those made until then.
ResponseInv ==
  /\ \A s \in StreamIds : /\ Len(resp_buf[s]) = Len(handled[s])
                          /\ Answers(resp_buf[s], handled[s])
  /\ \A r \in responses : r.buf # <<>> /\ Answers(r.buf, handled[r.stream])

\* The same for what was written.
OutInv ==
  \A i \in DataFrames :
    out[i].body # <<>> /\ Answers(out[i].body, handled[out[i].stream])

\* While the responses are being written, what is unanswered is among them.
AnsweredBy(s, k) ==
  out[k].kind = "data" /\ out[k].stream = s /\ Len(out[k].body) = Len(handled[s])

AnsweredOut(s) == \E k \in 1 .. Len(out) : AnsweredBy(s, k)

Writing == {"prepare_responses", "send_data", "send_trailers"}

PendingInv ==
  /\ pc = "new" => \A s \in StreamIds : handled[s] = <<>>
  /\ \A s \in StreamIds \ live : handled[s] # <<>> => AnsweredOut(s)
  /\ pc \in Writing =>
       /\ \A s \in live : handled[s] # <<>> =>
            AnsweredOut(s) \/ \E r \in responses : r.stream = s
       /\ \A r \in responses : Len(r.buf) = Len(handled[r.stream])
  /\ pc = "send_trailers" =>
       /\ Len(out) > 0
       /\ out[Len(out)] = [stream |-> sending.stream, kind |-> "data",
                           body |-> sending.buf]

\* Where the writer is within a response.
BlockInv ==
  /\ pc = "send_data" => Len(out) % 3 = 1 /\ out[Len(out)].stream = sending.stream
  /\ pc = "send_trailers" => Len(out) % 3 = 2 /\ out[Len(out)].stream = sending.stream
  /\ pc \in {"new", "read", "process", "handle_requests", "prepare_responses"} =>
       Len(out) % 3 = 0

AnswerInv == /\ DispatchInv /\ ResponseInv /\ OutInv /\ PendingInv /\ BlockInv
             /\ AnsweredAtRead /\ ResponseBlocks

-----------------------------------------------------------------------------
(* Answers, on constants *)

LEMMA AnswersMoreCalls ==
  ASSUME NEW buf \in Seq(Response), NEW calls \in Seq(Call), NEW call \in Call,
         Answers(buf, calls)
  PROVE  Answers(buf, Append(calls, call))
<1>1. Len(buf) \in Nat /\ Len(calls) \in Nat
  BY LenProperties
<1>2. /\ Len(Append(calls, call)) = Len(calls) + 1
      /\ \A j \in 1 .. Len(calls) : Append(calls, call)[j] = calls[j]
  BY AppendProperties
<1>3. \A j \in 1 .. Len(buf) : Append(calls, call)[j] = calls[j]
  BY <1>1, <1>2 DEF Answers
<1> QED
  BY <1>1, <1>2, <1>3 DEF Answers

LEMMA AnswersAppend ==
  ASSUME NEW buf \in Seq(Response), NEW calls \in Seq(Call),
         NEW call \in Call, NEW answer \in Response,
         Answers(buf, calls), Len(buf) = Len(calls),
         MethodsNamed(call.path) # {},
         answer.no = Len(calls) + 1, answer.method = FindMethod(call.path)
  PROVE  /\ Answers(Append(buf, answer), Append(calls, call))
         /\ Len(Append(buf, answer)) = Len(Append(calls, call))
<1> DEFINE nbuf == Append(buf, answer)
           ncalls == Append(calls, call)
<1>1. Len(buf) \in Nat
  BY LenProperties
<1>2. /\ Len(nbuf) = Len(buf) + 1 /\ Len(ncalls) = Len(calls) + 1
      /\ \A j \in 1 .. Len(buf) : nbuf[j] = buf[j] /\ ncalls[j] = calls[j]
      /\ nbuf[Len(buf) + 1] = answer /\ ncalls[Len(buf) + 1] = call
  BY AppendProperties
<1> HIDE DEF nbuf, ncalls
<1>3. ASSUME NEW j \in 1 .. Len(nbuf)
      PROVE  /\ nbuf[j].no = j
             /\ nbuf[j].method \in MethodsNamed(ncalls[j].path)
             /\ \A m \in MethodsNamed(ncalls[j].path) : nbuf[j].method <= m
  <2>1. CASE j \in 1 .. Len(buf)
    BY <2>1, <1>2 DEF Answers
  <2>2. CASE j = Len(buf) + 1
    BY <2>2, <1>2, FindMethodFirst
  <2> QED
    BY <2>1, <2>2, <1>1, <1>2
<1>4. Answers(nbuf, ncalls) /\ Len(nbuf) = Len(ncalls)
  BY <1>1, <1>2, <1>3 DEF Answers
<1> QED
  BY <1>4 DEF nbuf, ncalls

\* Only process_buf calls handlers, and only reap_streams drops streams.
LEMMA HandledSteps == [Next]_vars => handled' = handled \/ ProcessFrame
BY DEF Next, RecvFrame, ThreadStep, ProcessBuf, PrepareResponses, vars, New,
   RecvNewStream, RecvTrailers, RecvBadPath, RecvData, RecvRstStream, RecvOther,
   RecvError, ProcessPanic, ProcessReturn, CollectResponses, SendHeaders, SendData,
   SendTrailers, SendError, ReapStreams

LEMMA LiveSteps == [Next]_vars => live \subseteq live' \/ ReapStreams
BY DEF Next, RecvFrame, ThreadStep, ProcessBuf, PrepareResponses, vars, streamVars, New,
   RecvNewStream, RecvTrailers, RecvBadPath, RecvData, RecvRstStream, RecvOther,
   RecvError, ProcessFrame, ProcessPanic, ProcessReturn, CollectResponses, SendHeaders,
   SendData, SendTrailers, SendError

\* process_buf makes one more call, on the stream it works on.
LEMMA ProcessFrameCall ==
  ASSUME DispatchInv, ProcessFrame
  PROVE  /\ cur.stream \in StreamIds
         /\ \E call \in Call :
              handled' = [handled EXCEPT ![cur.stream] = Append(handled[cur.stream], call)]
<1> DEFINE t == cur.stream
           call == [path |-> path[t], no |-> req_buf[t][1].no]
<1>1. /\ t \in StreamIds /\ handled' = [handled EXCEPT ![t] = Append(handled[t], call)]
  BY DEF ProcessFrame, DispatchInv, TypeOK
<1>2. req_buf[t] \in Seq(Piece) /\ ParseFrame(req_buf[t]) > 0
  BY <1>1 DEF ProcessFrame, DispatchInv, TypeOK
<1>3. req_buf[t] # <<>>
  BY <1>2, ParseFrameWithin
<1>4. 1 \in 1 .. Len(req_buf[t])
  BY <1>2, <1>3, EmptySeq
<1>5. req_buf[t][1] \in Piece
  BY <1>2, <1>4, ElementOfSeq
<1>6. path[t] \in Paths
  BY MethodsAssumption, ElementOfSeq DEF ProcessFrame, MethodsNamed
<1>7. call \in Call
  BY <1>5, <1>6 DEF Call, Piece
<1> HIDE DEF call
<1> QED
  BY <1>1, <1>7

\* The calls of a stream are only added to.
LEMMA HandledGrows ==
  ASSUME DispatchInv, [Next]_vars, NEW s \in StreamIds
  PROVE  handled'[s] = handled[s]
           \/ \E call \in Call : handled'[s] = Append(handled[s], call)
BY ProcessFrameCall, HandledSteps DEF DispatchInv, TypeOK

LEMMA AnswersStay ==
  ASSUME DispatchInv, [Next]_vars, NEW s \in StreamIds, NEW buf \in Seq(Response),
         Answers(buf, handled[s])
  PROVE  Answers(buf, handled'[s])
<1>1. handled[s] \in Seq(Call)
  BY DEF DispatchInv, TypeOK
<1>2. ASSUME NEW call \in Call PROVE Answers(buf, Append(handled[s], call))
  BY <1>1, AnswersMoreCalls
<1> QED
  BY <1>2, HandledGrows

-----------------------------------------------------------------------------
(* Responses and what is written, under every step *)

LEMMA ResponseStep == DispatchInv /\ ResponseInv /\ [Next]_vars => ResponseInv'
<1> SUFFICES ASSUME DispatchInv, ResponseInv, [Next]_vars PROVE ResponseInv'
  OBVIOUS
<1>1. TypeOK /\ IdleInv /\ TypeOK'
  BY TypeStep DEF DispatchInv
<1>2. ASSUME responses' \subseteq responses
      PROVE  \A r \in responses' : r.buf # <<>> /\ Answers(r.buf, handled'[r.stream])
  BY <1>1, <1>2, AnswersStay DEF ResponseInv, TypeOK, Reply
<1>3. ASSUME UNCHANGED <<resp_buf, handled>>
      PROVE  \A s \in StreamIds : /\ Len(resp_buf'[s]) = Len(handled'[s])
                                  /\ Answers(resp_buf'[s], handled'[s])
  BY <1>3 DEF ResponseInv
<1>4. CASE UNCHANGED <<resp_buf, handled>> /\ responses' \subseteq responses
  BY <1>2, <1>3, <1>4 DEF ResponseInv
<1>5. ASSUME NEW s \in StreamIds, NEW p \in Paths, NEW end \in BOOLEAN,
             RecvNewStream(s, p, end)
      PROVE  ResponseInv'
  <2>1. resp_buf' = resp_buf /\ UNCHANGED <<handled, responses>>
    BY <1>1, <1>5 DEF RecvNewStream, IdleInv, TypeOK, sendVars
  <2> QED
    BY <2>1, <1>4
<1>6. CASE CollectResponses
  <2>1. UNCHANGED <<resp_buf, handled>> /\ responses' = HandleRequests
    BY <1>6 DEF CollectResponses, streamVars
  <2>2. \A r \in HandleRequests : r.buf # <<>> /\ Answers(r.buf, handled[r.stream])
    BY <1>1 DEF HandleRequests, ResponseInv, TypeOK
  <2> QED
    BY <2>1, <2>2, <1>3 DEF ResponseInv
<1>7. CASE ProcessFrame
  <2> DEFINE s == cur.stream
             no == req_buf[s][1].no
             call == [path |-> path[s], no |-> no]
             answer == [method |-> FindMethod(path[s]), no |-> no]
  <2>1. /\ s \in StreamIds /\ ParseFrame(req_buf[s]) > 0 /\ MethodsNamed(path[s]) # {}
        /\ handled' = [handled EXCEPT ![s] = Append(handled[s], call)]
        /\ resp_buf' = [resp_buf EXCEPT ![s] = Append(resp_buf[s], answer)]
        /\ responses' = responses
    BY <1>1, <1>7 DEF ProcessFrame, sendVars, TypeOK
  <2>2. /\ handled[s] \in Seq(Call) /\ resp_buf[s] \in Seq(Response)
        /\ Len(resp_buf[s]) = Len(handled[s]) /\ Answers(resp_buf[s], handled[s])
    BY <1>1, <2>1 DEF ResponseInv, TypeOK
  <2>3. req_buf[s][1] \in Piece /\ no = Len(handled[s]) + 1
    <3>1. req_buf[s] # <<>>
      BY <1>1, <2>1, ParseFrameWithin DEF TypeOK
    <3> QED
      BY <1>1, <2>1, <3>1, StreamTyped, BufferedHead DEF DispatchInv
  <2>4. path[s] \in Paths
    BY <2>1, MethodsAssumption, ElementOfSeq DEF MethodsNamed
  <2>5. call \in Call /\ answer \in Response
    BY <2>1, <2>3, <2>4, FindMethodFirst DEF Call, Response, Piece
  <2>6. /\ MethodsNamed(call.path) # {}
        /\ answer.no = Len(handled[s]) + 1 /\ answer.method = FindMethod(call.path)
    BY <2>1, <2>3
  <2>7. /\ \A t \in StreamIds \ {s} : handled'[t] = handled[t] /\ resp_buf'[t] = resp_buf[t]
        /\ handled'[s] = Append(handled[s], call)
        /\ resp_buf'[s] = Append(resp_buf[s], answer)
    BY <1>1, <2>1 DEF TypeOK
  <2> HIDE DEF call, answer, no, s
  <2>8. /\ Answers(Append(resp_buf[s], answer), Append(handled[s], call))
        /\ Len(Append(resp_buf[s], answer)) = Len(Append(handled[s], call))
    <3> DEFINE buf == resp_buf[s]
               calls == handled[s]
    <3>1. /\ buf \in Seq(Response) /\ calls \in Seq(Call)
          /\ Answers(buf, calls) /\ Len(buf) = Len(calls)
      BY <2>2
    <3>2. answer.no = Len(calls) + 1
      BY <2>6
    <3> HIDE DEF buf, calls
    <3>3. /\ Answers(Append(buf, answer), Append(calls, call))
          /\ Len(Append(buf, answer)) = Len(Append(calls, call))
      BY <2>5, <2>6, <3>1, <3>2, AnswersAppend
    <3> QED
      BY <3>3 DEF buf, calls
  <2>9. \A t \in StreamIds : /\ Len(resp_buf'[t]) = Len(handled'[t])
                             /\ Answers(resp_buf'[t], handled'[t])
    BY <2>7, <2>8 DEF ResponseInv
  <2> QED
    BY <2>1, <2>9, <1>2 DEF ResponseInv
<1>8. \/ UNCHANGED <<resp_buf, handled>> /\ responses' \subseteq responses
      \/ \E s \in StreamIds, p \in Paths, end \in BOOLEAN : RecvNewStream(s, p, end)
      \/ CollectResponses \/ ProcessFrame
  BY DEF Next, RecvFrame, ThreadStep, ProcessBuf, PrepareResponses, vars, streamVars,
     sendVars, New, RecvTrailers, RecvBadPath, RecvData, RecvRstStream, RecvOther,
     RecvError, ProcessPanic, ProcessReturn, SendHeaders, SendData, SendTrailers,
     SendError, ReapStreams
<1> QED
  BY <1>4, <1>5, <1>6, <1>7, <1>8

\* Every step leaves out alone or appends one frame of the response sending.
LEMMA OutGrows ==
  ASSUME DispatchInv, [Next]_vars
  PROVE  \/ out' = out
         \/ /\ sending' \in responses
            /\ \E kind \in {"headers", "data", "trailers"} :
                 LET buf == IF kind = "data" THEN sending'.buf ELSE <<>>
                     f == [stream |-> sending'.stream, kind |-> kind, body |-> buf]
                 IN  f \in OutFrame /\ out' = Append(out, f)
<1>1. TypeOK /\ <<>> \in Seq(Response)
  BY EmptySeq DEF DispatchInv
<1>2. ASSUME NEW r \in responses, NEW kind \in {"headers", "data", "trailers"}
      PROVE  [stream |-> r.stream, kind |-> kind,
              body |-> IF kind = "data" THEN r.buf ELSE <<>>] \in OutFrame
  BY <1>1 DEF TypeOK, Reply, OutFrame
<1>3. ASSUME NEW r \in responses, SendHeaders(r)
      PROVE  /\ sending' \in responses
             /\ out' = Append(out, [stream |-> sending'.stream, kind |-> "headers",
                                    body |-> <<>>])
  BY <1>3 DEF SendHeaders, SendFrame
<1>4. ASSUME SendData
      PROVE  /\ sending' \in responses
             /\ out' = Append(out, [stream |-> sending'.stream, kind |-> "data",
                                    body |-> sending'.buf])
  BY <1>1, <1>4 DEF SendData, SendFrame, TypeOK
<1>5. ASSUME SendTrailers
      PROVE  /\ sending' \in responses
             /\ out' = Append(out, [stream |-> sending'.stream, kind |-> "trailers",
                                    body |-> <<>>])
  BY <1>1, <1>5 DEF SendTrailers, SendFrame, TypeOK
<1>6. out' = out \/ SendData \/ SendTrailers \/ \E r \in responses : SendHeaders(r)
  BY DEF Next, RecvFrame, ThreadStep, ProcessBuf, PrepareResponses, vars, sendVars, New,
     RecvNewStream, RecvTrailers, RecvBadPath, RecvData, RecvRstStream, RecvOther,
     RecvError, ProcessFrame, ProcessPanic, ProcessReturn, CollectResponses, SendError,
     ReapStreams
<1> QED
  BY <1>2, <1>3, <1>4, <1>5, <1>6

LEMMA OutStep == DispatchInv /\ ResponseInv /\ OutInv /\ [Next]_vars => OutInv'
<1> SUFFICES ASSUME DispatchInv, ResponseInv, OutInv, [Next]_vars,
                    NEW i \in DataFrames'
             PROVE  out'[i].body # <<>> /\ Answers(out'[i].body, handled'[out'[i].stream])
  BY DEF OutInv
<1>1. TypeOK /\ Len(out) \in Nat
  BY LenProperties DEF DispatchInv, TypeOK
<1>2. CASE i \in 1 .. Len(out) /\ out'[i] = out[i]
  <2>1. i \in DataFrames /\ out[i] \in OutFrame
    BY <1>1, <1>2, ElementOfSeq DEF DataFrames, TypeOK
  <2>2. out[i].stream \in StreamIds /\ out[i].body \in Seq(Response)
    BY <2>1 DEF OutFrame
  <2> QED
    BY <1>2, <2>1, <2>2, AnswersStay DEF OutInv
<1>3. ASSUME NEW r \in responses, NEW kind \in {"headers", "data", "trailers"},
             LET f == [stream |-> r.stream, kind |-> kind,
                       body |-> IF kind = "data" THEN r.buf ELSE <<>>]
             IN  f \in OutFrame /\ out' = Append(out, f),
             i = Len(out) + 1
      PROVE  out'[i].body # <<>> /\ Answers(out'[i].body, handled'[out'[i].stream])
  <2> DEFINE f == [stream |-> r.stream, kind |-> kind,
                   body |-> IF kind = "data" THEN r.buf ELSE <<>>]
  <2>1. out'[i] = f
    BY <1>1, <1>3, AppendProperties DEF TypeOK
  <2>2. kind = "data"
    BY <2>1 DEF DataFrames
  <2>3. r.stream \in StreamIds /\ r.buf \in Seq(Response) /\ r.buf # <<>>
        /\ Answers(r.buf, handled[r.stream])
    BY <1>1 DEF TypeOK, Reply, ResponseInv
  <2>4. Answers(r.buf, handled'[r.stream])
    BY <2>3, AnswersStay
  <2> QED
    BY <2>1, <2>2, <2>3, <2>4
<1>4. ASSUME NEW f \in OutFrame, out' = Append(out, f), i # Len(out) + 1
      PROVE  i \in 1 .. Len(out) /\ out'[i] = out[i]
  <2>1. Len(out') = Len(out) + 1 /\ \A k \in 1 .. Len(out) : out'[k] = out[k]
    BY <1>1, <1>4, AppendProperties DEF TypeOK
  <2>2. i \in 1 .. Len(out')
    BY DEF DataFrames
  <2> QED
    BY <1>1, <1>4, <2>1, <2>2
<1>5. CASE out' = out
  BY <1>2, <1>5 DEF DataFrames
<1> QED
  BY <1>2, <1>3, <1>4, <1>5, OutGrows

\* One more frame behind those written leaves these where they are.
LEMMA OutAppend ==
  ASSUME TypeOK, NEW f \in OutFrame, out' = Append(out, f)
  PROVE  /\ Len(out) \in Nat
         /\ Len(out') = Len(out) + 1
         /\ \A k \in 1 .. Len(out) : out'[k] = out[k]
         /\ out'[Len(out')] = f
BY LenProperties, AppendProperties DEF TypeOK

\* The three steps that write, with the frame each appends.
LEMMA SendSteps ==
  ASSUME TypeOK
  PROVE  /\ \A r \in responses : SendHeaders(r) =>
              LET f == [stream |-> r.stream, kind |-> "headers", body |-> <<>>]
              IN  /\ f \in OutFrame /\ out' = Append(out, f)
                  /\ pc = "prepare_responses" /\ pc' = "send_data" /\ sending' = r
                  /\ UNCHANGED <<live, handled, responses>>
         /\ SendData =>
              LET f == [stream |-> sending.stream, kind |-> "data", body |-> sending.buf]
              IN  /\ f \in OutFrame /\ out' = Append(out, f)
                  /\ pc = "send_data" /\ pc' = "send_trailers"
                  /\ UNCHANGED <<live, handled, responses, sending>>
         /\ SendTrailers =>
              LET f == [stream |-> sending.stream, kind |-> "trailers", body |-> <<>>]
              IN  /\ f \in OutFrame /\ out' = Append(out, f)
                  /\ pc = "send_trailers" /\ pc' = "prepare_responses"
                  /\ responses' = responses \ {sending}
                  /\ UNCHANGED <<live, handled, sending>>
<1>1. \A r \in responses : /\ r.stream \in StreamIds /\ r.buf \in Seq(Response)
                           /\ [stream |-> r.stream, kind |-> "headers", body |-> <<>>] \in OutFrame
                           /\ [stream |-> r.stream, kind |-> "data", body |-> r.buf] \in OutFrame
                           /\ [stream |-> r.stream, kind |-> "trailers", body |-> <<>>] \in OutFrame
  BY EmptySeq DEF TypeOK, Reply, OutFrame
<1>2. SendData \/ SendTrailers => sending \in responses
  BY DEF SendData, SendTrailers, TypeOK
<1> QED
  BY <1>1, <1>2 DEF SendHeaders, SendData, SendTrailers, SendFrame, Goto, streamVars

\* The other steps write nothing, and enter or leave no response.
LEMMA OtherSteps ==
  ASSUME [Next]_vars
  PROVE  \/ \E r \in responses : SendHeaders(r)
         \/ SendData \/ SendTrailers \/ New \/ CollectResponses \/ ReapStreams
         \/ out' = out /\ pc' \in Stopped
         \/ /\ out' = out /\ pc \in {"read", "process"}
            /\ pc' \in {"process", "handle_requests"}
         \/ UNCHANGED vars
BY DEF Next, RecvFrame, ThreadStep, ProcessBuf, PrepareResponses, sendVars, Stopped, Goto,
     RecvNewStream, RecvTrailers, RecvBadPath, RecvData, RecvRstStream, RecvOther, Receive,
     RecvError, ProcessFrame, ProcessPanic, ProcessReturn, SendError

LEMMA BlockStep ==
  TypeOK /\ BlockInv /\ ResponseBlocks /\ [Next]_vars => BlockInv' /\ ResponseBlocks'
<1> SUFFICES ASSUME TypeOK, BlockInv, ResponseBlocks, [Next]_vars
             PROVE  BlockInv' /\ ResponseBlocks'
  OBVIOUS
<1>1. Len(out) \in Nat
  BY LenProperties DEF TypeOK
\* A frame of the right kind, on the right stream, keeps the blocks whole.
<1>2. ASSUME NEW f \in OutFrame, out' = Append(out, f),
             f.kind = "headers"  <=> (Len(out) + 1) % 3 = 1,
             f.kind = "trailers" <=> (Len(out) + 1) % 3 = 0,
             (Len(out) + 1) % 3 # 1 => f.stream = out[Len(out)].stream
      PROVE  ResponseBlocks'
  <2>1. /\ Len(out') = Len(out) + 1 /\ \A k \in 1 .. Len(out) : out'[k] = out[k]
        /\ out'[Len(out')] = f
    BY <1>2, OutAppend
  <2> SUFFICES ASSUME NEW i \in 1 .. Len(out')
               PROVE  /\ out'[i].kind = "headers"  <=> i % 3 = 1
                      /\ out'[i].kind = "trailers" <=> i % 3 = 0
                      /\ i % 3 # 1 => out'[i].stream = out'[i - 1].stream
    BY DEF ResponseBlocks
  <2>2. CASE i \in 1 .. Len(out)
    <3>1. i % 3 # 1 => i - 1 \in 1 .. Len(out)
      BY <1>1, <2>2
    <3> QED
      BY <2>1, <2>2, <3>1 DEF ResponseBlocks
  <2>3. CASE i = Len(out) + 1
    <3>1. i % 3 # 1 => i - 1 \in 1 .. Len(out) /\ i - 1 = Len(out)
      BY <1>1, <2>3
    <3> QED
      BY <1>2, <2>1, <2>3, <3>1
  <2> QED
    BY <1>1, <2>1, <2>2, <2>3
<1>3. ASSUME NEW r \in responses, SendHeaders(r) PROVE BlockInv' /\ ResponseBlocks'
  <2> DEFINE f == [stream |-> r.stream, kind |-> "headers", body |-> <<>>]
  <2>1. /\ f \in OutFrame /\ out' = Append(out, f) /\ sending' = r
        /\ pc = "prepare_responses" /\ pc' = "send_data"
    BY <1>3, SendSteps
  <2>2. Len(out') = Len(out) + 1 /\ out'[Len(out')] = f
    BY <2>1, OutAppend
  <2>3. Len(out) % 3 = 0
    BY <2>1 DEF BlockInv
  <2>4. (Len(out) + 1) % 3 = 1
    BY <1>1, <2>3
  <2>5. ResponseBlocks'
    BY <1>2, <2>1, <2>4
  <2> QED
    BY <2>1, <2>2, <2>4, <2>5 DEF BlockInv
<1>4. CASE SendData
  <2> DEFINE f == [stream |-> sending.stream, kind |-> "data", body |-> sending.buf]
  <2>1. /\ f \in OutFrame /\ out' = Append(out, f) /\ sending' = sending
        /\ pc = "send_data" /\ pc' = "send_trailers"
    BY <1>4, SendSteps
  <2>2. Len(out') = Len(out) + 1 /\ out'[Len(out')] = f
    BY <2>1, OutAppend
  <2>3. Len(out) % 3 = 1 /\ out[Len(out)].stream = sending.stream
    BY <2>1 DEF BlockInv
  <2>4. (Len(out) + 1) % 3 = 2
    BY <1>1, <2>3
  <2>5. ResponseBlocks'
    BY <1>2, <2>1, <2>3, <2>4
  <2> QED
    BY <2>1, <2>2, <2>4, <2>5 DEF BlockInv
<1>5. CASE SendTrailers
  <2> DEFINE f == [stream |-> sending.stream, kind |-> "trailers", body |-> <<>>]
  <2>1. /\ f \in OutFrame /\ out' = Append(out, f)
        /\ pc = "send_trailers" /\ pc' = "prepare_responses"
    BY <1>5, SendSteps
  <2>2. Len(out') = Len(out) + 1
    BY <2>1, OutAppend
  <2>3. Len(out) % 3 = 2 /\ out[Len(out)].stream = sending.stream
    BY <2>1 DEF BlockInv
  <2>4. (Len(out) + 1) % 3 = 0
    BY <1>1, <2>3
  <2>5. ResponseBlocks'
    BY <1>2, <2>1, <2>3, <2>4
  <2> QED
    BY <2>1, <2>2, <2>4, <2>5 DEF BlockInv
<1>6. CASE New \/ CollectResponses \/ ReapStreams
  <2>1. out' = out /\ pc' \in {"read", "panicked", "prepare_responses"} /\ Len(out) % 3 = 0
    BY <1>6 DEF New, CollectResponses, ReapStreams, sendVars, Goto, BlockInv
  <2> QED
    BY <2>1 DEF BlockInv, ResponseBlocks
<1>7. CASE out' = out /\ pc' \in Stopped
  BY <1>7 DEF BlockInv, ResponseBlocks, Stopped
<1>8. CASE /\ out' = out /\ pc \in {"read", "process"}
           /\ pc' \in {"process", "handle_requests"}
  BY <1>8 DEF BlockInv, ResponseBlocks
<1>9. CASE UNCHANGED vars
  BY <1>9 DEF vars, sendVars, BlockInv, ResponseBlocks
<1> QED
  BY <1>3, <1>4, <1>5, <1>6, <1>7, <1>8, <1>9, OtherSteps

\* Streams are opened and messages dispatched, but what was answered stays so.
LEMMA AnsweredStays ==
  ASSUME DispatchInv, [Next]_vars, NEW s \in StreamIds, handled'[s] = handled[s],
         AnsweredOut(s)
  PROVE  AnsweredOut(s)'
<1>1. TypeOK
  BY DEF DispatchInv
<1>2. PICK k \in 1 .. Len(out) : AnsweredBy(s, k)
  BY DEF AnsweredOut
<1>3. out' = out \/ \E f \in OutFrame : out' = Append(out, f)
  BY OutGrows
<1>4. k \in 1 .. Len(out') /\ out'[k] = out[k]
  BY <1>1, <1>3, OutAppend
<1> QED
  BY <1>2, <1>4 DEF AnsweredOut, AnsweredBy

LEMMA AnsweredGoneStep ==
  DispatchInv /\ PendingInv /\ [Next]_vars
    => \A s \in StreamIds \ live' : handled'[s] # <<>> => AnsweredOut(s)'
<1> SUFFICES ASSUME DispatchInv, PendingInv, [Next]_vars,
                    NEW s \in StreamIds \ live', handled'[s] # <<>>
             PROVE  AnsweredOut(s)'
  OBVIOUS
<1>1. CASE s \notin live
  <2>1. CASE ProcessFrame
    <3>1. cur.stream \in live
      BY <2>1 DEF ProcessFrame, DispatchInv, TypeOK
    <3>2. handled'[s] = handled[s]
      BY <1>1, <2>1, <3>1 DEF ProcessFrame
    <3> QED
      BY <1>1, <3>2, AnsweredStays DEF PendingInv
  <2>2. CASE handled' = handled
    BY <1>1, <2>2, AnsweredStays DEF PendingInv
  <2> QED
    BY <2>1, <2>2, HandledSteps
<1>2. CASE s \in live
  <2>1. live \subseteq live' \/ ReapStreams
    BY LiveSteps
  <2>2. ReapStreams
    BY <1>2, <2>1
  <2>3. pc = "prepare_responses" /\ responses = {} /\ handled' = handled
    BY <2>2 DEF ReapStreams
  <2>4. AnsweredOut(s)
    BY <1>2, <2>3 DEF PendingInv, Writing
  <2> QED
    BY <2>3, <2>4, AnsweredStays
<1> QED
  BY <1>1, <1>2

LEMMA PendingStep ==
  DispatchInv /\ ResponseInv /\ PendingInv /\ [Next]_vars => PendingInv'
<1> SUFFICES ASSUME DispatchInv, ResponseInv, PendingInv, [Next]_vars PROVE PendingInv'
  OBVIOUS
<1>1. TypeOK /\ TypeOK' /\ Len(out) \in Nat
  BY TypeStep, LenProperties DEF DispatchInv, TypeOK
<1>2. \A s \in StreamIds \ live' : handled'[s] # <<>> => AnsweredOut(s)'
  BY AnsweredGoneStep
<1>3. ASSUME UNCHANGED <<live, handled>>, pc \in Writing,
             responses' = responses
      PROVE  /\ \A s \in live' : handled'[s] # <<>> =>
                  AnsweredOut(s)' \/ \E r \in responses' : r.stream = s
             /\ \A r \in responses' : Len(r.buf) = Len(handled'[r.stream])
  BY <1>1, <1>3, AnsweredStays DEF PendingInv, TypeOK
<1>4. ASSUME NEW r \in responses, SendHeaders(r) PROVE PendingInv'
  <2>1. /\ pc = "prepare_responses" /\ pc' = "send_data"
        /\ UNCHANGED <<live, handled, responses>>
    BY <1>1, <1>4, SendSteps
  <2> QED
    BY <2>1, <1>2, <1>3 DEF PendingInv, Writing
<1>5. CASE SendData
  <2> DEFINE f == [stream |-> sending.stream, kind |-> "data", body |-> sending.buf]
  <2>1. /\ f \in OutFrame /\ out' = Append(out, f)
        /\ pc = "send_data" /\ pc' = "send_trailers"
        /\ UNCHANGED <<live, handled, responses, sending>>
    BY <1>1, <1>5, SendSteps
  <2>2. Len(out') > 0 /\ out'[Len(out')] = f
    BY <1>1, <2>1, OutAppend
  <2>3. out'[Len(out')] = [stream |-> sending'.stream, kind |-> "data",
                           body |-> sending'.buf]
    BY <2>1, <2>2
  <2> HIDE DEF f
  <2> QED
    BY <2>1, <2>2, <2>3, <1>2, <1>3 DEF PendingInv, Writing
<1>6. CASE SendTrailers
  <2>1. /\ pc = "send_trailers" /\ pc' = "prepare_responses"
        /\ responses' = responses \ {sending}
        /\ UNCHANGED <<live, handled, sending>>
    BY <1>1, <1>6, SendSteps
  <2>2. Len(out) > 0 /\ out[Len(out)] = [stream |-> sending.stream, kind |-> "data",
                                        body |-> sending.buf]
    BY <2>1 DEF PendingInv
  <2>3. sending \in responses /\ Len(sending.buf) = Len(handled[sending.stream])
    BY <1>1, <2>1 DEF PendingInv, Writing, TypeOK
  <2>4. AnsweredOut(sending.stream)
    BY <1>1, <2>2, <2>3 DEF AnsweredOut, AnsweredBy
  <2>5. ASSUME NEW s \in live, handled[s] # <<>>
        PROVE  AnsweredOut(s)' \/ \E r \in responses' : r.stream = s
    <3>1. AnsweredOut(s) \/ \E r \in responses : r.stream = s /\ r # sending
      BY <2>1, <2>4, <2>5 DEF PendingInv, Writing
    <3>2. AnsweredOut(s) => AnsweredOut(s)'
      BY <1>1, <2>1, AnsweredStays DEF TypeOK
    <3> QED
      BY <3>1, <3>2, <2>1
  <2>6. \A r \in responses' : Len(r.buf) = Len(handled'[r.stream])
    BY <2>1 DEF PendingInv, Writing
  <2> QED
    BY <2>1, <2>5, <2>6, <1>2 DEF PendingInv, Writing
<1>7. CASE New
  <2>1. pc' \in {"read", "panicked"}
    BY <1>7 DEF New, Goto
  <2> QED
    BY <2>1, <1>2 DEF PendingInv, Writing
<1>8. CASE CollectResponses
  <2>1. /\ responses' = HandleRequests /\ pc' = "prepare_responses"
        /\ UNCHANGED <<live, handled, resp_buf>>
    BY <1>8 DEF CollectResponses, streamVars, Goto
  <2>2. \A s \in StreamIds : /\ Len(resp_buf[s]) = Len(handled[s])
                             /\ handled[s] # <<>> => resp_buf[s] # <<>>
    BY <1>1, EmptySeq DEF TypeOK, ResponseInv
  <2>3. ASSUME NEW s \in live, handled[s] # <<>>
        PROVE  \E r \in HandleRequests : r.stream = s
    <3>1. resp_buf[s] # <<>>
      BY <1>1, <2>2, <2>3 DEF TypeOK
    <3>2. [stream |-> s, buf |-> resp_buf[s]] \in HandleRequests
      BY <3>1 DEF HandleRequests
    <3> QED
      BY <3>2
  <2>4. \A r \in HandleRequests : Len(r.buf) = Len(handled[r.stream])
    BY <1>1, <2>2 DEF HandleRequests, TypeOK
  <2> QED
    BY <2>1, <2>3, <2>4, <1>2 DEF PendingInv, Writing
<1>9. CASE ReapStreams
  <2>1. pc' = "read"
    BY <1>9 DEF ReapStreams, Goto
  <2> QED
    BY <2>1, <1>2 DEF PendingInv, Writing
<1>10. CASE pc' \in Stopped
  BY <1>2, <1>10 DEF PendingInv, Stopped, Writing
<1>11. CASE pc' \in {"process", "handle_requests"}
  BY <1>2, <1>11 DEF PendingInv, Writing
<1>12. CASE UNCHANGED vars
  BY <1>12 DEF vars, sendVars, streamVars, PendingInv, AnsweredOut, AnsweredBy
<1> QED
  BY <1>4, <1>5, <1>6, <1>7, <1>8, <1>9, <1>10, <1>11, <1>12, OtherSteps

\* When the thread goes back to the read, every stream has its answers.
LEMMA AnsweredAtReadStep ==
  DispatchInv /\ PendingInv /\ AnsweredAtRead /\ [Next]_vars => AnsweredAtRead'
<1> SUFFICES ASSUME DispatchInv, PendingInv, AnsweredAtRead, [Next]_vars, pc' = "read",
                    NEW s \in StreamIds, handled'[s] # <<>>
             PROVE  AnsweredOut(s)'
  BY DEF AnsweredAtRead, AnsweredOut, AnsweredBy, DataFrames
<1>1. New \/ ReapStreams \/ UNCHANGED vars
  BY DEF Next, RecvFrame, ThreadStep, ProcessBuf, PrepareResponses, Goto, RecvNewStream,
     RecvTrailers, RecvBadPath, RecvData, RecvRstStream, RecvOther, RecvError, Receive,
     ProcessFrame, ProcessPanic, ProcessReturn, CollectResponses, SendHeaders, SendData,
     SendTrailers, SendError
<1>2. handled' = handled
  BY <1>1 DEF New, ReapStreams, vars
<1>3. AnsweredOut(s)
  <2>1. CASE New
    BY <2>1, <1>2 DEF New, PendingInv
  <2>2. CASE ReapStreams
    BY <2>2, <1>2 DEF ReapStreams, PendingInv, Writing
  <2>3. CASE UNCHANGED vars
    BY <2>3 DEF vars, AnsweredAtRead, AnsweredOut, AnsweredBy, DataFrames
  <2> QED
    BY <1>1, <2>1, <2>2, <2>3
<1> QED
  BY <1>2, <1>3, AnsweredStays

-----------------------------------------------------------------------------
(* The theorems *)

LEMMA AnswerInvInit == Init => AnswerInv
<1> SUFFICES ASSUME Init PROVE AnswerInv
  OBVIOUS
<1>1. Len(<<>>) = 0 /\ 0 % 3 = 0
  BY EmptySeq
<1>2. Answers(<<>>, <<>>)
  BY <1>1 DEF Answers
<1>3. ResponseInv
  BY <1>2 DEF Init, ResponseInv
<1>4. OutInv /\ ResponseBlocks
  BY <1>1 DEF Init, OutInv, DataFrames, ResponseBlocks
<1>5. PendingInv /\ BlockInv /\ AnsweredAtRead
  BY <1>1 DEF Init, PendingInv, Writing, BlockInv, AnsweredAtRead
<1> QED
  BY <1>3, <1>4, <1>5, DispatchInvInit DEF AnswerInv

LEMMA AnswerInvStep == AnswerInv /\ [Next]_vars => AnswerInv'
<1> SUFFICES ASSUME AnswerInv, [Next]_vars PROVE AnswerInv'
  OBVIOUS
<1>1. TypeOK
  BY DEF AnswerInv, DispatchInv
<1> QED
  BY <1>1, DispatchInvStep, ResponseStep, OutStep, PendingStep,
     AnsweredAtReadStep, BlockStep DEF AnswerInv

LEMMA AnswerInvariant == Spec => []AnswerInv
<1> QED
  BY AnswerInvInit, AnswerInvStep, PTL DEF Spec

\* A DATA frame of the server carries answers to messages of the stream it is
\* written on, in the order of the calls, each from the first method that has
\* the name the client asked for.
THEOREM AnswersOnOwnStream == Spec => []AnswersOwnStream
<1>1. AnswerInv => AnswersOwnStream
  <2> SUFFICES ASSUME AnswerInv, NEW i \in DataFrames
               PROVE  LET f == out[i]
                          calls == handled[f.stream]
                      IN  /\ Len(f.body) \in 1 .. Len(calls)
                          /\ \A j \in 1 .. Len(f.body) :
                               /\ f.body[j].no = j
                               /\ f.body[j].method \in MethodsNamed(calls[j].path)
                               /\ \A m \in MethodsNamed(calls[j].path) :
                                    f.body[j].method <= m
    BY DEF AnswersOwnStream
  <2>1. out[i] \in OutFrame
    BY ElementOfSeq DEF AnswerInv, DispatchInv, TypeOK, DataFrames
  <2>2. out[i].body \in Seq(Response) /\ handled[out[i].stream] \in Seq(Call)
    BY <2>1 DEF OutFrame, AnswerInv, DispatchInv, TypeOK
  <2>3. out[i].body # <<>> /\ Answers(out[i].body, handled[out[i].stream])
    BY DEF AnswerInv, OutInv
  <2>4. Len(out[i].body) \in Nat \ {0} /\ Len(handled[out[i].stream]) \in Nat
    BY <2>2, <2>3, EmptySeq, LenProperties
  <2> QED
    BY <2>3, <2>4 DEF Answers
<1> QED
  BY <1>1, AnswerInvariant, PTL

\* When the thread is back at the read, every call on a stream it still holds
\* has been answered in some DATA frame.
THEOREM AnswersBeforeReading == Spec => []AnsweredAtRead
<1>1. AnswerInv => AnsweredAtRead
  BY DEF AnswerInv
<1> QED
  BY <1>1, AnswerInvariant, PTL

\* Headers, data and trailers of one response follow each other on the wire.
THEOREM BlocksStayTogether == Spec => []ResponseBlocks
<1>1. AnswerInv => ResponseBlocks
  BY DEF AnswerInv
<1> QED
  BY <1>1, AnswerInvariant, PTL

-----------------------------------------------------------------------------
(* The connection implements MessageExchange. *)

\* The state of MessageExchange that a state of the connection stands for.
AnsweredNos(s) ==
  UNION {1 .. Len(out[i].body) : i \in {k \in DataFrames : out[k].stream = s}}

RReceived   == [s \in StreamIds |-> Received(s)]
RDispatched == [s \in StreamIds |-> 1 .. Len(handled[s])]
RAnswered   == [s \in StreamIds |-> AnsweredNos(s)]
RUp         == pc \notin Stopped

ExchangeInv == AnswerInv /\ DispatchInOrder /\ DispatchPrompt /\ AnswersOwnStream

LEMMA ExchangeInvariant == Spec => []ExchangeInv
<1> QED
  BY AnswerInvariant, DispatchesInOrder, DispatchesPromptly, AnswersOnOwnStream, PTL
  DEF ExchangeInv

\* Message numbers are those of the bodies, and start at one.
LEMMA NumbersTyped ==
  ASSUME NEW b \in Bodies, NEW p \in Nat, p <= Len(b)
  PROVE  {b[i].no : i \in {k \in 1 .. p : b[k].part = b[k].size}}
           \subseteq MessageNumbers \cap (Nat \ {0})
<1> SUFFICES ASSUME NEW k \in 1 .. p PROVE b[k].no \in MessageNumbers \cap (Nat \ {0})
  OBVIOUS
<1>1. b \in Seq(Piece)
  BY BodiesAssumption
<1>2. k \in 1 .. Len(b)
  BY <1>1, LenProperties
<1>3. b[k] \in Piece
  BY <1>1, <1>2, ElementOfSeq
<1> QED
  BY <1>2, <1>3 DEF MessageNumbers, Piece

LEMMA ReceivedTyped ==
  ASSUME TypeOK, NEW s \in StreamIds
  PROVE  Received(s) \subseteq MessageNumbers \cap (Nat \ {0})
BY NumbersTyped DEF TypeOK, Received

\* Outside process_buf, what was received on a stream is what was dispatched.
LEMMA NothingToDispatch ==
  ASSUME ExchangeInv, pc \in Running \ {"process"}
  PROVE  RDispatched = RReceived
<1>1. TypeOK
  BY DEF ExchangeInv, AnswerInv, DispatchInv
<1> SUFFICES ASSUME NEW s \in StreamIds PROVE 1 .. Len(handled[s]) = Received(s)
  BY DEF RDispatched, RReceived
<1>2. Received(s) \subseteq Nat \ {0} /\ Len(handled[s]) \in Nat
  BY <1>1, ReceivedTyped, LenProperties DEF TypeOK
<1>3. 1 .. Len(handled[s]) \subseteq Received(s)
  BY DEF ExchangeInv, DispatchInOrder
<1>4. ASSUME NEW n \in Received(s) PROVE n \in 1 .. Len(handled[s])
  <2>1. n <= Len(handled[s])
    BY DEF ExchangeInv, DispatchPrompt
  <2> QED
    BY <1>2, <2>1
<1> QED
  BY <1>3, <1>4

\* No DATA frame answers a message that was not dispatched.
LEMMA AnsweredDispatched ==
  ASSUME ExchangeInv, NEW s \in StreamIds
  PROVE  AnsweredNos(s) \subseteq 1 .. Len(handled[s])
<1> SUFFICES ASSUME NEW i \in DataFrames, out[i].stream = s
             PROVE  1 .. Len(out[i].body) \subseteq 1 .. Len(handled[s])
  BY DEF AnsweredNos
<1>1. Len(handled[s]) \in Nat
  BY LenProperties DEF ExchangeInv, AnswerInv, DispatchInv, TypeOK
<1>2. Len(out[i].body) \in 1 .. Len(handled[s])
  BY DEF ExchangeInv, AnswersOwnStream
<1> QED
  BY <1>1, <1>2

\* At the read every message that was dispatched has been answered.
LEMMA NothingToAnswer ==
  ASSUME ExchangeInv, pc = "read"
  PROVE  RAnswered = RDispatched
<1> SUFFICES ASSUME NEW s \in StreamIds PROVE AnsweredNos(s) = 1 .. Len(handled[s])
  BY DEF RAnswered, RDispatched
<1>1. handled[s] \in Seq(Call)
  BY DEF ExchangeInv, AnswerInv, DispatchInv, TypeOK
<1>2. CASE handled[s] = <<>>
  BY <1>2, EmptySeq, AnsweredDispatched
<1>3. CASE handled[s] # <<>>
  <2>1. PICK i \in DataFrames : out[i].stream = s /\ Len(out[i].body) = Len(handled[s])
    BY <1>3 DEF ExchangeInv, AnswerInv, AnsweredAtRead
  <2>2. 1 .. Len(handled[s]) \subseteq AnsweredNos(s)
    BY <2>1 DEF AnsweredNos
  <2> QED
    BY <2>2, AnsweredDispatched
<1> QED
  BY <1>2, <1>3

-----------------------------------------------------------------------------
(* Every step is a step of MessageExchange or leaves its state alone *)

\* Appending a frame answers what the frame carries.
LEMMA AnsweredAppend ==
  ASSUME TypeOK, NEW f \in OutFrame, out' = Append(out, f), NEW s \in StreamIds
  PROVE  AnsweredNos(s)' = IF f.kind = "data" /\ f.stream = s
                           THEN AnsweredNos(s) \cup 1 .. Len(f.body)
                           ELSE AnsweredNos(s)
<1>1. /\ Len(out) \in Nat /\ Len(out') = Len(out) + 1
      /\ \A k \in 1 .. Len(out) : out'[k] = out[k]
      /\ out'[Len(out) + 1] = f
  BY OutAppend
<1>2. DataFrames' = {k \in 1 .. Len(out) : out[k].kind = "data"}
                      \cup (IF f.kind = "data" THEN {Len(out) + 1} ELSE {})
  BY <1>1 DEF DataFrames
<1>3. {k \in DataFrames' : out'[k].stream = s}
        = {k \in DataFrames : out[k].stream = s}
            \cup (IF f.kind = "data" /\ f.stream = s THEN {Len(out) + 1} ELSE {})
  BY <1>1, <1>2 DEF DataFrames
<1>4. \A k \in {q \in DataFrames : out[q].stream = s} : out'[k].body = out[k].body
  BY <1>1 DEF DataFrames
<1>5. AnsweredNos(s)' = UNION {1 .. Len(out'[i].body) : i \in {k \in DataFrames' : out'[k].stream = s}}
  BY DEF AnsweredNos
<1> DEFINE A == {k \in DataFrames : out[k].stream = s}
           B == {k \in DataFrames' : out'[k].stream = s}
<1>6. AnsweredNos(s)' = UNION {1 .. Len(out'[i].body) : i \in B}
      /\ AnsweredNos(s) = UNION {1 .. Len(out[i].body) : i \in A}
  BY <1>5 DEF AnsweredNos
<1>7. out'[Len(out) + 1].body = f.body /\ \A k \in A : out'[k].body = out[k].body
  BY <1>1, <1>4
<1>8. B = A \cup (IF f.kind = "data" /\ f.stream = s THEN {Len(out) + 1} ELSE {})
  BY <1>3
<1> HIDE DEF A, B
<1>9. CASE f.kind = "data" /\ f.stream = s
  <2>1. B = A \cup {Len(out) + 1}
    BY <1>8, <1>9
  <2>2. \A m : m \in AnsweredNos(s)' <=> \E i \in B : m \in 1 .. Len(out'[i].body)
    BY <1>6
  <2>3. \A m : m \in AnsweredNos(s) <=> \E i \in A : m \in 1 .. Len(out[i].body)
    BY <1>6
  <2>4. ASSUME NEW m
        PROVE  m \in AnsweredNos(s)' <=> m \in AnsweredNos(s) \/ m \in 1 .. Len(f.body)
    BY <1>7, <2>1, <2>2, <2>3
  <2> QED
    BY <1>9, <2>4
<1>10. CASE ~ (f.kind = "data" /\ f.stream = s)
  <2>1. B = A
    BY <1>8, <1>10
  <2> QED
    BY <1>6, <1>7, <1>10, <2>1
<1> QED
  BY <1>9, <1>10

LEMMA ReceiveMaps ==
  ASSUME ExchangeInv, ExchangeInv', NEW s \in StreamIds, NEW end \in BOOLEAN,
         NEW n \in 0 .. Len(body[s]), RecvData(s, n, end)
  PROVE  Exchange!Receive(s, Received(s)')
<1>1. TypeOK /\ TypeOK' /\ pc = "read"
  BY DEF ExchangeInv, AnswerInv, DispatchInv, RecvData, Receive
<1>2. /\ pos' = [pos EXCEPT ![s] = pos[s] + n] /\ pc' = "process"
      /\ UNCHANGED <<body, handled, out>>
  BY <1>1 DEF RecvData, sendVars, Goto
<1>3. RDispatched = RReceived /\ RAnswered = RDispatched
  BY <1>1, NothingToDispatch, NothingToAnswer DEF Running
<1>4. Received(s) \subseteq Received(s)'
  <2>1. pos[s] \in Nat /\ n \in Nat /\ pos'[s] = pos[s] + n /\ body'[s] = body[s]
    BY <1>1, <1>2 DEF TypeOK
  <2> SUFFICES ASSUME NEW k \in 1 .. pos[s], body[s][k].part = body[s][k].size
               PROVE  body[s][k].no \in Received(s)'
    BY DEF Received
  <2>2. k \in 1 .. pos'[s]
    BY <2>1
  <2> QED
    BY <2>1, <2>2 DEF Received
<1>5. \A t \in StreamIds \ {s} : Received(t)' = Received(t)
  BY <1>1, <1>2 DEF Received, TypeOK
<1>6. RReceived' = [RReceived EXCEPT ![s] = RReceived[s] \cup Received(s)']
  <2>1. Received(s)' = Received(s) \cup Received(s)'
    BY <1>4
  <2> QED
    BY <1>5, <2>1 DEF RReceived
<1>7. UNCHANGED <<RDispatched, RAnswered, RUp>> /\ RUp
  BY <1>1, <1>2 DEF RDispatched, RAnswered, RUp, AnsweredNos, DataFrames, Stopped
<1> QED
  BY <1>3, <1>6, <1>7 DEF Exchange!Receive, RReceived, RDispatched, RAnswered, RUp, AnsweredNos

LEMMA DispatchMaps ==
  ASSUME ExchangeInv, ExchangeInv', ProcessFrame, NEW s \in StreamIds, s = cur.stream
  PROVE  Exchange!Dispatch(s)
<1> DEFINE m == Len(handled[s]) + 1
<1>1. TypeOK /\ TypeOK' /\ DispatchInv
  BY DEF ExchangeInv, AnswerInv, DispatchInv
<1>2. PICK call \in Call : handled' = [handled EXCEPT ![s] = Append(handled[s], call)]
  BY <1>1, ProcessFrameCall
<1>3. UNCHANGED <<pc, pos, body, out>> /\ pc = "process"
  BY DEF ProcessFrame, sendVars, peerVars
<1>4. Len(handled[s]) \in Nat /\ Len(handled'[s]) = m
  BY <1>1, <1>2, LenProperties, AppendProperties DEF TypeOK
<1>5. UNCHANGED <<RReceived, RAnswered, RUp>> /\ RUp /\ Received(s)' = Received(s)
  BY <1>3 DEF RReceived, RAnswered, RUp, Received, AnsweredNos, DataFrames, Stopped
<1>6. 1 .. Len(handled'[s]) = (1 .. Len(handled[s])) \cup {m}
  BY <1>4
<1>7. RDispatched' = [RDispatched EXCEPT ![s] = RDispatched[s] \cup {m}]
  BY <1>1, <1>2, <1>6 DEF RDispatched, TypeOK
<1>8. m \in Received(s) \ 1 .. Len(handled[s])
  <2>1. m \in 1 .. Len(handled'[s])
    BY <1>4
  <2>2. m \in Received(s)'
    BY <1>1, <2>1 DEF ExchangeInv, DispatchInOrder
  <2> QED
    BY <1>4, <1>5, <2>2
<1>9. \A n \in Received(s) \ 1 .. Len(handled[s]) : m <= n
  BY <1>1, <1>4, ReceivedTyped
<1>10. RReceived[s] = Received(s) /\ RDispatched[s] = 1 .. Len(handled[s])
  BY <1>1 DEF RReceived, RDispatched
<1>11. \E k \in RReceived[s] \ RDispatched[s] :
         /\ \A n \in RReceived[s] \ RDispatched[s] : k <= n
         /\ RDispatched' = [RDispatched EXCEPT ![s] = RDispatched[s] \cup {k}]
  BY <1>7, <1>8, <1>9, <1>10
<1> QED
  BY <1>5, <1>11 DEF Exchange!Dispatch, RReceived, RDispatched, RAnswered, RUp, AnsweredNos

LEMMA AnswerMaps ==
  ASSUME ExchangeInv, ExchangeInv', SendData, NEW s \in StreamIds, s = sending.stream
  PROVE  Exchange!Answer(s)
<1> DEFINE f == [stream |-> s, kind |-> "data", body |-> sending.buf]
<1>1. TypeOK /\ PendingInv
  BY DEF ExchangeInv, AnswerInv, DispatchInv
<1>2. /\ f \in OutFrame /\ out' = Append(out, f)
      /\ pc = "send_data" /\ pc' = "send_trailers"
      /\ UNCHANGED <<pos, body, handled>>
  BY <1>1, SendSteps DEF SendData, peerVars
<1>3. Len(sending.buf) = Len(handled[s])
  BY <1>1, <1>2 DEF TypeOK, Reply, PendingInv, Writing
<1>4. f.kind = "data" /\ f.stream = s /\ f.body = sending.buf
  OBVIOUS
<1> HIDE DEF f
<1>5. \A t \in StreamIds : AnsweredNos(t)' = IF t = s THEN 1 .. Len(handled[s])
                                            ELSE AnsweredNos(t)
  <2> SUFFICES ASSUME NEW t \in StreamIds
               PROVE  AnsweredNos(t)' = IF t = s THEN 1 .. Len(handled[s])
                                        ELSE AnsweredNos(t)
    OBVIOUS
  <2>1. AnsweredNos(t) \subseteq 1 .. Len(handled[t])
    BY AnsweredDispatched
  <2>2. AnsweredNos(t)' = IF t = s THEN AnsweredNos(t) \cup 1 .. Len(sending.buf)
                          ELSE AnsweredNos(t)
    BY <1>1, <1>2, <1>4, AnsweredAppend
  <2> QED
    BY <1>3, <2>1, <2>2
<1>6. RAnswered' = [RAnswered EXCEPT ![s] = RDispatched[s]]
  BY <1>3, <1>5 DEF RAnswered, RDispatched
<1>7. RDispatched = RReceived
  BY <1>2, NothingToDispatch DEF Running
<1>8. UNCHANGED <<RReceived, RDispatched, RUp>> /\ RUp
  BY <1>2 DEF RReceived, RDispatched, RUp, Received, Stopped
<1> QED
  BY <1>6, <1>7, <1>8 DEF Exchange!Answer, RReceived, RDispatched, RAnswered, RUp, AnsweredNos

\* Headers and trailers answer nothing.
LEMMA EnvelopeStutters ==
  ASSUME TypeOK, (\E r \in responses : SendHeaders(r)) \/ SendTrailers
  PROVE  UNCHANGED <<RReceived, RDispatched, RAnswered, RUp>>
<1>1. PICK f \in OutFrame : out' = Append(out, f) /\ f.kind # "data"
  BY SendSteps
<1>2. UNCHANGED <<pos, body, handled>> /\ pc \notin Stopped /\ pc' \notin Stopped
  BY DEF SendHeaders, SendTrailers, peerVars, Goto, Stopped
<1>3. \A s \in StreamIds : AnsweredNos(s)' = AnsweredNos(s)
  BY <1>1, AnsweredAppend
<1> QED
  BY <1>2, <1>3 DEF RReceived, RDispatched, RAnswered, RUp, Received

LEMMA StopMaps ==
  ASSUME pc \notin Stopped, pc' \in Stopped, UNCHANGED <<pos, body, handled, out>>
  PROVE  Exchange!Stop
BY DEF Exchange!Stop, Received, DataFrames

\* What the other steps leave alone.
LEMMA StepKinds ==
  ASSUME Next
  PROVE  \/ \E s \in StreamIds, end \in BOOLEAN :
              \E n \in 0 .. Len(body[s]) : RecvData(s, n, end)
         \/ ProcessFrame
         \/ SendData
         \/ (\E r \in responses : SendHeaders(r)) \/ SendTrailers
         \/ pc \notin Stopped /\ UNCHANGED <<pos, body, handled, out>>
BY DEF Next, RecvFrame, ThreadStep, ProcessBuf, PrepareResponses, streamVars, sendVars,
   peerVars, Stopped, New, RecvNewStream, RecvTrailers, RecvBadPath, RecvRstStream,
   RecvOther, RecvError, Receive, ProcessPanic, ProcessReturn, CollectResponses, SendError,
   ReapStreams

LEMMA StepMaps ==
  ASSUME ExchangeInv, ExchangeInv', [Next]_vars
  PROVE  Exchange!Next \/ UNCHANGED <<RReceived, RDispatched, RAnswered, RUp>>
<1>1. TypeOK /\ TypeOK'
  BY DEF ExchangeInv, AnswerInv, DispatchInv
<1>2. CASE UNCHANGED vars
  BY <1>2 DEF vars, sendVars, peerVars, RReceived, RDispatched, RAnswered, RUp, Received,
     AnsweredNos, DataFrames
<1>3. ASSUME NEW s \in StreamIds, NEW end \in BOOLEAN, NEW n \in 0 .. Len(body[s]),
             RecvData(s, n, end)
      PROVE  Exchange!Next
  <2>1. Received(s)' \in SUBSET MessageNumbers
    <3>1. body'[s] \in Bodies /\ pos'[s] \in Nat /\ pos'[s] <= Len(body'[s])
      BY <1>1 DEF TypeOK
    <3> QED
      BY <3>1, NumbersTyped DEF Received
  <2>2. Exchange!Receive(s, Received(s)')
    BY <1>3, ReceiveMaps
  <2> QED
    BY <2>1, <2>2 DEF Exchange!Next
<1>4. CASE ProcessFrame
  <2>1. cur.stream \in StreamIds
    BY <1>4, ProcessFrameCall DEF ExchangeInv, AnswerInv
  <2> QED
    BY <1>4, <2>1, DispatchMaps DEF Exchange!Next
<1>5. CASE SendData
  <2>1. sending.stream \in StreamIds
    BY <1>1, <1>5 DEF SendData, TypeOK, Reply
  <2> QED
    BY <1>5, <2>1, AnswerMaps DEF Exchange!Next
<1>6. CASE (\E r \in responses : SendHeaders(r)) \/ SendTrailers
  BY <1>1, <1>6, EnvelopeStutters
<1>7. CASE pc \notin Stopped /\ UNCHANGED <<pos, body, handled, out>>
  <2>1. CASE pc' \in Stopped
    BY <1>7, <2>1, StopMaps DEF Exchange!Next
  <2>2. CASE pc' \notin Stopped
    BY <1>7, <2>2 DEF RReceived, RDispatched, RAnswered, RUp, Received, AnsweredNos, DataFrames
  <2> QED
    BY <2>1, <2>2
<1> QED
  BY <1>2, <1>3, <1>4, <1>5, <1>6, <1>7, StepKinds

\* The thread of a connection keeps the promise of MessageExchange.
THEOREM ConnectionImplementsExchange == Spec => ImplementsExchange
<1>1. Init => Exchange!Init
  <2> SUFFICES ASSUME Init PROVE Exchange!Init
    OBVIOUS
  <2>1. \A s \in StreamIds : Received(s) = {} /\ 1 .. Len(handled[s]) = {} /\ AnsweredNos(s) = {}
    <3> SUFFICES ASSUME NEW s \in StreamIds
                 PROVE  Received(s) = {} /\ 1 .. Len(handled[s]) = {} /\ AnsweredNos(s) = {}
      OBVIOUS
    <3>1. pos[s] = 0 /\ Len(handled[s]) = 0 /\ Len(out) = 0
      BY EmptySeq DEF Init
    <3>2. 1 .. 0 = {}
      OBVIOUS
    <3>3. Received(s) = {}
      BY <3>1, <3>2 DEF Received
    <3>4. DataFrames = {}
      BY <3>1, <3>2 DEF DataFrames
    <3> QED
      BY <3>1, <3>2, <3>3, <3>4 DEF AnsweredNos
  <2>2. pc \notin Stopped
    BY DEF Init, Stopped
  <2> QED
    BY <2>1, <2>2 DEF Exchange!Init, AnsweredNos
<1>2. ExchangeInv /\ ExchangeInv' /\ [Next]_vars => [Exchange!Next]_(Exchange!vars)
  BY StepMaps DEF Exchange!vars, RReceived, RDispatched, RAnswered, RUp, AnsweredNos
<1> QED
  BY <1>1, <1>2, ExchangeInvariant, PTL DEF Spec, ImplementsExchange, Exchange!Spec

-----------------------------------------------------------------------------
(* Between two reads the thread does a bounded number of steps. *)

\* Streams are opened one at a time, and a response is of a stream.
FiniteInv == IsFiniteSet(live) /\ IsFiniteSet(responses)

\* handle_requests returns at most one response for each stream.
LEMMA OneResponseEach ==
  ASSUME IsFiniteSet(live)
  PROVE  IsFiniteSet(HandleRequests) /\ Cardinality(HandleRequests) <= Cardinality(live)
<1> DEFINE T == {t \in live : resp_buf[t] # <<>>}
           R == {[stream |-> s, buf |-> resp_buf[s]] : s \in T}
           f == [s \in T |-> [stream |-> s, buf |-> resp_buf[s]]]
<1>1. IsFiniteSet(T) /\ Cardinality(T) <= Cardinality(live)
  BY FS_Subset
<1>2. f \in Surjection(T, R)
  BY DEF Surjection
<1>3. HandleRequests = R
  BY DEF HandleRequests
<1> HIDE DEF T, R, f
<1>4. IsFiniteSet(R) /\ Cardinality(R) <= Cardinality(T)
  BY <1>1, <1>2, FS_Surjection
<1>5. Cardinality(R) \in Nat /\ Cardinality(T) \in Nat /\ Cardinality(live) \in Nat
  BY <1>1, <1>4, FS_CardinalityType
<1> QED
  BY <1>1, <1>3, <1>4, <1>5

\* What a step does to the streams held and to the responses to be written
LEMMA HeldSteps ==
  ASSUME [Next]_vars
  PROVE  /\ \/ live' \subseteq live
            \/ \E s \in StreamIds : live' = live \cup {s}
         /\ \/ responses' \subseteq responses
            \/ live' = live /\ responses' = HandleRequests
BY DEF Next, RecvFrame, ThreadStep, ProcessBuf, PrepareResponses, vars, streamVars, sendVars,
   peerVars, New, RecvNewStream, RecvTrailers, RecvBadPath, RecvRstStream, RecvData,
   RecvOther, RecvError, Receive, ProcessFrame, ProcessPanic, ProcessReturn,
   CollectResponses, SendHeaders, SendData, SendTrailers, SendError, ReapStreams

LEMMA FiniteStep == FiniteInv /\ [Next]_vars => FiniteInv'
<1> SUFFICES ASSUME FiniteInv, [Next]_vars PROVE FiniteInv'
  OBVIOUS
<1>1. IsFiniteSet(live) /\ IsFiniteSet(responses)
  BY DEF FiniteInv
<1>2. IsFiniteSet(live')
  <2>1. CASE live' \subseteq live
    BY <1>1, <2>1, FS_Subset
  <2>2. ASSUME NEW s \in StreamIds, live' = live \cup {s} PROVE IsFiniteSet(live')
    BY <1>1, <2>2, FS_AddElement
  <2> QED
    BY <2>1, <2>2, HeldSteps
<1>3. IsFiniteSet(responses')
  <2>1. CASE responses' \subseteq responses
    BY <1>1, <2>1, FS_Subset
  <2>2. CASE responses' = HandleRequests
    BY <1>1, <2>2, OneResponseEach
  <2> QED
    BY <2>1, <2>2, HeldSteps
<1> QED
  BY <1>2, <1>3 DEF FiniteInv

LEMMA FiniteInit == Init => FiniteInv
  BY FS_EmptySet DEF Init, FiniteInv

\* The cases of ThreadWork, one by one
LEMMA WorkCases ==
  /\ pc = "new" => ThreadWork = 2
  /\ pc = "read" => ThreadWork = 1
  /\ pc = "process" =>
       ThreadWork = 3 * Cardinality(live) + 4 + Len(req_buf[cur.stream])
  /\ pc = "handle_requests" => ThreadWork = 3 * Cardinality(live) + 3
  /\ pc = "prepare_responses" => ThreadWork = 3 * Cardinality(responses) + 2
  /\ pc = "send_data" => ThreadWork = 3 * Cardinality(responses) + 1
  /\ pc = "send_trailers" => ThreadWork = 3 * Cardinality(responses)
  /\ pc \in Stopped => ThreadWork = 0
BY DEF ThreadWork, Stopped

\* The numbers in it, before and after a step
LEMMA WorkTyped ==
  ASSUME TypeOK, FiniteInv
  PROVE  /\ Cardinality(live) \in Nat
         /\ Cardinality(responses) \in Nat
         /\ pc = "process" => Len(req_buf[cur.stream]) \in Nat
         /\ pc \in {"send_data", "send_trailers"} => Cardinality(responses) > 0
         /\ ThreadWork \in Nat
<1>1. Cardinality(live) \in Nat /\ Cardinality(responses) \in Nat
  BY FS_CardinalityType DEF FiniteInv
<1>2. pc = "process" => Len(req_buf[cur.stream]) \in Nat
  BY LenProperties DEF TypeOK
<1>3. pc \in {"send_data", "send_trailers"} => Cardinality(responses) > 0
  <2>1. pc \in {"send_data", "send_trailers"} => responses # {}
    BY DEF TypeOK
  <2> QED
    BY <1>1, <2>1, FS_EmptySet DEF FiniteInv
<1>4. pc \in {"new"} \cup Running \cup Stopped
  BY DEF TypeOK
<1>5. ThreadWork \in Nat
  BY <1>1, <1>2, <1>4, WorkCases DEF Running
<1> QED
  BY <1>1, <1>2, <1>3, <1>5

LEMMA ThreadStepWorks ==
  ASSUME TypeOK, FiniteInv, TypeOK', FiniteInv', [Next]_vars
  PROVE  UNCHANGED vars \/ pc = "read" \/ ThreadWork' < ThreadWork
<1>1. /\ Cardinality(live) \in Nat /\ Cardinality(responses) \in Nat
      /\ pc = "process" => Len(req_buf[cur.stream]) \in Nat
      /\ pc \in {"send_data", "send_trailers"} => Cardinality(responses) > 0
      /\ ThreadWork \in Nat
  BY WorkTyped
<1>2. /\ pc' = "read" => ThreadWork' = 1
      /\ pc' = "process" =>
           ThreadWork' = 3 * Cardinality(live') + 4 + Len(req_buf'[cur'.stream])
      /\ pc' = "handle_requests" => ThreadWork' = 3 * Cardinality(live') + 3
      /\ pc' = "prepare_responses" => ThreadWork' = 3 * Cardinality(responses') + 2
      /\ pc' = "send_data" => ThreadWork' = 3 * Cardinality(responses') + 1
      /\ pc' = "send_trailers" => ThreadWork' = 3 * Cardinality(responses')
      /\ pc' \in Stopped => ThreadWork' = 0
  BY DEF ThreadWork, Stopped
<1>3. CASE New
  BY <1>2, <1>3, WorkCases DEF New, Goto, Stopped
<1>4. CASE ProcessFrame
  <2> DEFINE s == cur.stream
             n == ParseFrame(req_buf[s])
  <2>1. s \in StreamIds /\ req_buf[s] \in Seq(Piece) /\ pc = "process"
    BY <1>4 DEF ProcessFrame, TypeOK
  <2>2. /\ n > 0 /\ cur' = cur /\ live' = live /\ pc' = "process"
        /\ req_buf' = [req_buf EXCEPT ![s] = Drain(req_buf[s], n)]
    BY <1>4 DEF ProcessFrame
  <2>3. n \in 0 .. Len(req_buf[s]) /\ Len(Drain(req_buf[s], n)) = Len(req_buf[s]) - n
    BY <2>1, ParseFrameWithin
  <2>4. req_buf'[s] = Drain(req_buf[s], n)
    BY <2>1, <2>2 DEF TypeOK
  <2>5. ThreadWork = 3 * Cardinality(live) + 4 + Len(req_buf[s])
    BY <2>1, WorkCases
  <2>6. ThreadWork' = 3 * Cardinality(live) + 4 + Len(req_buf'[s])
    BY <1>2, <2>2
  <2> HIDE DEF n, s
  <2>7. Len(req_buf[s]) \in Nat
    BY <2>1, LenProperties
  <2> QED
    BY <1>1, <2>2, <2>3, <2>4, <2>5, <2>6, <2>7
<1>5. CASE ProcessPanic
  BY <1>1, <1>2, <1>5, WorkCases DEF ProcessPanic, Goto, Stopped
<1>6. CASE ProcessReturn
  <2>1. pc = "process" /\ pc' = "handle_requests" /\ live' = live
    BY <1>6 DEF ProcessReturn, Goto
  <2> QED
    BY <1>1, <1>2, <2>1, WorkCases
<1>7. CASE CollectResponses
  <2>1. /\ pc = "handle_requests" /\ pc' = "prepare_responses"
        /\ responses' = HandleRequests
    BY <1>7 DEF CollectResponses, Goto
  <2>2. Cardinality(responses') <= Cardinality(live) /\ Cardinality(responses') \in Nat
    BY <2>1, OneResponseEach, FS_CardinalityType DEF FiniteInv
  <2> QED
    BY <1>1, <1>2, <2>1, <2>2, WorkCases
<1>8. CASE \E r \in responses : SendHeaders(r)
  <2>1. pc = "prepare_responses" /\ pc' = "send_data" /\ responses' = responses
    BY <1>8 DEF SendHeaders, Goto
  <2> QED
    BY <1>1, <1>2, <2>1, WorkCases
<1>9. CASE SendData
  <2>1. pc = "send_data" /\ pc' = "send_trailers" /\ responses' = responses
    BY <1>9 DEF SendData, Goto
  <2> QED
    BY <1>1, <1>2, <2>1, WorkCases
<1>10. CASE SendTrailers
  <2>1. /\ pc = "send_trailers" /\ pc' = "prepare_responses"
        /\ responses' = responses \ {sending} /\ sending \in responses
    BY <1>10 DEF SendTrailers, Goto, TypeOK
  <2>2. Cardinality(responses') = Cardinality(responses) - 1
    BY <2>1, FS_RemoveElement DEF FiniteInv
  <2> QED
    BY <1>1, <1>2, <2>1, <2>2, WorkCases
<1>11. CASE SendError
  <2>1. pc \in Writing /\ pc' \in Stopped
    BY <1>11 DEF SendError, Goto, Writing, Stopped
  <2> QED
    BY <1>1, <1>2, <2>1, WorkCases DEF Writing
<1>12. CASE ReapStreams
  <2>1. pc = "prepare_responses" /\ pc' = "read"
    BY <1>12 DEF ReapStreams, Goto
  <2> QED
    BY <1>1, <1>2, <2>1, WorkCases
<1>13. RecvFrame => pc = "read"
  BY DEF RecvFrame, RecvNewStream, RecvTrailers, RecvBadPath, RecvRstStream, RecvData,
     RecvOther, RecvError, Receive
<1> QED
  BY <1>3, <1>4, <1>5, <1>6, <1>7, <1>8, <1>9, <1>10, <1>11, <1>12, <1>13
  DEF Next, ThreadStep, ProcessBuf, PrepareResponses

LEMMA FiniteInvariant == Spec => []FiniteInv
  BY FiniteInit, FiniteStep, PTL DEF Spec

\* Whatever the peer sends, and however many messages and streams there are, the
\* thread comes back to its read, or stops, after boundedly many steps.
THEOREM ThreadAlwaysComesBack == Spec => ThreadComesBack
<1>1. /\ TypeOK /\ FiniteInv /\ TypeOK' /\ FiniteInv' /\ [Next]_vars
      => [pc = "read" \/ ThreadWork' < ThreadWork]_vars
  BY ThreadStepWorks
<1> QED
  BY <1>1, TypeCorrect, FiniteInvariant, PTL DEF Spec, ThreadComesBack
=============================================================================
