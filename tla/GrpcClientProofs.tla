-------------------------- MODULE GrpcClientProofs --------------------------
(***************************************************************************)
(* Proofs about GrpcClient, for any number of calls, any sizes of requests *)
(* and any frames of the server.                                           *)
(***************************************************************************)
EXTENDS GrpcClient, SequenceTheorems, FiniteSetTheorems, TLAPS

\* The client and a server that may send any number of frames
Unbounded ==
  Request \/ Reads \/ ReadFails \/ Return \/ BadResponse \/ BadMessage

UnboundedSpec == Init /\ [][Unbounded]_vars

Begun == 1 .. calls

\* Calls whose HEADERS have been written
Started(k) == k < calls \/ at \in {"idle", "send", "response"}

\* Nothing is known of streams that have not been opened.
FreshInv ==
  /\ \A k \in Calls : k > calls => cursor[k] = 0 /\ state[k] = "Open"
  /\ \A k \in Begun : size[k] > 0
  /\ \A j \in 1 .. Len(sent) : sent[j].kind # "settings" => sent[j].stream \in Begun
  /\ at = "new" => calls = 0
  /\ at = "start" => state[calls] = "Open" /\ cursor[calls] = 0
  /\ at = "start" =>
       \A j \in 1 .. Len(sent) : sent[j].kind = "data" => sent[j].stream # calls

HeadersInv ==
  \A k \in Begun : Started(k) =>
    \E j \in 1 .. Len(sent) : sent[j].kind = "headers" /\ sent[j].stream = k

\* The DATA frames of a stream are its pieces up to the cursor.
PiecesInv ==
  \A k \in Begun :
    /\ \A j \in DataSent(k, Len(sent)) : sent[j].part <= cursor[k]
    /\ \A p \in 1 .. cursor[k] : \E j \in DataSent(k, Len(sent)) : sent[j].part = p

\* A stream that has been left, or is closed locally, has been read to its end.
DoneInv ==
  \A k \in Begun :
    \/ k < calls
    \/ at \in {"idle", "response"}
    \/ at = "send" /\ IsClosedLocal(state[k])
    => cursor[k] = size[k]

\* While a request is sent, a stream that was ended and is open has carried
\* nothing since the HEADERS of the request.
AgainInv ==
  at = "send" =>
    \A k \in Sendable : cursor[k] = size[k] =>
      \A i \in DataSent(k, Len(sent)) :
        \E h \in i + 1 .. Len(sent) : sent[h].kind = "headers"

ClientInv ==
  /\ TypeOK
  /\ FreshInv
  /\ HeadersInv
  /\ PiecesInv
  /\ DoneInv
  /\ AgainInv
  /\ RequestFraming
  /\ EndsAgainOncePerCall

-----------------------------------------------------------------------------
LEMMA ClientInit == Init => ClientInv
<1> SUFFICES ASSUME Init PROVE ClientInv
  OBVIOUS
<1> USE MaxCallsAssumption, MaxSizeAssumption
<1>1. sent = <<>> /\ Len(sent) = 0 /\ calls = 0 /\ at = "new"
  BY DEF Init
<1>2. TypeOK
  <2>1. sent \in Seq(ClientFrame) /\ rcvd \in Seq(ServerFrame)
    BY DEF Init
  <2>2. body \in [Calls -> Seq(Piece)] /\ result \in [Calls -> Seq(Piece)]
    BY DEF Init, NoAnswer
  <2>3. calls \in 0 .. MaxCalls
    BY <1>1
  <2> QED
    BY <2>1, <2>2, <2>3 DEF Init, TypeOK, StreamState
<1>3. FreshInv
  BY <1>1 DEF Init, FreshInv, Begun
<1>4. HeadersInv /\ PiecesInv /\ DoneInv /\ AgainInv
  BY <1>1 DEF HeadersInv, PiecesInv, DoneInv, AgainInv, Begun
<1>5. RequestFraming /\ EndsAgainOncePerCall
  BY <1>1 DEF RequestFraming, EndsAgainOncePerCall
<1> QED
  BY <1>2, <1>3, <1>4, <1>5 DEF ClientInv

\* What a stream's state may become is a state again.
LEMMA StatesStay ==
  \A st \in StreamState : CloseLocal(st) \in StreamState /\ CloseRemote(st) \in StreamState
  BY DEF StreamState, CloseLocal, CloseRemote

LEMMA CloseLocalCloses == \A st \in StreamState : IsClosedLocal(CloseLocal(st))
  BY DEF StreamState, CloseLocal, IsClosedLocal

\* Steps that write nothing keep what is said of the frames written, as long
\* as the streams that have frames keep their cursor and their size.
LEMMA FramingKept ==
  ASSUME ClientInv, UNCHANGED sent,
         \A k \in Begun : size'[k] = size[k]
  PROVE  RequestFraming' /\ EndsAgainOncePerCall'
<1>1. \A j \in 1 .. Len(sent) : sent[j].kind = "data" => sent[j].stream \in Begun
  BY DEF ClientInv, FreshInv
<1>2. RequestFraming'
  BY <1>1 DEF ClientInv, RequestFraming, FramedWell, DataSent
<1>3. EndsAgainOncePerCall'
  BY DEF ClientInv, EndsAgainOncePerCall, DataSent
<1> QED
  BY <1>2, <1>3

-----------------------------------------------------------------------------
(* Type correctness *)

\* The DATA frame SendNextData writes
NextData(k) ==
  [kind |-> "data", stream |-> k, end |-> IsLast(k),
   part |-> IF cursor[k] < size[k] THEN cursor[k] + 1 ELSE 0]

LEMMA NextDataFrame ==
  ASSUME TypeOK, NEW k \in Calls
  PROVE  /\ NextData(k) \in ClientFrame
         /\ NextCursor(k) \in 0 .. MaxSize
         /\ NextCursor(k) <= size[k]
<1> USE MaxSizeAssumption DEF TypeOK
<1>1. cursor[k] \in 0 .. MaxSize /\ size[k] \in 0 .. MaxSize /\ cursor[k] <= size[k]
  OBVIOUS
<1>2. NextCursor(k) \in 0 .. MaxSize /\ NextCursor(k) <= size[k]
  BY <1>1 DEF NextCursor
<1>3. (IF cursor[k] < size[k] THEN cursor[k] + 1 ELSE 0) \in 0 .. MaxSize
  BY <1>1
<1>4. IsLast(k) \in BOOLEAN
  BY DEF IsLast
<1> QED
  BY <1>2, <1>3, <1>4 DEF NextData, ClientFrame

LEMMA TypeStep == TypeOK /\ FreshInv /\ [Unbounded]_vars => TypeOK'
<1> SUFFICES ASSUME TypeOK, FreshInv, [Unbounded]_vars PROVE TypeOK'
  OBVIOUS
<1> USE MaxCallsAssumption, MaxSizeAssumption DEF TypeOK, streamVars, Goto
<1>1. CASE New
  <2>1. sent' \in Seq(ClientFrame)
    BY <1>1 DEF New, ClientFrame
  <2> QED
    BY <1>1, <2>1 DEF New
<1>2. ASSUME NEW n \in 1 .. MaxSize, Call(n) PROVE TypeOK'
  <2>1. calls' \in 1 .. MaxCalls /\ calls' = calls + 1
    BY <1>2 DEF Call
  <2>2. size' \in [Calls -> 0 .. MaxSize]
    <3>1. size' = [size EXCEPT ![calls + 1] = n]
      BY <1>2, <2>1 DEF Call
    <3>2. n \in 0 .. MaxSize /\ size \in [Calls -> 0 .. MaxSize]
      OBVIOUS
    <3> QED
      BY <3>1, <3>2
  <2>3. \A k \in Calls : cursor'[k] <= size'[k]
    <3>1. size' = [size EXCEPT ![calls + 1] = n] /\ cursor' = cursor
      BY <1>2, <2>1 DEF Call
    <3>2. cursor[calls + 1] = 0
      BY <2>1 DEF FreshInv, Calls
    <3> QED
      BY <3>1, <3>2
  <2> QED
    BY <1>2, <2>1, <2>2, <2>3 DEF Call
<1>3. ASSUME NEW p \in Paths, StartRequest(p) PROVE TypeOK'
  <2>1. calls \in Calls
    BY <1>3 DEF StartRequest, Calls
  <2>2. sent' \in Seq(ClientFrame)
    BY <1>3, <2>1 DEF StartRequest, ClientFrame
  <2> QED
    BY <1>3, <2>2 DEF StartRequest
<1>4. ASSUME NEW k \in Calls, SendNextData(k) PROVE TypeOK'
  <2>1. sent' = Append(sent, NextData(k)) /\ cursor' = [cursor EXCEPT ![k] = NextCursor(k)]
    BY <1>4 DEF SendNextData, NextData
  <2>2. sent' \in Seq(ClientFrame)
    BY <2>1, NextDataFrame
  <2>3. cursor' \in [Calls -> 0 .. MaxSize]
    BY <2>1, NextDataFrame
  <2>4. \A j \in Calls : cursor'[j] <= size[j]
    BY <2>1, NextDataFrame
  <2>5. state' \in [Calls -> StreamState]
    BY <1>4, StatesStay DEF SendNextData
  <2> QED
    BY <1>4, <2>2, <2>3, <2>4, <2>5 DEF SendNextData
<1>5. CASE RequestSent
  BY <1>5 DEF RequestSent
<1>6. CASE WriteFails \/ ReadFails \/ BadResponse \/ BadMessage
  BY <1>6 DEF WriteFails, ReadFails, BadResponse, BadMessage
<1>7. CASE Return
  <2>1. calls \in Nat /\ body \in [Calls -> Seq(Piece)]
    OBVIOUS
  <2>2. result' \in [Calls -> Seq(Piece)]
    BY <1>7, <2>1 DEF Return, Answered, Calls
  <2> QED
    BY <1>7, <2>2 DEF Return
<1>8. ASSUME NEW f \in ServerFrames, HandleNextFrame(f) PROVE TypeOK'
  <2>1. f \in ServerFrame
    BY ServerFramesAssumption
  <2>2. f.stream \in Calls /\ f.body \in Seq(Piece)
    BY <2>1 DEF ServerFrame
  <2>3. headers' \in [Calls -> BOOLEAN]
    BY <1>8, <2>2 DEF HandleNextFrame
  <2>4. body' \in [Calls -> Seq(Piece)]
    <3>1. body[f.stream] \o f.body \in Seq(Piece)
      BY <2>2
    <3> QED
      BY <1>8, <2>2, <3>1 DEF HandleNextFrame
  <2>5. state' \in [Calls -> StreamState]
    <3>1. "Closed" \in StreamState
      BY DEF StreamState
    <3> QED
      BY <1>8, <2>2, <3>1, StatesStay DEF HandleNextFrame
  <2>6. rcvd' \in Seq(ServerFrame)
    BY <1>8, <2>1 DEF HandleNextFrame
  <2> QED
    BY <1>8, <2>3, <2>4, <2>5, <2>6 DEF HandleNextFrame
<1>9. CASE UNCHANGED vars
  BY <1>9 DEF vars
<1> QED
  BY <1>1, <1>2, <1>3, <1>4, <1>5, <1>6, <1>7, <1>8, <1>9 DEF Unbounded, Request, Reads

-----------------------------------------------------------------------------
(* Steps that write nothing *)

\* The cursors of open streams stay, and so does the place in the call, or the
\* client panics, or it has read its request to the end and says so.
LEMMA QuietStep ==
  ASSUME ClientInv, TypeOK', UNCHANGED <<sent, calls, size, cursor>>,
         \/ UNCHANGED at
         \/ at' = "panicked"
         \/ at = "send" /\ at' = "response" /\ Sendable = {}
         \/ at = "response" /\ at' = "idle",
         \/ UNCHANGED state
         \/ at = "response" /\ \A k \in Calls : k > calls => state'[k] = state[k]
  PROVE  ClientInv'
<1> USE DEF ClientInv, Begun
<1>1. calls \in Nat
  BY DEF TypeOK
<1>2. FreshInv'
  BY <1>1 DEF FreshInv
<1>3. HeadersInv'
  BY <1>1 DEF HeadersInv, Started
<1>4. PiecesInv'
  BY <1>1 DEF PiecesInv, DataSent
<1>5. DoneInv'
  <2> SUFFICES ASSUME NEW k \in 1 .. calls,
                      \/ k < calls
                      \/ at' \in {"idle", "response"}
                      \/ at' = "send" /\ IsClosedLocal(state'[k])
               PROVE  cursor[k] = size[k]
    BY DEF DoneInv
  <2>1. CASE k < calls
    BY <2>1 DEF DoneInv
  <2>2. CASE at' \in {"idle", "response"}
    <3>1. CASE at \in {"idle", "response"}
      BY <3>1 DEF DoneInv
    <3>2. CASE at = "send" /\ Sendable = {}
      <4>1. IsClosedLocal(state[k])
        BY <3>2 DEF Sendable
      <4> QED
        BY <3>2, <4>1 DEF DoneInv
    <3> QED
      BY <2>2, <3>1, <3>2
  <2>3. CASE at' = "send" /\ IsClosedLocal(state'[k])
    BY <2>3 DEF DoneInv
  <2> QED
    BY <2>1, <2>2, <2>3
<1>6. AgainInv'
  BY DEF AgainInv, Sendable, DataSent
<1>7. RequestFraming' /\ EndsAgainOncePerCall'
  BY FramingKept
<1> QED
  BY <1>2, <1>3, <1>4, <1>5, <1>6, <1>7

\* A call begins: its stream is the next one.
LEMMA CallStep ==
  ASSUME ClientInv, TypeOK', NEW n \in 1 .. MaxSize, Call(n)
  PROVE  ClientInv'
<1> USE MaxCallsAssumption, MaxSizeAssumption DEF ClientInv, Begun
<1>1. /\ calls \in Nat /\ calls' = calls + 1 /\ calls' \in Calls
      /\ at = "idle" /\ at' = "start"
      /\ UNCHANGED <<sent, cursor, state>>
  BY DEF Call, Goto, TypeOK, Calls
<1>2. size' = [size EXCEPT ![calls + 1] = n] /\ size \in [Calls -> 0 .. MaxSize]
  BY <1>1 DEF Call, TypeOK
<1>3. \A k \in 1 .. calls : size'[k] = size[k] /\ k \in Calls
  BY <1>1, <1>2 DEF Calls
<1>4. \A j \in 1 .. Len(sent) : sent[j].kind # "settings" => sent[j].stream \in 1 .. calls
  BY DEF FreshInv
<1>5. FreshInv'
  <2>1. \A k \in 1 .. calls + 1 : size'[k] > 0
    BY <1>1, <1>2, <1>3 DEF FreshInv
  <2>2. state[calls + 1] = "Open" /\ cursor[calls + 1] = 0
    BY <1>1 DEF FreshInv
  <2> QED
    BY <1>1, <1>4, <2>1, <2>2 DEF FreshInv
<1>6. HeadersInv'
  BY <1>1 DEF HeadersInv, Started
<1>7. PiecesInv'
  <2>1. cursor[calls + 1] = 0
    BY <1>1 DEF FreshInv
  <2>2. DataSent(calls + 1, Len(sent)) = {}
    BY <1>1, <1>4 DEF DataSent
  <2>3. \A k \in 1 .. calls + 1 : k \in 1 .. calls \/ k = calls + 1
    BY <1>1
  <2> QED
    BY <1>1, <2>1, <2>2, <2>3 DEF PiecesInv, DataSent
<1>8. DoneInv'
  BY <1>1, <1>3 DEF DoneInv
<1>9. AgainInv'
  BY <1>1 DEF AgainInv
<1>10. RequestFraming' /\ EndsAgainOncePerCall'
  BY <1>1, <1>3, FramingKept
<1> QED
  BY <1>5, <1>6, <1>7, <1>8, <1>9, <1>10
-----------------------------------------------------------------------------
(* Steps that write a frame *)

LEMMA Appending ==
  ASSUME sent \in Seq(ClientFrame), NEW e \in ClientFrame, sent' = Append(sent, e)
  PROVE  /\ Len(sent) \in Nat
         /\ Len(sent') = Len(sent) + 1
         /\ \A j \in 1 .. Len(sent) : sent'[j] = sent[j]
         /\ sent'[Len(sent) + 1] = e
  OBVIOUS

\* What holds of the frames written stays so, and it remains to look at the
\* new one.
LEMMA FramingExtended ==
  ASSUME ClientInv, NEW e \in ClientFrame, sent' = Append(sent, e),
         UNCHANGED size,
         NEW n, n = Len(sent) + 1,
         e.kind = "data" => FramedWell(n)',
         e.kind = "data" /\ e.part = 0 =>
           \A i \in DataSent(e.stream, Len(sent)) :
             \E h \in i + 1 .. Len(sent) : sent[h].kind = "headers"
  PROVE  RequestFraming' /\ EndsAgainOncePerCall'
<1>1. /\ Len(sent) \in Nat
      /\ Len(sent') = Len(sent) + 1
      /\ \A j \in 1 .. Len(sent) : sent'[j] = sent[j]
      /\ sent'[Len(sent) + 1] = e
  BY Appending DEF ClientInv, TypeOK
<1>2. \A j \in 1 .. Len(sent') : j \in 1 .. Len(sent) \/ j = Len(sent) + 1
  BY <1>1
<1>3. ASSUME NEW i \in 1 .. Len(sent), sent[i].kind = "data"
      PROVE  FramedWell(i)'
  <2>1. FramedWell(i)
    BY <1>3 DEF ClientInv, RequestFraming
  <2>2. \A j \in 1 .. i - 1 : sent'[j] = sent[j]
    BY <1>1
  <2>3. sent'[i] = sent[i] /\ size' = size
    BY <1>1
  <2> QED
    BY <2>1, <2>2, <2>3 DEF FramedWell, DataSent
<1>4. RequestFraming'
  <2> SUFFICES ASSUME NEW i \in 1 .. Len(sent'), sent'[i].kind = "data"
               PROVE  FramedWell(i)'
    BY DEF RequestFraming
  <2>1. CASE i \in 1 .. Len(sent)
    BY <1>1, <1>3, <2>1
  <2>2. CASE i = n
    BY <1>1, <2>2
  <2> QED
    BY <1>2, <2>1, <2>2
<1>5. EndsAgainOncePerCall'
  <2> SUFFICES ASSUME NEW j \in 1 .. Len(sent'),
                      sent'[j].kind = "data" /\ sent'[j].part = 0,
                      NEW i \in 1 .. j - 1,
                      sent'[i].kind = "data" /\ sent'[i].stream = sent'[j].stream
               PROVE  \E h \in i + 1 .. j - 1 : sent'[h].kind = "headers"
    BY DEF EndsAgainOncePerCall, DataSent
  <2>1. i \in 1 .. Len(sent) /\ sent'[i] = sent[i]
    BY <1>1, <1>2
  <2>2. CASE j \in 1 .. Len(sent)
    <3>1. sent'[j] = sent[j] /\ i \in DataSent(sent[j].stream, j - 1)
      BY <1>1, <2>1, <2>2 DEF DataSent
    <3>2. PICK h \in i + 1 .. j - 1 : sent[h].kind = "headers"
      BY <2>2, <3>1 DEF ClientInv, EndsAgainOncePerCall
    <3>3. h \in 1 .. Len(sent)
      BY <1>1, <2>1, <2>2, <3>2
    <3> QED
      BY <1>1, <3>2, <3>3
  <2>3. CASE j = Len(sent) + 1
    <3>1. i \in DataSent(e.stream, Len(sent))
      BY <1>1, <2>1, <2>3 DEF DataSent
    <3>2. PICK h \in i + 1 .. Len(sent) : sent[h].kind = "headers"
      BY <1>1, <2>3, <3>1
    <3>3. h \in 1 .. Len(sent) /\ h \in i + 1 .. j - 1
      BY <1>1, <2>1, <2>3, <3>2
    <3> QED
      BY <1>1, <3>2, <3>3
  <2> QED
    BY <1>2, <2>2, <2>3
<1> QED
  BY <1>4, <1>5
LEMMA NewStep == ClientInv /\ TypeOK' /\ New => ClientInv'
<1> SUFFICES ASSUME ClientInv, TypeOK', New PROVE ClientInv'
  OBVIOUS
<1> USE DEF ClientInv, Begun
<1> DEFINE e == [kind |-> "settings"]
<1>1. /\ sent' = Append(sent, e) /\ e \in ClientFrame /\ e.kind = "settings"
      /\ at' = "idle" /\ calls = 0
      /\ UNCHANGED <<calls, state, size, cursor>>
  BY DEF New, Goto, streamVars, ClientFrame, FreshInv
<1>2. /\ Len(sent) \in Nat /\ Len(sent') = Len(sent) + 1
      /\ \A j \in 1 .. Len(sent) : sent'[j] = sent[j]
      /\ sent'[Len(sent) + 1] = e
  BY <1>1, Appending DEF TypeOK
<1> HIDE DEF e
<1>3. FreshInv'
  BY <1>1, <1>2 DEF FreshInv
<1>4. HeadersInv' /\ PiecesInv' /\ DoneInv' /\ AgainInv'
  BY <1>1 DEF HeadersInv, PiecesInv, DoneInv, AgainInv
<1>5. RequestFraming' /\ EndsAgainOncePerCall'
  BY <1>1, FramingExtended
<1> QED
  BY <1>3, <1>4, <1>5

LEMMA StartRequestStep ==
  ASSUME ClientInv, TypeOK', NEW p \in Paths, StartRequest(p)
  PROVE  ClientInv'
<1> USE DEF ClientInv, Begun
<1> DEFINE e == [kind |-> "headers", stream |-> calls, path |-> p]
<1>1. /\ sent' = Append(sent, e) /\ e.kind = "headers" /\ e.stream = calls
      /\ at = "start" /\ at' = "send" /\ calls \in Nat /\ calls \in Calls
      /\ UNCHANGED <<calls, state, size, cursor>>
  BY DEF StartRequest, Goto, streamVars, TypeOK, Calls
<1>2. e \in ClientFrame
  BY <1>1 DEF ClientFrame
<1>3. /\ Len(sent) \in Nat /\ Len(sent') = Len(sent) + 1
      /\ \A j \in 1 .. Len(sent) : sent'[j] = sent[j]
      /\ sent'[Len(sent) + 1] = e
  BY <1>1, <1>2, Appending DEF TypeOK
<1> HIDE DEF e
<1>4. \A j \in 1 .. Len(sent') : j \in 1 .. Len(sent) \/ j = Len(sent) + 1
  BY <1>3
<1>5. FreshInv'
  <2>1. calls \in 1 .. calls
    BY <1>1 DEF Calls
  <2> QED
    BY <1>1, <1>3, <1>4, <2>1 DEF FreshInv
<1>6. HeadersInv'
  <2> SUFFICES ASSUME NEW k \in 1 .. calls
               PROVE  \E j \in 1 .. Len(sent') : sent'[j].kind = "headers" /\ sent'[j].stream = k
    BY <1>1 DEF HeadersInv
  <2>1. CASE k = calls
    BY <1>1, <1>3, <2>1
  <2>2. CASE k < calls
    <3>1. PICK j \in 1 .. Len(sent) : sent[j].kind = "headers" /\ sent[j].stream = k
      BY <2>2 DEF HeadersInv, Started
    <3> QED
      BY <1>3, <3>1
  <2> QED
    BY <1>1, <2>1, <2>2
<1>7. \A k : DataSent(k, Len(sent))' = DataSent(k, Len(sent))
  BY <1>1, <1>3, <1>4 DEF DataSent
<1>8. \A k : \A j \in DataSent(k, Len(sent)) : sent'[j] = sent[j] /\ j \in 1 .. Len(sent)
  BY <1>3 DEF DataSent
<1>9. PiecesInv'
  BY <1>1, <1>7, <1>8 DEF PiecesInv
<1>10. DoneInv'
  <2>1. ~ IsClosedLocal(state[calls])
    BY <1>1 DEF FreshInv, IsClosedLocal
  <2> QED
    BY <1>1, <2>1 DEF DoneInv
<1>11. AgainInv'
  <2> SUFFICES ASSUME NEW k, NEW i \in DataSent(k, Len(sent))
               PROVE  \E h \in i + 1 .. Len(sent') : sent'[h].kind = "headers"
    BY <1>7 DEF AgainInv
  <2>1. i \in 1 .. Len(sent)
    BY <1>8
  <2>2. Len(sent) + 1 \in i + 1 .. Len(sent')
    BY <1>3, <2>1
  <2> QED
    BY <1>1, <1>3, <2>2
<1>12. RequestFraming' /\ EndsAgainOncePerCall'
  BY <1>1, <1>2, FramingExtended
<1> QED
  BY <1>5, <1>6, <1>9, <1>10, <1>11, <1>12
\* The next frame of stream k, next to what has been written of it
LEMMA NextPiece ==
  ASSUME ClientInv, NEW k \in Calls, SendNextData(k)
  PROVE  /\ k \in Begun /\ at = "send"
         /\ IF cursor[k] < size[k]
            THEN /\ NextData(k).part = cursor[k] + 1
                 /\ NextCursor(k) = cursor[k] + 1
            ELSE /\ NextData(k).part = 0
                 /\ NextCursor(k) = size[k] /\ cursor[k] = size[k]
         /\ NextData(k).end <=> NextCursor(k) = size[k]
         /\ cursor[k] \in Nat /\ size[k] \in Nat \ {0}
<1>1. k \in 1 .. calls /\ at = "send"
  BY DEF SendNextData, Sendable
<1>2. cursor[k] \in Nat /\ size[k] \in Nat /\ cursor[k] <= size[k] /\ size[k] > 0
  BY <1>1, MaxSizeAssumption DEF ClientInv, TypeOK, FreshInv, Begun
<1>3. NextData(k).end = IsLast(k)
  BY DEF NextData
<1>4. IsLast(k) <=> NextCursor(k) = size[k]
  BY DEF IsLast
<1>5. NextData(k).end <=> NextCursor(k) = size[k]
  BY <1>3, <1>4
<1>6. NextData(k).part = IF cursor[k] < size[k] THEN cursor[k] + 1 ELSE 0
  BY DEF NextData
<1>7. IF cursor[k] < size[k]
      THEN /\ NextData(k).part = cursor[k] + 1
           /\ NextCursor(k) = cursor[k] + 1
      ELSE /\ NextData(k).part = 0
           /\ NextCursor(k) = size[k] /\ cursor[k] = size[k]
  BY <1>2, <1>6 DEF NextCursor
<1> QED
  BY <1>1, <1>2, <1>5, <1>7 DEF Begun

LEMMA SendStepFraming ==
  ASSUME ClientInv, NEW k \in Calls, SendNextData(k)
  PROVE  RequestFraming' /\ EndsAgainOncePerCall'
<1> DEFINE e == NextData(k)
<1>0. PICK n : n = Len(sent) + 1
  OBVIOUS
<1>1. /\ sent' = Append(sent, e) /\ size' = size
      /\ e \in ClientFrame /\ e.kind = "data" /\ e.stream = k
  BY NextDataFrame DEF SendNextData, NextData, ClientInv
<1>2. /\ Len(sent) \in Nat /\ \A j \in 1 .. Len(sent) : sent'[j] = sent[j]
      /\ sent'[n] = e
  BY <1>0, <1>1, Appending DEF ClientInv, TypeOK
<1>3. /\ k \in Begun /\ at = "send"
      /\ IF cursor[k] < size[k]
         THEN e.part = cursor[k] + 1 /\ NextCursor(k) = cursor[k] + 1
         ELSE e.part = 0 /\ NextCursor(k) = size[k] /\ cursor[k] = size[k]
      /\ e.end <=> NextCursor(k) = size[k]
      /\ cursor[k] \in Nat /\ size[k] \in Nat \ {0}
  BY NextPiece
<1>4. n - 1 = Len(sent) /\ n \in Nat
  BY <1>0, <1>2
<1> HIDE DEF e
<1>5. /\ \A j \in DataSent(k, Len(sent)) : sent[j].part <= cursor[k]
      /\ \A p \in 1 .. cursor[k] : \E j \in DataSent(k, Len(sent)) : sent[j].part = p
  BY <1>3 DEF ClientInv, PiecesInv
<1>6. \A j \in DataSent(k, Len(sent)) : sent[j].part \in Nat /\ j \in 1 .. Len(sent)
  <2> SUFFICES ASSUME NEW j \in DataSent(k, Len(sent))
               PROVE  sent[j].part \in Nat /\ j \in 1 .. Len(sent)
    OBVIOUS
  <2>1. j \in 1 .. Len(sent) /\ sent[j].kind = "data"
    BY DEF DataSent
  <2>2. sent[j] \in ClientFrame
    BY <2>1 DEF ClientInv, TypeOK
  <2> QED
    BY <2>1, <2>2, MaxSizeAssumption DEF ClientFrame
<1>7. FramedWell(n)'
  <2>1. \E j \in 1 .. Len(sent) : sent'[j].kind = "headers" /\ sent'[j].stream = k
    BY <1>2, <1>3 DEF ClientInv, HeadersInv, Started
  <2>2. \A j \in DataSent(k, Len(sent)) : sent[j].part < e.part \/ e.part = 0
    BY <1>3, <1>5, <1>6
  <2>3. ASSUME NEW q \in 1 .. cursor[k]
        PROVE  \E j \in 1 .. Len(sent) : /\ sent'[j].kind = "data" /\ sent'[j].stream = k
                                         /\ sent'[j].part > 0 /\ sent'[j].part = q
    <3>1. PICK j \in DataSent(k, Len(sent)) : sent[j].part = q
      BY <1>5
    <3>2. j \in 1 .. Len(sent) /\ sent[j].kind = "data" /\ sent[j].stream = k /\ q > 0
      BY <1>3 DEF DataSent
    <3> QED
      BY <1>2, <3>1, <3>2
  <2>4. \A q \in 1 .. e.part - 1 : q \in 1 .. cursor[k]
    BY <1>3
  <2>5. e.end <=> e.part \in {0, size[k]}
    BY <1>3
  <2>6. ASSUME e.part = 0
        PROVE  \E j \in 1 .. Len(sent) : /\ sent'[j].kind = "data" /\ sent'[j].stream = k
                                         /\ sent'[j].part > 0 /\ sent'[j].end
    <3>1. PICK j \in DataSent(k, Len(sent)) : sent[j].part = size[k]
      BY <1>3, <1>5, <2>6
    <3>2. j \in 1 .. Len(sent) /\ sent[j].kind = "data" /\ sent[j].stream = k
      BY DEF DataSent
    <3>3. sent[j].end
      BY <3>1, <3>2 DEF ClientInv, RequestFraming, FramedWell
    <3> QED
      BY <1>2, <1>3, <3>1, <3>2, <3>3
  <2>7. \A j \in 1 .. n - 1 : sent'[j].kind = "data" /\ sent'[j].stream = k =>
          sent'[j].part < e.part \/ e.part = 0
    BY <1>2, <1>4, <2>2 DEF DataSent
  <2> QED
    BY <1>1, <1>2, <1>4, <2>1, <2>3, <2>4, <2>5, <2>6, <2>7 DEF FramedWell, DataSent
<1>8. ASSUME e.part = 0
      PROVE  \A i \in DataSent(k, Len(sent)) :
               \E h \in i + 1 .. Len(sent) : sent[h].kind = "headers"
  <2>1. cursor[k] = size[k] /\ k \in Sendable
    BY <1>3, <1>8 DEF SendNextData
  <2> QED
    BY <1>3, <2>1 DEF ClientInv, AgainInv
<1> QED
  BY <1>0, <1>1, <1>7, <1>8, FramingExtended
LEMMA SendStep ==
  ASSUME ClientInv, TypeOK', NEW k \in Calls, SendNextData(k)
  PROVE  ClientInv'
<1> DEFINE e == NextData(k)
<1>1. /\ sent' = Append(sent, e) /\ UNCHANGED <<at, calls, size>>
      /\ e \in ClientFrame /\ e.kind = "data" /\ e.stream = k
      /\ cursor' = [cursor EXCEPT ![k] = NextCursor(k)]
      /\ state' = [state EXCEPT ![k] = IF IsLast(k) THEN CloseLocal(@) ELSE @]
      /\ k \in Sendable
  BY NextDataFrame DEF SendNextData, NextData, ClientInv
<1>2. /\ Len(sent) \in Nat /\ Len(sent') = Len(sent) + 1
      /\ \A j \in 1 .. Len(sent) : sent'[j] = sent[j]
      /\ sent'[Len(sent) + 1] = e
  BY <1>1, Appending DEF ClientInv, TypeOK
<1>3. /\ k \in Begun /\ at = "send"
      /\ IF cursor[k] < size[k]
         THEN e.part = cursor[k] + 1 /\ NextCursor(k) = cursor[k] + 1
         ELSE e.part = 0 /\ NextCursor(k) = size[k] /\ cursor[k] = size[k]
      /\ cursor[k] \in Nat /\ size[k] \in Nat \ {0}
  BY NextPiece
<1> HIDE DEF e
<1>4. \A j \in 1 .. Len(sent') : j \in 1 .. Len(sent) \/ j = Len(sent) + 1
  BY <1>2
<1>5. /\ cursor \in [Calls -> 0 .. MaxSize] /\ state \in [Calls -> StreamState]
      /\ calls \in Nat
  BY DEF ClientInv, TypeOK
<1>6. /\ cursor'[k] = NextCursor(k)
      /\ \A j \in Calls \ {k} : cursor'[j] = cursor[j] /\ state'[j] = state[j]
      /\ state'[k] = IF IsLast(k) THEN CloseLocal(state[k]) ELSE state[k]
  BY <1>1, <1>5
<1>7. \A j \in Begun : j \in Calls
  <2>1. calls \in 0 .. MaxCalls
    BY DEF ClientInv, TypeOK
  <2> QED
    BY <2>1, MaxCallsAssumption DEF Begun, Calls
<1>8. FreshInv'
  <2>1. \A j \in Calls : j > calls => cursor'[j] = 0 /\ state'[j] = "Open"
    BY <1>3, <1>5, <1>6 DEF ClientInv, FreshInv, Begun
  <2>2. \A j \in 1 .. Len(sent') : sent'[j].kind # "settings" => sent'[j].stream \in Begun
    BY <1>1, <1>2, <1>3, <1>4 DEF ClientInv, FreshInv
  <2> QED
    BY <1>1, <1>3, <2>1, <2>2 DEF ClientInv, FreshInv, Begun
<1>9. HeadersInv'
  <2> SUFFICES ASSUME NEW j \in Begun
               PROVE  \E h \in 1 .. Len(sent') : sent'[h].kind = "headers" /\ sent'[h].stream = j
    BY <1>1 DEF HeadersInv, Begun
  <2>1. PICK h \in 1 .. Len(sent) : sent[h].kind = "headers" /\ sent[h].stream = j
    BY <1>3 DEF ClientInv, HeadersInv, Started
  <2> QED
    BY <1>2, <2>1
<1>10. \A j : /\ DataSent(j, Len(sent))' =
                 IF j = k THEN DataSent(j, Len(sent)) \cup {Len(sent) + 1}
                 ELSE DataSent(j, Len(sent))
              /\ \A i \in DataSent(j, Len(sent)) : i \in 1 .. Len(sent) /\ sent'[i] = sent[i]
  BY <1>1, <1>2, <1>4 DEF DataSent
<1>11. PiecesInv'
  <2> SUFFICES ASSUME NEW j \in Begun
               PROVE  /\ \A i \in DataSent(j, Len(sent))' : sent'[i].part <= cursor'[j]
                      /\ \A p \in 1 .. cursor'[j] :
                           \E i \in DataSent(j, Len(sent))' : sent'[i].part = p
    BY <1>1 DEF PiecesInv, Begun
  <2>1. /\ \A i \in DataSent(j, Len(sent)) : sent[i].part <= cursor[j]
        /\ \A p \in 1 .. cursor[j] : \E i \in DataSent(j, Len(sent)) : sent[i].part = p
    BY DEF ClientInv, PiecesInv
  <2>2. CASE j # k
    BY <1>6, <1>7, <1>10, <2>1, <2>2
  <2>3. CASE j = k
    <3>1. \A i \in DataSent(k, Len(sent)) : sent[i].part \in Nat
      <4> SUFFICES ASSUME NEW i \in DataSent(k, Len(sent)) PROVE sent[i].part \in Nat
        OBVIOUS
      <4>1. sent[i] \in ClientFrame /\ sent[i].kind = "data"
        BY DEF DataSent, ClientInv, TypeOK
      <4> QED
        BY <4>1, MaxSizeAssumption DEF ClientFrame
    <3>2. cursor[k] <= cursor'[k] /\ e.part <= cursor'[k] /\ cursor'[k] \in Nat
      BY <1>3, <1>6
    <3>3. \A i \in DataSent(k, Len(sent))' : sent'[i].part <= cursor'[k]
      <4> SUFFICES ASSUME NEW i \in DataSent(k, Len(sent))'
                   PROVE  sent'[i].part <= cursor'[k]
        OBVIOUS
      <4>1. CASE i = Len(sent) + 1
        BY <1>2, <3>2, <4>1
      <4>2. CASE i \in DataSent(k, Len(sent))
        <5>1. sent[i].part <= cursor[k] /\ sent'[i] = sent[i] /\ sent[i].part \in Nat
          BY <1>10, <2>1, <2>3, <3>1, <4>2
        <5> QED
          BY <1>3, <3>2, <5>1
      <4> QED
        BY <1>10, <4>1, <4>2
    <3>4. ASSUME NEW p \in 1 .. cursor'[k]
          PROVE  \E i \in DataSent(k, Len(sent))' : sent'[i].part = p
      <4>1. CASE p \in 1 .. cursor[k]
        BY <1>10, <2>1, <2>3, <4>1
      <4>2. CASE p = cursor[k] + 1 /\ e.part = p
        BY <1>2, <1>10, <4>2
      <4> QED
        BY <1>3, <1>6, <4>1, <4>2
    <3> QED
      BY <2>3, <3>3, <3>4
  <2> QED
    BY <2>2, <2>3
<1>12. DoneInv'
  <2> SUFFICES ASSUME NEW j \in Begun,
                      j < calls \/ IsClosedLocal(state'[j])
               PROVE  cursor'[j] = size[j]
    BY <1>1, <1>3 DEF DoneInv, Begun
  <2>1. CASE j # k
    BY <1>3, <1>6, <1>7, <2>1 DEF ClientInv, DoneInv
  <2>2. CASE j = k /\ k < calls
    BY <1>3, <1>6, <2>2 DEF ClientInv, DoneInv
  <2>3. CASE j = k /\ IsClosedLocal(state'[k])
    <3>1. IsLast(k)
      BY <1>1, <1>6, <2>3 DEF Sendable
    <3> QED
      BY <1>6, <2>3, <3>1 DEF IsLast
  <2> QED
    BY <2>1, <2>2, <2>3
<1>13. AgainInv'
  <2> SUFFICES ASSUME NEW j \in Begun, ~ IsClosedLocal(state'[j]), cursor'[j] = size[j],
                      NEW i \in DataSent(j, Len(sent))'
               PROVE  \E h \in i + 1 .. Len(sent') : sent'[h].kind = "headers"
    BY <1>1 DEF AgainInv, Sendable, Begun
  <2>1. j # k
    <3>1. ASSUME j = k PROVE FALSE
      <4>1. IsLast(k)
        BY <1>6, <3>1 DEF IsLast
      <4> QED
        BY <1>5, <1>6, <3>1, <4>1, CloseLocalCloses
    <3> QED
      BY <3>1
  <2>2. j \in Sendable /\ cursor[j] = size[j] /\ i \in DataSent(j, Len(sent))
    BY <1>6, <1>7, <1>10, <2>1 DEF Sendable, Begun
  <2>3. PICK h \in i + 1 .. Len(sent) : sent[h].kind = "headers"
    BY <1>3, <2>2 DEF ClientInv, AgainInv
  <2>4. h \in 1 .. Len(sent)
    BY <1>2, <1>10, <2>2, <2>3
  <2> QED
    BY <1>2, <2>3, <2>4
<1>14. RequestFraming' /\ EndsAgainOncePerCall'
  BY SendStepFraming
<1> QED
  BY <1>8, <1>9, <1>11, <1>12, <1>13, <1>14 DEF ClientInv

-----------------------------------------------------------------------------
LEMMA ClientStep == ClientInv /\ [Unbounded]_vars => ClientInv'
<1> SUFFICES ASSUME ClientInv, [Unbounded]_vars PROVE ClientInv'
  OBVIOUS
<1>0. TypeOK'
  BY TypeStep DEF ClientInv
<1> USE DEF streamVars, Goto
<1>1. CASE New
  BY <1>0, <1>1, NewStep
<1>2. ASSUME NEW n \in 1 .. MaxSize, Call(n) PROVE ClientInv'
  BY <1>0, <1>2, CallStep
<1>3. ASSUME NEW p \in Paths, StartRequest(p) PROVE ClientInv'
  BY <1>0, <1>3, StartRequestStep
<1>4. ASSUME NEW k \in Calls, SendNextData(k) PROVE ClientInv'
  BY <1>0, <1>4, SendStep
<1>5. CASE RequestSent
  BY <1>0, <1>5, QuietStep DEF RequestSent
<1>6. CASE WriteFails \/ ReadFails \/ BadResponse \/ BadMessage
  BY <1>0, <1>6, QuietStep DEF WriteFails, ReadFails, BadResponse, BadMessage
<1>7. CASE Return
  BY <1>0, <1>7, QuietStep DEF Return, Answered
<1>8. ASSUME NEW f \in ServerFrames, HandleNextFrame(f) PROVE ClientInv'
  <2>1. \A k \in Calls : k > calls => state'[k] = state[k]
    <3>1. state \in [Calls -> StreamState] /\ calls \in Nat
      BY DEF ClientInv, TypeOK
    <3>2. \A k \in Calls : k # f.stream => state'[k] = state[k]
      BY <1>8, <3>1 DEF HandleNextFrame
    <3> QED
      BY <1>8, <3>1, <3>2 DEF HandleNextFrame
  <2> QED
    BY <1>0, <1>8, <2>1, QuietStep DEF HandleNextFrame, Waiting
<1>9. CASE UNCHANGED vars
  BY <1>0, <1>9, QuietStep DEF vars
<1> QED
  BY <1>1, <1>2, <1>3, <1>4, <1>5, <1>6, <1>7, <1>8, <1>9 DEF Unbounded, Request, Reads

LEMMA ClientInvariant == UnboundedSpec => []ClientInv
  BY ClientInit, ClientStep, PTL DEF UnboundedSpec

LEMMA SpecUnbounded == Spec => UnboundedSpec
<1>1. [Next]_vars => [Unbounded]_vars
  BY DEF Next, GetResponse, Unbounded
<1> QED
  BY <1>1, PTL DEF Spec, UnboundedSpec

-----------------------------------------------------------------------------
(* What the client reads *)

\* Frames of the server whose pieces went into the body of stream k
Carriers(k) ==
  {i \in 1 .. Len(rcvd) : rcvd[i].stream = k /\ rcvd[i].kind = "data"}

\* off says after which piece of the body each of them was put.
Placed(k, off) ==
  /\ \A i \in Carriers(k) :
       /\ off[i] + Len(rcvd[i].body) <= Len(body[k])
       /\ \A j \in 1 .. Len(rcvd[i].body) : body[k][off[i] + j] = rcvd[i].body[j]
  /\ \A i, h \in Carriers(k) : i < h => off[i] + Len(rcvd[i].body) <= off[h]
  /\ \A n \in 1 .. Len(body[k]) : \E i \in Carriers(k) :
       \E j \in 1 .. Len(rcvd[i].body) : n = off[i] + j

\* A body is all that came on its stream, in order, and is cut into frames.
BodyInv ==
  \A k \in Calls :
    /\ WellFramed(body[k])
    /\ \E off \in [1 .. Len(rcvd) -> Nat] : Placed(k, off)
    /\ headers[k] => \E i \in 1 .. Len(rcvd) : rcvd[i].stream = k /\ rcvd[i].kind = "headers"

\* Nothing is read on a stream before its request has been sent, nor after it
\* was closed while its call waits.
StreamInv ==
  /\ \A i \in 1 .. Len(rcvd) : rcvd[i].stream \in Begun
  /\ at \in {"start", "send"} =>
       /\ state[calls] \in {"Open", "HalfClosedLocal"}
       /\ \A i \in 1 .. Len(rcvd) : rcvd[i].stream # calls
  /\ at = "response" =>
       /\ state[calls] \in {"HalfClosedLocal", "Closed"}
       /\ \A i \in 1 .. Len(rcvd) : rcvd[i].stream = calls /\ Ends(rcvd[i]) =>
            /\ state[calls] = "Closed"
            /\ \A j \in i + 1 .. Len(rcvd) : rcvd[j].stream # calls
       /\ state[calls] = "Closed" =>
            \E i \in 1 .. Len(rcvd) : rcvd[i].stream = calls /\ Ends(rcvd[i])

ReadInv == BodyInv /\ StreamInv /\ AnswerIsStreamBody

-----------------------------------------------------------------------------
LEMMA ReadInit == Init => ReadInv
<1> SUFFICES ASSUME Init PROVE ReadInv
  OBVIOUS
<1>1. Len(rcvd) = 0 /\ \A k \in Calls : body[k] = <<>> /\ Len(body[k]) = 0
  BY EmptySeq DEF Init
<1>2. WellFramed(<<>>)
  BY EmptySeq DEF WellFramed
<1>3. ASSUME NEW k \in Calls PROVE \E off \in [1 .. Len(rcvd) -> Nat] : Placed(k, off)
  <2> DEFINE none == [i \in 1 .. Len(rcvd) |-> 0]
  <2>1. none \in [1 .. Len(rcvd) -> Nat]
    OBVIOUS
  <2>2. Placed(k, none)
    BY <1>1 DEF Placed, Carriers
  <2> QED
    BY <2>1, <2>2
<1>4. BodyInv
  BY <1>1, <1>2, <1>3 DEF BodyInv, Init
<1>5. StreamInv /\ AnswerIsStreamBody
  BY <1>1 DEF Init, StreamInv, AnswerIsStreamBody
<1> QED
  BY <1>4, <1>5 DEF ReadInv

\* What a frame that is read changes.
LEMMA FrameRead ==
  ASSUME TypeOK, NEW f \in ServerFrames, HandleNextFrame(f)
  PROVE  /\ f \in ServerFrame /\ f.stream \in Calls /\ f.stream \in Begun
         /\ Len(rcvd) \in Nat
         /\ Len(rcvd') = Len(rcvd) + 1
         /\ \A i \in 1 .. Len(rcvd) : rcvd'[i] = rcvd[i]
         /\ rcvd'[Len(rcvd) + 1] = f
<1>1. f \in ServerFrame /\ f.stream \in Calls
  BY ServerFramesAssumption DEF ServerFrame
<1>2. rcvd \in Seq(ServerFrame) /\ rcvd' = Append(rcvd, f)
  BY DEF TypeOK, HandleNextFrame
<1> QED
  BY <1>1, <1>2, AppendProperties, LenProperties DEF HandleNextFrame, Begun

\* A frame of DATA puts its pieces at the end of the body.
LEMMA PlaceNext ==
  ASSUME TypeOK, NEW f \in ServerFrames, HandleNextFrame(f),
         NEW k \in Calls, NEW off \in [1 .. Len(rcvd) -> Nat], Placed(k, off)
  PROVE  \E new \in [1 .. Len(rcvd') -> Nat] : Placed(k, new)'
<1> DEFINE l == Len(rcvd)
           b == body[k]
<1>1. /\ f \in ServerFrame
      /\ l \in Nat /\ Len(rcvd') = l + 1
      /\ \A i \in 1 .. l : rcvd'[i] = rcvd[i]
      /\ rcvd'[l + 1] = f
  BY FrameRead
<1>2. b \in Seq(Piece) /\ Len(b) \in Nat /\ body \in [Calls -> Seq(Piece)]
  BY LenProperties DEF TypeOK
<1>3. f.body \in Seq(Piece) /\ Len(f.body) \in Nat
  BY <1>1, LenProperties DEF ServerFrame
<1>4. PICK new \in [1 .. Len(rcvd') -> Nat] :
        (\A i \in 1 .. l : new[i] = off[i]) /\ new[l + 1] = Len(b)
  <2> DEFINE g == [i \in 1 .. l + 1 |-> IF i \in 1 .. l THEN off[i] ELSE Len(b)]
  <2>1. g \in [1 .. l + 1 -> Nat] /\ (\A i \in 1 .. l : g[i] = off[i]) /\ g[l + 1] = Len(b)
    BY <1>1, <1>2
  <2> HIDE DEF g
  <2> QED
    BY <1>1, <2>1
<1>5. \A i \in 1 .. l : rcvd[i].body \in Seq(Piece) /\ Len(rcvd[i].body) \in Nat
  <2>1. \A i \in 1 .. l : rcvd[i] \in ServerFrame
    BY ElementOfSeq DEF TypeOK
  <2> QED
    BY <2>1, LenProperties DEF ServerFrame
<1> HIDE DEF l, b
<1>6. CASE f.kind = "data" /\ f.stream = k
  <2>1. body'[k] = b \o f.body
    BY <1>2, <1>6 DEF HandleNextFrame, b
  <2>2. /\ Len(body'[k]) = Len(b) + Len(f.body)
        /\ \A n \in 1 .. Len(b) : body'[k][n] = b[n]
        /\ \A j \in 1 .. Len(f.body) : body'[k][Len(b) + j] = f.body[j]
    BY <1>2, <1>3, <2>1, ConcatProperties
  <2>3. Carriers(k)' = Carriers(k) \cup {l + 1}
    BY <1>1, <1>6 DEF Carriers, l
  <2>4. ASSUME NEW i \in Carriers(k)'
        PROVE  /\ new[i] + Len(rcvd'[i].body) <= Len(body'[k])
               /\ \A j \in 1 .. Len(rcvd'[i].body) : body'[k][new[i] + j] = rcvd'[i].body[j]
    <3>1. CASE i = l + 1
      <4>1. rcvd'[i] = f /\ new[i] = Len(b)
        BY <1>1, <1>4, <3>1
      <4> QED
        BY <1>2, <1>3, <2>2, <4>1
    <3>2. CASE i \in Carriers(k)
      <4>1. i \in 1 .. l /\ rcvd'[i] = rcvd[i] /\ new[i] = off[i] /\ off[i] \in Nat
        BY <1>1, <1>4, <3>2 DEF Carriers, l
      <4>2. /\ off[i] + Len(rcvd[i].body) <= Len(b)
            /\ \A j \in 1 .. Len(rcvd[i].body) : b[off[i] + j] = rcvd[i].body[j]
        BY <3>2 DEF Placed, b
      <4>3. \A j \in 1 .. Len(rcvd[i].body) : off[i] + j \in 1 .. Len(b)
        BY <1>2, <1>5, <4>1, <4>2
      <4>4. new[i] + Len(rcvd'[i].body) <= Len(body'[k])
        <5>1. Len(rcvd[i].body) \in Nat
          BY <1>5, <4>1
        <5> QED
          BY <1>2, <1>3, <2>2, <4>1, <4>2, <5>1
      <4> QED
        BY <2>2, <4>1, <4>2, <4>3, <4>4
    <3> QED
      BY <2>3, <3>1, <3>2
  <2>5. ASSUME NEW i \in Carriers(k)', NEW h \in Carriers(k)', i < h
        PROVE  new[i] + Len(rcvd'[i].body) <= new[h]
    <3>1. i \in Carriers(k) /\ i \in 1 .. l
      BY <1>1, <2>3, <2>5 DEF Carriers, l
    <3>2. new[i] = off[i] /\ rcvd'[i] = rcvd[i]
      BY <1>1, <1>4, <3>1
    <3>3. CASE h = l + 1
      BY <1>4, <3>1, <3>2, <3>3 DEF Placed, b
    <3>4. CASE h \in Carriers(k)
      <4>1. h \in 1 .. l /\ new[h] = off[h]
        BY <1>4, <3>4 DEF Carriers, l
      <4> QED
        BY <2>5, <3>1, <3>2, <3>4, <4>1 DEF Placed
    <3> QED
      BY <2>3, <3>3, <3>4
  <2>6. ASSUME NEW n \in 1 .. Len(body'[k])
        PROVE  \E i \in Carriers(k)' : \E j \in 1 .. Len(rcvd'[i].body) : n = new[i] + j
    <3>1. CASE n <= Len(b)
      <4>1. n \in 1 .. Len(b)
        BY <1>2, <3>1
      <4>2. PICK i \in Carriers(k) : \E j \in 1 .. Len(rcvd[i].body) : n = off[i] + j
        BY <4>1 DEF Placed, b
      <4>3. i \in 1 .. l /\ new[i] = off[i] /\ rcvd'[i] = rcvd[i]
        BY <1>1, <1>4 DEF Carriers, l
      <4> QED
        BY <2>3, <4>2, <4>3
    <3>2. CASE n > Len(b)
      <4>1. n - Len(b) \in 1 .. Len(f.body) /\ n = Len(b) + (n - Len(b))
        BY <1>2, <1>3, <2>2, <3>2
      <4> QED
        BY <1>1, <1>4, <2>3, <4>1
    <3> QED
      BY <1>2, <1>3, <2>2, <3>1, <3>2
  <2>7. Placed(k, new)'
    BY <2>4, <2>5, <2>6 DEF Placed
  <2> QED
    BY <1>4, <2>7
<1>7. CASE ~ (f.kind = "data" /\ f.stream = k)
  <2>1. body'[k] = b
    BY <1>2, <1>7 DEF HandleNextFrame, b
  <2>2. Carriers(k)' = Carriers(k)
    BY <1>1, <1>7 DEF Carriers, l
  <2>3. \A i \in Carriers(k) : rcvd'[i] = rcvd[i] /\ new[i] = off[i]
    BY <1>1, <1>4 DEF Carriers, l
  <2>4. ASSUME NEW i \in Carriers(k)'
        PROVE  /\ new[i] + Len(rcvd'[i].body) <= Len(body'[k])
               /\ \A j \in 1 .. Len(rcvd'[i].body) : body'[k][new[i] + j] = rcvd'[i].body[j]
    <3>1. rcvd'[i] = rcvd[i] /\ new[i] = off[i] /\ i \in Carriers(k)
      BY <2>2, <2>3
    <3>2. /\ off[i] + Len(rcvd[i].body) <= Len(b)
          /\ \A j \in 1 .. Len(rcvd[i].body) : b[off[i] + j] = rcvd[i].body[j]
      BY <3>1 DEF Placed, b
    <3> QED
      BY <2>1, <3>1, <3>2
  <2>5. \A i, h \in Carriers(k)' : i < h => new[i] + Len(rcvd'[i].body) <= new[h]
    BY <2>2, <2>3 DEF Placed
  <2>6. \A n \in 1 .. Len(body'[k]) : \E i \in Carriers(k)' :
          \E j \in 1 .. Len(rcvd'[i].body) : n = new[i] + j
    <3> SUFFICES ASSUME NEW n \in 1 .. Len(b)
                 PROVE  \E i \in Carriers(k)' :
                          \E j \in 1 .. Len(rcvd'[i].body) : n = new[i] + j
      BY <2>1
    <3>1. PICK i \in Carriers(k) : \E j \in 1 .. Len(rcvd[i].body) : n = off[i] + j
      BY DEF Placed, b
    <3> QED
      BY <2>2, <2>3, <3>1
  <2>7. Placed(k, new)'
    BY <2>4, <2>5, <2>6 DEF Placed
  <2> QED
    BY <1>4, <2>7
<1> QED
  BY <1>6, <1>7

\* Bodies change when a frame is read.
LEMMA ReadSteps ==
  ASSUME [Unbounded]_vars
  PROVE  \/ UNCHANGED <<rcvd, body, headers>>
         \/ \E f \in ServerFrames : KeepsFraming(f) /\ HandleNextFrame(f)
BY DEF Unbounded, Request, Reads, vars, streamVars, New, Call, StartRequest, SendNextData,
   RequestSent, WriteFails, ReadFails, Return, BadResponse, BadMessage

LEMMA BodyStep == TypeOK /\ BodyInv /\ [Unbounded]_vars => BodyInv'
<1> SUFFICES ASSUME TypeOK, BodyInv, [Unbounded]_vars PROVE BodyInv'
  OBVIOUS
<1>1. CASE UNCHANGED <<rcvd, body, headers>>
  <2>1. ASSUME NEW k \in Calls, NEW off, Placed(k, off) PROVE Placed(k, off)'
    <3>1. Carriers(k)' = Carriers(k)
      BY <1>1 DEF Carriers
    <3> QED
      BY <1>1, <2>1, <3>1 DEF Placed
  <2> QED
    BY <1>1, <2>1 DEF BodyInv
<1>2. ASSUME NEW f \in ServerFrames, KeepsFraming(f), HandleNextFrame(f) PROVE BodyInv'
  <2> SUFFICES ASSUME NEW k \in Calls
               PROVE  /\ WellFramed(body'[k])
                      /\ \E off \in [1 .. Len(rcvd') -> Nat] : Placed(k, off)'
                      /\ headers'[k] => \E i \in 1 .. Len(rcvd') :
                           rcvd'[i].stream = k /\ rcvd'[i].kind = "headers"
    BY DEF BodyInv
  <2>1. /\ f \in ServerFrame /\ f.stream \in Calls
        /\ Len(rcvd) \in Nat /\ Len(rcvd') = Len(rcvd) + 1
        /\ \A i \in 1 .. Len(rcvd) : rcvd'[i] = rcvd[i]
        /\ rcvd'[Len(rcvd) + 1] = f
    BY <1>2, FrameRead
  <2>2. WellFramed(body'[k])
    <3>1. CASE f.kind = "data" /\ f.stream = k
      BY <1>2, <3>1 DEF KeepsFraming, HandleNextFrame, TypeOK
    <3>2. CASE ~ (f.kind = "data" /\ f.stream = k)
      BY <1>2, <3>2 DEF HandleNextFrame, TypeOK, BodyInv
    <3> QED
      BY <3>1, <3>2
  <2>3. \E off \in [1 .. Len(rcvd') -> Nat] : Placed(k, off)'
    BY <1>2, PlaceNext DEF BodyInv
  <2>4. ASSUME headers'[k]
        PROVE  \E i \in 1 .. Len(rcvd') : rcvd'[i].stream = k /\ rcvd'[i].kind = "headers"
    <3>1. CASE headers[k]
      BY <2>1, <3>1 DEF BodyInv
    <3>2. CASE ~ headers[k]
      <4>1. f.stream = k /\ f.kind = "headers"
        BY <1>2, <2>4, <3>2 DEF HandleNextFrame, TypeOK
      <4> QED
        BY <2>1, <4>1
    <3> QED
      BY <3>1, <3>2
  <2> QED
    BY <2>2, <2>3, <2>4
<1> QED
  BY <1>1, <1>2, ReadSteps

-----------------------------------------------------------------------------
(* Streams are closed by what the server sends, once their request is sent. *)

LEMMA StreamQuiet ==
  ASSUME StreamInv, calls \in Nat, UNCHANGED <<rcvd, calls>>, at' \notin {"start", "send", "response"}
  PROVE  StreamInv'
BY DEF StreamInv, Begun

LEMMA StreamReads ==
  ASSUME TypeOK, StreamInv, NEW f \in ServerFrames, HandleNextFrame(f)
  PROVE  StreamInv'
<1> DEFINE l == Len(rcvd)
<1>1. /\ f.stream \in Calls /\ f.stream \in Begun
      /\ l \in Nat /\ Len(rcvd') = l + 1
      /\ \A i \in 1 .. l : rcvd'[i] = rcvd[i]
      /\ rcvd'[l + 1] = f
  BY FrameRead
<1>2. /\ at = "response" /\ at' = at /\ calls' = calls /\ calls \in Calls
      /\ state[calls] = "HalfClosedLocal"
  BY DEF HandleNextFrame, Waiting, StreamInv, TypeOK, Calls
<1>3. \A i \in 1 .. l : rcvd[i].stream = calls => ~ Ends(rcvd[i])
  BY <1>2 DEF StreamInv
<1>4. IF f.stream = calls /\ Ends(f) THEN state'[calls] = "Closed"
                                     ELSE state'[calls] = "HalfClosedLocal"
  BY <1>1, <1>2 DEF HandleNextFrame, TypeOK, Ends, CloseRemote
<1> HIDE DEF l
<1>5. \A i \in 1 .. l + 1 : i \in 1 .. l \/ i = l + 1
  BY <1>1
<1>6. \A i \in 1 .. Len(rcvd') : rcvd'[i].stream \in 1 .. calls
  BY <1>1, <1>5 DEF StreamInv, Begun, l
<1>7. ASSUME NEW i \in 1 .. Len(rcvd'), rcvd'[i].stream = calls, Ends(rcvd'[i])
      PROVE  i = l + 1 /\ f.stream = calls /\ Ends(f)
  BY <1>1, <1>3, <1>5, <1>7
<1>8. state'[calls] = "Closed" => f.stream = calls /\ Ends(f)
  BY <1>4
<1>9. \A j \in l + 1 + 1 .. Len(rcvd') : FALSE
  BY <1>1
<1>10. /\ state'[calls] \in {"HalfClosedLocal", "Closed"}
       /\ \A i \in 1 .. Len(rcvd') : rcvd'[i].stream = calls /\ Ends(rcvd'[i]) =>
            /\ state'[calls] = "Closed"
            /\ \A j \in i + 1 .. Len(rcvd') : rcvd'[j].stream # calls
       /\ state'[calls] = "Closed" =>
            \E i \in 1 .. Len(rcvd') : rcvd'[i].stream = calls /\ Ends(rcvd'[i])
  BY <1>1, <1>4, <1>7, <1>8, <1>9
<1> QED
  BY <1>2, <1>6, <1>10 DEF StreamInv, Begun, Ends

LEMMA StreamStep == ClientInv /\ StreamInv /\ [Unbounded]_vars => StreamInv'
<1> SUFFICES ASSUME ClientInv, StreamInv, [Unbounded]_vars PROVE StreamInv'
  OBVIOUS
<1>1. TypeOK /\ FreshInv /\ calls \in Nat
  BY DEF ClientInv, TypeOK
<1> USE DEF Goto
<1>2. ASSUME NEW n \in 1 .. MaxSize, Call(n) PROVE StreamInv'
  <2>1. calls' = calls + 1 /\ calls' \in Calls /\ at' = "start" /\ state' = state /\ rcvd' = rcvd
    BY <1>1, <1>2, MaxCallsAssumption DEF Call, streamVars, Calls
  <2>2. state[calls'] = "Open"
    BY <1>1, <2>1 DEF FreshInv
  <2>3. \A i \in 1 .. Len(rcvd) : rcvd[i].stream \in 1 .. calls
    BY DEF StreamInv, Begun
  <2> QED
    BY <1>1, <2>1, <2>2, <2>3 DEF StreamInv, Begun
<1>3. ASSUME NEW p \in Paths, StartRequest(p) PROVE StreamInv'
  BY <1>3 DEF StartRequest, streamVars, StreamInv, Begun
<1>4. ASSUME NEW k \in Calls, SendNextData(k) PROVE StreamInv'
  <2>1. at = "send" /\ at' = at /\ calls' = calls /\ rcvd' = rcvd /\ calls \in Calls
    BY <1>1, <1>4 DEF SendNextData, TypeOK, Calls
  <2>2. state'[calls] \in {"Open", "HalfClosedLocal"}
    BY <1>1, <1>4, <2>1 DEF SendNextData, StreamInv, TypeOK, CloseLocal
  <2> QED
    BY <2>1, <2>2 DEF StreamInv, Begun
<1>5. CASE RequestSent
  <2>1. at = "send" /\ at' = "response" /\ UNCHANGED <<state, calls, rcvd>> /\ calls \in 1 .. calls
    BY <1>1, <1>5 DEF RequestSent, streamVars, TypeOK
  <2>2. state[calls] = "HalfClosedLocal"
    BY <1>5, <2>1 DEF RequestSent, StreamInv, Sendable, IsClosedLocal
  <2> QED
    BY <2>1, <2>2 DEF StreamInv, Begun
<1>6. CASE New \/ WriteFails \/ ReadFails \/ Return \/ BadResponse \/ BadMessage
  BY <1>1, <1>6, StreamQuiet DEF New, WriteFails, ReadFails, Return, BadResponse, BadMessage,
                                 streamVars
<1>7. ASSUME NEW f \in ServerFrames, HandleNextFrame(f) PROVE StreamInv'
  BY <1>1, <1>7, StreamReads
<1>8. CASE UNCHANGED vars
  BY <1>8 DEF vars, streamVars, StreamInv, Begun
<1> QED
  BY <1>2, <1>3, <1>4, <1>5, <1>6, <1>7, <1>8 DEF Unbounded, Request, Reads

-----------------------------------------------------------------------------
(* What a call returns *)

\* Only the frames that carried it matter to an answer.
LEMMA AllOfKept ==
  ASSUME NEW k, NEW answer, Arrived(k)' = Arrived(k),
         \A p \in Arrived(k) : rcvd'[p[1]] = rcvd[p[1]], IsAllOf(answer, k)
  PROVE  IsAllOf(answer, k)'
<1>1. {rcvd'[p[1]].body[p[2]] : p \in Arrived(k)} = {rcvd[p[1]].body[p[2]] : p \in Arrived(k)}
  OBVIOUS
<1>2. {rcvd'[p[1]].body[p[2]] : p \in Arrived(k)} = {answer[n] : n \in 1 .. Len(answer)}
  BY <1>1 DEF IsAllOf, PieceAt
<1>3. \A p, q \in Arrived(k) : Precedes(p, q) =>
        rcvd'[p[1]].body[p[2]].part < rcvd'[q[1]].body[q[2]].part
  BY DEF IsAllOf, PieceAt
<1> QED
  BY <1>2, <1>3 DEF IsAllOf, PieceAt

\* The answer of a call that has returned is not touched by later frames.
LEMMA AnswerStays ==
  ASSUME TypeOK, NEW f \in ServerFrames, HandleNextFrame(f), NEW k,
         \E i \in OwnFrames(k) : Ends(rcvd[i])
  PROVE  /\ OwnFrames(k)' = OwnFrames(k)
         /\ \A i \in OwnFrames(k) : rcvd'[i] = rcvd[i]
         /\ \A answer : IsAllOf(answer, k) => IsAllOf(answer, k)'
<1> DEFINE l == Len(rcvd)
<1>1. /\ l \in Nat /\ Len(rcvd') = l + 1
      /\ \A i \in 1 .. l : rcvd'[i] = rcvd[i]
  BY FrameRead
<1>2. PICK e \in OwnFrames(k) : Ends(rcvd[e])
  OBVIOUS
<1>3. e \in 1 .. l /\ e \in 1 .. l + 1 - 1 /\ rcvd[e].stream = k
  BY <1>1, <1>2 DEF OwnFrames
<1>4. l + 1 \notin OwnFrames(k)'
  BY <1>1, <1>2, <1>3 DEF OwnFrames, Ends
<1> HIDE DEF l
<1>5. \A i \in 1 .. l : i \in OwnFrames(k)' <=> i \in OwnFrames(k)
  <2> SUFFICES ASSUME NEW i \in 1 .. l PROVE i \in OwnFrames(k)' <=> i \in OwnFrames(k)
    OBVIOUS
  <2>1. rcvd'[i] = rcvd[i] /\ \A j \in 1 .. i - 1 : rcvd'[j] = rcvd[j]
    BY <1>1
  <2>2. i \in 1 .. Len(rcvd') /\ i \in 1 .. Len(rcvd)
    BY <1>1 DEF l
  <2> QED
    BY <2>1, <2>2 DEF OwnFrames, Ends
<1>6. OwnFrames(k) \subseteq 1 .. l /\ OwnFrames(k)' \subseteq 1 .. l + 1
  BY <1>1 DEF OwnFrames, l
<1>7. OwnFrames(k)' = OwnFrames(k)
  <2>1. \A i \in 1 .. l + 1 : i \in 1 .. l \/ i = l + 1
    BY <1>1
  <2>2. OwnFrames(k)' \subseteq 1 .. l
    BY <1>4, <1>6, <2>1
  <2> QED
    BY <1>5, <1>6, <2>2
<1>8. \A i \in OwnFrames(k) : rcvd'[i] = rcvd[i]
  BY <1>1, <1>6
<1>9. Arrived(k)' = Arrived(k)
  BY <1>7, <1>8 DEF Arrived
<1>10. \A p \in Arrived(k) : rcvd'[p[1]] = rcvd[p[1]]
  BY <1>8 DEF Arrived
<1>11. \A answer : IsAllOf(answer, k) => IsAllOf(answer, k)'
  BY <1>9, <1>10, AllOfKept
<1> QED
  BY <1>7, <1>8, <1>11

\* What Return hands over is all that came.
LEMMA ReturnsAll ==
  ASSUME TypeOK, BodyInv, StreamInv, Return
  PROVE  /\ \E i \in OwnFrames(calls) : Ends(rcvd[i])
         /\ \E i \in OwnFrames(calls) : rcvd[i].kind = "headers"
         /\ IsAllOf(body[calls], calls)
<1> DEFINE k == calls
           b == body[calls]
<1>1. k \in Calls /\ at = "response" /\ state[k] = "Closed" /\ headers[k] /\ OneFrame(b)
  BY DEF Return, Answered, TypeOK, Calls
<1>2. OwnFrames(k) = {i \in 1 .. Len(rcvd) : rcvd[i].stream = k}
  <2> SUFFICES ASSUME NEW i \in 1 .. Len(rcvd), rcvd[i].stream = k,
                      NEW j \in 1 .. i - 1, rcvd[j].stream = k
               PROVE  ~ Ends(rcvd[j])
    BY DEF OwnFrames
  <2>1. Len(rcvd) \in Nat
    BY LenProperties DEF TypeOK
  <2>2. j \in 1 .. Len(rcvd) /\ i \in j + 1 .. Len(rcvd)
    BY <2>1
  <2> QED
    BY <1>1, <2>2 DEF StreamInv
<1>3. b \in Seq(Piece) /\ Len(b) \in Nat /\ \A n \in 1 .. Len(b) : b[n] \in Piece
  BY <1>1, LenProperties, ElementOfSeq DEF TypeOK
<1>4. b # <<>> /\ b[1].size = Len(b) /\ b[1].part = 1 /\ 1 \in 1 .. Len(b)
  BY <1>1, <1>3, EmptySeq DEF OneFrame, BodyInv, WellFramed
<1>5. ASSUME NEW n \in 1 .. Len(b)
      PROVE  b[n].part = n /\ b[n] = [b[1] EXCEPT !.part = n, !.size = Len(b)]
  <2>1. n - 1 \in 0 .. b[1].size - 1 /\ 1 + (n - 1) = n /\ (n - 1) + 1 = n
    BY <1>3, <1>4
  <2>2. WellFramed(b)
    BY <1>1 DEF BodyInv
  <2>3. \A d \in 0 .. b[1].size - 1 : 1 + d <= Len(b) => b[1 + d] = [b[1] EXCEPT !.part = d + 1]
    BY <1>4, <2>2 DEF WellFramed
  <2>4. b[n] = [b[1] EXCEPT !.part = n]
    BY <2>1, <2>3
  <2>5. b[1] \in Piece
    BY <1>3, <1>4
  <2> QED
    BY <1>4, <2>4, <2>5 DEF Piece
<1>6. PICK off \in [1 .. Len(rcvd) -> Nat] : Placed(k, off)
  BY <1>1 DEF BodyInv
<1>7. \A p \in Arrived(k) : /\ p[1] \in Carriers(k) /\ p[2] \in 1 .. Len(rcvd[p[1]].body)
                            /\ p = <<p[1], p[2]>>
  BY <1>2 DEF Arrived, Carriers
<1>8. \A i \in Carriers(k) : \A j \in 1 .. Len(rcvd[i].body) : <<i, j>> \in Arrived(k)
  BY <1>2 DEF Arrived, Carriers
<1>9. \A i \in Carriers(k) : off[i] \in Nat /\ Len(rcvd[i].body) \in Nat
  <2> SUFFICES ASSUME NEW i \in Carriers(k) PROVE off[i] \in Nat /\ Len(rcvd[i].body) \in Nat
    OBVIOUS
  <2>1. i \in 1 .. Len(rcvd)
    BY DEF Carriers
  <2>2. rcvd[i] \in ServerFrame
    BY <2>1, ElementOfSeq DEF TypeOK
  <2> QED
    BY <2>1, <2>2, LenProperties DEF ServerFrame
<1> HIDE DEF b
<1>10. ASSUME NEW p \in Arrived(k)
       PROVE  /\ off[p[1]] + p[2] \in 1 .. Len(b)
              /\ PieceAt(p) = b[off[p[1]] + p[2]]
              /\ PieceAt(p).part = off[p[1]] + p[2]
  <2>1. /\ off[p[1]] + Len(rcvd[p[1]].body) <= Len(b)
        /\ b[off[p[1]] + p[2]] = PieceAt(p)
    BY <1>6, <1>7 DEF Placed, PieceAt, b
  <2>2. off[p[1]] + p[2] \in 1 .. Len(b)
    BY <1>3, <1>7, <1>9, <2>1
  <2> QED
    BY <1>5, <2>1, <2>2
<1>11. {PieceAt(p) : p \in Arrived(k)} = {b[n] : n \in 1 .. Len(b)}
  <2>1. ASSUME NEW n \in 1 .. Len(b) PROVE \E p \in Arrived(k) : PieceAt(p) = b[n]
    <3>1. PICK i \in Carriers(k) : \E j \in 1 .. Len(rcvd[i].body) : n = off[i] + j
      BY <1>6 DEF Placed, b
    <3>2. PICK j \in 1 .. Len(rcvd[i].body) : n = off[i] + j
      BY <3>1
    <3>3. <<i, j>> \in Arrived(k) /\ <<i, j>>[1] = i /\ <<i, j>>[2] = j
      BY <1>8
    <3> QED
      BY <1>10, <3>2, <3>3
  <2> QED
    BY <1>10, <2>1
<1>12. ASSUME NEW p \in Arrived(k), NEW q \in Arrived(k), Precedes(p, q)
       PROVE  PieceAt(p).part < PieceAt(q).part
  <2>1. CASE p[1] < q[1]
    <3>1. off[p[1]] + Len(rcvd[p[1]].body) <= off[q[1]]
      BY <1>6, <1>7, <2>1 DEF Placed
    <3>2. /\ off[p[1]] \in Nat /\ off[q[1]] \in Nat /\ Len(rcvd[p[1]].body) \in Nat
          /\ p[2] \in 1 .. Len(rcvd[p[1]].body) /\ q[2] \in 1 .. Len(rcvd[q[1]].body)
          /\ Len(rcvd[q[1]].body) \in Nat
      BY <1>7, <1>9
    <3>3. \A c, d, m, i, j \in Nat : c + m <= d /\ i \in 1 .. m /\ j > 0 => c + i < d + j
      OBVIOUS
    <3>4. p[2] \in Nat /\ q[2] \in Nat /\ q[2] > 0
      BY <3>2
    <3>5. off[p[1]] + p[2] < off[q[1]] + q[2]
      BY <3>1, <3>2, <3>3, <3>4
    <3> QED
      BY <1>10, <3>5
  <2>2. CASE p[1] = q[1] /\ p[2] < q[2]
    BY <1>7, <1>9, <1>10, <2>2
  <2> QED
    BY <1>12, <2>1, <2>2 DEF Precedes
<1>13. IsAllOf(b, k)
  BY <1>5, <1>11, <1>12 DEF IsAllOf
<1>14. \E i \in OwnFrames(k) : Ends(rcvd[i])
  BY <1>1, <1>2 DEF StreamInv
<1>15. \E i \in OwnFrames(k) : rcvd[i].kind = "headers"
  BY <1>1, <1>2 DEF BodyInv
<1> QED
  BY <1>13, <1>14, <1>15 DEF b

LEMMA AnswerStep ==
  TypeOK /\ BodyInv /\ StreamInv /\ AnswerIsStreamBody /\ [Unbounded]_vars => AnswerIsStreamBody'
<1> DEFINE Good(answer, k) == /\ \E i \in OwnFrames(k) : Ends(rcvd[i])
                              /\ \E i \in OwnFrames(k) : rcvd[i].kind = "headers"
                              /\ IsAllOf(answer, k)
<1> SUFFICES ASSUME TypeOK, BodyInv, StreamInv, AnswerIsStreamBody, [Unbounded]_vars,
                    NEW k \in Calls, NEW answer, answer = result'[k], answer # NoAnswer
             PROVE  Good(answer, k)'
  BY DEF AnswerIsStreamBody, NoAnswer, IsAllOf
<1>1. answer = result[k] => Good(answer, k)
  BY DEF AnswerIsStreamBody
<1>2. CASE UNCHANGED rcvd
  <2>1. Good(answer, k) => Good(answer, k)'
    <3>1. OwnFrames(k)' = OwnFrames(k) /\ Arrived(k)' = Arrived(k)
      BY <1>2 DEF Arrived, OwnFrames, Ends
    <3>2. IsAllOf(answer, k) => IsAllOf(answer, k)'
      BY <1>2, <3>1, AllOfKept
    <3> QED
      BY <1>2, <3>1, <3>2
  <2> HIDE DEF Good
  <2>2. CASE UNCHANGED result
    BY <1>1, <2>1, <2>2
  <2>3. CASE Return /\ k = calls
    <3>1. answer = body[calls]
      BY <2>3 DEF Return, TypeOK
    <3>2. Good(answer, k)
      BY <2>3, <3>1, ReturnsAll DEF Good
    <3> QED
      BY <2>1, <3>2
  <2>4. CASE Return /\ k # calls
    <3>1. answer = result[k]
      BY <2>4 DEF Return, TypeOK
    <3> QED
      BY <1>1, <2>1, <3>1
  <2> QED
    BY <1>2, <2>2, <2>3, <2>4 DEF Unbounded, Request, Reads, vars, streamVars, New, Call,
       StartRequest, SendNextData, RequestSent, WriteFails, ReadFails, BadResponse,
       BadMessage, HandleNextFrame
<1>3. ASSUME NEW f \in ServerFrames, HandleNextFrame(f) PROVE Good(answer, k)'
  <2>1. Good(answer, k)
    BY <1>1, <1>3 DEF HandleNextFrame
  <2> QED
    BY <1>3, <2>1, AnswerStays
<1> QED
  BY <1>2, <1>3, ReadSteps

LEMMA ReadStep == ClientInv /\ ReadInv /\ [Unbounded]_vars => ReadInv'
<1>1. ClientInv => TypeOK
  BY DEF ClientInv
<1> QED
  BY <1>1, BodyStep, StreamStep, AnswerStep DEF ReadInv

LEMMA ReadInvariant == UnboundedSpec => []ReadInv
  BY ReadInit, ReadStep, ClientInvariant, PTL DEF UnboundedSpec

-----------------------------------------------------------------------------
(* How many frames the client writes *)

\* The frames of n calls: SETTINGS, and for each call HEADERS, the pieces, and
\* an empty DATA frame on each stream that is ended again.
FramesOf(n) == 1 + n * (1 + MaxSize + MaxCalls)

\* Streams of earlier calls that are closed locally.  While a request is sent,
\* every frame to an earlier stream adds one to them.
EndedBefore == {k \in 1 .. calls - 1 : IsClosedLocal(state[k])}

CountInv ==
  /\ at = "new" => Len(sent) = 0
  /\ at \in {"idle", "response", "panicked"} => Len(sent) <= FramesOf(calls)
  /\ at = "start" => Len(sent) <= FramesOf(calls - 1)
  /\ at = "send" =>
       /\ cursor[calls] = size[calls] => IsClosedLocal(state[calls])
       /\ Len(sent) <= FramesOf(calls - 1) + 1 + cursor[calls] + Cardinality(EndedBefore)

LEMMA FramesOfMore ==
  ASSUME NEW n \in Nat
  PROVE  /\ FramesOf(n) \in Nat \ {0}
         /\ n > 0 => FramesOf(n) = FramesOf(n - 1) + 1 + MaxSize + MaxCalls
         /\ n <= MaxCalls => FramesOf(n) <= FramesOf(MaxCalls)
<1> DEFINE w == 1 + MaxSize + MaxCalls
<1>1. w \in Nat \ {0} /\ MaxCalls \in Nat
  BY MaxCallsAssumption, MaxSizeAssumption
<1>2. \A a, b, c \in Nat : a * c \in Nat /\ (a <= b => a * c <= b * c)
  OBVIOUS
<1>3. \A c \in Nat : (n - 1) * c = n * c - c
  OBVIOUS
<1>4. FramesOf(n) = 1 + n * w /\ FramesOf(n - 1) = 1 + (n - 1) * w
      /\ FramesOf(MaxCalls) = 1 + MaxCalls * w
  BY DEF FramesOf
<1>5. w = 1 + MaxSize + MaxCalls /\ MaxSize \in Nat
  BY MaxSizeAssumption
<1> HIDE DEF w
<1>6. n * w \in Nat /\ (n <= MaxCalls => n * w <= MaxCalls * w) /\ MaxCalls * w \in Nat
  BY <1>1, <1>2
<1>7. (n - 1) * w = n * w - w
  BY <1>1, <1>3
<1> DEFINE x == n * w
           y == (n - 1) * w
           z == MaxCalls * w
<1>8. x \in Nat /\ (n <= MaxCalls => x <= z) /\ z \in Nat /\ y = x - w
  BY <1>6, <1>7
<1>9. FramesOf(n) = 1 + x /\ FramesOf(n - 1) = 1 + y /\ FramesOf(MaxCalls) = 1 + z
  BY <1>4
<1> HIDE DEF x, y, z
<1> QED
  BY <1>1, <1>5, <1>8, <1>9

\* No more than the calls made.
LEMMA EndedTyped ==
  ASSUME ClientInv, calls > 0
  PROVE  /\ IsFiniteSet(EndedBefore)
         /\ Cardinality(EndedBefore) \in Nat /\ Cardinality(EndedBefore) <= calls - 1
<1>1. calls \in Nat /\ calls - 1 \in Nat
  BY DEF ClientInv, TypeOK
<1>2. IsFiniteSet(1 .. calls - 1) /\ Cardinality(1 .. calls - 1) = calls - 1
  BY <1>1, FS_Interval
<1>3. EndedBefore \in SUBSET (1 .. calls - 1)
  BY DEF EndedBefore
<1> QED
  BY <1>2, <1>3, FS_Subset, FS_CardinalityType

\* A client that still has to send a request is below the frames of its calls.
LEMMA BelowCalls ==
  ASSUME ClientInv, CountInv, at \in {"start", "send"}
  PROVE  Len(sent) < FramesOf(calls)
<1>1. /\ calls \in Nat /\ calls <= MaxCalls /\ MaxSize \in Nat /\ MaxCalls \in Nat
      /\ Len(sent) \in Nat /\ calls > 0 /\ calls - 1 \in Nat
  BY MaxCallsAssumption, MaxSizeAssumption, LenProperties DEF ClientInv, TypeOK
<1>2. FramesOf(calls) = FramesOf(calls - 1) + 1 + MaxSize + MaxCalls
  BY <1>1, FramesOfMore
<1>3. FramesOf(calls - 1) \in Nat
  BY <1>1, FramesOfMore
<1>4. CASE at = "start"
  BY <1>1, <1>2, <1>3, <1>4 DEF CountInv
<1>5. CASE at = "send"
  <2>1. cursor[calls] \in 0 .. MaxSize
    BY <1>1, <1>5 DEF ClientInv, TypeOK, Calls
  <2>2. Cardinality(EndedBefore) \in Nat /\ Cardinality(EndedBefore) <= calls - 1
    BY <1>1, <1>5, EndedTyped
  <2>3. Len(sent) <= FramesOf(calls - 1) + 1 + cursor[calls] + Cardinality(EndedBefore)
    BY <1>5 DEF CountInv
  <2> QED
    BY <1>1, <1>2, <1>3, <2>1, <2>2, <2>3
<1> QED
  BY <1>4, <1>5

\* Wherever the client's thread is, it has kept within the frames of its calls.
LEMMA WithinCalls == ClientInv /\ CountInv => Len(sent) <= FramesOf(calls)
<1> SUFFICES ASSUME ClientInv, CountInv PROVE Len(sent) <= FramesOf(calls)
  OBVIOUS
<1>1. /\ calls \in Nat /\ Len(sent) \in Nat
      /\ at \in {"new", "idle", "start", "send", "response", "panicked"}
  BY MaxCallsAssumption, LenProperties DEF ClientInv, TypeOK
<1>2. FramesOf(calls) \in Nat
  BY <1>1, FramesOfMore
<1>3. CASE at \in {"start", "send"}
  BY <1>1, <1>2, <1>3, BelowCalls
<1>4. CASE at = "new"
  BY <1>1, <1>2, <1>4 DEF CountInv
<1>5. CASE at \in {"idle", "response", "panicked"}
  BY <1>5 DEF CountInv
<1> QED
  BY <1>1, <1>3, <1>4, <1>5

\* The frame of SendNextData moves the cursor of the call being made, or ends
\* an earlier stream.
LEMMA CountSend ==
  ASSUME ClientInv, CountInv, NEW k \in Calls, SendNextData(k)
  PROVE  CountInv'
<1>1. /\ at = "send" /\ at' = at /\ calls' = calls /\ size' = size
      /\ k \in 1 .. calls /\ ~ IsClosedLocal(state[k])
      /\ cursor' = [cursor EXCEPT ![k] = NextCursor(k)]
      /\ state' = [state EXCEPT ![k] = IF IsLast(k) THEN CloseLocal(@) ELSE @]
  BY DEF SendNextData, Sendable
<1>2. /\ calls \in Nat \ {0} /\ calls \in Calls
      /\ cursor \in [Calls -> 0 .. MaxSize] /\ size \in [Calls -> 0 .. MaxSize]
      /\ state \in [Calls -> StreamState]
      /\ MaxSize \in Nat
  BY MaxSizeAssumption, <1>1 DEF ClientInv, TypeOK, Calls
<1>3. Len(sent) \in Nat /\ Len(sent') = Len(sent) + 1
  <2>1. NextData(k) \in ClientFrame
    BY NextDataFrame DEF ClientInv
  <2>2. sent' = Append(sent, NextData(k)) /\ sent \in Seq(ClientFrame)
    BY DEF SendNextData, NextData, ClientInv, TypeOK
  <2> QED
    BY <2>1, <2>2, Appending
<1>4. /\ cursor'[k] = NextCursor(k)
      /\ \A j \in Calls \ {k} : cursor'[j] = cursor[j] /\ state'[j] = state[j]
      /\ state'[k] = IF IsLast(k) THEN CloseLocal(state[k]) ELSE state[k]
  BY <1>1, <1>2
<1>5. /\ IsFiniteSet(EndedBefore) /\ Cardinality(EndedBefore) \in Nat
      /\ FramesOf(calls - 1) \in Nat
      /\ Len(sent) <= FramesOf(calls - 1) + 1 + cursor[calls] + Cardinality(EndedBefore)
      /\ cursor[calls] = size[calls] => IsClosedLocal(state[calls])
  BY <1>1, <1>2, EndedTyped, FramesOfMore DEF CountInv
<1>6. IsLast(k) => IsClosedLocal(state'[k])
  BY <1>2, <1>4, CloseLocalCloses
<1>7. CASE k = calls
  <2>1. cursor[calls] # size[calls] /\ cursor[calls] <= size[calls]
    BY <1>1, <1>2, <1>5, <1>7 DEF ClientInv, TypeOK
  <2>2. cursor'[calls] = cursor[calls] + 1
    BY <1>2, <1>4, <1>7, <2>1 DEF NextCursor
  <2>3. cursor'[calls] = size'[calls] => IsClosedLocal(state'[calls])
    BY <1>1, <1>4, <1>6, <1>7 DEF IsLast
  <2>4. EndedBefore' = EndedBefore
    BY <1>1, <1>2, <1>4, <1>7 DEF EndedBefore, Calls, ClientInv, TypeOK
  <2>5. Len(sent') <= FramesOf(calls - 1) + 1 + cursor'[calls] + Cardinality(EndedBefore')
    <3>1. cursor[calls] \in Nat
      BY <1>2
    <3> QED
      BY <1>3, <1>5, <2>2, <2>4, <3>1
  <2> QED
    BY <1>1, <2>3, <2>5 DEF CountInv, FramesOf
<1>8. CASE k < calls
  <2>1. cursor[k] = size[k]
    BY <1>1, <1>8 DEF ClientInv, DoneInv, Begun
  <2>2. IsLast(k)
    BY <1>2, <2>1 DEF IsLast, NextCursor
  <2>3. cursor'[calls] = cursor[calls] /\ state'[calls] = state[calls]
    BY <1>1, <1>2, <1>4, <1>8
  <2>4. EndedBefore' = EndedBefore \cup {k} /\ k \notin EndedBefore
    <3>1. \A j \in 1 .. calls - 1 : j \in Calls
      BY <1>2, MaxCallsAssumption DEF Calls
    <3> QED
      BY <1>1, <1>2, <1>4, <1>6, <1>8, <2>2, <3>1 DEF EndedBefore
  <2>5. Cardinality(EndedBefore') = Cardinality(EndedBefore) + 1
    BY <1>5, <2>4, FS_AddElement
  <2>6. Len(sent') <= FramesOf(calls - 1) + 1 + cursor'[calls] + Cardinality(EndedBefore')
    <3>1. cursor[calls] \in Nat
      BY <1>2
    <3> QED
      BY <1>3, <1>5, <2>3, <2>5, <3>1
  <2> QED
    BY <1>1, <1>5, <2>3, <2>6 DEF CountInv, FramesOf
<1> QED
  BY <1>1, <1>2, <1>7, <1>8

LEMMA CountStep == ClientInv /\ CountInv /\ [Unbounded]_vars => CountInv'
<1> SUFFICES ASSUME ClientInv, CountInv, [Unbounded]_vars PROVE CountInv'
  OBVIOUS
<1>1. /\ calls \in Nat /\ Len(sent) \in Nat /\ sent \in Seq(ClientFrame)
      /\ at \in {"start", "send", "response"} => calls > 0
      /\ Len(sent) <= FramesOf(calls)
  BY LenProperties, WithinCalls DEF ClientInv, TypeOK
<1> USE DEF Goto
<1>2. CASE New
  <2>1. [kind |-> "settings"] \in ClientFrame
    BY DEF ClientFrame
  <2>2. Len(sent') = Len(sent) + 1
    BY <1>1, <1>2, <2>1, Appending DEF New
  <2>3. calls = 0 /\ calls' = calls /\ Len(sent) = 0 /\ at' = "idle"
    BY <1>2 DEF New, CountInv, ClientInv, FreshInv
  <2>4. FramesOf(calls') \in Nat \ {0}
    BY <1>1, <2>3, FramesOfMore
  <2> QED
    BY <2>2, <2>3, <2>4 DEF CountInv
<1>3. ASSUME NEW n \in 1 .. MaxSize, Call(n) PROVE CountInv'
  <2>1. at' = "start" /\ calls' = calls + 1 /\ sent' = sent
    BY <1>3 DEF Call
  <2>2. FramesOf(calls' - 1) = FramesOf(calls)
    BY <1>1, <2>1 DEF FramesOf
  <2> QED
    BY <1>1, <2>1, <2>2 DEF CountInv, FramesOf
<1>4. ASSUME NEW p \in Paths, StartRequest(p) PROVE CountInv'
  <2>1. /\ at = "start" /\ at' = "send" /\ UNCHANGED <<calls, state, size, cursor>>
        /\ sent' = Append(sent, [kind |-> "headers", stream |-> calls, path |-> p])
    BY <1>4 DEF StartRequest, streamVars
  <2>2. calls \in Calls /\ calls \in Begun
    BY <1>1, <2>1 DEF ClientInv, TypeOK, Calls, Begun
  <2>3. [kind |-> "headers", stream |-> calls, path |-> p] \in ClientFrame
    BY <2>2 DEF ClientFrame
  <2>4. Len(sent') = Len(sent) + 1
    BY <1>1, <2>1, <2>3, Appending
  <2>5. cursor[calls] = 0 /\ size[calls] > 0 /\ size[calls] \in Nat
    BY <2>1, <2>2, MaxSizeAssumption DEF ClientInv, FreshInv, TypeOK
  <2>6. EndedBefore' = EndedBefore
    BY <2>1 DEF EndedBefore
  <2>7. Cardinality(EndedBefore) \in Nat
    BY <1>1, <2>1, EndedTyped
  <2>8. FramesOf(calls - 1) \in Nat /\ Len(sent) <= FramesOf(calls - 1)
    BY <1>1, <2>1, FramesOfMore DEF CountInv
  <2>9. Len(sent') <= FramesOf(calls - 1) + 1 + cursor'[calls] + Cardinality(EndedBefore')
    BY <1>1, <2>1, <2>4, <2>5, <2>6, <2>7, <2>8
  <2> QED
    BY <2>1, <2>5, <2>9 DEF CountInv, FramesOf
<1>5. ASSUME NEW k \in Calls, SendNextData(k) PROVE CountInv'
  BY <1>5, CountSend
<1>6. CASE RequestSent \/ WriteFails \/ ReadFails \/ Return \/ BadResponse \/ BadMessage
  <2>1. at' \in {"idle", "response", "panicked"} /\ sent' = sent /\ calls' = calls
    BY <1>6 DEF RequestSent, WriteFails, ReadFails, Return, BadResponse, BadMessage
  <2> QED
    BY <1>1, <2>1 DEF CountInv, FramesOf
<1>7. ASSUME NEW f \in ServerFrames, HandleNextFrame(f) PROVE CountInv'
  <2>1. at = "response" /\ at' = at /\ sent' = sent /\ calls' = calls
    BY <1>7 DEF HandleNextFrame, Waiting
  <2> QED
    BY <1>1, <2>1 DEF CountInv, FramesOf
<1>8. CASE UNCHANGED vars
  BY <1>8 DEF vars, streamVars, CountInv, FramesOf, EndedBefore
<1> QED
  BY <1>2, <1>3, <1>4, <1>5, <1>6, <1>7, <1>8 DEF Unbounded, Request, Reads

LEMMA CountInit == Init => CountInv
  BY DEF Init, CountInv

LEMMA CountInvariant == UnboundedSpec => []CountInv
  BY CountInit, CountStep, ClientInvariant, PTL DEF UnboundedSpec

-----------------------------------------------------------------------------
(* The theorems *)

\* Type correctness of the client.
THEOREM TypeCorrect == Spec => []TypeOK
<1>1. ClientInv => TypeOK
  BY DEF ClientInv
<1> QED
  BY <1>1, ClientInvariant, SpecUnbounded, PTL

\* The DATA frames of each call carry its request, in order, each piece once,
\* and end it with the last: for any number of calls before it whose streams
\* the server may have opened again.
THEOREM FramesRequests == Spec => []RequestFraming
<1>1. ClientInv => RequestFraming
  BY DEF ClientInv
<1> QED
  BY <1>1, ClientInvariant, SpecUnbounded, PTL

\* The loop over the open streams writes at most one frame to each stream of an
\* earlier call.
THEOREM EndsAgainOnce == Spec => []EndsAgainOncePerCall
<1>1. ClientInv => EndsAgainOncePerCall
  BY DEF ClientInv
<1> QED
  BY <1>1, ClientInvariant, SpecUnbounded, PTL

\* A client that waits has sent everything.
THEOREM WaitsAfterSending == Spec => []SentBeforeWaiting
<1>1. ClientInv => SentBeforeWaiting
  <2> SUFFICES ASSUME ClientInv, at = "response", NEW p \in 1 .. size[calls]
               PROVE  \E j \in DataSent(calls, Len(sent)) : sent[j].part = p
    BY DEF SentBeforeWaiting
  <2>1. calls \in Begun
    BY DEF ClientInv, TypeOK, Begun
  <2>2. cursor[calls] = size[calls]
    BY <2>1 DEF ClientInv, DoneInv
  <2> QED
    BY <2>1, <2>2 DEF ClientInv, PiecesInv
<1> QED
  BY <1>1, ClientInvariant, SpecUnbounded, PTL

\* What a call returns is what its own stream carried up to its end, whole and
\* in order: for any number of calls, and of frames that a server sends on
\* streams of earlier calls.
THEOREM AnswersAreStreamBodies == Spec => []AnswerIsStreamBody
<1>1. ReadInv => AnswerIsStreamBody
  BY DEF ReadInv
<1> QED
  BY <1>1, ReadInvariant, SpecUnbounded, PTL

\* The client writes a bounded number of frames for each call, however often
\* a server opens its old streams again: SETTINGS once, and for a call its
\* HEADERS, its pieces and at most one frame on each stream there may be.
THEOREM SendsBounded == Spec => [](Len(sent) <= 1 + calls * (1 + MaxSize + MaxCalls))
<1>1. ClientInv /\ CountInv => Len(sent) <= 1 + calls * (1 + MaxSize + MaxCalls)
  BY WithinCalls DEF FramesOf
<1> QED
  BY <1>1, ClientInvariant, CountInvariant, SpecUnbounded, PTL
=============================================================================
