--------------------------- MODULE GrpcUnaryProofs ---------------------------
(***************************************************************************)
(* Proofs about GrpcUnary, for any number of calls, any methods and any    *)
(* room in the buffers.  What the server promises any peer has been proved *)
(* of GrpcServerConnection; here the client is shown to be such a peer, so *)
(* the promises hold of the pair, and UnaryRpc follows from them.  Two     *)
(* more facts rest on both sides: what the client writes the server can    *)
(* always read, and no step leaves as much work as there was before it.    *)
(***************************************************************************)
EXTENDS GrpcUnary, SequenceTheorems, FiniteSetTheorems, TLAPS

\* The theorems of the server, for the server of this module
ServerP == INSTANCE GrpcServerConnectionProofs WITH
  StreamIds <- Calls, NoStream <- 0, Bodies <- {Request(n) : n \in Sizes}

\* The theorems of the client, whatever number of frames it reads
ClientP == INSTANCE GrpcClientProofs WITH
  state <- c_state, body <- c_body, ServerFrames <- Client!ServerFrame,
  Messages <- Server!Response, MaxFrames <- 0

\* A frame of the server, as the client reads it
AsRead(f) ==
  [stream |-> f.stream,
   kind |-> IF f.kind = "data" THEN "data" ELSE "headers",
   end |-> f.kind = "trailers",
   body |-> [i \in 1 .. Len(f.body) |-> [msg |-> f.body[i], part |-> 1, size |-> 1]]]

\* The client reads what the server has written, and every answer is whole.
LinkInv ==
  /\ Len(rcvd) <= Len(out)
  /\ \A i \in 1 .. Len(rcvd) : rcvd[i] = AsRead(out[i])
  /\ \A k \in Calls : \A i \in 1 .. Len(c_body[k]) :
       c_body[k][i].part = 1 /\ c_body[k][i].size = 1

\* Each side is what the theorems of the other one take its peer to be.
PeerInv == ClientP!ClientInv /\ ServerP!DispatchInv /\ LinkInv

\* The names call k has asked for
Asked(k) ==
  {sent[i].path : i \in {j \in 1 .. Len(sent) :
     sent[j].kind = "headers" /\ sent[j].stream = k}}

\* Calls are made one after the other, each when the last one has returned.
OrderInv ==
  /\ \A k \in Calls : k > calls \/ (k = calls /\ at = "start") => Asked(k) = {}
  /\ at = "new" => calls = 0
  /\ \A k \in Calls : k < calls \/ (k = calls /\ at = "idle") => result[k] # <<>>
  /\ \A k \in Calls :
       k > calls \/ (k = calls /\ at \in {"start", "send", "response"}) => result[k] = <<>>

\* The server runs what its client has asked for.
PathInv ==
  \A k \in Calls :
    /\ path[k] \in Asked(k) \cup {""}
    /\ \A j \in 1 .. Len(handled[k]) : handled[k][j].path \in Asked(k)

-----------------------------------------------------------------------------
(* What the server's theorems assume of its constants *)

LEMMA RequestWellFormed ==
  ASSUME NEW n \in Nat \ {0}
  PROVE  /\ Request(n) \in Seq(ServerP!Piece)
         /\ Len(Request(n)) = n
         /\ ServerP!WellFormed(Request(n))
         /\ \A i \in 1 .. n : Request(n)[i].no = 1
<1> DEFINE b == Request(n)
<1>1. \A i \in 1 .. n : b[i] = [no |-> 1, part |-> i, size |-> n, flag |-> 0]
  BY DEF Request
<1>2. b \in [1 .. n -> ServerP!Piece]
  BY DEF Request, ServerP!Piece
<1>3. b \in Seq(ServerP!Piece) /\ Len(b) = n
  BY <1>2, SeqDef, LenProperties
<1> HIDE DEF b
<1>4. ServerP!WellFormed(b)
  BY <1>1, <1>3 DEF ServerP!WellFormed
<1> QED
  BY <1>1, <1>3, <1>4 DEF b

LEMMA ServerAssumptions ==
  /\ ServerP!BodiesAssumption
  /\ ServerP!MethodsAssumption
  /\ ServerP!MaxFramesAssumption
<1>1. \A n \in Sizes : n \in Nat \ {0}
  BY BoundsAssumption, CallsAssumption DEF Sizes
<1>2. ServerP!BodiesAssumption
  BY <1>1, RequestWellFormed DEF ServerP!BodiesAssumption
<1>3. Methods \in Seq(Paths)
  <2>1. Len(Methods) \in Nat /\ Methods \in [1 .. Len(Methods) -> STRING]
    BY NamesAssumption, LenProperties
  <2>2. \A i \in 1 .. Len(Methods) : Methods[i] \in Paths
    BY <2>1 DEF Paths, Range
  <2>3. Methods \in [1 .. Len(Methods) -> Paths]
    BY <2>1, <2>2
  <2> QED
    BY <2>1, <2>3, SeqDef
<1>4. ServerP!MethodsAssumption
  BY <1>3, NamesAssumption DEF ServerP!MethodsAssumption, ServerP!NoPath
<1>5. MaxFrames \in Nat
  <2>1. 1 + MaxSize + MaxCalls \in Nat
    BY BoundsAssumption
  <2>2. MaxCalls * (1 + MaxSize + MaxCalls) \in Nat
    BY <2>1, BoundsAssumption
  <2> QED
    BY <2>2 DEF MaxFrames
<1> QED
  BY <1>2, <1>4, <1>5 DEF ServerP!MaxFramesAssumption

-----------------------------------------------------------------------------
(* The server of the pair is a server whose peer is this client. *)

LEMMA ServerInit == Init => ServerP!Init
<1> SUFFICES ASSUME Init PROVE ServerP!Init
  OBVIOUS
<1>1. Server!Init
  BY DEF Init
<1> QED
  BY <1>1 DEF Server!Init, ServerP!Init, Server!NoPath, ServerP!NoPath

\* The operations of the server, by both names
LEMMA ReceiveSame ==
  /\ Server!RecvOther => ServerP!RecvOther
  /\ Server!RecvError => ServerP!RecvError
  /\ \A s, p, e : Server!RecvNewStream(s, p, e) => ServerP!RecvNewStream(s, p, e)
  /\ \A s, n, e : Server!RecvData(s, n, e) => ServerP!RecvData(s, n, e)
<1> USE DEF Server!Receive, ServerP!Receive, Server!Goto, ServerP!Goto,
            Server!streamVars, ServerP!streamVars, Server!sendVars, ServerP!sendVars,
            Server!peerVars, ServerP!peerVars
<1>1. /\ Server!RecvOther => ServerP!RecvOther
      /\ Server!RecvError => ServerP!RecvError
  BY DEF Server!RecvOther, ServerP!RecvOther, Server!RecvError, ServerP!RecvError
<1>2. \A s, p, e : Server!RecvNewStream(s, p, e) => ServerP!RecvNewStream(s, p, e)
  BY DEF Server!RecvNewStream, ServerP!RecvNewStream, Server!CloseRemote, ServerP!CloseRemote
<1>3. \A s, n, e : Server!RecvData(s, n, e) => ServerP!RecvData(s, n, e)
  BY DEF Server!RecvData, ServerP!RecvData
<1> QED
  BY <1>1, <1>2, <1>3

LEMMA ProcessSame ==
  /\ Server!New => ServerP!New
  /\ Server!ProcessBuf => ServerP!ProcessBuf
  /\ Server!CollectResponses => ServerP!CollectResponses
<1> USE DEF Server!Goto, ServerP!Goto,
            Server!streamVars, ServerP!streamVars, Server!sendVars, ServerP!sendVars,
            Server!peerVars, ServerP!peerVars, Server!BadFlag, ServerP!BadFlag,
            Server!ParseFrame, ServerP!ParseFrame
<1>1. Server!New => ServerP!New
  BY DEF Server!New, ServerP!New
<1>2. Server!ProcessFrame => ServerP!ProcessFrame
  BY DEF Server!ProcessFrame, ServerP!ProcessFrame, Server!Drain, ServerP!Drain,
         Server!FindMethod, ServerP!FindMethod, Server!MethodsNamed, ServerP!MethodsNamed
<1>3. Server!ProcessPanic => ServerP!ProcessPanic
  BY DEF Server!ProcessPanic, ServerP!ProcessPanic
<1>4. Server!ProcessReturn => ServerP!ProcessReturn
  BY DEF Server!ProcessReturn, ServerP!ProcessReturn, Server!CloseRemote, ServerP!CloseRemote
<1>5. Server!CollectResponses => ServerP!CollectResponses
  BY DEF Server!CollectResponses, ServerP!CollectResponses,
         Server!HandleRequests, ServerP!HandleRequests
<1> QED
  BY <1>1, <1>2, <1>3, <1>4, <1>5 DEF Server!ProcessBuf, ServerP!ProcessBuf

LEMMA SendSame ==
  /\ \A r : Server!SendHeaders(r) => ServerP!SendHeaders(r)
  /\ Server!SendData => ServerP!SendData
  /\ Server!SendTrailers => ServerP!SendTrailers
  /\ Server!SendError => ServerP!SendError
  /\ Server!ReapStreams => ServerP!ReapStreams
<1> USE DEF Server!Goto, ServerP!Goto, Server!SendFrame, ServerP!SendFrame,
            Server!streamVars, ServerP!streamVars, Server!sendVars, ServerP!sendVars,
            Server!peerVars, ServerP!peerVars
<1> QED
  BY DEF Server!SendHeaders, ServerP!SendHeaders, Server!SendData, ServerP!SendData,
         Server!SendTrailers, ServerP!SendTrailers, Server!SendError, ServerP!SendError,
         Server!ReapStreams, ServerP!ReapStreams, Server!ClosedStreams, ServerP!ClosedStreams

\* A frame of the client is one that the server's theorems allow its peer.
LEMMA ServerReadsFrame ==
  ASSUME ClientP!TypeOK, ServerP!TypeOK, ServerReads
  PROVE  ServerP!RecvFrame
<1> DEFINE f == sent[frames + 1]
<1>1. frames \in Nat /\ frames < Len(sent)
  BY ServerAssumptions DEF ServerReads, ServerP!TypeOK, ServerP!MaxFramesAssumption
<1>2. f \in ClientP!ClientFrame
  BY <1>1, ElementOfSeq DEF ClientP!TypeOK
<1>3. CASE f.kind = "settings"
  BY <1>3, ReceiveSame DEF ServerReads, ServerP!RecvFrame
<1>4. CASE f.kind = "headers"
  <2>1. f.stream \in Calls /\ f.path \in Paths
    BY <1>2, <1>4 DEF ClientP!ClientFrame, ClientP!Calls, Calls
  <2>2. ServerP!RecvNewStream(f.stream, f.path, FALSE)
    BY <1>4, ReceiveSame DEF ServerReads
  <2> QED
    BY <2>1, <2>2 DEF ServerP!RecvFrame
<1>5. CASE f.kind = "data"
  <2> DEFINE n == IF f.part > 0 THEN 1 ELSE 0
  <2>1. f.stream \in Calls /\ f.end \in BOOLEAN
    BY <1>2, <1>5 DEF ClientP!ClientFrame, ClientP!Calls, Calls
  <2>2. ServerP!RecvData(f.stream, n, f.end)
    BY <1>5, ReceiveSame DEF ServerReads
  <2>3. n \in 0 .. Len(body[f.stream])
    <3>1. pos[f.stream] \in Nat /\ Len(body[f.stream]) \in Nat
      BY <2>1, ServerAssumptions, LenProperties DEF ServerP!TypeOK, ServerP!BodiesAssumption
    <3>2. n <= Len(body[f.stream]) - pos[f.stream] /\ n \in Nat
      BY <2>2 DEF ServerP!RecvData
    <3> QED
      BY <3>1, <3>2
  <2> HIDE DEF n
  <2> QED
    BY <2>1, <2>2, <2>3 DEF ServerP!RecvFrame
<1> QED
  BY <1>2, <1>3, <1>4, <1>5 DEF ClientP!ClientFrame

\* Steps of the others leave the server alone.
LEMMA ServerStepMaps ==
  ASSUME ClientP!TypeOK, ServerP!TypeOK, [Next]_vars
  PROVE  [ServerP!Next]_(ServerP!vars)
<1>1. CASE UNCHANGED serverVars
  BY <1>1 DEF serverVars, ServerP!vars, ServerP!streamVars, ServerP!sendVars, ServerP!peerVars
<1>2. CASE ServerReads
  BY <1>2, ServerReadsFrame DEF ServerP!Next
<1>3. CASE ServerWrites
  BY <1>3, SendSame DEF ServerWrites, ServerP!Next, ServerP!ThreadStep, ServerP!PrepareResponses
<1>4. CASE Server!New \/ Server!ProcessBuf \/ Server!CollectResponses
  BY <1>4, ProcessSame DEF ServerP!Next, ServerP!ThreadStep
<1>5. CASE Server!ReapStreams \/ Server!SendError
  BY <1>5, SendSame DEF ServerP!Next, ServerP!ThreadStep, ServerP!PrepareResponses
<1>6. CASE Server!RecvError
  BY <1>6, ReceiveSame DEF ServerP!Next, ServerP!RecvFrame
<1> QED
  BY <1>1, <1>2, <1>3, <1>4, <1>5, <1>6 DEF Next, ClientStep, MakeCall, ServerStep, LinkDown, vars

-----------------------------------------------------------------------------
(* The client of the pair is a client whose peer is this server. *)

LEMMA ClientAssumptions ==
  /\ ClientP!MaxCallsAssumption
  /\ ClientP!MaxSizeAssumption
  /\ ClientP!ServerFramesAssumption
BY BoundsAssumption DEF ClientP!MaxCallsAssumption, ClientP!MaxSizeAssumption,
   ClientP!ServerFramesAssumption, ClientP!ServerFrame, Client!ServerFrame, ClientP!Calls,
   Client!Calls, ClientP!Piece, Client!Piece

LEMMA ClientInit == Init => ClientP!Init
<1> SUFFICES ASSUME Init PROVE ClientP!Init
  OBVIOUS
<1>1. Client!Init
  BY DEF Init
<1> QED
  BY <1>1 DEF Client!Init, ClientP!Init, Client!NoAnswer, ClientP!NoAnswer, Client!Calls,
              ClientP!Calls

\* The operations of the client, by both names
LEMMA RequestSame ==
  /\ Client!New => ClientP!New
  /\ \A n : Client!Call(n) => ClientP!Call(n)
  /\ \A p : Client!StartRequest(p) => ClientP!StartRequest(p)
  /\ \A k : Client!SendNextData(k) => ClientP!SendNextData(k)
  /\ Client!RequestSent => ClientP!RequestSent
  /\ Client!WriteFails => ClientP!WriteFails
<1> USE DEF Client!Goto, ClientP!Goto, Client!streamVars, ClientP!streamVars
<1>1. /\ Client!New => ClientP!New
      /\ \A n : Client!Call(n) => ClientP!Call(n)
      /\ \A p : Client!StartRequest(p) => ClientP!StartRequest(p)
      /\ Client!WriteFails => ClientP!WriteFails
  BY DEF Client!New, ClientP!New, Client!Call, ClientP!Call, Client!StartRequest,
         ClientP!StartRequest, Client!WriteFails, ClientP!WriteFails
<1>2. /\ \A k : Client!SendNextData(k) => ClientP!SendNextData(k)
      /\ Client!RequestSent => ClientP!RequestSent
  BY DEF Client!SendNextData, ClientP!SendNextData, Client!RequestSent, ClientP!RequestSent,
         Client!Sendable, ClientP!Sendable, Client!IsClosedLocal, ClientP!IsClosedLocal,
         Client!CloseLocal, ClientP!CloseLocal, Client!IsLast, ClientP!IsLast,
         Client!NextCursor, ClientP!NextCursor
<1> QED
  BY <1>1, <1>2

LEMMA ResponseSame ==
  /\ \A f : Client!HandleNextFrame(f) => ClientP!HandleNextFrame(f)
  /\ Client!ReadFails => ClientP!ReadFails
  /\ Client!Return => ClientP!Return
  /\ Client!BadResponse => ClientP!BadResponse
  /\ Client!BadMessage => ClientP!BadMessage
<1> USE DEF Client!Goto, ClientP!Goto, Client!streamVars, ClientP!streamVars,
            Client!Waiting, ClientP!Waiting, Client!Answered, ClientP!Answered,
            Client!OneFrame, ClientP!OneFrame
<1>1. \A f : Client!HandleNextFrame(f) => ClientP!HandleNextFrame(f)
  BY DEF Client!HandleNextFrame, ClientP!HandleNextFrame, Client!CloseRemote,
         ClientP!CloseRemote
<1>2. /\ Client!ReadFails => ClientP!ReadFails
      /\ Client!Return => ClientP!Return
      /\ Client!BadResponse => ClientP!BadResponse
      /\ Client!BadMessage => ClientP!BadMessage
  BY DEF Client!ReadFails, ClientP!ReadFails, Client!Return, ClientP!Return,
         Client!BadResponse, ClientP!BadResponse, Client!BadMessage, ClientP!BadMessage
<1> QED
  BY <1>1, <1>2

\* What prepare_responses writes can be read as a frame of whole answers.
LEMMA AnswersWhole ==
  ASSUME NEW f \in ServerP!OutFrame
  PROVE  /\ AsRead(f) \in Client!ServerFrame
         /\ Len(AsRead(f).body) = Len(f.body)
         /\ \A i \in 1 .. Len(f.body) :
              LET piece == AsRead(f).body[i]
              IN  piece.msg = f.body[i] /\ piece.part = 1 /\ piece.size = 1
<1>1. /\ f.stream \in Calls /\ f.body \in Seq(ServerP!Response)
      /\ f.kind \in {"headers", "data", "trailers"}
  BY DEF ServerP!OutFrame
<1>2. Len(f.body) \in Nat /\ \A i \in 1 .. Len(f.body) : f.body[i] \in ServerP!Response
  BY <1>1, LenProperties, ElementOfSeq
<1> DEFINE b == [i \in 1 .. Len(f.body) |-> [msg |-> f.body[i], part |-> 1, size |-> 1]]
<1>3. b \in [1 .. Len(f.body) -> Client!Piece]
  BY <1>2 DEF ServerP!Response, Server!Response, Client!Piece
<1>4. b \in Seq(Client!Piece) /\ Len(b) = Len(f.body)
  <2> DEFINE n == Len(f.body)
  <2>1. b \in [1 .. n -> Client!Piece] /\ n \in Nat
    BY <1>2, <1>3
  <2> HIDE DEF n, b
  <2>2. b \in Seq(Client!Piece) /\ Len(b) = n
    BY <2>1, SeqDef, LenProperties
  <2> QED
    BY <2>2 DEF n
<1>5. \A i \in 1 .. Len(f.body) : b[i].msg = f.body[i] /\ b[i].part = 1 /\ b[i].size = 1
  OBVIOUS
<1>6. AsRead(f).body = b
  BY DEF AsRead
<1> HIDE DEF b
<1>7. AsRead(f) \in Client!ServerFrame
  BY <1>1, <1>4, <1>6 DEF AsRead, Client!ServerFrame, Client!Calls, Calls
<1> QED
  BY <1>4, <1>5, <1>6, <1>7

LEMMA WholeFramed ==
  ASSUME NEW b \in Seq(Client!Piece),
         \A i \in 1 .. Len(b) : b[i].part = 1 /\ b[i].size = 1
  PROVE  ClientP!WellFramed(b)
<1>1. Len(b) \in Nat /\ \A i \in 1 .. Len(b) : b[i] \in Client!Piece
  BY LenProperties, ElementOfSeq
<1>2. b # <<>> => b[1].part = 1
  BY <1>1, EmptySeq
<1>3. ASSUME NEW i \in 1 .. Len(b), NEW d \in 0 .. b[i].size - 1
      PROVE  b[i + d] = [b[i] EXCEPT !.part = d + 1]
  <2>1. d = 0 /\ b[i].part = 1 /\ b[i] \in Client!Piece
    BY <1>1
  <2>2. b[i] = [b[i] EXCEPT !.part = 1]
    BY <2>1 DEF Client!Piece
  <2> QED
    BY <2>1, <2>2
<1>4. \A i \in 1 .. Len(b) - 1 : b[i + 1].part = 1
  BY <1>1
<1> QED
  BY <1>2, <1>3, <1>4 DEF ClientP!WellFramed

\* The next frame of the server
Upcoming == AsRead(out[Len(rcvd) + 1])

\* It is one that the client's theorems allow, and it brings whole answers.
LEMMA ClientReadsFrame ==
  ASSUME PeerInv, ClientReads
  PROVE  /\ Upcoming \in Client!ServerFrame /\ Upcoming.stream \in Calls
         /\ ClientP!KeepsFraming(Upcoming) /\ ClientP!HandleNextFrame(Upcoming)
         /\ Len(rcvd) + 1 <= Len(out)
         /\ \A k \in Calls : \A i \in 1 .. Len(c_body'[k]) :
              c_body'[k][i].part = 1 /\ c_body'[k][i].size = 1
<1> DEFINE o == out[Len(rcvd) + 1]
           f == Upcoming
<1>1. ServerP!TypeOK /\ ClientP!TypeOK /\ LinkInv
  BY DEF PeerInv, ServerP!DispatchInv, ClientP!ClientInv
<1>2. Len(rcvd) \in Nat /\ Len(out) \in Nat /\ Len(rcvd) < Len(out)
  BY <1>1, LenProperties DEF ServerP!TypeOK, ClientP!TypeOK, ClientReads
<1>3. o \in ServerP!OutFrame
  BY <1>1, <1>2, ElementOfSeq DEF ServerP!TypeOK
<1>4. /\ f \in Client!ServerFrame /\ Len(f.body) = Len(o.body)
      /\ \A i \in 1 .. Len(f.body) : f.body[i].part = 1 /\ f.body[i].size = 1
  <2>1. f = AsRead(o)
    BY DEF Upcoming
  <2> HIDE DEF f, o
  <2>2. f \in Client!ServerFrame /\ Len(f.body) = Len(o.body)
    BY <1>3, <2>1, AnswersWhole
  <2>3. \A i \in 1 .. Len(o.body) : f.body[i].part = 1 /\ f.body[i].size = 1
    BY <1>3, <2>1, AnswersWhole
  <2> QED
    BY <2>2, <2>3
<1>5. f.stream \in Calls /\ f.body \in Seq(Client!Piece)
  BY <1>4 DEF Client!ServerFrame, Client!Calls, Calls
<1>6. ClientP!HandleNextFrame(f)
  BY ResponseSame DEF ClientReads, Incoming, Upcoming, AsRead
<1>7. /\ c_body \in [Calls -> Seq(Client!Piece)]
      /\ \A k \in Calls : \A i \in 1 .. Len(c_body[k]) :
           c_body[k][i].part = 1 /\ c_body[k][i].size = 1
  BY <1>1 DEF ClientP!TypeOK, LinkInv, ClientP!Calls, Calls, ClientP!Piece, Client!Piece
<1> HIDE DEF f
<1>8. ASSUME NEW k \in Calls
      PROVE  /\ c_body[k] \o f.body \in Seq(Client!Piece)
             /\ \A i \in 1 .. Len(c_body[k] \o f.body) :
                  (c_body[k] \o f.body)[i].part = 1 /\ (c_body[k] \o f.body)[i].size = 1
  <2> DEFINE b == c_body[k]
             g == f.body
  <2>1. /\ b \in Seq(Client!Piece) /\ g \in Seq(Client!Piece)
        /\ \A i \in 1 .. Len(b) : b[i].part = 1 /\ b[i].size = 1
        /\ \A i \in 1 .. Len(g) : g[i].part = 1 /\ g[i].size = 1
    BY <1>4, <1>5, <1>7
  <2> HIDE DEF b, g
  <2>2. /\ b \o g \in Seq(Client!Piece) /\ Len(b \o g) = Len(b) + Len(g)
        /\ Len(b) \in Nat /\ Len(g) \in Nat
        /\ \A i \in 1 .. Len(b) + Len(g) :
             (b \o g)[i] = IF i <= Len(b) THEN b[i] ELSE g[i - Len(b)]
    BY <2>1, ConcatProperties, LenProperties
  <2>3. ASSUME NEW i \in 1 .. Len(b \o g)
        PROVE  (b \o g)[i].part = 1 /\ (b \o g)[i].size = 1
    <3>1. CASE i \in 1 .. Len(b)
      BY <2>1, <2>2, <3>1
    <3>2. CASE i > Len(b)
      <4>1. i - Len(b) \in 1 .. Len(g) /\ (b \o g)[i] = g[i - Len(b)]
        BY <2>2, <3>2
      <4> QED
        BY <2>1, <4>1
    <3> QED
      BY <2>2, <3>1, <3>2
  <2> QED
    BY <2>2, <2>3 DEF b, g
<1>9. ClientP!KeepsFraming(f)
  BY <1>5, <1>8, WholeFramed DEF ClientP!KeepsFraming
<1>10. \A k \in Calls : c_body'[k] \in {c_body[k], c_body[k] \o f.body}
  BY <1>5, <1>6, <1>7 DEF ClientP!HandleNextFrame
<1>11. \A k \in Calls : \A i \in 1 .. Len(c_body'[k]) :
         c_body'[k][i].part = 1 /\ c_body'[k][i].size = 1
  <2> SUFFICES ASSUME NEW k \in Calls
               PROVE  \A i \in 1 .. Len(c_body'[k]) :
                        c_body'[k][i].part = 1 /\ c_body'[k][i].size = 1
    OBVIOUS
  <2>1. CASE c_body'[k] = c_body[k]
    BY <1>7, <2>1
  <2>2. CASE c_body'[k] = c_body[k] \o f.body
    BY <1>8, <2>2
  <2> QED
    BY <1>10, <2>1, <2>2
<1> QED
  BY <1>2, <1>4, <1>5, <1>6, <1>9, <1>11 DEF f

\* Steps of the others leave the client alone.
LEMMA ClientStepMaps ==
  ASSUME PeerInv, [Next]_vars
  PROVE  [ClientP!Unbounded]_(ClientP!vars)
<1> USE DEF ClientP!Unbounded
<1>1. CASE UNCHANGED clientVars
  BY <1>1 DEF clientVars, ClientP!vars, ClientP!streamVars
<1>2. CASE MakeCall
  <2>1. calls \in Nat /\ ServerP!TypeOK
    BY DEF PeerInv, ClientP!ClientInv, ClientP!TypeOK, ServerP!DispatchInv
  <2>2. calls + 1 \in Calls
    BY <1>2, <2>1, BoundsAssumption DEF MakeCall, Calls
  <2>3. body[calls + 1] \in {Request(n) : n \in Sizes}
    BY <2>1, <2>2 DEF ServerP!TypeOK
  <2>4. Sizes \subseteq 1 .. MaxSize
    BY CallsAssumption DEF Sizes
  <2>5. Len(body[calls + 1]) \in 1 .. MaxSize
    BY <2>3, <2>4, RequestWellFormed
  <2> QED
    BY <1>2, <2>5, RequestSame DEF MakeCall, ClientP!Request
<1>3. CASE ClientWrites
  BY <1>3, RequestSame DEF ClientWrites, ClientP!Request, ClientP!Calls, Calls
<1>4. CASE Client!New \/ Client!RequestSent \/ Client!WriteFails
  BY <1>4, RequestSame DEF ClientP!Request
<1>5. CASE ClientReads
  BY <1>5, ClientReadsFrame DEF ClientP!Reads
<1>6. CASE Client!Return \/ Client!BadResponse \/ Client!BadMessage \/ Client!ReadFails
  BY <1>6, ResponseSame
<1> QED
  BY <1>1, <1>2, <1>3, <1>4, <1>5, <1>6 DEF Next, ClientStep, ServerStep, LinkDown, vars

-----------------------------------------------------------------------------
(* Both at once *)

LEMMA PeerInit == Init => PeerInv
<1> SUFFICES ASSUME Init PROVE PeerInv
  OBVIOUS
<1>1. ClientP!ClientInv
  BY ClientAssumptions, ClientInit, ClientP!ClientInit
<1>2. ServerP!DispatchInv
  BY ServerAssumptions, ServerInit, ServerP!DispatchInvInit
<1>3. LinkInv
  BY EmptySeq DEF Init, Client!Init, Server!Init, LinkInv, Client!Calls, Calls
<1> QED
  BY <1>1, <1>2, <1>3 DEF PeerInv

\* What has been written stays, and more may come.
LEMMA OutStays ==
  ASSUME PeerInv, [Next]_vars
  PROVE  /\ Len(out) \in Nat /\ Len(out') \in Nat /\ Len(out) <= Len(out')
         /\ \A i \in 1 .. Len(out) : out'[i] = out[i]
<1>1. ServerP!DispatchInv /\ out \in Seq(ServerP!OutFrame)
  BY DEF PeerInv, ServerP!DispatchInv, ServerP!TypeOK
<1>2. [ServerP!Next]_(ServerP!vars)
  BY ServerStepMaps DEF PeerInv, ServerP!DispatchInv, ClientP!ClientInv
<1>3. out' = out \/ \E f \in ServerP!OutFrame : out' = Append(out, f)
  BY <1>1, <1>2, ServerAssumptions, ServerP!OutGrows
<1> QED
  BY <1>1, <1>3, AppendProperties, LenProperties

\* What comes from the server changes when the client reads.
LEMMA ReadSteps ==
  ASSUME [Next]_vars
  PROVE  UNCHANGED <<rcvd, c_body>> \/ (ClientReads /\ out' = out)
BY DEF Next, ClientStep, MakeCall, ServerStep, LinkDown, vars, clientVars, serverVars,
   ClientWrites, Client!New, Client!Call, Client!StartRequest, Client!SendNextData,
   Client!RequestSent, Client!Return, Client!BadResponse, Client!BadMessage,
   Client!WriteFails, Client!ReadFails, Client!streamVars

LEMMA LinkStep == PeerInv /\ [Next]_vars => LinkInv'
<1> SUFFICES ASSUME PeerInv, [Next]_vars PROVE LinkInv'
  OBVIOUS
<1>1. /\ Len(out) \in Nat /\ Len(out') \in Nat /\ Len(out) <= Len(out')
      /\ \A i \in 1 .. Len(out) : out'[i] = out[i]
  BY OutStays
<1>2. rcvd \in Seq(Client!ServerFrame) /\ Len(rcvd) \in Nat /\ LinkInv
  BY LenProperties DEF PeerInv, ClientP!ClientInv, ClientP!TypeOK, ClientP!ServerFrame,
     Client!ServerFrame, ClientP!Calls, Client!Calls, ClientP!Piece, Client!Piece
<1>3. CASE UNCHANGED <<rcvd, c_body>>
  <2>1. Len(rcvd) <= Len(out') /\ \A i \in 1 .. Len(rcvd) : rcvd[i] = AsRead(out'[i])
    BY <1>1, <1>2 DEF LinkInv
  <2> QED
    BY <1>2, <1>3, <2>1 DEF LinkInv, AsRead
<1>4. CASE ClientReads /\ out' = out
  <2>1. /\ Upcoming \in Client!ServerFrame /\ ClientP!HandleNextFrame(Upcoming)
        /\ Len(rcvd) + 1 <= Len(out)
        /\ \A k \in Calls : \A i \in 1 .. Len(c_body'[k]) :
             c_body'[k][i].part = 1 /\ c_body'[k][i].size = 1
    BY <1>4, ClientReadsFrame
  <2>2. rcvd' = Append(rcvd, Upcoming)
    BY <2>1 DEF ClientP!HandleNextFrame
  <2>3. /\ Len(rcvd') = Len(rcvd) + 1 /\ rcvd'[Len(rcvd) + 1] = Upcoming
        /\ \A i \in 1 .. Len(rcvd) : rcvd'[i] = rcvd[i]
    BY <1>2, <2>1, <2>2, AppendProperties
  <2>4. \A i \in 1 .. Len(rcvd') : rcvd'[i] = AsRead(out[i])
    BY <1>2, <2>3 DEF LinkInv, Upcoming
  <2> QED
    BY <1>4, <2>1, <2>3, <2>4 DEF LinkInv, AsRead
<1> QED
  BY <1>3, <1>4, ReadSteps

LEMMA PeerStep == PeerInv /\ [Next]_vars => PeerInv'
<1> SUFFICES ASSUME PeerInv, [Next]_vars PROVE PeerInv'
  OBVIOUS
<1>1. ClientP!ClientInv'
  <2>1. ClientP!ClientInv /\ [ClientP!Unbounded]_(ClientP!vars)
    BY ClientStepMaps DEF PeerInv
  <2> QED
    BY <2>1, ClientAssumptions, ClientP!ClientStep
<1>2. ServerP!DispatchInv'
  <2>1. ServerP!DispatchInv /\ [ServerP!Next]_(ServerP!vars)
    BY ServerStepMaps DEF PeerInv, ClientP!ClientInv, ServerP!DispatchInv
  <2> QED
    BY <2>1, ServerAssumptions, ServerP!DispatchInvStep
<1> QED
  BY <1>1, <1>2, LinkStep DEF PeerInv

LEMMA PeerInvariant == Spec => []PeerInv
  BY PeerInit, PeerStep, PTL DEF Spec

\* The pair behaves as the server of GrpcServerConnection and its peer do, and
\* as GrpcClient and its server do: whatever the other side is promised holds.
LEMMA SpecMaps == Spec => ServerP!Spec /\ ClientP!UnboundedSpec
<1>1. PeerInv /\ [Next]_vars => [ServerP!Next]_(ServerP!vars)
  BY ServerStepMaps DEF PeerInv, ClientP!ClientInv, ServerP!DispatchInv
<1>2. PeerInv /\ [Next]_vars => [ClientP!Unbounded]_(ClientP!vars)
  BY ClientStepMaps
<1> QED
  BY <1>1, <1>2, ServerInit, ClientInit, PeerInvariant, PTL
  DEF Spec, ServerP!Spec, ClientP!UnboundedSpec

\* What the theorems of the two sides say of the pair
Promises ==
  /\ ClientP!TypeOK /\ ClientP!AnswerIsStreamBody
  /\ ServerP!TypeOK /\ ServerP!DispatchInOrder /\ ServerP!AnswersOwnStream
  /\ ServerP!ResponseBlocks

LEMMA PromisesKept == Spec => []Promises
<1>1. ServerP!Spec => []ServerP!DispatchInOrder
  BY ServerAssumptions, ServerP!DispatchesInOrder
<1>2. ServerP!Spec => []ServerP!AnswersOwnStream
  BY ServerAssumptions, ServerP!AnswersOnOwnStream
<1>3. ServerP!Spec => []ServerP!ResponseBlocks
  BY ServerAssumptions, ServerP!BlocksStayTogether
<1>4. ServerP!Spec => []ServerP!TypeOK
  BY ServerAssumptions, ServerP!TypeCorrect
<1>5. ClientP!UnboundedSpec => []ClientP!ReadInv
  BY ClientAssumptions, ClientP!ReadInvariant
<1>6. ClientP!UnboundedSpec => []ClientP!ClientInv
  BY ClientAssumptions, ClientP!ClientInvariant
<1>7. ClientP!ReadInv => ClientP!AnswerIsStreamBody
  BY DEF ClientP!ReadInv
<1>8. ClientP!ClientInv => ClientP!TypeOK
  BY DEF ClientP!ClientInv
<1> QED
  BY <1>1, <1>2, <1>3, <1>4, <1>5, <1>6, <1>7, <1>8, SpecMaps, PTL DEF Promises

-----------------------------------------------------------------------------
(* The order of the calls *)

LEMMA AskedAppend ==
  ASSUME sent \in Seq(ClientP!ClientFrame), NEW e \in ClientP!ClientFrame,
         sent' = Append(sent, e), NEW k
  PROVE  Asked(k)' = IF e.kind = "headers" /\ e.stream = k THEN Asked(k) \cup {e.path}
                                                           ELSE Asked(k)
<1> DEFINE l == Len(sent)
           H == {j \in 1 .. l : sent[j].kind = "headers" /\ sent[j].stream = k}
           G == {j \in 1 .. l + 1 : sent'[j].kind = "headers" /\ sent'[j].stream = k}
<1>1. /\ l \in Nat /\ Len(sent') = l + 1
      /\ \A j \in 1 .. l : sent'[j] = sent[j]
      /\ sent'[l + 1] = e
  BY AppendProperties, LenProperties
<1>2. Asked(k) = {sent[i].path : i \in H} /\ Asked(k)' = {sent'[i].path : i \in G}
  BY <1>1 DEF Asked
<1>3. G = IF e.kind = "headers" /\ e.stream = k THEN H \cup {l + 1} ELSE H
  BY <1>1
<1>4. \A i \in H : sent'[i] = sent[i]
  BY <1>1
<1> HIDE DEF l, H, G
<1>5. {sent'[i].path : i \in H} = {sent[i].path : i \in H}
  BY <1>4
<1>6. CASE e.kind = "headers" /\ e.stream = k
  <2>1. {sent'[i].path : i \in H \cup {l + 1}} = {sent'[i].path : i \in H} \cup {e.path}
    BY <1>1
  <2> QED
    BY <1>2, <1>3, <1>5, <1>6, <2>1
<1>7. CASE ~(e.kind = "headers" /\ e.stream = k)
  BY <1>2, <1>3, <1>5, <1>7
<1> QED
  BY <1>6, <1>7

\* Only the HEADERS of a call ask for anything.
LEMMA AskedSteps ==
  ASSUME PeerInv, [Next]_vars
  PROVE  \/ \A k : Asked(k)' = Asked(k)
         \/ /\ UNCHANGED serverVars
            /\ calls \in Calls /\ at = "start" /\ at' = "send"
            /\ UNCHANGED <<calls, result>>
            /\ \E p \in Paths : \A k :
                 Asked(k)' = IF k = calls THEN Asked(k) \cup {p} ELSE Asked(k)
<1>1. ClientP!TypeOK /\ sent \in Seq(ClientP!ClientFrame)
  BY DEF PeerInv, ClientP!ClientInv, ClientP!TypeOK
<1>2. CASE UNCHANGED sent
  BY <1>2 DEF Asked
<1>3. CASE Client!New
  <2> DEFINE e == [kind |-> "settings"]
  <2>1. e \in ClientP!ClientFrame /\ sent' = Append(sent, e) /\ e.kind # "headers"
    BY <1>3 DEF Client!New, ClientP!ClientFrame
  <2> HIDE DEF e
  <2> QED
    BY <1>1, <2>1, AskedAppend
<1>4. ASSUME NEW k \in Calls, Client!SendNextData(k) PROVE \A h : Asked(h)' = Asked(h)
  <2> DEFINE e == ClientP!NextData(k)
  <2>1. e \in ClientP!ClientFrame
    BY <1>1, ClientAssumptions, ClientP!NextDataFrame DEF ClientP!Calls, Calls
  <2>2. sent' = Append(sent, e) /\ e.kind = "data"
    BY <1>4, RequestSame DEF ClientP!SendNextData, ClientP!NextData
  <2> HIDE DEF e
  <2> QED
    BY <1>1, <2>1, <2>2, AskedAppend
<1>5. ASSUME NEW p \in Paths, Client!StartRequest(p)
      PROVE  /\ calls \in Calls /\ at = "start" /\ at' = "send"
             /\ UNCHANGED <<calls, result>>
             /\ \A k : Asked(k)' = IF k = calls THEN Asked(k) \cup {p} ELSE Asked(k)
  <2> DEFINE e == [kind |-> "headers", stream |-> calls, path |-> p]
  <2>1. /\ calls \in Calls /\ at = "start" /\ at' = "send" /\ UNCHANGED <<calls, result>>
        /\ sent' = Append(sent, e)
    BY <1>1, <1>5, BoundsAssumption
    DEF Client!StartRequest, Client!Goto, ClientP!TypeOK, Calls
  <2>2. /\ e \in ClientP!ClientFrame
        /\ e.kind = "headers" /\ e.stream = calls /\ e.path = p
    BY <2>1 DEF ClientP!ClientFrame, ClientP!Calls, Calls
  <2> HIDE DEF e
  <2> QED
    BY <1>1, <2>1, <2>2, AskedAppend
<1>6. CASE \E p \in Paths : Client!StartRequest(p) /\ UNCHANGED serverVars
  BY <1>5, <1>6
<1> QED
  BY <1>2, <1>3, <1>4, <1>6 DEF Next, ClientStep, MakeCall, ServerStep, LinkDown, vars,
     clientVars, ClientWrites, ClientReads, Client!Call, Client!RequestSent,
     Client!HandleNextFrame, Client!Return, Client!BadResponse, Client!BadMessage,
     Client!WriteFails, Client!ReadFails

\* Where the client is, and what has returned
LEMMA ResultSteps ==
  ASSUME PeerInv, [Next]_vars
  PROVE  \/ UNCHANGED <<at, calls, result>>
         \/ UNCHANGED <<calls, result>> /\ at = "new" /\ at' = "idle"
         \/ UNCHANGED result /\ at = "idle" /\ at' = "start" /\ calls' = calls + 1
         \/ UNCHANGED <<calls, result>> /\ at = "start" /\ at' = "send"
         \/ UNCHANGED <<calls, result>> /\ at = "send" /\ at' = "response"
         \/ UNCHANGED <<calls, result>> /\ at' = "panicked"
         \/ /\ at = "response" /\ at' = "idle" /\ UNCHANGED calls
            /\ c_body[calls] # <<>>
            /\ result' = [result EXCEPT ![calls] = c_body[calls]]
BY DEF Next, ClientStep, MakeCall, ServerStep, LinkDown, vars, clientVars, ClientWrites,
   ClientReads, Client!New, Client!Call, Client!StartRequest, Client!SendNextData,
   Client!RequestSent, Client!HandleNextFrame, Client!Return, Client!Answered,
   Client!OneFrame, Client!BadResponse, Client!BadMessage, Client!WriteFails,
   Client!ReadFails, Client!Goto

LEMMA OrderStep == PeerInv /\ OrderInv /\ [Next]_vars => OrderInv'
<1> SUFFICES ASSUME PeerInv, OrderInv, [Next]_vars PROVE OrderInv'
  OBVIOUS
<1>1. /\ calls \in Nat /\ at \in {"new", "idle", "start", "send", "response", "panicked"}
      /\ at \in {"start", "send", "response"} => calls \in Calls
      /\ DOMAIN result = Calls
  BY BoundsAssumption DEF PeerInv, ClientP!ClientInv, ClientP!TypeOK, Calls, ClientP!Calls
<1>2. \A k \in Calls : k \in Nat /\ k > 0
  BY DEF Calls
<1>3. \A k \in Calls : k > calls' \/ (k = calls' /\ at' = "start") => Asked(k)' = {}
  <2>1. CASE \A k : Asked(k)' = Asked(k)
    <3>1. CASE at = "idle" /\ at' = "start" /\ calls' = calls + 1
      BY <1>1, <1>2, <2>1, <3>1 DEF OrderInv
    <3>2. CASE calls' = calls /\ (at' = "start" => at = "start")
      BY <2>1, <3>2 DEF OrderInv
    <3> QED
      BY <3>1, <3>2, ResultSteps
  <2>2. CASE /\ calls \in Calls /\ at' = "send" /\ UNCHANGED calls
             /\ \E p \in Paths : \A k :
                  Asked(k)' = IF k = calls THEN Asked(k) \cup {p} ELSE Asked(k)
    BY <1>1, <1>2, <2>2 DEF OrderInv
  <2> QED
    BY <2>1, <2>2, AskedSteps
<1>4. /\ at' = "new" => calls' = 0
      /\ \A k \in Calls : k < calls' \/ (k = calls' /\ at' = "idle") => result'[k] # <<>>
      /\ \A k \in Calls :
           k > calls' \/ (k = calls' /\ at' \in {"start", "send", "response"})
             => result'[k] = <<>>
  <2>1. CASE UNCHANGED <<at, calls, result>>
    BY <2>1 DEF OrderInv
  <2>2. CASE UNCHANGED <<calls, result>> /\ at = "new" /\ at' = "idle"
    BY <1>1, <1>2, <2>2 DEF OrderInv
  <2>3. CASE UNCHANGED result /\ at = "idle" /\ at' = "start" /\ calls' = calls + 1
    BY <1>1, <1>2, <2>3 DEF OrderInv
  <2>4. CASE UNCHANGED <<calls, result>> /\ at \in {"start", "send"}
                /\ at' \in {"send", "response"}
    BY <2>4 DEF OrderInv
  <2>5. CASE UNCHANGED <<calls, result>> /\ at' = "panicked"
    BY <1>1, <1>2, <2>5 DEF OrderInv
  <2>6. CASE /\ at = "response" /\ at' = "idle" /\ UNCHANGED calls
             /\ c_body[calls] # <<>>
             /\ result' = [result EXCEPT ![calls] = c_body[calls]]
    BY <1>1, <1>2, <2>6 DEF OrderInv
  <2> QED
    BY <2>1, <2>2, <2>3, <2>4, <2>5, <2>6, ResultSteps
<1> QED
  BY <1>3, <1>4 DEF OrderInv

\* What the thread of the server does to paths and calls of handle_method
LEMMA PathSteps ==
  ASSUME PeerInv, [Next]_vars
  PROVE  \/ UNCHANGED <<path, handled>>
         \/ /\ UNCHANGED <<handled, sent>>
            /\ \E s \in Calls : \E p \in Asked(s) : path' = [path EXCEPT ![s] = p]
         \/ /\ UNCHANGED <<path, clientVars>>
            /\ \E s \in Calls, n \in Nat :
                 /\ path[s] # ""
                 /\ handled' = [handled EXCEPT ![s] = Append(@, [path |-> path[s], no |-> n])]
<1>1. /\ ClientP!TypeOK /\ sent \in Seq(ClientP!ClientFrame) /\ Len(sent) \in Nat
      /\ ServerP!TypeOK /\ frames \in Nat
  BY ServerAssumptions, LenProperties
  DEF PeerInv, ClientP!ClientInv, ClientP!TypeOK, ServerP!DispatchInv, ServerP!TypeOK,
      ServerP!MaxFramesAssumption
<1>2. CASE ServerReads /\ UNCHANGED clientVars
  <2> DEFINE f == sent[frames + 1]
  <2>1. frames + 1 \in 1 .. Len(sent) /\ f \in ClientP!ClientFrame
    BY <1>1, <1>2, ElementOfSeq DEF ServerReads
  <2>2. CASE f.kind = "headers"
    <3>1. f.stream \in Calls /\ Server!RecvNewStream(f.stream, f.path, FALSE)
      BY <1>2, <2>1, <2>2 DEF ServerReads, ClientP!ClientFrame, ClientP!Calls, Calls
    <3>2. f.path \in Asked(f.stream)
      BY <2>1, <2>2 DEF Asked
    <3> QED
      BY <1>2, <3>1, <3>2 DEF Server!RecvNewStream, clientVars
  <2>3. CASE f.kind # "headers"
    <3>1. f.kind \in {"settings", "data"}
      BY <2>1, <2>3 DEF ClientP!ClientFrame
    <3> QED
      BY <1>2, <3>1 DEF ServerReads, Server!RecvOther, Server!RecvData, Server!streamVars
  <2> QED
    BY <2>2, <2>3
<1>3. CASE Server!ProcessFrame /\ UNCHANGED clientVars
  <2> DEFINE s == cur.stream
  <2>1. s \in Calls
    BY <1>1, <1>3 DEF Server!ProcessFrame, ServerP!TypeOK
  <2>2. Server!MethodsNamed(path[s]) # {}
    BY <1>3 DEF Server!ProcessFrame
  <2>3. path[s] # ""
    <3>1. PICK i \in 1 .. Len(Methods) : Methods[i] = path[s]
      BY <2>2 DEF Server!MethodsNamed
    <3>2. Methods[i] \in Paths
      BY <3>1, ServerAssumptions, ElementOfSeq DEF ServerP!MethodsAssumption
    <3> QED
      BY <3>1, <3>2, NamesAssumption
  <2>4. req_buf[s][1].no \in Nat
    <3>1. req_buf[s] \in Seq(ServerP!Piece) /\ Len(req_buf[s]) \in Nat
      BY <1>1, <2>1, LenProperties DEF ServerP!TypeOK
    <3>2. req_buf[s] # <<>>
      BY <1>3 DEF Server!ProcessFrame, Server!ParseFrame
    <3>3. 1 \in 1 .. Len(req_buf[s])
      BY <3>1, <3>2, EmptySeq
    <3>4. req_buf[s][1] \in ServerP!Piece
      BY <3>1, <3>3, ElementOfSeq
    <3> QED
      BY <3>4 DEF ServerP!Piece
  <2>5. /\ UNCHANGED path
        /\ handled' = [handled EXCEPT ![s] = Append(@, [path |-> path[s], no |-> req_buf[s][1].no])]
    BY <1>3 DEF Server!ProcessFrame
  <2> HIDE DEF s
  <2> QED
    BY <1>3, <2>1, <2>3, <2>4, <2>5
<1>4. CASE UNCHANGED <<path, handled>>
  BY <1>4
<1> QED
  BY <1>2, <1>3, <1>4 DEF Next, ClientStep, MakeCall, ServerStep, LinkDown, vars, serverVars,
     Server!New, Server!ProcessBuf, Server!ProcessPanic, Server!ProcessReturn,
     Server!CollectResponses, ServerWrites, Server!SendHeaders, Server!SendData,
     Server!SendTrailers, Server!ReapStreams, Server!RecvError, Server!SendError,
     Server!streamVars

LEMMA PathStep == PeerInv /\ PathInv /\ [Next]_vars => PathInv'
<1> SUFFICES ASSUME PeerInv, PathInv, [Next]_vars PROVE PathInv'
  OBVIOUS
<1>1. \A k \in Calls : Asked(k) \subseteq Asked(k)'
  BY AskedSteps
<1>2. /\ path \in [Calls -> Paths \cup {""}]
      /\ handled \in [Calls -> Seq(ServerP!Call)]
  BY DEF PeerInv, ServerP!DispatchInv, ServerP!TypeOK, ServerP!NoPath
<1>3. CASE UNCHANGED <<path, handled>>
  BY <1>1, <1>3 DEF PathInv
<1>4. CASE /\ UNCHANGED <<handled, sent>>
           /\ \E s \in Calls : \E p \in Asked(s) : path' = [path EXCEPT ![s] = p]
  <2>1. \A k \in Calls : Asked(k)' = Asked(k)
    BY <1>4 DEF Asked
  <2> QED
    BY <1>2, <1>4, <2>1 DEF PathInv
<1>5. ASSUME UNCHANGED path, NEW s \in Calls, NEW n \in Nat, path[s] # "",
             handled' = [handled EXCEPT ![s] = Append(@, [path |-> path[s], no |-> n])]
      PROVE  PathInv'
  <2>1. path[s] \in Asked(s)
    BY <1>5 DEF PathInv
  <2>2. /\ Len(handled[s]) \in Nat /\ handled'[s] = Append(handled[s], [path |-> path[s], no |-> n])
        /\ \A k \in Calls \ {s} : handled'[k] = handled[k]
    BY <1>2, <1>5, LenProperties
  <2>3. /\ Len(handled'[s]) = Len(handled[s]) + 1
        /\ \A j \in 1 .. Len(handled[s]) : handled'[s][j] = handled[s][j]
        /\ handled'[s][Len(handled[s]) + 1].path = path[s]
    <3> DEFINE c == [path |-> path[s], no |-> n]
    <3>1. handled[s] \in Seq(ServerP!Call) /\ handled'[s] = Append(handled[s], c) /\ c.path = path[s]
      BY <1>2, <2>2
    <3> HIDE DEF c
    <3> QED
      BY <3>1, AppendProperties, LenProperties
  <2>4. ASSUME NEW j \in 1 .. Len(handled'[s]) PROVE handled'[s][j].path \in Asked(s)
    <3>1. CASE j = Len(handled[s]) + 1
      BY <2>1, <2>3, <3>1
    <3>2. CASE j \in 1 .. Len(handled[s])
      BY <2>3, <3>2 DEF PathInv
    <3> QED
      BY <2>2, <2>3, <3>1, <3>2
  <2>5. \A k \in Calls : \A j \in 1 .. Len(handled'[k]) : handled'[k][j].path \in Asked(k)
    BY <2>2, <2>4 DEF PathInv
  <2> QED
    BY <1>1, <1>5, <2>5 DEF PathInv
<1> QED
  BY <1>3, <1>4, <1>5, PathSteps

CallInv == PeerInv /\ OrderInv /\ PathInv

LEMMA CallInvariant == Spec => []CallInv
<1>1. Init => OrderInv /\ PathInv
  <2> SUFFICES ASSUME Init PROVE OrderInv /\ PathInv
    OBVIOUS
  <2>1. /\ at = "new" /\ calls = 0 /\ sent = <<>>
        /\ result = [k \in Calls |-> <<>>]
        /\ path = [k \in Calls |-> ""] /\ handled = [k \in Calls |-> <<>>]
    BY DEF Init, Client!Init, Server!Init, Client!NoAnswer, Server!NoPath, Client!Calls, Calls
  <2> DEFINE Empty == 1 .. 0
  <2>2. /\ 1 .. Len(sent) = Empty
        /\ \A k \in Calls : 1 .. Len(handled[k]) = Empty
    BY <2>1, EmptySeq
  <2>7. Empty = {}
    OBVIOUS
  <2> HIDE DEF Empty
  <2>8. /\ 1 .. Len(sent) = {}
        /\ \A k \in Calls : 1 .. Len(handled[k]) = {}
    BY <2>2, <2>7
  <2>3. ASSUME NEW k \in Calls PROVE k > 0 /\ k \in Nat /\ Asked(k) = {}
    <3>1. k \in Nat /\ k > 0
      BY DEF Calls
    <3>2. Asked(k) = {}
      BY <2>8 DEF Asked
    <3> QED
      BY <3>1, <3>2
  <2>4. OrderInv
    <3>1. at # "start" /\ at # "idle" /\ at \notin {"start", "send", "response"}
      BY <2>1
    <3>2. calls = 0
      BY <2>1
    <3>3. \A k \in Calls : ~ (k < calls)
      BY <2>3, <3>2
    <3>4. \A k \in Calls : result[k] = <<>>
      BY <2>1
    <3> QED
      BY <2>3, <3>1, <3>2, <3>3, <3>4 DEF OrderInv
  <2>5. ASSUME NEW k \in Calls
        PROVE  /\ path[k] \in Asked(k) \cup {""}
               /\ \A j \in 1 .. Len(handled[k]) : handled[k][j].path \in Asked(k)
    <3>1. path[k] = ""
      BY <2>1
    <3> QED
      BY <2>8, <3>1
  <2>6. PathInv
    BY <2>5 DEF PathInv
  <2> QED
    BY <2>4, <2>6
<1>2. Init => CallInv
  BY <1>1, PeerInit DEF CallInv
<1>3. CallInv /\ [Next]_vars => CallInv'
  BY PeerStep, OrderStep, PathStep DEF CallInv
<1> QED
  BY <1>2, <1>3, PTL DEF Spec

-----------------------------------------------------------------------------
(* What is executed and what is answered *)

LEMMA RunOnce ==
  ASSUME Promises, NEW k \in Calls
  PROVE  Len(handled[k]) \in {0, 1}
<1>1. /\ Len(handled[k]) \in Nat /\ pos[k] \in Nat /\ pos[k] <= Len(body[k])
      /\ body[k] \in {Request(n) : n \in Sizes}
  BY LenProperties DEF Promises, ServerP!TypeOK
<1>2. PICK n \in Sizes : body[k] = Request(n)
  BY <1>1
<1>3. n \in Nat \ {0}
  BY BoundsAssumption, CallsAssumption DEF Sizes
<1>4. ServerP!Received(k) \subseteq {1}
  BY <1>1, <1>2, <1>3, RequestWellFormed DEF ServerP!Received
<1>5. 2 \notin 1 .. Len(handled[k])
  BY <1>4 DEF Promises, ServerP!DispatchInOrder
<1>6. Len(handled[k]) \in Nat
  BY <1>1
<1>7. \A m \in Nat : 2 \notin 1 .. m => m = 0 \/ m = 1
  OBVIOUS
<1> QED
  BY <1>5, <1>6, <1>7

\* What a call has returned was in an answer to it, followed by trailers.
LEMMA ReturnedWasSent ==
  ASSUME PeerInv, Promises, NEW k \in Calls, result[k] # <<>>
  PROVE  /\ \E i \in 1 .. Len(rcvd) : out[i].stream = k /\ out[i].kind = "trailers"
         /\ \E i \in 1 .. Len(rcvd) : \E j \in 1 .. Len(out[i].body) :
              /\ out[i].stream = k /\ out[i].kind = "data"
              /\ result[k][1].msg = out[i].body[j]
<1>1. /\ k \in ClientP!Calls /\ result[k] \in Seq(ClientP!Piece)
      /\ Len(rcvd) \in Nat /\ Len(rcvd) <= Len(out) /\ Len(out) \in Nat
      /\ out \in Seq(ServerP!OutFrame)
  BY LenProperties DEF PeerInv, LinkInv, Promises, ClientP!TypeOK, ServerP!TypeOK,
     ClientP!Calls, Calls
<1>2. \A i \in 1 .. Len(rcvd) :
        /\ out[i] \in ServerP!OutFrame
        /\ rcvd[i].stream = out[i].stream
        /\ rcvd[i].kind \in {"headers", "data"}
        /\ rcvd[i].kind = "data" => out[i].kind = "data"
        /\ rcvd[i].end => out[i].kind = "trailers"
        /\ Len(rcvd[i].body) = Len(out[i].body)
        /\ \A j \in 1 .. Len(out[i].body) : rcvd[i].body[j].msg = out[i].body[j]
  <2> SUFFICES ASSUME NEW i \in 1 .. Len(rcvd)
               PROVE  /\ out[i] \in ServerP!OutFrame
                      /\ rcvd[i].stream = out[i].stream
                      /\ rcvd[i].kind \in {"headers", "data"}
                      /\ rcvd[i].kind = "data" => out[i].kind = "data"
                      /\ rcvd[i].end => out[i].kind = "trailers"
                      /\ Len(rcvd[i].body) = Len(out[i].body)
                      /\ \A j \in 1 .. Len(out[i].body) : rcvd[i].body[j].msg = out[i].body[j]
    OBVIOUS
  <2>1. out[i] \in ServerP!OutFrame /\ rcvd[i] = AsRead(out[i])
    BY <1>1, ElementOfSeq DEF PeerInv, LinkInv
  <2>2. /\ Len(rcvd[i].body) = Len(out[i].body)
        /\ \A j \in 1 .. Len(out[i].body) : rcvd[i].body[j].msg = out[i].body[j]
    BY <2>1, AnswersWhole
  <2>3. /\ rcvd[i].stream = out[i].stream
        /\ rcvd[i].kind = IF out[i].kind = "data" THEN "data" ELSE "headers"
        /\ rcvd[i].end = (out[i].kind = "trailers")
    BY <2>1 DEF AsRead
  <2> QED
    BY <2>1, <2>2, <2>3
<1>3. /\ \E i \in ClientP!OwnFrames(k) : ClientP!Ends(rcvd[i])
      /\ ClientP!IsAllOf(result[k], k)
  BY <1>1 DEF Promises, ClientP!AnswerIsStreamBody, ClientP!NoAnswer
<1>4. \E i \in 1 .. Len(rcvd) : out[i].stream = k /\ out[i].kind = "trailers"
  BY <1>2, <1>3 DEF ClientP!OwnFrames, ClientP!Ends
<1>5. 1 \in 1 .. Len(result[k])
  BY <1>1, EmptySeq, LenProperties
<1>6. PICK p \in ClientP!Arrived(k) : ClientP!PieceAt(p) = result[k][1]
  <2>1. {ClientP!PieceAt(p) : p \in ClientP!Arrived(k)}
          = {result[k][n] : n \in 1 .. Len(result[k])}
    BY <1>3 DEF ClientP!IsAllOf
  <2>2. result[k][1] \in {result[k][n] : n \in 1 .. Len(result[k])}
    BY <1>5
  <2> QED
    BY <2>1, <2>2
<1>7. PICK i \in ClientP!OwnFrames(k) : \E j \in 1 .. Len(rcvd[i].body) :
        rcvd[i].kind = "data" /\ rcvd[i].body[j] = result[k][1]
  BY <1>6 DEF ClientP!Arrived, ClientP!PieceAt
<1>8. i \in 1 .. Len(rcvd) /\ rcvd[i].stream = k
  BY <1>7 DEF ClientP!OwnFrames
<1>9. out[i].stream = k /\ out[i].kind = "data"
  BY <1>2, <1>7, <1>8
<1>10. \E j \in 1 .. Len(out[i].body) : result[k][1].msg = out[i].body[j]
  BY <1>2, <1>7, <1>8
<1> QED
  BY <1>4, <1>8, <1>9, <1>10

LEMMA Answered ==
  ASSUME PeerInv, Promises, NEW k \in Calls, result[k] # <<>>
  PROVE  /\ Len(handled[k]) = 1
         /\ result[k][1].msg.method = Server!FindMethod(handled[k][1].path)
         /\ result[k][1].msg.method \in Nat \ {0}
<1>1. PICK i \in 1 .. Len(rcvd) : \E j \in 1 .. Len(out[i].body) :
        /\ out[i].stream = k /\ out[i].kind = "data"
        /\ result[k][1].msg = out[i].body[j]
  BY ReturnedWasSent
<1> PICK j \in 1 .. Len(out[i].body) :
        /\ out[i].stream = k /\ out[i].kind = "data"
        /\ result[k][1].msg = out[i].body[j]
  BY <1>1
<1>2. i \in ServerP!DataFrames
  BY <1>1, LenProperties DEF ServerP!DataFrames, PeerInv, LinkInv, Promises, ServerP!TypeOK,
     ClientP!TypeOK
<1> DEFINE calls_k == handled[k]
           T == ServerP!MethodsNamed(calls_k[j].path)
<1>3. /\ Len(out[i].body) \in 1 .. Len(calls_k)
      /\ out[i].body[j].method \in T /\ \A m \in T : out[i].body[j].method <= m
  BY <1>1, <1>2 DEF Promises, ServerP!AnswersOwnStream
<1>4. Len(calls_k) = 1 /\ j = 1
  BY <1>1, <1>3, RunOnce
<1>5. /\ ServerP!FindMethod(calls_k[j].path) \in T /\ T # {}
      /\ ServerP!FindMethod(calls_k[j].path) \in Nat \ {0}
      /\ \A m \in T : ServerP!FindMethod(calls_k[j].path) <= m
  BY <1>3, ServerAssumptions, ServerP!FindMethodFirst
<1>6. T \subseteq Nat
  BY DEF ServerP!MethodsNamed
<1>7. out[i].body[j].method = ServerP!FindMethod(calls_k[j].path)
  BY <1>3, <1>5, <1>6
<1>8. ServerP!FindMethod(calls_k[j].path) = Server!FindMethod(calls_k[j].path)
  BY DEF ServerP!FindMethod, Server!FindMethod, ServerP!MethodsNamed, Server!MethodsNamed
<1> QED
  BY <1>1, <1>4, <1>5, <1>7, <1>8

\* A call returns with its whole response block read, though the client looks
\* at no status: the answer it read comes before the trailers.
THEOREM ReturnsAfterWholeBlock == Spec => []ReturnsAfterTrailers
<1>1. PeerInv /\ Promises => ReturnsAfterTrailers
  <2> SUFFICES ASSUME PeerInv, Promises, NEW k \in Calls, result[k] # <<>>
               PROVE  \E i \in 1 .. Len(rcvd) :
                        /\ out[i].stream = k /\ out[i].kind = "trailers"
                        /\ \E j \in 1 .. i - 1 : out[j].stream = k /\ out[j].kind = "data"
    BY DEF ReturnsAfterTrailers
  <2>1. PICK i \in 1 .. Len(rcvd) : out[i].stream = k /\ out[i].kind = "trailers"
    BY ReturnedWasSent
  <2>2. /\ i \in 1 .. Len(out) /\ i \in Nat /\ Len(out) \in Nat
        /\ out \in Seq(ServerP!OutFrame)
    BY LenProperties DEF PeerInv, LinkInv, Promises, ServerP!TypeOK, ClientP!TypeOK
  <2>3. i % 3 = 0 /\ out[i - 1].stream = k
    BY <2>1, <2>2 DEF Promises, ServerP!ResponseBlocks
  <2>4. i - 1 \in 1 .. i - 1 /\ (i - 1) % 3 = 2 /\ i - 1 \in 1 .. Len(out)
    BY <2>2, <2>3
  <2>5. out[i - 1].kind \notin {"headers", "trailers"}
    BY <2>4 DEF Promises, ServerP!ResponseBlocks
  <2>6. out[i - 1].kind = "data"
    <3>1. out[i - 1] \in ServerP!OutFrame
      BY <2>2, <2>4, ElementOfSeq
    <3> QED
      BY <2>5, <3>1 DEF ServerP!OutFrame
  <2> QED
    BY <2>1, <2>3, <2>4, <2>6
<1> QED
  BY <1>1, PeerInvariant, PromisesKept, PTL

-----------------------------------------------------------------------------
(* The refinement of UnaryRpc *)

RAsked    == [k \in Calls |-> Asked(k)]
RExecuted == [k \in Calls |-> Len(handled[k])]
RAnswer   == [k \in Calls |-> IF result[k] = <<>> THEN 0 ELSE result[k][1].msg.method]
RFailed   == at = "panicked"

\* What every state of the pair satisfies that the steps of UnaryRpc look at
RpcInv ==
  /\ CallInv
  /\ \A k \in Calls : Len(handled[k]) \in {0, 1}
  /\ \A k \in Calls : result[k] # <<>> =>
       /\ Len(handled[k]) = 1
       /\ result[k][1].msg.method = Server!FindMethod(handled[k][1].path)
       /\ result[k][1].msg.method \in Nat \ {0}

LEMMA RpcInvariant == Spec => []RpcInv
<1>1. CallInv /\ Promises => RpcInv
  BY RunOnce, Answered DEF CallInv, RpcInv
<1> QED
  BY <1>1, CallInvariant, PromisesKept, PTL

\* The actions of UnaryRpc, in the terms of this module
LEMMA RpcActions ==
  /\ \A k, p : Rpc!Request(k, p) <=>
       /\ ~ RFailed /\ RAsked[k] = {} /\ \A j \in 1 .. k - 1 : RAnswer[j] # 0
       /\ RAsked' = [RAsked EXCEPT ![k] = {p}]
       /\ UNCHANGED <<RExecuted, RAnswer, RFailed>>
  /\ \A k : Rpc!Execute(k) <=>
       /\ RAsked[k] # {} /\ RExecuted[k] = 0
       /\ RExecuted' = [RExecuted EXCEPT ![k] = 1]
       /\ UNCHANGED <<RAsked, RAnswer, RFailed>>
  /\ \A k : Rpc!Return(k) <=>
       /\ ~ RFailed /\ RExecuted[k] = 1 /\ RAnswer[k] = 0
       /\ \E p \in RAsked[k] : RAnswer' = [RAnswer EXCEPT ![k] = Server!FindMethod(p)]
       /\ UNCHANGED <<RAsked, RExecuted, RFailed>>
  /\ Rpc!Fail <=> ~ RFailed /\ RFailed' /\ UNCHANGED <<RAsked, RExecuted, RAnswer>>
  /\ UNCHANGED Rpc!vars <=> UNCHANGED <<RAsked, RExecuted, RAnswer, RFailed>>
<1> USE DEF RAsked, RExecuted, RAnswer, RFailed, Asked
<1>1. \A k, p : Rpc!Request(k, p) <=>
       /\ ~ RFailed /\ RAsked[k] = {} /\ \A j \in 1 .. k - 1 : RAnswer[j] # 0
       /\ RAsked' = [RAsked EXCEPT ![k] = {p}]
       /\ UNCHANGED <<RExecuted, RAnswer, RFailed>>
  BY DEF Rpc!Request
<1>2. \A k : Rpc!Execute(k) <=>
       /\ RAsked[k] # {} /\ RExecuted[k] = 0
       /\ RExecuted' = [RExecuted EXCEPT ![k] = 1]
       /\ UNCHANGED <<RAsked, RAnswer, RFailed>>
  BY DEF Rpc!Execute
<1>3. \A k : Rpc!Return(k) <=>
       /\ ~ RFailed /\ RExecuted[k] = 1 /\ RAnswer[k] = 0
       /\ \E p \in RAsked[k] : RAnswer' = [RAnswer EXCEPT ![k] = Server!FindMethod(p)]
       /\ UNCHANGED <<RAsked, RExecuted, RFailed>>
  BY DEF Rpc!Return
<1>4. /\ Rpc!Fail <=> ~ RFailed /\ RFailed' /\ UNCHANGED <<RAsked, RExecuted, RAnswer>>
      /\ UNCHANGED Rpc!vars <=> UNCHANGED <<RAsked, RExecuted, RAnswer, RFailed>>
  BY DEF Rpc!Fail, Rpc!vars
<1> QED
  BY <1>1, <1>2, <1>3, <1>4

LEMMA RpcInit == Init => Rpc!Init
<1> SUFFICES ASSUME Init PROVE Rpc!Init
  OBVIOUS
<1>1. /\ at = "new" /\ sent = <<>>
      /\ result = [k \in Calls |-> <<>>] /\ handled = [k \in Calls |-> <<>>]
  BY DEF Init, Client!Init, Server!Init, Client!NoAnswer, Client!Calls, Calls
<1>2. Len(sent) = 0 /\ \A k \in Calls : Len(handled[k]) = 0
  BY <1>1, EmptySeq
<1>3. 1 .. Len(sent) = {}
  <2>1. 1 .. 0 = {}
    OBVIOUS
  <2> QED
    BY <1>2, <2>1
<1>4. \A k \in Calls : Asked(k) = {}
  BY <1>3 DEF Asked
<1>5. \A k \in Calls : (IF result[k] = <<>> THEN 0 ELSE result[k][1].msg.method) = 0
  BY <1>1
<1> QED
  BY <1>1, <1>2, <1>4, <1>5 DEF Rpc!Init, Asked

\* The client asks, gives up, or hands an answer to its user.
LEMMA RpcClientStep ==
  ASSUME RpcInv, RpcInv', [Next]_vars, UNCHANGED serverVars
  PROVE  [Rpc!Next]_(Rpc!vars)
<1>1. PeerInv /\ OrderInv /\ PathInv
  BY DEF RpcInv, CallInv
<1>6. /\ calls \in Nat
      /\ at \in {"new", "idle", "start", "send", "response", "panicked"}
      /\ at \in {"start", "send", "response"} => calls \in Calls
      /\ DOMAIN result = Calls
  BY <1>1, BoundsAssumption DEF PeerInv, ClientP!ClientInv, ClientP!TypeOK, Calls, ClientP!Calls
<1>2. handled' = handled /\ RExecuted' = RExecuted
  BY DEF serverVars, RExecuted
<1>3. CASE UNCHANGED <<calls, result>> /\ at = "start" /\ at' = "send"
  <2> PICK c \in Calls : c = calls
    BY <1>3, <1>6
  <2>1. CASE \A k : Asked(k)' = Asked(k)
    BY <1>2, <1>3, <2>1, RpcActions DEF RAsked, RAnswer, RFailed
  <2>2. ASSUME NEW p \in Paths,
               \A k : Asked(k)' = IF k = calls THEN Asked(k) \cup {p} ELSE Asked(k)
        PROVE  Rpc!Request(c, p)
    <3>1. Asked(c) = {}
      BY <1>1, <1>3 DEF OrderInv
    <3>2. RAsked[c] = {} /\ RAsked' = [RAsked EXCEPT ![c] = {p}]
      BY <2>2, <3>1 DEF RAsked
    <3>3. ASSUME NEW j \in 1 .. c - 1 PROVE RAnswer[j] # 0
      <4>1. j \in Calls /\ j < calls
        BY BoundsAssumption DEF Calls
      <4>2. result[j] # <<>>
        BY <1>1, <4>1 DEF OrderInv
      <4> QED
        BY <4>1, <4>2 DEF RpcInv, RAnswer
    <3>4. UNCHANGED <<RExecuted, RAnswer, RFailed>> /\ ~ RFailed
      BY <1>2, <1>3 DEF RAnswer, RFailed
    <3> QED
      BY <3>2, <3>3, <3>4, RpcActions
  <2>3. \/ \A k : Asked(k)' = Asked(k)
        \/ \E p \in Paths : \A k :
             Asked(k)' = IF k = calls THEN Asked(k) \cup {p} ELSE Asked(k)
    BY <1>1, AskedSteps
  <2> QED
    BY <2>1, <2>2, <2>3 DEF Rpc!Next
<1>4. CASE /\ at = "response" /\ at' = "idle" /\ UNCHANGED calls
           /\ c_body[calls] # <<>>
           /\ result' = [result EXCEPT ![calls] = c_body[calls]]
  <2> PICK c \in Calls : c = calls
    BY <1>4, <1>6
  <2>1. result[c] = <<>> /\ result'[c] # <<>>
    BY <1>1, <1>4, <1>6 DEF OrderInv
  <2>2. Len(handled[c]) = 1
    BY <1>2, <2>1 DEF RpcInv
  <2> DEFINE p == handled[c][1].path
  <2>3. p \in Asked(c)
    <3>1. 1 \in 1 .. Len(handled[c])
      BY <2>2
    <3> QED
      BY <1>1, <3>1 DEF PathInv
  <2>4. UNCHANGED RAsked
    BY <1>1, <1>4, AskedSteps DEF RAsked
  <2>5. result'[c][1].msg.method = Server!FindMethod(p)
    BY <1>2, <2>1 DEF RpcInv, Server!FindMethod, Server!MethodsNamed
  <2> HIDE DEF p
  <2>6. RAnswer[c] = 0 /\ RAnswer' = [RAnswer EXCEPT ![c] = Server!FindMethod(p)]
    BY <1>4, <1>6, <2>1, <2>5 DEF RAnswer
  <2>7. RExecuted[c] = 1 /\ p \in RAsked[c] /\ ~ RFailed /\ UNCHANGED RFailed
    BY <1>4, <2>2, <2>3 DEF RExecuted, RAsked, RFailed
  <2>8. Rpc!Return(c)
    BY <1>2, <2>4, <2>6, <2>7, RpcActions
  <2> QED
    BY <2>8 DEF Rpc!Next
<1>5. CASE UNCHANGED result /\ ~ (at = "start" /\ at' = "send")
  <2>1. \A k : Asked(k)' = Asked(k)
    BY <1>1, <1>5, AskedSteps
  <2>2. UNCHANGED <<RAsked, RExecuted, RAnswer>>
    BY <1>2, <1>5, <2>1 DEF RAsked, RAnswer
  <2>3. RFailed' = RFailed \/ (~ RFailed /\ RFailed')
    BY <1>1, <1>5, <1>6, ResultSteps DEF RFailed
  <2> QED
    BY <2>2, <2>3, RpcActions DEF Rpc!Next
<1> QED
  BY <1>1, <1>3, <1>4, <1>5, ResultSteps

\* The server runs a method for a call, or does what no user sees.
LEMMA RpcServerStep ==
  ASSUME RpcInv, RpcInv', [Next]_vars, UNCHANGED clientVars
  PROVE  [Rpc!Next]_(Rpc!vars)
<1>1. UNCHANGED <<RAsked, RAnswer, RFailed>>
  BY DEF clientVars, RAsked, RAnswer, RFailed, Asked
<1>2. PeerInv /\ PathInv /\ handled \in [Calls -> Seq(ServerP!Call)]
  BY DEF RpcInv, CallInv, PeerInv, ServerP!DispatchInv, ServerP!TypeOK
<1>3. CASE UNCHANGED handled
  BY <1>1, <1>3, RpcActions DEF RExecuted
<1>4. ASSUME NEW s \in Calls, NEW n \in Nat, path[s] # "",
             handled' = [handled EXCEPT ![s] = Append(@, [path |-> path[s], no |-> n])]
      PROVE  Rpc!Execute(s)
  <2>1. RAsked[s] # {}
    BY <1>2, <1>4 DEF PathInv, RAsked
  <2>2. Len(handled'[s]) = Len(handled[s]) + 1 /\ Len(handled[s]) \in Nat
    <3> DEFINE c == [path |-> path[s], no |-> n]
    <3>1. handled'[s] = Append(handled[s], c) /\ handled[s] \in Seq(ServerP!Call)
      BY <1>2, <1>4
    <3> HIDE DEF c
    <3> QED
      BY <3>1, AppendProperties, LenProperties
  <2>3. Len(handled[s]) = 0 /\ Len(handled'[s]) = 1
    BY <2>2 DEF RpcInv
  <2>4. RExecuted' = [RExecuted EXCEPT ![s] = 1]
    BY <1>2, <1>4, <2>3 DEF RExecuted
  <2> QED
    BY <1>1, <2>1, <2>3, <2>4, RpcActions DEF RExecuted
<1> QED
  BY <1>2, <1>3, <1>4, PathSteps DEF Rpc!Next

\* The client and the server of this crate implement unary calls: whatever the
\* server sends again, and on however many streams the client sends, a call is
\* executed at most once, after it was made, and its answer is that of the
\* method it named.
THEOREM PairImplementsRpc == Spec => ImplementsRpc
<1>1. RpcInv /\ RpcInv' /\ [Next]_vars => [Rpc!Next]_(Rpc!vars)
  <2> SUFFICES ASSUME RpcInv, RpcInv', [Next]_vars PROVE [Rpc!Next]_(Rpc!vars)
    OBVIOUS
  <2>1. UNCHANGED clientVars \/ UNCHANGED serverVars
    BY DEF Next, ClientStep, MakeCall, ServerStep, LinkDown, vars
  <2> QED
    BY <2>1, RpcClientStep, RpcServerStep
<1> QED
  BY <1>1, RpcInit, RpcInvariant, PTL DEF Spec, ImplementsRpc, Rpc!Spec

-----------------------------------------------------------------------------
(* What the server has taken of what the client has written *)

\* HEADERS and DATA frames of a stream that the server has read
TakenHeaders(k) == {i \in 1 .. frames : sent[i].kind = "headers" /\ sent[i].stream = k}
TakenData(k)    == {i \in 1 .. frames : sent[i].kind = "data" /\ sent[i].stream = k}

\* What the server knows of a stream is what it has read of it: HEADERS opened
\* it, the pieces read came one by one, and one of them has ended it.
Handover(k) ==
  /\ k \in live <=> TakenHeaders(k) # {}
  /\ peer[k] = "idle" <=> TakenHeaders(k) = {}
  /\ peer[k] # "reset"
  /\ peer[k] = "ended" <=> \E i \in TakenData(k) : sent[i].end
  /\ \A i \in TakenData(k) : sent[i].part <= pos[k]
  /\ \A p \in 1 .. pos[k] : \E i \in TakenData(k) : sent[i].part = p

\* The server has read a beginning of what was written, and no stream has two
\* HEADERS there: what Handover says of a stream is said once.
HandoverInv ==
  /\ frames <= Len(sent)
  /\ \A k \in Calls : Handover(k)
  /\ \A k \in Calls : k <= calls => size[k] = Len(body[k])
  /\ \A i, j \in 1 .. Len(sent) :
       sent[i].kind = "headers" /\ sent[j].kind = "headers"
         /\ sent[i].stream = sent[j].stream => i = j

\* The types of both sides, and what is written to the server
LEMMA HandoverTyped ==
  ASSUME PeerInv
  PROVE  /\ sent \in Seq(ClientP!ClientFrame) /\ Len(sent) \in Nat
         /\ \A i \in 1 .. Len(sent) :
              /\ sent[i] \in ClientP!ClientFrame
              /\ sent[i].kind \in {"settings", "headers", "data"}
              /\ sent[i].kind = "headers" => sent[i].stream \in Calls /\ sent[i].path \in Paths
              /\ sent[i].kind = "data" =>
                   /\ sent[i].stream \in Calls /\ sent[i].part \in Nat
                   /\ sent[i].end \in BOOLEAN
         /\ frames \in Nat /\ calls \in Nat /\ calls <= MaxCalls
         /\ \A k \in Calls : k \in Nat /\ pos[k] \in Nat
         /\ \A k \in Calls : Len(body[k]) \in Nat \ {0} /\ pos[k] <= Len(body[k])
         /\ size \in [Calls -> Nat]
         /\ \A k \in Calls : peer[k] \in {"idle", "open", "ended", "reset"}
         /\ DOMAIN peer = Calls /\ DOMAIN pos = Calls /\ DOMAIN body = Calls
<1>1. ClientP!TypeOK /\ ServerP!TypeOK
  BY DEF PeerInv, ClientP!ClientInv, ServerP!DispatchInv
<1>2. /\ sent \in Seq(ClientP!ClientFrame) /\ Len(sent) \in Nat
      /\ frames \in Nat /\ calls \in Nat /\ calls <= MaxCalls /\ size \in [Calls -> Nat]
  <2>1. MaxSize \in Nat /\ MaxCalls \in Nat /\ MaxFrames \in Nat
    BY BoundsAssumption, ServerAssumptions DEF ServerP!MaxFramesAssumption
  <2>2. /\ sent \in Seq(ClientP!ClientFrame) /\ Len(sent) \in Nat
        /\ calls \in 0 .. MaxCalls /\ frames \in 0 .. MaxFrames
    BY <1>1, LenProperties DEF ClientP!TypeOK, ServerP!TypeOK
  <2>3. size \in [Calls -> 0 .. MaxSize]
    BY <1>1 DEF ClientP!TypeOK, ClientP!Calls, Calls
  <2>4. size \in [Calls -> Nat]
    BY <2>1, <2>3
  <2> QED
    BY <2>1, <2>2, <2>4
<1>3. ASSUME NEW i \in 1 .. Len(sent)
      PROVE  /\ sent[i] \in ClientP!ClientFrame
             /\ sent[i].kind \in {"settings", "headers", "data"}
             /\ sent[i].kind = "headers" => sent[i].stream \in Calls /\ sent[i].path \in Paths
             /\ sent[i].kind = "data" =>
                  /\ sent[i].stream \in Calls /\ sent[i].part \in Nat
                  /\ sent[i].end \in BOOLEAN
  <2>1. sent[i] \in ClientP!ClientFrame
    BY <1>2, ElementOfSeq
  <2> QED
    BY <2>1 DEF ClientP!ClientFrame, ClientP!Calls, Calls
<1>4. ASSUME NEW k \in Calls
      PROVE  Len(body[k]) \in Nat \ {0}
  <2>1. body[k] \in {Request(n) : n \in Sizes}
    BY <1>1 DEF ServerP!TypeOK
  <2>2. PICK n \in Sizes : body[k] = Request(n)
    BY <2>1
  <2>3. n \in Nat \ {0}
    BY BoundsAssumption, CallsAssumption DEF Sizes
  <2> QED
    BY <2>2, <2>3, RequestWellFormed
<1>5. /\ \A k \in Calls : k \in Nat /\ pos[k] \in Nat /\ pos[k] <= Len(body[k])
      /\ \A k \in Calls : peer[k] \in {"idle", "open", "ended", "reset"}
      /\ DOMAIN peer = Calls /\ DOMAIN pos = Calls /\ DOMAIN body = Calls
  BY <1>1 DEF ServerP!TypeOK, Calls
<1> QED
  BY <1>2, <1>3, <1>4, <1>5

\* The next frame for the server, where all earlier ones have been taken as above
LEMMA NextFits ==
  ASSUME PeerInv, HandoverInv, frames < Len(sent)
  PROVE  LET f == sent[frames + 1]
         IN  /\ f.kind = "headers" => peer[f.stream] = "idle"
             /\ f.kind = "data" => f.stream \in live
             /\ f.kind = "data" /\ f.part > 0 =>
                  peer[f.stream] = "open" /\ f.part = pos[f.stream] + 1
                    /\ (f.end <=> f.part = Len(body[f.stream]))
             /\ f.kind = "data" /\ f.part = 0 => peer[f.stream] = "ended" /\ f.end
<1> DEFINE n == frames + 1
           f == sent[n]
           k == f.stream
<1>1. /\ frames \in Nat /\ Len(sent) \in Nat /\ n \in 1 .. Len(sent) /\ n - 1 = frames
      /\ \A i \in 1 .. frames : i \in 1 .. Len(sent) /\ i # n
      /\ f.kind = "headers" => k \in Calls
      /\ f.kind = "data" => k \in Calls /\ f.part \in Nat /\ f.end \in BOOLEAN
      /\ \A i \in 1 .. frames : sent[i].kind = "data" =>
           sent[i].part \in Nat /\ sent[i].end \in BOOLEAN
  BY HandoverTyped
<1>2. f.kind = "headers" => peer[k] = "idle"
  <2> SUFFICES ASSUME f.kind = "headers" PROVE TakenHeaders(k) = {}
    BY <1>1 DEF HandoverInv, Handover
  <2> QED
    BY <1>1 DEF HandoverInv, Handover, TakenHeaders
<1>3. CASE f.kind = "data"
  <2> DEFINE earlier == {j \in ClientP!DataSent(k, frames) : sent[j].part > 0}
  <2>1. ClientP!FramedWell(n)
    BY <1>1, <1>3 DEF PeerInv, ClientP!ClientInv, ClientP!RequestFraming
  <2>2. /\ \E j \in 1 .. frames : sent[j].kind = "headers" /\ sent[j].stream = k
        /\ \A j \in earlier : sent[j].part < f.part \/ f.part = 0
        /\ \A p \in 1 .. f.part - 1 : \E j \in earlier : sent[j].part = p
        /\ f.end <=> f.part \in {0, size[k]}
        /\ f.part = 0 => \E j \in earlier : sent[j].end
    BY <1>1, <2>1 DEF ClientP!FramedWell
  <2>3. ClientP!DataSent(k, frames) = TakenData(k)
    BY DEF ClientP!DataSent, TakenData
  <2>4. k \in live /\ peer[k] \in {"open", "ended"} /\ k \in Calls
    BY <1>1, <1>3, <2>2, HandoverTyped DEF HandoverInv, Handover, TakenHeaders
  <2>5. /\ k \in ClientP!Begun /\ k <= calls /\ calls \in Nat /\ k \in Nat
        /\ size[k] = Len(body[k]) /\ size[k] \in Nat \ {0} /\ pos[k] \in Nat
    BY <1>1, <1>3, <2>4, HandoverTyped
    DEF PeerInv, ClientP!ClientInv, ClientP!FreshInv, ClientP!Begun, HandoverInv
  <2>6. f.part <= size[k]
    <3>1. n \in ClientP!DataSent(k, Len(sent))
      BY <1>1, <1>3 DEF ClientP!DataSent
    <3>2. f.part <= cursor[k]
      BY <2>5, <3>1 DEF PeerInv, ClientP!ClientInv, ClientP!PiecesInv
    <3>3. cursor[k] <= size[k] /\ cursor[k] \in Nat
      BY <2>4, BoundsAssumption DEF PeerInv, ClientP!ClientInv, ClientP!TypeOK, ClientP!Calls, Calls
    <3> QED
      BY <1>1, <1>3, <2>5, <3>2, <3>3
  <2>7. CASE f.part = 0
    <3>1. PICK j \in earlier : sent[j].end
      BY <2>2, <2>7
    <3>2. j \in TakenData(k)
      BY <2>3
    <3>3. peer[k] = "ended"
      BY <2>4, <3>1, <3>2 DEF HandoverInv, Handover
    <3> QED
      BY <1>2, <1>3, <2>2, <2>4, <2>7, <3>3
  <2>8. CASE f.part > 0
    <3>1. pos[k] < f.part
      <4>1. CASE pos[k] = 0
        BY <1>1, <2>8, <4>1
      <4>2. CASE pos[k] > 0
        <5>1. pos[k] \in 1 .. pos[k]
          BY <2>5, <4>2
        <5>2. PICK j \in TakenData(k) : sent[j].part = pos[k]
          BY <2>4, <5>1 DEF HandoverInv, Handover
        <5>3. j \in earlier
          BY <2>3, <4>2, <5>2
        <5>4. sent[j].part < f.part
          BY <2>2, <2>8, <5>3
        <5> QED
          BY <5>2, <5>4
      <4> QED
        BY <2>5, <4>1, <4>2
    <3>2. f.part <= pos[k] + 1
      <4> SUFFICES ASSUME f.part > pos[k] + 1 PROVE FALSE
        BY <1>1, <1>3, <2>5
      <4>1. pos[k] + 1 \in 1 .. f.part - 1
        BY <1>1, <1>3, <2>5
      <4>2. PICK j \in earlier : sent[j].part = pos[k] + 1
        BY <2>2, <4>1
      <4>3. sent[j].part <= pos[k]
        BY <2>3, <2>4, <4>2 DEF HandoverInv, Handover
      <4> QED
        BY <2>5, <4>2, <4>3
    <3>3. f.part = pos[k] + 1
      BY <1>1, <1>3, <2>5, <3>1, <3>2
    <3>4. f.end <=> f.part = Len(body[k])
      BY <2>2, <2>5, <2>8
    <3>5. peer[k] # "ended"
      <4> SUFFICES ASSUME peer[k] = "ended" PROVE FALSE
        OBVIOUS
      <4>1. PICK j \in TakenData(k) : sent[j].end
        BY <2>4 DEF HandoverInv, Handover
      <4>2. /\ j \in 1 .. Len(sent) /\ sent[j].kind = "data" /\ sent[j].stream = k
            /\ sent[j].part \in Nat
        BY <1>1, <4>1 DEF TakenData
      <4>3. ClientP!FramedWell(j)
        BY <4>2 DEF PeerInv, ClientP!ClientInv, ClientP!RequestFraming
      <4>4. \E h \in earlier : sent[h].part = size[k]
        <5>1. CASE sent[j].part = size[k]
          <6>1. j \in earlier
            BY <2>3, <2>5, <4>1, <5>1
          <6> QED
            BY <5>1, <6>1
        <5>2. CASE sent[j].part = 0
          <6>1. PICK h \in ClientP!DataSent(k, j - 1) : sent[h].part > 0 /\ sent[h].end
            BY <4>2, <4>3, <5>2 DEF ClientP!FramedWell
          <6>2. /\ h \in 1 .. Len(sent) /\ sent[h].kind = "data" /\ sent[h].stream = k
                /\ h \in 1 .. frames
            BY <1>1, <4>1, <4>2, <6>1 DEF ClientP!DataSent, TakenData
          <6>3. ClientP!FramedWell(h)
            BY <6>2 DEF PeerInv, ClientP!ClientInv, ClientP!RequestFraming
          <6>4. sent[h].part = size[k]
            BY <6>1, <6>2, <6>3 DEF ClientP!FramedWell
          <6>5. h \in earlier
            BY <6>1, <6>2 DEF ClientP!DataSent
          <6> QED
            BY <6>4, <6>5
        <5>3. sent[j].part \in {0, size[k]}
          BY <4>1, <4>2, <4>3 DEF ClientP!FramedWell
        <5> QED
          BY <5>1, <5>2, <5>3
      <4>5. size[k] < f.part
        BY <2>2, <2>8, <4>4
      <4> QED
        BY <1>1, <1>3, <2>5, <2>6, <4>5
    <3> QED
      BY <1>2, <1>3, <2>4, <2>8, <3>3, <3>4, <3>5
  <2> QED
    BY <1>1, <1>3, <2>7, <2>8
<1> QED
  BY <1>2, <1>3

\* What a step does to what is written to the server and what it knows
LEMMA HandoverSteps ==
  ASSUME PeerInv, [Next]_vars
  PROVE  \/ UNCHANGED <<sent, calls, size, live, peer, body, pos, frames>>
         \/ /\ UNCHANGED <<calls, size, live, peer, body, pos, frames>>
            /\ \E e \in ClientP!ClientFrame :
                 /\ sent' = Append(sent, e)
                 /\ e.kind = "headers" => e.stream = calls /\ calls \in Calls /\ at = "start"
         \/ /\ UNCHANGED <<sent, live, peer, body, pos, frames>>
            /\ calls' = calls + 1 /\ calls' \in Calls
            /\ size' = [size EXCEPT ![calls'] = Len(body[calls'])]
         \/ UNCHANGED <<sent, calls, size>> /\ ServerReads
         \/ UNCHANGED <<sent, calls, size>> /\ Server!ReapStreams
<1>1. /\ sent \in Seq(ClientP!ClientFrame) /\ ClientP!TypeOK /\ calls \in Nat
      /\ at = "start" => calls \in Calls
  BY HandoverTyped DEF PeerInv, ClientP!ClientInv, ClientP!TypeOK, Calls
<1>2. CASE ClientStep
  <2>1. CASE Client!New
    <3>1. [kind |-> "settings"] \in ClientP!ClientFrame
      BY DEF ClientP!ClientFrame
    <3> QED
      BY <1>2, <2>1, <3>1 DEF ClientStep, Client!New, Client!streamVars, serverVars
  <2>2. ASSUME NEW p \in Paths, Client!StartRequest(p)
        PROVE  /\ UNCHANGED <<calls, size>>
               /\ \E e \in ClientP!ClientFrame :
                    /\ sent' = Append(sent, e)
                    /\ e.kind = "headers" => e.stream = calls /\ calls \in Calls /\ at = "start"
    <3> DEFINE e == [kind |-> "headers", stream |-> calls, path |-> p]
    <3>1. sent' = Append(sent, e) /\ at = "start" /\ UNCHANGED <<calls, size>>
      BY <2>2 DEF Client!StartRequest, Client!streamVars
    <3>2. e \in ClientP!ClientFrame /\ e.stream = calls
      BY <1>1, <3>1 DEF ClientP!ClientFrame, ClientP!Calls, Calls
    <3> HIDE DEF e
    <3> QED
      BY <1>1, <3>1, <3>2
  <2>3. ASSUME NEW k \in Calls, Client!SendNextData(k)
        PROVE  /\ UNCHANGED <<calls, size>>
               /\ \E e \in ClientP!ClientFrame :
                    /\ sent' = Append(sent, e)
                    /\ e.kind = "headers" => e.stream = calls /\ calls \in Calls /\ at = "start"
    <3> DEFINE e == ClientP!NextData(k)
    <3>1. e \in ClientP!ClientFrame
      BY <1>1, ClientAssumptions, ClientP!NextDataFrame DEF ClientP!Calls, Calls
    <3>2. sent' = Append(sent, e) /\ e.kind = "data" /\ UNCHANGED <<calls, size>>
      BY <2>3, RequestSame DEF ClientP!SendNextData, ClientP!NextData
    <3> HIDE DEF e
    <3> QED
      BY <3>1, <3>2
  <2>4. CASE ClientWrites
    <3>1. \/ \E p \in Paths : Client!StartRequest(p)
          \/ \E k \in Calls : Client!SendNextData(k)
      BY <2>4 DEF ClientWrites
    <3>2. /\ UNCHANGED <<calls, size>>
          /\ \E e \in ClientP!ClientFrame :
               /\ sent' = Append(sent, e)
               /\ e.kind = "headers" => e.stream = calls /\ calls \in Calls /\ at = "start"
      BY <2>2, <2>3, <3>1
    <3> QED
      BY <1>2, <3>2 DEF ClientStep, serverVars
  <2>5. CASE ~ Client!New /\ ~ ClientWrites
    BY <1>2, <2>5 DEF ClientStep, serverVars, ClientReads, Client!RequestSent,
       Client!HandleNextFrame, Client!Return, Client!BadResponse, Client!BadMessage,
       Client!WriteFails, Client!ReadFails, Client!streamVars
  <2> QED
    BY <2>1, <2>4, <2>5
<1>3. CASE MakeCall
  <2>1. /\ calls' = calls + 1 /\ size' = [size EXCEPT ![calls'] = Len(body[calls + 1])]
        /\ UNCHANGED <<sent, live, peer, body, pos, frames>> /\ calls < MaxCalls
    BY <1>3 DEF MakeCall, Client!Call, serverVars
  <2>2. calls' \in Calls
    BY <1>1, <2>1, BoundsAssumption DEF Calls
  <2> QED
    BY <2>1, <2>2
<1>4. CASE ServerStep
  BY <1>4 DEF ServerStep, clientVars, Server!New, Server!ProcessBuf, Server!ProcessFrame,
     Server!ProcessPanic, Server!ProcessReturn, Server!CollectResponses, ServerWrites,
     Server!SendHeaders, Server!SendData, Server!SendTrailers, Server!RecvError,
     Server!SendError, Server!streamVars, Server!peerVars
<1>5. CASE LinkDown \/ UNCHANGED vars
  BY <1>5 DEF LinkDown, vars, clientVars, serverVars
<1> QED
  BY <1>2, <1>3, <1>4, <1>5 DEF Next

\* What the server reads next
LEMMA ServerReadsNext ==
  ASSUME PeerInv, HandoverInv, ServerReads
  PROVE  LET f == sent[frames + 1]
         IN  /\ frames < Len(sent) /\ frames' = frames + 1 /\ body' = body
             /\ f.kind = "settings" => UNCHANGED <<live, peer, pos>>
             /\ f.kind = "headers" =>
                  /\ live' = live \cup {f.stream} /\ pos' = pos
                  /\ peer' = [peer EXCEPT ![f.stream] = "open"]
             /\ f.kind = "data" =>
                  /\ live' = live
                  /\ f.part > 0 => pos' = [pos EXCEPT ![f.stream] = f.part]
                  /\ f.part = 0 => pos' = pos
                  /\ peer' = IF f.end THEN [peer EXCEPT ![f.stream] = "ended"] ELSE peer
<1> DEFINE f == sent[frames + 1]
<1>1. frames < Len(sent) /\ frames' = frames + 1 /\ body' = body
  <2>1. frames < Len(sent) /\ frames + 1 \in 1 .. Len(sent)
    BY HandoverTyped DEF ServerReads
  <2>2. f.kind \in {"settings", "headers", "data"}
    BY <2>1, HandoverTyped
  <2> HIDE DEF f
  <2>3. \/ Server!RecvOther \/ Server!RecvNewStream(f.stream, f.path, FALSE)
        \/ Server!RecvData(f.stream, IF f.part > 0 THEN 1 ELSE 0, f.end)
    BY <2>2 DEF ServerReads, f
  <2> QED
    BY <2>1, <2>3 DEF Server!RecvOther, Server!RecvNewStream, Server!RecvData,
       Server!Receive, Server!peerVars
<1>2. f.kind = "settings" => UNCHANGED <<live, peer, pos>>
  BY DEF ServerReads, Server!RecvOther, Server!streamVars
<1>3. f.kind = "headers" =>
        /\ live' = live \cup {f.stream} /\ pos' = pos
        /\ peer' = [peer EXCEPT ![f.stream] = "open"]
  BY DEF ServerReads, Server!RecvNewStream
<1>4. CASE f.kind = "data"
  <2>1. Server!RecvData(f.stream, IF f.part > 0 THEN 1 ELSE 0, f.end)
    BY <1>4 DEF ServerReads
  <2>2. f.part > 0 => f.part = pos[f.stream] + 1
    BY <1>1, <1>4, NextFits
  <2>3. /\ frames + 1 \in 1 .. Len(sent) /\ f.part \in Nat /\ f.stream \in Calls
        /\ pos[f.stream] \in Nat /\ DOMAIN pos = Calls /\ pos \in [Calls -> Nat]
    BY <1>1, <1>4, HandoverTyped DEF PeerInv, ServerP!DispatchInv, ServerP!TypeOK
  <2>4. /\ live' = live
        /\ pos' = [pos EXCEPT ![f.stream] = @ + (IF f.part > 0 THEN 1 ELSE 0)]
        /\ peer' = IF f.end THEN [peer EXCEPT ![f.stream] = "ended"] ELSE peer
    BY <2>1 DEF Server!RecvData
  <2>5. f.part > 0 => pos' = [pos EXCEPT ![f.stream] = f.part]
    BY <2>2, <2>4
  <2>6. f.part = 0 => pos' = pos
    BY <2>3, <2>4
  <2> QED
    BY <1>1, <1>4, <2>4, <2>5, <2>6
<1> QED
  BY <1>1, <1>2, <1>3, <1>4

\* Nothing is written before the client starts, and nothing is read
LEMMA HandoverInit == Init => HandoverInv
<1> SUFFICES ASSUME Init PROVE HandoverInv
  OBVIOUS
<1>1. /\ sent = <<>> /\ calls = 0 /\ live = {} /\ frames = 0
      /\ peer = [k \in Calls |-> "idle"] /\ pos = [k \in Calls |-> 0]
  BY DEF Init, Client!Init, Server!Init
<1> DEFINE Empty == 1 .. 0
<1>2. 1 .. Len(sent) = Empty /\ 1 .. frames = Empty /\ Len(sent) = 0
  BY <1>1, EmptySeq
<1>3. Empty = {}
  OBVIOUS
<1> HIDE DEF Empty
<1>4. \A k \in Calls : TakenHeaders(k) = {} /\ TakenData(k) = {} /\ 1 .. pos[k] = {}
  <2> SUFFICES ASSUME NEW k \in Calls
               PROVE  TakenHeaders(k) = {} /\ TakenData(k) = {} /\ 1 .. pos[k] = {}
    OBVIOUS
  <2>1. 1 .. pos[k] = Empty
    BY <1>1 DEF Empty
  <2> QED
    BY <1>2, <1>3, <2>1 DEF TakenHeaders, TakenData
<1>5. \A k \in Calls : ~ (k <= calls)
  BY <1>1 DEF Calls
<1> QED
  BY <1>1, <1>2, <1>3, <1>4, <1>5 DEF HandoverInv, Handover

\* What has been read is not written again.
LEMMA TakenStays ==
  ASSUME PeerInv, HandoverInv, NEW e \in ClientP!ClientFrame, sent' = Append(sent, e),
         frames' = frames
  PROVE  /\ Len(sent') = Len(sent) + 1 /\ sent'[Len(sent) + 1] = e
         /\ \A i \in 1 .. Len(sent) : sent'[i] = sent[i]
         /\ \A i \in 1 .. frames : sent'[i] = sent[i]
         /\ \A k : TakenHeaders(k)' = TakenHeaders(k) /\ TakenData(k)' = TakenData(k)
<1>1. sent \in Seq(ClientP!ClientFrame) /\ Len(sent) \in Nat /\ frames \in Nat
      /\ frames <= Len(sent)
  BY HandoverTyped DEF HandoverInv
<1>2. /\ Len(sent') = Len(sent) + 1 /\ sent'[Len(sent) + 1] = e
      /\ \A i \in 1 .. Len(sent) : sent'[i] = sent[i]
  BY <1>1, AppendProperties
<1>3. \A i \in 1 .. frames : sent'[i] = sent[i]
  BY <1>1, <1>2
<1> QED
  BY <1>2, <1>3 DEF TakenHeaders, TakenData

\* What is taken when the next frame is read
LEMMA TakenNext ==
  ASSUME PeerInv, HandoverInv, frames < Len(sent), frames' = frames + 1, sent' = sent, NEW k
  PROVE  LET f == sent[frames + 1]
         IN  /\ TakenHeaders(k)' = IF f.kind = "headers" /\ f.stream = k
                                   THEN TakenHeaders(k) \cup {frames + 1}
                                   ELSE TakenHeaders(k)
             /\ TakenData(k)' = IF f.kind = "data" /\ f.stream = k
                                THEN TakenData(k) \cup {frames + 1}
                                ELSE TakenData(k)
<1>1. frames \in Nat /\ 1 .. frames + 1 = 1 .. frames \cup {frames + 1}
  BY HandoverTyped
<1> QED
  BY <1>1 DEF TakenHeaders, TakenData

\* HEADERS are written once for a stream.
LEMMA HeadersOnce ==
  ASSUME PeerInv, OrderInv, HandoverInv, NEW e \in ClientP!ClientFrame, sent' = Append(sent, e),
         frames' = frames,
         e.kind = "headers" => e.stream = calls /\ calls \in Calls /\ at = "start"
  PROVE  \A i, j \in 1 .. Len(sent') :
           sent'[i].kind = "headers" /\ sent'[j].kind = "headers"
             /\ sent'[i].stream = sent'[j].stream => i = j
<1>1. Len(sent) \in Nat
  BY HandoverTyped
<1>2. /\ Len(sent') = Len(sent) + 1 /\ sent'[Len(sent) + 1] = e
      /\ \A i \in 1 .. Len(sent) : sent'[i] = sent[i]
  BY TakenStays
<1>3. e.kind = "headers" =>
        \A i \in 1 .. Len(sent) : sent[i].kind = "headers" => sent[i].stream # e.stream
  <2> SUFFICES ASSUME e.kind = "headers", NEW i \in 1 .. Len(sent),
                      sent[i].kind = "headers", sent[i].stream = e.stream
               PROVE  FALSE
    OBVIOUS
  <2>1. sent[i].path \in Asked(calls)
    BY DEF Asked
  <2>2. Asked(calls) = {}
    BY DEF OrderInv
  <2> QED
    BY <2>1, <2>2
<1> QED
  BY <1>1, <1>2, <1>3 DEF HandoverInv

\* ReadFrame reads the next frame written, and notes what it says.
LEMMA HandoverRead ==
  ASSUME PeerInv, HandoverInv, ServerReads, UNCHANGED <<sent, calls, size>>
  PROVE  HandoverInv'
<1> DEFINE n == frames + 1
           f == sent[n]
           s == f.stream
<1>1. /\ frames < Len(sent) /\ frames' = n /\ body' = body
      /\ f.kind = "settings" => UNCHANGED <<live, peer, pos>>
      /\ f.kind = "headers" =>
           /\ live' = live \cup {s} /\ pos' = pos
           /\ peer' = [peer EXCEPT ![s] = "open"]
      /\ f.kind = "data" =>
           /\ live' = live
           /\ f.part > 0 => pos' = [pos EXCEPT ![s] = f.part]
           /\ f.part = 0 => pos' = pos
           /\ peer' = IF f.end THEN [peer EXCEPT ![s] = "ended"] ELSE peer
  BY ServerReadsNext
<1>2. /\ f.kind = "headers" => peer[s] = "idle"
      /\ f.kind = "data" => s \in live
      /\ f.kind = "data" /\ f.part > 0 => peer[s] = "open" /\ f.part = pos[s] + 1
      /\ f.kind = "data" /\ f.part = 0 => peer[s] = "ended"
  BY <1>1, NextFits
<1>3. /\ frames \in Nat /\ Len(sent) \in Nat /\ n \in 1 .. Len(sent) /\ n <= Len(sent)
      /\ f.kind \in {"settings", "headers", "data"}
      /\ f.kind = "headers" => s \in Calls
      /\ f.kind = "data" => s \in Calls /\ f.part \in Nat
      /\ \A k \in Calls : pos[k] \in Nat
      /\ DOMAIN pos = Calls /\ DOMAIN peer = Calls
  BY <1>1, HandoverTyped
<1>4. \A k : /\ TakenHeaders(k)' = IF f.kind = "headers" /\ s = k
                                   THEN TakenHeaders(k) \cup {n} ELSE TakenHeaders(k)
             /\ TakenData(k)' = IF f.kind = "data" /\ s = k
                                THEN TakenData(k) \cup {n} ELSE TakenData(k)
  BY <1>1, TakenNext
<1>5. \A k \in Calls : Handover(k)
  BY DEF HandoverInv
<1> HIDE DEF n, s
<1>6. ASSUME NEW k \in Calls PROVE Handover(k)'
  <2>1. CASE f.kind = "settings" \/ s # k
    <3>1. TakenHeaders(k)' = TakenHeaders(k) /\ TakenData(k)' = TakenData(k)
      BY <1>4, <2>1
    <3>2. peer'[k] = peer[k] /\ pos'[k] = pos[k] /\ (k \in live' <=> k \in live)
      BY <1>1, <1>3, <2>1
    <3> HIDE DEF f
    <3> QED
      BY <1>5, <3>1, <3>2 DEF Handover
  <2>2. CASE f.kind = "headers" /\ s = k
    <3>1. TakenHeaders(k)' = TakenHeaders(k) \cup {n} /\ TakenData(k)' = TakenData(k)
      BY <1>4, <2>2
    <3>2. peer'[k] = "open" /\ pos'[k] = pos[k] /\ k \in live'
      BY <1>1, <1>3, <2>2
    <3>3. peer[k] # "ended"
      BY <1>2, <2>2
    <3> QED
      BY <1>5, <3>1, <3>2, <3>3 DEF Handover
  <2>3. CASE f.kind = "data" /\ s = k
    <3>1. TakenHeaders(k)' = TakenHeaders(k) /\ TakenData(k)' = TakenData(k) \cup {n}
      BY <1>4, <2>3
    <3>2. peer'[k] = (IF f.end THEN "ended" ELSE peer[k]) /\ live' = live
      BY <1>1, <1>3, <2>3
    <3>3. pos[k] \in Nat /\ pos'[k] \in Nat /\ pos[k] <= pos'[k] /\ f.part <= pos'[k]
          /\ \A p \in 1 .. pos'[k] : p \in 1 .. pos[k] \/ p = f.part
      <4>1. CASE f.part > 0
        <5>1. pos'[k] = f.part /\ f.part = pos[k] + 1 /\ pos[k] \in Nat
          BY <1>1, <1>2, <1>3, <2>3, <4>1
        <5> QED
          BY <5>1
      <4>2. CASE f.part = 0
        <5>1. pos'[k] = pos[k] /\ pos[k] \in Nat
          BY <1>1, <1>3, <2>3, <4>2
        <5> QED
          BY <4>2, <5>1
      <4> QED
        BY <1>3, <2>3, <4>1, <4>2
    <3>4. k \in live /\ peer[k] # "idle" /\ TakenHeaders(k) # {}
      BY <1>2, <1>5, <2>3 DEF Handover
    <3>5. \A i \in TakenData(k) : sent[i].part \in Nat
      BY <1>3, HandoverTyped DEF TakenData, HandoverInv
    <3>6. sent'[n] = f /\ sent' = sent
      OBVIOUS
    <3> HIDE DEF f
    <3>7. peer'[k] = "ended" <=> \E i \in TakenData(k)' : sent'[i].end
      BY <1>5, <3>1, <3>2, <3>6 DEF Handover
    <3>8. \A i \in TakenData(k)' : sent'[i].part <= pos'[k]
      <4>1. \A i \in TakenData(k) : sent[i].part <= pos'[k]
        BY <1>5, <3>3, <3>5 DEF Handover
      <4> QED
        BY <3>1, <3>3, <3>6, <4>1
    <3>9. \A p \in 1 .. pos'[k] : \E i \in TakenData(k)' : sent'[i].part = p
      BY <1>5, <3>1, <3>3, <3>6 DEF Handover
    <3> QED
      BY <1>5, <3>1, <3>2, <3>4, <3>7, <3>8, <3>9 DEF Handover
  <2> QED
    BY <1>3, <2>1, <2>2, <2>3
<1>7. frames' <= Len(sent')
  BY <1>1, <1>3
<1>8. /\ \A k \in Calls : k <= calls' => size'[k] = Len(body'[k])
      /\ \A i, j \in 1 .. Len(sent') :
           sent'[i].kind = "headers" /\ sent'[j].kind = "headers"
             /\ sent'[i].stream = sent'[j].stream => i = j
  BY <1>1 DEF HandoverInv
<1> QED
  BY <1>6, <1>7, <1>8 DEF HandoverInv, Handover

\* reap_streams drops no stream of this client, which resets none.
LEMMA NothingReaped ==
  ASSUME PeerInv, HandoverInv, Server!ReapStreams
  PROVE  UNCHANGED <<live, peer, body, pos, frames>>
<1>1. /\ live' = live \ {s \in live : state[s] = "Closed"} /\ live \subseteq Calls
      /\ UNCHANGED <<peer, body, pos, frames>>
  BY DEF Server!ReapStreams, Server!ClosedStreams, Server!peerVars, PeerInv,
     ServerP!DispatchInv, ServerP!TypeOK
<1>2. \A s \in Calls : state[s] # "Closed"
  BY DEF PeerInv, ServerP!DispatchInv, ServerP!StateInv, HandoverInv, Handover
<1> QED
  BY <1>1, <1>2

\* Every step of either side keeps it.
LEMMA HandoverStep == PeerInv /\ OrderInv /\ HandoverInv /\ [Next]_vars => HandoverInv'
<1> SUFFICES ASSUME PeerInv, OrderInv, HandoverInv, [Next]_vars PROVE HandoverInv'
  OBVIOUS
<1>1. CASE UNCHANGED <<sent, calls, size, live, peer, body, pos, frames>>
  BY <1>1 DEF HandoverInv, Handover, TakenHeaders, TakenData
<1>2. ASSUME NEW e \in ClientP!ClientFrame,
             UNCHANGED <<calls, size, live, peer, body, pos, frames>>, sent' = Append(sent, e),
             e.kind = "headers" => e.stream = calls /\ calls \in Calls /\ at = "start"
      PROVE  HandoverInv'
  <2>1. frames \in Nat /\ Len(sent) \in Nat /\ frames <= Len(sent)
    BY HandoverTyped DEF HandoverInv
  <2>2. /\ Len(sent') = Len(sent) + 1
        /\ \A i \in 1 .. frames : sent'[i] = sent[i]
        /\ \A k : TakenHeaders(k)' = TakenHeaders(k) /\ TakenData(k)' = TakenData(k)
    BY <1>2, TakenStays
  <2>3. \A k : \A i \in TakenData(k) : sent'[i] = sent[i]
    BY <2>2 DEF TakenData
  <2>4. ASSUME NEW k \in Calls PROVE Handover(k)'
    <3>1. /\ TakenHeaders(k)' = TakenHeaders(k) /\ TakenData(k)' = TakenData(k)
          /\ \A i \in TakenData(k) : sent'[i] = sent[i]
      BY <2>2, <2>3
    <3>2. Handover(k)
      BY DEF HandoverInv
    <3> QED
      BY <1>2, <3>1, <3>2 DEF Handover
  <2>5. \A i, j \in 1 .. Len(sent') :
          sent'[i].kind = "headers" /\ sent'[j].kind = "headers"
            /\ sent'[i].stream = sent'[j].stream => i = j
    BY <1>2, HeadersOnce
  <2>6. frames' <= Len(sent')
    BY <1>2, <2>1, <2>2
  <2>7. \A k \in Calls : k <= calls' => size'[k] = Len(body'[k])
    BY <1>2 DEF HandoverInv
  <2> QED
    BY <2>4, <2>5, <2>6, <2>7 DEF HandoverInv, Handover
<1>3. CASE /\ UNCHANGED <<sent, live, peer, body, pos, frames>>
           /\ calls' = calls + 1 /\ calls' \in Calls
           /\ size' = [size EXCEPT ![calls'] = Len(body[calls'])]
  <2>1. \A k \in Calls : k <= calls' => size'[k] = Len(body'[k])
    <3>1. size \in [Calls -> Nat] /\ calls \in Nat /\ \A k \in Calls : k \in Nat
      BY HandoverTyped
    <3> QED
      BY <1>3, <3>1 DEF HandoverInv, Handover
  <2>2. \A k : TakenHeaders(k)' = TakenHeaders(k) /\ TakenData(k)' = TakenData(k)
    BY <1>3 DEF TakenHeaders, TakenData
  <2> QED
    BY <1>3, <2>1, <2>2 DEF HandoverInv, Handover
<1>4. CASE UNCHANGED <<sent, calls, size>> /\ ServerReads
  BY <1>4, HandoverRead
<1>5. CASE UNCHANGED <<sent, calls, size>> /\ Server!ReapStreams
  BY <1>1, <1>5, NothingReaped
<1> QED
  BY <1>1, <1>2, <1>3, <1>4, <1>5, HandoverSteps

\* HandoverInv holds in every behaviour of the pair.
LEMMA HandoverInvariant == Spec => []HandoverInv
<1>1. CallInv => PeerInv /\ OrderInv
  BY DEF CallInv
<1> QED
  BY <1>1, HandoverInit, HandoverStep, CallInvariant, PTL DEF Spec

\* The client stays within the frames the server is counted to read.
LEMMA SentWithin ==
  ASSUME ClientP!ClientInv, ClientP!CountInv
  PROVE  Len(sent) <= MaxFrames /\ Len(sent) \in Nat /\ MaxFrames \in Nat
<1>1. ClientP!TypeOK /\ calls \in 0 .. MaxCalls /\ Len(sent) \in Nat /\ MaxCalls \in Nat
  BY LenProperties, BoundsAssumption DEF ClientP!ClientInv, ClientP!TypeOK
<1>2. Len(sent) <= ClientP!FramesOf(calls)
  BY ClientAssumptions, ClientP!WithinCalls
<1>3. /\ ClientP!FramesOf(calls) \in Nat /\ ClientP!FramesOf(MaxCalls) \in Nat
      /\ ClientP!FramesOf(calls) <= ClientP!FramesOf(MaxCalls)
  BY <1>1, ClientAssumptions, ClientP!FramesOfMore
<1>4. MaxFrames = ClientP!FramesOf(MaxCalls)
  BY DEF MaxFrames, ClientP!FramesOf
<1> QED
  BY <1>1, <1>2, <1>3, <1>4

\* One that has more to write is not there yet.
LEMMA SentBelow ==
  ASSUME ClientP!ClientInv, ClientP!CountInv, at \in {"start", "send"}
  PROVE  Len(sent) < MaxFrames
<1>1. calls \in 0 .. MaxCalls /\ Len(sent) \in Nat /\ MaxCalls \in Nat
  BY LenProperties, BoundsAssumption DEF ClientP!ClientInv, ClientP!TypeOK
<1>2. Len(sent) < ClientP!FramesOf(calls)
  BY ClientAssumptions, ClientP!BelowCalls
<1>3. /\ ClientP!FramesOf(calls) \in Nat /\ ClientP!FramesOf(MaxCalls) \in Nat
      /\ ClientP!FramesOf(calls) <= ClientP!FramesOf(MaxCalls)
  BY <1>1, ClientAssumptions, ClientP!FramesOfMore
<1>4. MaxFrames = ClientP!FramesOf(MaxCalls)
  BY DEF MaxFrames, ClientP!FramesOf
<1> QED
  BY <1>1, <1>2, <1>3, <1>4

\* The count of the client's frames is kept, whatever peer it has.
LEMMA CountInvariant == Spec => []ClientP!CountInv
<1>1. ClientP!UnboundedSpec => []ClientP!CountInv
  BY ClientAssumptions, ClientP!CountInvariant
<1> QED
  BY <1>1, SpecMaps, PTL

\* The server can take every frame of the client when it comes to it, for any
\* number of calls and however the streams are ended again: HEADERS of a new
\* stream, the next piece of a request still open, or an empty frame for one
\* that is not; and it never stops for the bound on the frames counted.
THEOREM FramesAlwaysFit == Spec => []FramesFit
<1>1. PeerInv /\ HandoverInv /\ ClientP!CountInv => FramesFit
  <2> SUFFICES ASSUME PeerInv, HandoverInv, ClientP!CountInv, frames < Len(sent)
               PROVE  FramesFit
    BY DEF FramesFit
  <2>1. frames < MaxFrames
    BY HandoverTyped, SentWithin DEF PeerInv
  <2> QED
    BY <2>1, NextFits DEF FramesFit
<1> QED
  BY <1>1, PeerInvariant, HandoverInvariant, CountInvariant, PTL

-----------------------------------------------------------------------------
(* Who waits for whom *)

\* A server that has read all of a client that waits for a response has run the
\* call, has answered it, and has written the trailers of the answer.
LEMMA AnsweredInFull ==
  ASSUME PeerInv, HandoverInv, ServerP!ExchangeInv,
         at = "response", pc = "read", frames = Len(sent)
  PROVE  \E i \in 1 .. Len(out) : out[i].stream = calls /\ out[i].kind = "trailers"
<1> PICK k \in Calls : k = calls
  BY BoundsAssumption DEF PeerInv, ClientP!ClientInv, ClientP!TypeOK, Calls
<1>1. /\ k \in ClientP!Begun /\ k \in Nat /\ size[k] = Len(body[k]) /\ size[k] \in Nat \ {0}
      /\ pos[k] \in Nat /\ pos[k] <= Len(body[k])
  BY HandoverTyped DEF ClientP!Begun, HandoverInv, Calls
<1>2. pos[k] = Len(body[k])
  <2>1. cursor[k] = size[k]
    BY <1>1 DEF PeerInv, ClientP!ClientInv, ClientP!DoneInv
  <2>2. size[k] \in 1 .. cursor[k]
    BY <1>1, <2>1
  <2>3. PICK j \in ClientP!DataSent(k, Len(sent)) : sent[j].part = size[k]
    BY <1>1, <2>2 DEF PeerInv, ClientP!ClientInv, ClientP!PiecesInv
  <2>4. j \in TakenData(k)
    BY DEF ClientP!DataSent, TakenData
  <2>5. size[k] <= pos[k]
    BY <2>3, <2>4 DEF HandoverInv, Handover
  <2> QED
    BY <1>1, <2>5
<1>3. 1 \in ServerP!Received(k)
  <2>1. PICK n \in Sizes : body[k] = Request(n)
    BY DEF PeerInv, ServerP!DispatchInv, ServerP!TypeOK
  <2>2. n \in Nat \ {0}
    BY BoundsAssumption, CallsAssumption DEF Sizes
  <2>3. pos[k] = n /\ n \in 1 .. n
    BY <1>2, <2>1, <2>2, RequestWellFormed
  <2>4. body[k][n].part = n /\ body[k][n].size = n /\ body[k][n].no = 1
    BY <2>1, <2>3 DEF Request
  <2> QED
    BY <2>3, <2>4 DEF ServerP!Received
<1>4. handled[k] # <<>>
  <2>1. 1 <= Len(handled[k])
    BY <1>3 DEF ServerP!ExchangeInv, ServerP!DispatchPrompt, ServerP!Running
  <2> QED
    BY <2>1, EmptySeq
<1>5. PICK i \in ServerP!DataFrames : out[i].stream = k
  BY <1>4 DEF ServerP!ExchangeInv, ServerP!AnswerInv, ServerP!AnsweredAtRead
<1>6. i \in 1 .. Len(out) /\ out[i].kind = "data" /\ Len(out) \in Nat /\ Len(out) % 3 = 0
  BY <1>5, LenProperties DEF ServerP!DataFrames, PeerInv, ServerP!DispatchInv, ServerP!TypeOK,
     ServerP!ExchangeInv, ServerP!AnswerInv, ServerP!BlockInv
<1>7. i % 3 # 1 /\ i % 3 # 0
  BY <1>6 DEF ServerP!ExchangeInv, ServerP!AnswerInv, ServerP!ResponseBlocks
<1>8. i + 1 \in 1 .. Len(out) /\ (i + 1) % 3 = 0 /\ i + 1 - 1 = i
  <2>1. i % 3 = 2 /\ i # Len(out)
    BY <1>6, <1>7
  <2> QED
    BY <1>6, <2>1
<1>9. PICK n \in 1 .. Len(out) : n % 3 = 0 /\ n - 1 = i
  BY <1>6, <1>8
<1>10. out[n].kind = "trailers" /\ out[n].stream = out[n - 1].stream
  <2>1. n % 3 # 1
    BY <1>9
  <2> QED
    BY <1>9, <2>1 DEF ServerP!ExchangeInv, ServerP!AnswerInv, ServerP!ResponseBlocks
<1> QED
  BY <1>5, <1>9, <1>10

\* So the client has something to read.
LEMMA NotBothRead ==
  ASSUME PeerInv, HandoverInv, ServerP!ExchangeInv, ClientP!ReadInv
  PROVE  ~ (ClientWaitsToRead /\ ServerWaitsToRead)
<1> SUFFICES ASSUME ClientWaitsToRead, ServerWaitsToRead PROVE FALSE
  OBVIOUS
<1>1. /\ at = "response" /\ c_state[calls] # "Closed" /\ Len(rcvd) = Len(out)
      /\ pc = "read" /\ frames = Len(sent)
  BY DEF ClientWaitsToRead, ServerWaitsToRead, Client!Waiting
<1>2. PICK i \in 1 .. Len(out) : out[i].stream = calls /\ out[i].kind = "trailers"
  BY <1>1, AnsweredInFull
<1>3. i \in 1 .. Len(rcvd) /\ rcvd[i] = AsRead(out[i])
  BY <1>1, <1>2 DEF PeerInv, LinkInv
<1>4. AsRead(out[i]).stream = out[i].stream /\ AsRead(out[i]).end = (out[i].kind = "trailers")
  BY DEF AsRead
<1>5. rcvd[i].stream = calls /\ rcvd[i].end
  BY <1>2, <1>3, <1>4
<1> QED
  BY <1>1, <1>3, <1>5 DEF ClientP!ReadInv, ClientP!StreamInv, ClientP!Ends

\* The invariants of the two sides hold of the pair.
LEMMA BothPromises == Spec => []ServerP!ExchangeInv /\ []ClientP!ReadInv
<1>1. ServerP!Spec => []ServerP!ExchangeInv
  BY ServerAssumptions, ServerP!ExchangeInvariant
<1>2. ClientP!UnboundedSpec => []ClientP!ReadInv
  BY ClientAssumptions, ClientP!ReadInvariant
<1> QED
  BY <1>1, <1>2, SpecMaps, PTL

\* Client and server wait for each other only where each writes to a buffer
\* that is full.  In particular a client that reads is never left waiting by a
\* server that reads: for any number of calls, sizes and buffers.
THEOREM OnlyWritersWait == Spec => []OnlyWritersDeadlock
<1>1. PeerInv /\ HandoverInv /\ ServerP!ExchangeInv /\ ClientP!ReadInv => OnlyWritersDeadlock
  <2> SUFFICES ASSUME PeerInv, HandoverInv, ServerP!ExchangeInv, ClientP!ReadInv
               PROVE  OnlyWritersDeadlock
    OBVIOUS
  <2>1. ~ (ClientWaitsToRead /\ ServerWaitsToRead)
    BY NotBothRead
  <2>2. ~ (ClientWaitsToRead /\ ServerWaitsToWrite)
    BY BuffersAssumption, LenProperties
    DEF ClientWaitsToRead, ServerWaitsToWrite, PeerInv, ServerP!DispatchInv, ServerP!TypeOK
  <2>3. ~ (ClientWaitsToWrite /\ ServerWaitsToRead)
    BY BuffersAssumption, HandoverTyped DEF ClientWaitsToWrite, ServerWaitsToRead
  <2> QED
    BY <2>1, <2>2, <2>3 DEF OnlyWritersDeadlock
<1> QED
  BY <1>1, PeerInvariant, HandoverInvariant, BothPromises, PTL

\* Where the buffers to the server hold all that the client can ever have
\* unread there, nobody waits for ever: the deadlock of run unary_blocked needs
\* buffers that fill up.
THEOREM RoomMeansProgress ==
  ToServer >= MaxFrames => (Spec => []~ (/\ ClientWaitsToRead \/ ClientWaitsToWrite
                                         /\ ServerWaitsToRead \/ ServerWaitsToWrite))
<1> SUFFICES ASSUME ToServer >= MaxFrames
             PROVE  Spec => []~ (/\ ClientWaitsToRead \/ ClientWaitsToWrite
                                 /\ ServerWaitsToRead \/ ServerWaitsToWrite)
  OBVIOUS
<1>1. PeerInv /\ HandoverInv /\ ClientP!CountInv /\ OnlyWritersDeadlock
      => ~ (/\ ClientWaitsToRead \/ ClientWaitsToWrite
            /\ ServerWaitsToRead \/ ServerWaitsToWrite)
  <2> SUFFICES ASSUME PeerInv, HandoverInv, ClientP!CountInv, OnlyWritersDeadlock
               PROVE  ~ ClientWaitsToWrite
    BY DEF OnlyWritersDeadlock
  <2> SUFFICES ASSUME ClientWaitsToWrite PROVE FALSE
    OBVIOUS
  <2>1. at \in {"start", "send"} /\ Len(sent) - frames >= ToServer
    BY DEF ClientWaitsToWrite
  <2>2. Len(sent) < MaxFrames /\ MaxFrames \in Nat
    BY <2>1, SentBelow, SentWithin DEF PeerInv
  <2> QED
    BY <2>1, <2>2, HandoverTyped, BuffersAssumption
<1> QED
  BY <1>1, OnlyWritersWait, PeerInvariant, HandoverInvariant, CountInvariant, PTL

-----------------------------------------------------------------------------
(* The work that is left *)

\* The work of the server's thread is the same seen from here and from its
\* own theorems.
LEMMA SameWork ==
  /\ Server!ThreadWork = ServerP!ThreadWork
  /\ Server!ThreadWork' = ServerP!ThreadWork'
  BY DEF Server!ThreadWork, ServerP!ThreadWork, Server!Cardinality, ServerP!Cardinality

\* So is counting.
LEMMA SameCount ==
  \A S : /\ ServerP!Cardinality(S) = Cardinality(S)
         /\ ServerP!IsFiniteSet(S) <=> IsFiniteSet(S)
  BY DEF ServerP!Cardinality, Cardinality, ServerP!IsFiniteSet, IsFiniteSet

\* What a frame of the client makes the server do, at most
PerFrame == 3 * MaxCalls + MaxSize + 4

\* The numbers in Work
WorkInv ==
  /\ Len(out) \in Nat /\ Len(rcvd) \in Nat /\ Len(rcvd) <= Len(out)
  /\ Len(sent) \in Nat /\ frames \in Nat /\ frames <= Len(sent)
  /\ MaxFrames \in Nat /\ Len(sent) <= MaxFrames
  /\ calls \in Nat /\ calls <= MaxCalls
  /\ at \in {"new", "idle", "start", "send", "response", "panicked"}
  /\ ServerP!ThreadWork \in Nat
  /\ pc \in {"process", "handle_requests"} => ServerP!ThreadWork <= PerFrame

\* The server holds a stream for each call at most, and at most a request in
\* each buffer.
LEMMA FrameWork ==
  ASSUME PeerInv, ServerP!FiniteInv
  PROVE  /\ ServerP!ThreadWork \in Nat
         /\ pc \in {"process", "handle_requests"} => ServerP!ThreadWork <= PerFrame
<1> DEFINE n == ServerP!Cardinality(live)
           l == Len(req_buf[cur.stream])
<1>1. /\ ServerP!TypeOK /\ ServerP!BufferInv /\ MaxCalls \in Nat /\ MaxSize \in Nat
      /\ live \subseteq Calls
  BY BoundsAssumption DEF PeerInv, ServerP!DispatchInv, ServerP!TypeOK
<1>2. ServerP!ThreadWork \in Nat /\ n \in Nat
  BY <1>1, ServerAssumptions, ServerP!WorkTyped
<1>3. n <= MaxCalls
  <2>1. IsFiniteSet(1 .. MaxCalls) /\ Cardinality(1 .. MaxCalls) = MaxCalls
    <3>1. \A c \in Nat : (IF 1 > c THEN 0 ELSE c - 1 + 1) = c
      OBVIOUS
    <3> QED
      BY <1>1, <3>1, FS_Interval
  <2>2. IsFiniteSet(Calls) /\ Cardinality(Calls) = MaxCalls
    BY <2>1 DEF Calls
  <2>3. Cardinality(live) <= Cardinality(Calls)
    BY <1>1, <2>2, FS_Subset
  <2>4. n = Cardinality(live)
    BY SameCount
  <2> QED
    BY <2>2, <2>3, <2>4
<1>4. pc = "process" => l \in Nat /\ l <= MaxSize
  <2> SUFFICES ASSUME pc = "process" PROVE l \in Nat /\ l <= MaxSize
    OBVIOUS
  <2> DEFINE s == cur.stream
  <2>1. s \in Calls /\ req_buf[s] \in Seq(ServerP!Piece) /\ body[s] \in {Request(k) : k \in Sizes}
        /\ pos[s] \in Nat /\ pos[s] <= Len(body[s])
    BY <1>1 DEF ServerP!TypeOK
  <2>2. pos[s] - Len(req_buf[s]) \in Nat /\ Len(req_buf[s]) \in Nat
    BY <1>1, <2>1, LenProperties DEF ServerP!BufferInv, ServerP!Buffered
  <2>3. PICK k \in Sizes : body[s] = Request(k)
    BY <2>1
  <2>4. k \in Nat \ {0} /\ k <= MaxSize
    BY BoundsAssumption, CallsAssumption DEF Sizes
  <2>5. Len(body[s]) = k
    BY <2>3, <2>4, RequestWellFormed
  <2> HIDE DEF s
  <2>6. Len(req_buf[s]) <= MaxSize
    BY <1>1, <2>1, <2>2, <2>4, <2>5
  <2> QED
    BY <2>2, <2>6 DEF s
<1>5. /\ pc = "process" => ServerP!ThreadWork = 3 * n + 4 + l
      /\ pc = "handle_requests" => ServerP!ThreadWork = 3 * n + 3
  BY ServerAssumptions, ServerP!WorkCases
<1> HIDE DEF n, l
<1> QED
  BY <1>1, <1>2, <1>3, <1>4, <1>5 DEF PerFrame

\* WorkInv holds in every behaviour of the pair.
LEMMA WorkInvariant == Spec => []WorkInv
<1>1. PeerInv /\ HandoverInv /\ ClientP!CountInv /\ ServerP!FiniteInv => WorkInv
  <2> SUFFICES ASSUME PeerInv, HandoverInv, ClientP!CountInv, ServerP!FiniteInv
               PROVE  WorkInv
    OBVIOUS
  <2>1. /\ Len(out) \in Nat /\ Len(rcvd) \in Nat /\ Len(rcvd) <= Len(out)
        /\ at \in {"new", "idle", "start", "send", "response", "panicked"}
    BY LenProperties DEF PeerInv, LinkInv, ServerP!DispatchInv, ServerP!TypeOK,
       ClientP!ClientInv, ClientP!TypeOK
  <2>2. /\ Len(sent) \in Nat /\ frames \in Nat /\ frames <= Len(sent)
        /\ calls \in Nat /\ calls <= MaxCalls
    BY HandoverTyped DEF HandoverInv
  <2>3. MaxFrames \in Nat /\ Len(sent) <= MaxFrames
    BY SentWithin DEF PeerInv
  <2> QED
    BY <2>1, <2>2, <2>3, FrameWork DEF WorkInv
<1>2. ServerP!Spec => []ServerP!FiniteInv
  BY ServerAssumptions, ServerP!FiniteInvariant
<1> QED
  BY <1>1, <1>2, SpecMaps, PeerInvariant, HandoverInvariant, CountInvariant, PTL

\* The terms of Work that the client and the link change
ClientNumbers ==
  (MaxFrames - Len(sent)) + 4 * (MaxCalls - calls) + ClientRank + (IF link = "up" THEN 1 ELSE 0)

\* Every step of the client's thread, of its user or of the link brings down
\* what is left, the frames still to be read included.
LEMMA ClientWorks ==
  ASSUME PeerInv, WorkInv, WorkInv', ClientStep \/ MakeCall \/ LinkDown
  PROVE  /\ ClientRank \in 0 .. 4 /\ ClientRank' \in 0 .. 4
         /\ ClientNumbers' - Len(rcvd') < ClientNumbers - Len(rcvd)
<1> DEFINE U == IF link = "up" THEN 1 ELSE 0
<1>1. ClientRank \in 0 .. 4 /\ ClientRank' \in 0 .. 4 /\ U \in 0 .. 1 /\ U' \in 0 .. 1
  BY DEF ClientRank
<1>2. /\ at = "start" => ClientRank = 4
      /\ at = "send" => ClientRank = 3
      /\ at = "response" => ClientRank = 2
      /\ at = "panicked" => ClientRank = 0
      /\ at \in {"new", "idle"} => ClientRank = 1
      /\ at' = at => ClientRank' = ClientRank
      /\ at' = "start" => ClientRank' = 4
      /\ at' = "send" => ClientRank' = 3
      /\ at' = "response" => ClientRank' = 2
      /\ at' = "panicked" => ClientRank' = 0
      /\ at' = "idle" => ClientRank' = 1
  BY DEF ClientRank
<1> DEFINE Writes ==
             Len(sent') = Len(sent) + 1 /\ UNCHANGED <<rcvd, calls, link>>
               /\ ClientRank' <= ClientRank
           Reads  ==
             Len(rcvd') = Len(rcvd) + 1 /\ UNCHANGED <<sent, calls, link>>
               /\ ClientRank' = ClientRank
           Begins ==
             calls' = calls + 1 /\ UNCHANGED <<sent, rcvd, link>>
               /\ ClientRank' = ClientRank + 3
           Goes   == UNCHANGED <<sent, rcvd, calls, link>> /\ ClientRank' < ClientRank
           Breaks == UNCHANGED <<sent, rcvd, calls, at>> /\ U = 1 /\ U' = 0
<1>3. /\ sent \in Seq(ClientP!ClientFrame) /\ rcvd \in Seq(ClientP!ServerFrame)
      /\ \A e : Len(Append(sent, e)) = Len(sent) + 1
      /\ \A e : Len(Append(rcvd, e)) = Len(rcvd) + 1
  BY DEF PeerInv, ClientP!ClientInv, ClientP!TypeOK
<1>4. Client!New /\ UNCHANGED link => Writes
  BY <1>2, <1>3 DEF Client!New, Client!Goto
<1>5. ClientWrites /\ UNCHANGED link => Writes
  <2>1. \A p : Client!StartRequest(p) /\ UNCHANGED link => Writes
    BY <1>2, <1>3 DEF Client!StartRequest, Client!Goto
  <2>2. \A k : Client!SendNextData(k) /\ UNCHANGED link => Writes
    <3> SUFFICES ASSUME NEW k, Client!SendNextData(k), UNCHANGED link PROVE Writes
      OBVIOUS
    <3> DEFINE e == ClientP!NextData(k)
    <3>1. sent' = Append(sent, e) /\ UNCHANGED <<at, rcvd, calls>>
      BY RequestSame DEF Client!SendNextData, ClientP!SendNextData, ClientP!NextData
    <3> HIDE DEF e
    <3> QED
      BY <1>1, <1>2, <1>3, <3>1
  <2> QED
    BY <2>1, <2>2 DEF ClientWrites
<1>6. ClientReads /\ UNCHANGED link => Reads
  BY <1>2, <1>3 DEF ClientReads, Client!HandleNextFrame
<1>7. MakeCall => Begins
  BY <1>2 DEF MakeCall, Client!Call, Client!Goto
<1>8. /\ \/ Client!RequestSent \/ Client!Return \/ Client!BadResponse \/ Client!BadMessage
         \/ Client!WriteFails \/ Client!ReadFails
      /\ UNCHANGED link
      => Goes
  BY <1>2 DEF Client!RequestSent, Client!Return, Client!BadResponse, Client!BadMessage,
     Client!WriteFails, Client!ReadFails, Client!Goto, Client!Answered, Client!Waiting
<1>9. LinkDown => Breaks
  BY DEF LinkDown, clientVars
<1>10. Writes \/ Reads \/ Begins \/ Goes \/ Breaks
  BY <1>4, <1>5, <1>6, <1>7, <1>8, <1>9 DEF ClientStep
<1> DEFINE s == Len(sent)
           t == Len(sent')
           r == Len(rcvd)
           q == Len(rcvd')
           M == MaxFrames
<1>11. /\ s \in Nat /\ t \in Nat /\ r \in Nat /\ q \in Nat /\ M \in Nat
       /\ calls \in Nat /\ calls' \in Nat /\ MaxCalls \in Nat
  BY BoundsAssumption DEF WorkInv
<1>12. /\ ClientNumbers = (M - s) + 4 * (MaxCalls - calls) + ClientRank + U
       /\ ClientNumbers' = (M - t) + 4 * (MaxCalls - calls') + ClientRank' + U'
  BY DEF ClientNumbers, MaxFrames
<1>13. /\ Writes => t = s + 1 /\ q = r /\ calls' = calls /\ U' = U /\ ClientRank' <= ClientRank
       /\ Reads => q = r + 1 /\ t = s /\ calls' = calls /\ U' = U /\ ClientRank' = ClientRank
       /\ Begins => calls' = calls + 1 /\ t = s /\ q = r /\ U' = U
                     /\ ClientRank' = ClientRank + 3
       /\ Goes => t = s /\ q = r /\ calls' = calls /\ U' = U /\ ClientRank' < ClientRank
       /\ Breaks => t = s /\ q = r /\ calls' = calls /\ U = 1 /\ U' = 0
                     /\ ClientRank' = ClientRank
  BY <1>2
<1> DEFINE u == U
           v == U'
           a == ClientRank
           b == ClientRank'
           c == calls
           d == calls'
<1>14. /\ a \in 0 .. 4 /\ b \in 0 .. 4 /\ u \in 0 .. 1 /\ v \in 0 .. 1
       /\ c \in Nat /\ d \in Nat
       /\ ClientNumbers = (M - s) + 4 * (MaxCalls - c) + a + u
       /\ ClientNumbers' = (M - t) + 4 * (MaxCalls - d) + b + v
       /\ \/ t = s + 1 /\ q = r /\ d = c /\ v = u /\ b <= a
          \/ q = r + 1 /\ t = s /\ d = c /\ v = u /\ b = a
          \/ d = c + 1 /\ t = s /\ q = r /\ v = u /\ b = a + 3
          \/ t = s /\ q = r /\ d = c /\ v = u /\ b < a
          \/ t = s /\ q = r /\ d = c /\ u = 1 /\ v = 0 /\ b = a
  BY <1>1, <1>10, <1>11, <1>12, <1>13
<1> HIDE DEF U, s, t, r, q, M, u, v, a, b, c, d
<1>15. ClientNumbers' - q < ClientNumbers - r
  BY <1>11, <1>14
<1> QED
  BY <1>1, <1>15 DEF r, q

\* A step of the server's thread
LEMMA ServerWorks ==
  ASSUME PeerInv, PeerInv', ServerP!FiniteInv, ServerP!FiniteInv', WorkInv, WorkInv',
         ServerStep, ~ UNCHANGED vars
  PROVE  /\ ServerWork' < ServerWork
         /\ Len(out') <= Len(out) + 1
<1> DEFINE T == ServerP!ThreadWork
           F == MaxFrames - frames
           P == PerFrame
<1>1. /\ T \in Nat /\ T' \in Nat /\ F \in Nat /\ frames \in Nat /\ frames' \in Nat
      /\ MaxFrames \in Nat
      /\ pc' \in {"process", "handle_requests"} => T' <= PerFrame
  BY DEF WorkInv
<1>2. P \in Nat
  BY BoundsAssumption DEF PerFrame
<1>3. ServerP!TypeOK /\ ServerP!TypeOK' /\ [ServerP!Next]_(ServerP!vars)
  BY ServerStepMaps DEF PeerInv, ServerP!DispatchInv, ClientP!ClientInv, Next
<1>4. /\ ServerWork = F * P + T
      /\ ServerWork' = (MaxFrames - frames') * P + T'
  BY SameWork DEF ServerWork, PerFrame, MaxFrames
<1>5. \/ pc = "read" /\ frames' = frames + 1 /\ pc' \in {"process", "handle_requests"}
      \/ pc = "read" /\ pc' = "returned" /\ frames' = frames
      \/ pc # "read" /\ frames' = frames
  <2>1. CASE ServerReads
    <3>1. frames + 1 \in 1 .. Len(sent)
      BY <2>1, <1>1 DEF ServerReads, WorkInv
    <3>2. sent[frames + 1].kind \in {"settings", "headers", "data"}
      BY <3>1, HandoverTyped
    <3> QED
      BY <2>1, <3>2 DEF ServerReads, Server!RecvOther, Server!RecvNewStream, Server!RecvData,
         Server!Receive, Server!Goto
  <2>2. CASE ~ ServerReads
    BY <2>2 DEF ServerStep, Server!New, Server!ProcessBuf, Server!ProcessFrame,
       Server!ProcessPanic, Server!ProcessReturn, Server!CollectResponses, ServerWrites,
       Server!SendHeaders, Server!SendData, Server!SendTrailers, Server!ReapStreams,
       Server!RecvError, Server!SendError, Server!Goto, Server!peerVars
  <2> QED
    BY <2>1, <2>2
<1>6. pc = "read" \/ T' < T
  <2>1. UNCHANGED ServerP!vars \/ pc = "read" \/ T' < T
    BY <1>3, ServerAssumptions, ServerP!ThreadStepWorks
  <2>2. ~ UNCHANGED ServerP!vars
    BY DEF ServerStep, vars, serverVars, ServerP!vars, ServerP!streamVars, ServerP!sendVars,
       ServerP!peerVars
  <2> QED
    BY <2>1, <2>2
<1>7. /\ pc = "read" => T = 1
      /\ pc' = "returned" => T' = 0
  BY DEF ServerP!ThreadWork
<1>8. ServerWork' < ServerWork
  <2> DEFINE t == T
             u == T'
             x == F * P
             y == (MaxFrames - frames') * P
  <2>1. t \in Nat /\ u \in Nat /\ ServerWork = x + t /\ ServerWork' = y + u
    BY <1>1, <1>4
  <2>2. \A f, p \in Nat : (f - 1) * p = f * p - p /\ f * p \in Nat
    OBVIOUS
  <2>3. \/ MaxFrames - frames' = F - 1 /\ t = 1 /\ u <= P
        \/ MaxFrames - frames' = F /\ u < t
    BY <1>1, <1>5, <1>6, <1>7 DEF MaxFrames
  <2>4. /\ x \in Nat
        /\ \/ y = x - P /\ t = 1 /\ u <= P
           \/ y = x /\ u < t
    BY <1>1, <1>2, <2>2, <2>3
  <2> HIDE DEF t, u, x, y
  <2> QED
    BY <1>2, <2>1, <2>4
<1>9. Len(out') <= Len(out) + 1
  <2>1. out' = out \/ \E f \in ServerP!OutFrame : out' = Append(out, f)
    BY <1>3, ServerAssumptions, ServerP!OutGrows DEF PeerInv
  <2>2. out \in Seq(ServerP!OutFrame) /\ Len(out) \in Nat
    BY <1>3, LenProperties DEF ServerP!TypeOK
  <2> QED
    BY <2>1, <2>2, AppendProperties
<1> QED
  BY <1>8, <1>9

\* Work, taken apart into the three terms that steps change
WorkTerms ==
  /\ ServerWork \in Nat /\ ClientNumbers \in Nat
  /\ Len(out) \in Nat /\ Len(rcvd) \in Nat /\ Len(rcvd) <= Len(out)
  /\ Work = 2 * ServerWork + (Len(out) - Len(rcvd)) + ClientNumbers

\* The terms of Work are the numbers that the lemmas above speak of.
LEMMA WorkInTerms == WorkInv => WorkTerms
<1> SUFFICES ASSUME WorkInv PROVE WorkTerms
  OBVIOUS
<1> DEFINE U == IF link = "up" THEN 1 ELSE 0
           T == ServerP!ThreadWork
<1>1. /\ Len(out) \in Nat /\ Len(rcvd) \in Nat /\ Len(rcvd) <= Len(out)
      /\ Len(sent) \in Nat /\ MaxFrames - Len(sent) \in Nat /\ MaxFrames - frames \in Nat
      /\ MaxCalls - calls \in Nat /\ T \in Nat /\ U \in 0 .. 1
  BY BoundsAssumption DEF WorkInv
<1>2. ClientRank \in 0 .. 4
  BY DEF ClientRank
<1>3. ClientNumbers = (MaxFrames - Len(sent)) + 4 * (MaxCalls - calls) + ClientRank + U
  BY DEF ClientNumbers, MaxFrames
<1>4. ServerWork = (MaxFrames - frames) * PerFrame + T
  BY SameWork DEF ServerWork, PerFrame, MaxFrames
<1>5. Work = 2 * ServerWork + (Len(out) - Len(rcvd)) + (MaxFrames - Len(sent))
               + 4 * (MaxCalls - calls) + ClientRank + U
  BY DEF Work, MaxFrames
<1> DEFINE m == MaxFrames - Len(sent)
           n == MaxCalls - calls
           f == MaxFrames - frames
           x == f * PerFrame
           w == ServerWork
           o == Len(out) - Len(rcvd)
<1>6. PerFrame \in Nat /\ f \in Nat /\ \A a, b \in Nat : a * b \in Nat
  BY <1>1, BoundsAssumption DEF PerFrame
<1>7. x \in Nat
  BY <1>6
<1>8. /\ m \in Nat /\ n \in Nat /\ o \in Nat /\ T \in Nat /\ U \in Nat /\ ClientRank \in Nat
      /\ ClientNumbers = m + 4 * n + ClientRank + U
      /\ w = x + T
      /\ Work = 2 * w + o + m + 4 * n + ClientRank + U
  BY <1>1, <1>2, <1>3, <1>4, <1>5
<1> HIDE DEF m, n, x, w, o, f, T, U
<1>9. w \in Nat /\ ClientNumbers \in Nat /\ Work = 2 * w + o + ClientNumbers
  BY <1>7, <1>8
<1> QED
  BY <1>1, <1>9 DEF WorkTerms, w, o

\* The pair never works for ever: for any number of calls, sizes and buffers,
\* every step leaves less to be done, though the client ends old streams again
\* and the server sends old responses again with every frame it reads.
THEOREM EveryStepWorks == Spec => WorkDecreases
<1>1. ASSUME PeerInv, PeerInv', ServerP!FiniteInv, ServerP!FiniteInv', WorkInv, WorkInv',
             WorkTerms, WorkTerms', [Next]_vars
      PROVE  [Work' < Work /\ Work' \in Nat]_vars
  <2> SUFFICES ASSUME Next, ~ UNCHANGED vars PROVE Work' < Work /\ Work' \in Nat
    BY <1>1
  <2> USE <1>1
  <2> DEFINE s == ServerWork
             t == ServerWork'
             c == ClientNumbers
             d == ClientNumbers'
             o == Len(out)
             p == Len(out')
             r == Len(rcvd)
             q == Len(rcvd')
  <2>1. /\ Work = 2 * s + (o - r) + c /\ Work' = 2 * t + (p - q) + d
        /\ s \in Nat /\ t \in Nat /\ c \in Nat /\ d \in Nat /\ o \in Nat /\ p \in Nat
        /\ r \in Nat /\ q \in Nat /\ r <= o /\ q <= p
    BY DEF WorkTerms
  <2>2. CASE ServerStep
    <3>1. t < s /\ p <= o + 1
      BY <2>2, ServerWorks
    <3>2. q = r /\ d = c
      BY <2>2 DEF ServerStep, clientVars, ClientNumbers, ClientRank, MaxFrames
    <3> HIDE DEF s, t, c, d, o, p, r, q
    <3> QED
      BY <2>1, <3>1, <3>2
  <2>3. CASE ClientStep \/ MakeCall \/ LinkDown
    <3>1. d - q < c - r
      BY <2>3, ClientWorks
    <3>2. UNCHANGED serverVars
      BY <2>3 DEF ClientStep, MakeCall, LinkDown
    <3>3. t = s /\ p = o
      BY <3>2 DEF serverVars, ServerWork, Server!ThreadWork, MaxFrames
    <3> HIDE DEF s, t, c, d, o, p, r, q
    <3> QED
      BY <2>1, <3>1, <3>3
  <2> QED
    BY <2>2, <2>3 DEF Next
<1>2. ServerP!Spec => []ServerP!FiniteInv
  BY ServerAssumptions, ServerP!FiniteInvariant
<1> QED
  BY <1>1, <1>2, WorkInTerms, SpecMaps, PeerInvariant, WorkInvariant, PTL
  DEF Spec, WorkDecreases

=============================================================================
