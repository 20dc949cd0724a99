-------------------------- MODULE GrpcServerProofs --------------------------
(***************************************************************************)
(* Proofs about GrpcServer, for any number of clients, streams, messages,  *)
(* descriptors and threads.                                                *)
(***************************************************************************)
EXTENDS GrpcServer, FiniteSetTheorems, TLAPS

\* The connections nobody has a thread for yet: a client waits once, in the
\* backlog or with the main thread.
WaitingInv ==
  /\ backlog \in Seq(Clients)
  /\ \A i, j \in 1 .. Len(backlog) : backlog[i] = backlog[j] => i = j
  /\ \A i \in 1 .. Len(backlog) :
       thread[backlog[i]] = "none" /\ peer[backlog[i]] # "away" /\ accepted # backlog[i]

MainInv ==
  /\ main \in {"incoming", "spawn", "panicked"}
  /\ accepted \in Clients \cup {NoClient}
  /\ main = "spawn" <=> accepted # NoClient
  /\ accepted # NoClient => thread[accepted] = "none" /\ peer[accepted] # "away"
  /\ main = "panicked" => \A c \in Clients : thread[c] = "ended"

ThreadInv ==
  /\ peer \in [Clients -> {"away", "here", "gone"}]
  /\ preface \in [Clients -> {"none", "right", "wrong"}]
  /\ thread \in [Clients -> {"none", "preface", "running", "ended"}]
  /\ handling \in [Clients -> BOOLEAN]
  /\ \A c \in Clients : handling[c] => thread[c] = "running"
  /\ \A c \in Clients : peer[c] = "away" /\ main # "panicked" => thread[c] = "none"

ExchangeInv == received \in Exchange /\ dispatched \in Exchange /\ answered \in Exchange

ServerInv == WaitingInv /\ MainInv /\ ThreadInv /\ ExchangeInv

LEMMA InvImpliesType == limits \in Limits /\ ServerInv => TypeOK
<1> SUFFICES ASSUME limits \in Limits, ServerInv PROVE TypeOK
  OBVIOUS
<1>1. backlog \in Seq(Clients) /\ DOMAIN backlog = 1 .. Len(backlog)
  BY DEF ServerInv, WaitingInv
<1>2. IsInjective(backlog)
  BY <1>1 DEF ServerInv, WaitingInv, IsInjective
<1>3. ASSUME NEW c \in Range(backlog) \cup {accepted}, c # NoClient
      PROVE  thread[c] = "none" /\ peer[c] # "away"
  BY <1>1, <1>3 DEF ServerInv, WaitingInv, MainInv, Range
<1> QED
  BY <1>1, <1>2, <1>3 DEF TypeOK, ServerInv, MainInv, ThreadInv, ExchangeInv

LEMMA ServerInit == Init => ServerInv
<1> SUFFICES ASSUME Init PROVE ServerInv
  OBVIOUS
<1>1. WaitingInv
  BY DEF Init, WaitingInv
<1>2. MainInv /\ ThreadInv
  BY DEF Init, MainInv, ThreadInv
<1>3. ExchangeInv
  BY DEF Init, ExchangeInv, Exchange
<1> QED
  BY <1>1, <1>2, <1>3 DEF ServerInv

-----------------------------------------------------------------------------
(* The steps of the main thread and of the clients *)

LEMMA ConnectStep ==
  ASSUME ServerInv, NEW c \in Clients, Connect(c)
  PROVE  ServerInv'
<1> DEFINE n == Len(backlog)
<1>1. /\ backlog \in Seq(Clients) /\ n \in Nat
      /\ backlog' \in Seq(Clients) /\ Len(backlog') = n + 1
      /\ \A i \in 1 .. n : backlog'[i] = backlog[i]
      /\ backlog'[n + 1] = c
  BY DEF ServerInv, WaitingInv, Connect
<1>2. /\ peer \in [Clients -> {"away", "here", "gone"}]
      /\ peer[c] = "away" /\ main # "panicked" /\ peer' = [peer EXCEPT ![c] = "here"]
      /\ UNCHANGED <<preface, main, accepted, thread, handling, exchangeVars>>
  BY DEF ServerInv, ThreadInv, Connect
<1>3. accepted # c /\ \A i \in 1 .. n : backlog[i] # c
  BY <1>2, ClientsAssumption DEF ServerInv, WaitingInv, MainInv
<1>4. thread[c] = "none"
  BY <1>2 DEF ServerInv, MainInv, ThreadInv
<1>5. /\ \A i, j \in 1 .. n : backlog[i] = backlog[j] => i = j
      /\ \A i \in 1 .. n :
           /\ backlog[i] \in Clients
           /\ thread[backlog[i]] = "none" /\ peer[backlog[i]] # "away" /\ accepted # backlog[i]
  BY <1>1 DEF ServerInv, WaitingInv
<1> HIDE DEF n
<1>6. \A i \in 1 .. n + 1 : i = n + 1 \/ i \in 1 .. n
  BY <1>1
<1>7. \A i, j \in 1 .. n + 1 : backlog'[i] = backlog'[j] => i = j
  BY <1>1, <1>3, <1>5, <1>6
<1>8. \A i \in 1 .. n + 1 :
        thread'[backlog'[i]] = "none" /\ peer'[backlog'[i]] # "away" /\ accepted' # backlog'[i]
  BY <1>1, <1>2, <1>3, <1>4, <1>5, <1>6
<1>9. WaitingInv'
  BY <1>1, <1>7, <1>8 DEF WaitingInv
<1>10. MainInv'
  BY <1>2, <1>3 DEF ServerInv, MainInv, ThreadInv
<1>11. ThreadInv' /\ ExchangeInv'
  BY <1>2 DEF ServerInv, ThreadInv, ExchangeInv, exchangeVars
<1> QED
  BY <1>9, <1>10, <1>11 DEF ServerInv

LEMMA AcceptStep ==
  ASSUME ServerInv, Accept
  PROVE  ServerInv'
<1> DEFINE n == Len(backlog)
<1>1. /\ backlog \in Seq(Clients) /\ n \in Nat /\ n > 0
      /\ backlog' \in Seq(Clients) /\ Len(backlog') = n - 1
      /\ \A i \in 1 .. n - 1 : backlog'[i] = backlog[i + 1]
      /\ accepted' = backlog[1] /\ backlog[1] \in Clients
  BY DEF ServerInv, WaitingInv, Accept
<1>2. /\ main' = "spawn"
      /\ UNCHANGED <<clientVars, thread, handling, exchangeVars>>
  BY DEF Accept
<1>3. /\ \A i, j \in 1 .. n : backlog[i] = backlog[j] => i = j
      /\ \A i \in 1 .. n : thread[backlog[i]] = "none" /\ peer[backlog[i]] # "away"
  BY DEF ServerInv, WaitingInv
<1> HIDE DEF n
<1>4. ASSUME NEW i \in 1 .. n - 1, NEW j \in 1 .. n - 1, backlog'[i] = backlog'[j]
      PROVE  i = j
  <2>1. i + 1 \in 1 .. n /\ j + 1 \in 1 .. n
    BY <1>1
  <2>2. i + 1 = j + 1
    BY <1>1, <1>3, <1>4, <2>1
  <2> QED
    BY <2>2
<1>5. ASSUME NEW i \in 1 .. n - 1
      PROVE  thread'[backlog'[i]] = "none" /\ peer'[backlog'[i]] # "away"
               /\ accepted' # backlog'[i]
  <2>1. i + 1 \in 1 .. n /\ 1 \in 1 .. n /\ i + 1 # 1
    BY <1>1
  <2> QED
    BY <1>1, <1>2, <1>3, <2>1 DEF clientVars
<1>6. WaitingInv'
  BY <1>1, <1>4, <1>5 DEF WaitingInv
<1>7. 1 \in 1 .. n
  BY <1>1
<1>8. MainInv'
  BY <1>1, <1>2, <1>3, <1>7, ClientsAssumption DEF MainInv, clientVars
<1>9. ThreadInv' /\ ExchangeInv'
  BY <1>2 DEF Accept, ServerInv, ThreadInv, ExchangeInv, clientVars, exchangeVars
<1> QED
  BY <1>6, <1>8, <1>9 DEF ServerInv

LEMMA EndProcessStep ==
  ASSUME ServerInv, EndProcess
  PROVE  ServerInv'
<1>1. WaitingInv'
  BY DEF EndProcess, WaitingInv
<1>2. MainInv'
  BY DEF EndProcess, MainInv
<1>3. ThreadInv' /\ ExchangeInv'
  BY DEF EndProcess, ServerInv, ThreadInv, ExchangeInv, clientVars, exchangeVars
<1> QED
  BY <1>1, <1>2, <1>3 DEF ServerInv

LEMMA SpawnStep ==
  ASSUME ServerInv, Spawn
  PROVE  ServerInv'
<1>1. /\ main = "spawn" /\ accepted \in Clients /\ peer[accepted] # "away"
      /\ thread' = [thread EXCEPT ![accepted] = "preface"]
      /\ accepted' = NoClient /\ main' = "incoming"
      /\ UNCHANGED <<clientVars, backlog, handling, exchangeVars>>
  BY DEF ServerInv, MainInv, Spawn
<1>2. thread[accepted] = "none"
  BY <1>1, ClientsAssumption DEF ServerInv, MainInv
<1>3. WaitingInv'
  BY <1>1, ClientsAssumption DEF ServerInv, WaitingInv, ThreadInv, clientVars
<1>4. MainInv'
  BY <1>1 DEF MainInv
<1>5. ThreadInv' /\ ExchangeInv'
  BY <1>1, <1>2 DEF ServerInv, ThreadInv, ExchangeInv, clientVars, exchangeVars
<1> QED
  BY <1>3, <1>4, <1>5 DEF ServerInv

-----------------------------------------------------------------------------
(* The steps of a connection *)

\* What concerns one connection that has a thread or a client that is there
\* leaves the connections that wait as they are.
LEMMA WaitersKept ==
  ASSUME ServerInv, UNCHANGED <<backlog, main, accepted>>,
         \A c \in Clients : thread[c] = "none" => thread'[c] = "none",
         \A c \in Clients : thread[c] = "ended" => thread'[c] = "ended",
         \A c \in Clients : peer[c] # "away" => peer'[c] # "away"
  PROVE  WaitingInv' /\ MainInv'
<1>1. \A i \in 1 .. Len(backlog) : backlog[i] \in Clients
  BY DEF ServerInv, WaitingInv
<1>2. WaitingInv'
  BY <1>1 DEF ServerInv, WaitingInv
<1>3. accepted # NoClient => accepted \in Clients
  BY DEF ServerInv, MainInv
<1>4. MainInv'
  BY <1>3 DEF ServerInv, MainInv
<1> QED
  BY <1>2, <1>4

LEMMA ClientStep ==
  ASSUME ServerInv, NEW c \in Clients,
         (\E bytes \in {"right", "wrong"} : SendPreface(c, bytes)) \/ HangUp(c)
  PROVE  ServerInv'
<1>1. /\ \A d \in Clients : peer[d] # "away" => peer'[d] # "away"
      /\ \A d \in Clients : peer'[d] = "away" => peer[d] = "away"
      /\ UNCHANGED <<backlog, main, accepted, thread, handling, exchangeVars>>
      /\ peer' \in [Clients -> {"away", "here", "gone"}]
      /\ preface' \in [Clients -> {"none", "right", "wrong"}]
  BY DEF ServerInv, ThreadInv, SendPreface, HangUp
<1>2. WaitingInv' /\ MainInv'
  BY <1>1, WaitersKept
<1>3. ThreadInv' /\ ExchangeInv'
  BY <1>1 DEF ServerInv, ThreadInv, ExchangeInv, exchangeVars
<1> QED
  BY <1>2, <1>3 DEF ServerInv

LEMMA EndStep ==
  ASSUME ServerInv, NEW c \in Clients, thread[c] # "none", End(c)
  PROVE  ServerInv'
<1>1. WaitingInv' /\ MainInv'
  BY WaitersKept DEF ServerInv, ThreadInv, End, clientVars
<1>2. ThreadInv' /\ ExchangeInv'
  BY DEF ServerInv, ThreadInv, ExchangeInv, End, clientVars, exchangeVars
<1> QED
  BY <1>1, <1>2 DEF ServerInv

LEMMA ConnectionStep ==
  ASSUME ServerInv, NEW c \in Clients,
         \/ ReadPreface(c)
         \/ HandlerReturns(c)
         \/ \E s \in Streams :
              \/ \E new \in SUBSET Messages : Receive(c, s, new)
              \/ Handle(c, s)
              \/ Answer(c, s)
  PROVE  ServerInv'
<1>1. /\ thread \in [Clients -> {"none", "preface", "running", "ended"}]
      /\ handling \in [Clients -> BOOLEAN]
      /\ received \in Exchange /\ dispatched \in Exchange /\ answered \in Exchange
      /\ \A d \in Clients : handling[d] => thread[d] = "running"
  BY DEF ServerInv, ThreadInv, ExchangeInv
<1>2. CASE ReadPreface(c)
  <2>1. thread' = [thread EXCEPT ![c] = "running"] /\ thread[c] = "preface"
        /\ UNCHANGED <<clientVars, backlog, main, accepted, handling, exchangeVars>>
    BY <1>2 DEF ReadPreface
  <2>2. WaitingInv' /\ MainInv'
    BY <1>1, <2>1, WaitersKept DEF clientVars
  <2>3. ThreadInv' /\ ExchangeInv'
    BY <1>1, <2>1 DEF ServerInv, ThreadInv, ExchangeInv, clientVars, exchangeVars
  <2> QED
    BY <2>2, <2>3 DEF ServerInv
<1>3. ASSUME UNCHANGED <<clientVars, backlog, main, accepted, thread>>,
             handling' \in [Clients -> BOOLEAN],
             \A d \in Clients : handling'[d] => thread[d] = "running",
             ExchangeInv'
      PROVE  ServerInv'
  <2>1. WaitingInv' /\ MainInv'
    BY <1>3, WaitersKept DEF clientVars
  <2>2. ThreadInv'
    BY <1>3 DEF ServerInv, ThreadInv, clientVars
  <2> QED
    BY <1>3, <2>1, <2>2 DEF ServerInv
<1>4. CASE HandlerReturns(c)
  <2>1. /\ UNCHANGED <<clientVars, backlog, main, accepted, thread, exchangeVars>>
        /\ handling' = [handling EXCEPT ![c] = FALSE]
    BY <1>4 DEF HandlerReturns
  <2>2. ExchangeInv'
    BY <1>1, <2>1 DEF ExchangeInv, exchangeVars
  <2>3. handling' \in [Clients -> BOOLEAN] /\ \A d \in Clients : handling'[d] => thread[d] = "running"
    BY <1>1, <2>1
  <2> QED
    BY <1>3, <2>1, <2>2, <2>3
<1>5. ASSUME NEW s \in Streams, NEW new \in SUBSET Messages, Receive(c, s, new)
      PROVE  ServerInv'
  <2>1. received' \in Exchange
    BY <1>1, <1>5 DEF Receive, Exchange
  <2>2. UNCHANGED <<clientVars, backlog, main, accepted, thread, handling, dispatched, answered>>
    BY <1>5 DEF Receive
  <2>3. ExchangeInv'
    BY <1>1, <2>1, <2>2 DEF ExchangeInv
  <2>4. /\ handling' \in [Clients -> BOOLEAN]
        /\ \A d \in Clients : handling'[d] => thread[d] = "running"
    BY <1>1, <2>2
  <2> QED
    BY <1>3, <2>2, <2>3, <2>4
<1>6. ASSUME NEW s \in Streams, Handle(c, s)
      PROVE  ServerInv'
  <2>1. PICK m \in received[c][s] \ dispatched[c][s] :
          dispatched' = [dispatched EXCEPT ![c][s] = @ \cup {m}]
    BY <1>6 DEF Handle
  <2>2. m \in Messages
    BY <1>1, <2>1 DEF Exchange
  <2>3. dispatched' \in Exchange
    BY <1>1, <2>1, <2>2 DEF Exchange
  <2>4. /\ UNCHANGED <<clientVars, backlog, main, accepted, thread, received, answered>>
        /\ handling' = [handling EXCEPT ![c] = TRUE] /\ thread[c] = "running"
    BY <1>6 DEF Handle, Idle
  <2>5. ExchangeInv'
    BY <1>1, <2>3, <2>4 DEF ExchangeInv
  <2>6. /\ handling' \in [Clients -> BOOLEAN]
        /\ \A d \in Clients : handling'[d] => thread[d] = "running"
    BY <1>1, <2>4
  <2> QED
    BY <1>3, <2>4, <2>5, <2>6
<1>7. ASSUME NEW s \in Streams, Answer(c, s)
      PROVE  ServerInv'
  <2>1. answered' \in Exchange
    BY <1>1, <1>7 DEF Answer, Exchange
  <2>2. UNCHANGED <<clientVars, backlog, main, accepted, thread, handling, received, dispatched>>
    BY <1>7 DEF Answer
  <2>3. ExchangeInv'
    BY <1>1, <2>1, <2>2 DEF ExchangeInv
  <2>4. /\ handling' \in [Clients -> BOOLEAN]
        /\ \A d \in Clients : handling'[d] => thread[d] = "running"
    BY <1>1, <2>2
  <2> QED
    BY <1>3, <2>2, <2>3, <2>4
<1> QED
  BY <1>2, <1>4, <1>5, <1>6, <1>7

LEMMA ServerAlways == Spec => []ServerInv
<1>1. ServerInv /\ [Next]_vars => ServerInv'
  <2> SUFFICES ASSUME ServerInv, [Next]_vars PROVE ServerInv'
    OBVIOUS
  <2>1. CASE UNCHANGED vars
    BY <2>1 DEF vars, clientVars, exchangeVars, ServerInv, WaitingInv, MainInv,
       ThreadInv, ExchangeInv
  <2>2. CASE Main
    BY <2>2, AcceptStep, SpawnStep, EndProcessStep DEF Main, AcceptFails, SpawnFails
  <2>3. ASSUME NEW c \in Clients, NewPanics(c) \/ ConnectionFails(c) \/ HandlerPanics(c)
        PROVE  ServerInv'
    <3>1. thread[c] # "none" /\ End(c)
      BY <2>3 DEF NewPanics, ConnectionFails, HandlerPanics, Idle, ServerInv, ThreadInv
    <3> QED
      BY <3>1, EndStep
  <2>4. ASSUME NEW c \in Clients, Client(c) \/ Thread(c) \/ Write(c) \/ Handler(c)
        PROVE  ServerInv'
    BY <2>3, <2>4, ConnectStep, ClientStep, ConnectionStep DEF Client, Thread, Write, Handler
  <2> QED
    BY <2>1, <2>2, <2>4 DEF Next
<1> QED
  BY <1>1, ServerInit, PTL DEF Spec

LEMMA LimitsStay == Spec => [](limits \in Limits)
<1>1. limits \in Limits /\ [Next]_vars => (limits \in Limits)'
  BY DEF Next, vars, Main, Accept, AcceptFails, Spawn, SpawnFails, EndProcess,
     Client, Connect, SendPreface, HangUp, Receive, Thread, Write, ReadPreface, NewPanics,
     Handle, Answer, ConnectionFails, Handler, HandlerReturns, HandlerPanics, End
<1> QED
  BY <1>1, PTL DEF Spec, Init

\* Every variable of the server keeps its type; above all, a client waits for
\* its thread once and in one place (GrpcServer::run and accept).
THEOREM TypeCorrect == Spec => []TypeOK
  BY ServerAlways, LimitsStay, InvImpliesType, PTL

-----------------------------------------------------------------------------
\* A running connection ends with its client gone, in its handler, or with the
\* process: no thread ends the connection of another (GrpcServer::run).
THEOREM CutsAreForced == Spec => CutOnlyWithProcess
<1>1. ASSUME ServerInv, Next, NEW c \in Clients,
             thread[c] = "running", thread'[c] = "ended", peer[c] = "here", ~ handling[c]
      PROVE  main' = "panicked"
  <2>1. thread \in [Clients -> {"none", "preface", "running", "ended"}]
    BY <1>1 DEF ServerInv, ThreadInv
  <2>2. CASE Main
    <3>1. ~ Accept /\ ~ (Spawn /\ accepted # c)
      BY <1>1, <2>1 DEF Accept, Spawn
    <3>2. ~ Spawn
      BY <1>1, <2>1, <3>1 DEF Spawn
    <3> QED
      BY <2>2, <3>1, <3>2 DEF Main, AcceptFails, SpawnFails, EndProcess
  <2>3. ASSUME NEW d \in Clients, End(d), thread[d] # "running" \/ peer[d] # "here" \/ handling[d]
        PROVE  FALSE
    BY <1>1, <2>1, <2>3 DEF End
  <2>4. ASSUME NEW d \in Clients, Client(d) \/ Thread(d) \/ Write(d) \/ Handler(d) PROVE FALSE
    <3>1. ~ NewPanics(d) /\ ~ ConnectionFails(d) /\ ~ HandlerPanics(d)
      BY <2>3 DEF NewPanics, ConnectionFails, HandlerPanics
    <3>2. ~ ReadPreface(d)
      BY <1>1, <2>1 DEF ReadPreface
    <3>3. thread' = thread
      BY <2>4, <3>1, <3>2 DEF Client, Thread, Write, Handler, Connect, SendPreface, HangUp,
         Receive, Handle, Answer, HandlerReturns
    <3> QED
      BY <1>1, <3>3
  <2> QED
    BY <1>1, <2>2, <2>4 DEF Next
<1>2. ServerInv /\ [Next]_vars =>
        [\A c \in Clients :
           /\ thread[c] = "running" /\ thread'[c] = "ended"
           /\ peer[c] = "here" /\ ~ handling[c]
           => main' = "panicked"]_vars
  BY <1>1
<1> QED
  BY <1>2, ServerAlways, PTL DEF Spec, CutOnlyWithProcess

-----------------------------------------------------------------------------
(* Descriptors and threads are counted by client. *)

LEMMA FilesBounded == Files \in Nat /\ Files <= 2 * Cardinality(Clients)
<1> DEFINE One == {c \in Clients : FilesOf(c) >= 1}
           Two == {c \in Clients : FilesOf(c) >= 2}
<1>1. /\ Cardinality(One) \in Nat /\ Cardinality(One) <= Cardinality(Clients)
      /\ Cardinality(Two) \in Nat /\ Cardinality(Two) <= Cardinality(Clients)
      /\ Cardinality(Clients) \in Nat
  <2>1. One \subseteq Clients /\ Two \subseteq Clients
    OBVIOUS
  <2> HIDE DEF One, Two
  <2> QED
    BY <2>1, ClientsAssumption, FS_Subset, FS_CardinalityType
<1>2. Files = Cardinality(One) + Cardinality(Two)
  BY DEF Files
<1> HIDE DEF One, Two
<1> QED
  BY <1>1, <1>2

\* The client to start a thread for has none, so all the others have one less.
LEMMA ThreadsBounded ==
  ASSUME ServerInv, main = "spawn"
  PROVE  Cardinality(Live) < Cardinality(Clients)
<1>1. accepted \in Clients /\ thread[accepted] = "none"
  BY ClientsAssumption DEF ServerInv, MainInv
<1>2. Live \subseteq Clients \ {accepted}
  BY <1>1 DEF Live
<1>3. /\ IsFiniteSet(Clients \ {accepted})
      /\ Cardinality(Clients \ {accepted}) = Cardinality(Clients) - 1
      /\ Cardinality(Clients) \in Nat
  BY <1>1, ClientsAssumption, FS_RemoveElement, FS_CardinalityType
<1>4. Cardinality(Live) \in Nat /\ Cardinality(Live) <= Cardinality(Clients \ {accepted})
  BY <1>2, <1>3, FS_Subset, FS_CardinalityType
<1> QED
  BY <1>3, <1>4

\* With more than two descriptors and a thread for each client, the main thread
\* ends only for a client that has gone while it waited (the unwrap of accept in
\* GrpcServer::run; thread::spawn and try_split never fail).
THEOREM EnoughServesAll == Spec => EnoughToServeAll
<1>1. ASSUME ServerInv, limits \in Limits, Next,
             limits.files > 2 * Cardinality(Clients),
             limits.threads >= Cardinality(Clients),
             main # "panicked", main' = "panicked"
      PROVE  backlog # <<>> /\ peer[Head(backlog)] = "gone"
  <2>1. limits.files \in Nat /\ limits.threads \in Nat /\ Cardinality(Clients) \in Nat
    BY <1>1, LimitsAssumption, ClientsAssumption, FS_CardinalityType
  <2>2. ~ SpawnFails
    <3>1. main = "spawn" => Cardinality(Live) < Cardinality(Clients)
      BY <1>1, ThreadsBounded
    <3>2. main = "spawn" => Cardinality(Live) \in Nat
      <4>1. Live \subseteq Clients
        BY DEF Live
      <4> QED
        BY <4>1, ClientsAssumption, FS_Subset, FS_CardinalityType
    <3> QED
      BY <1>1, <2>1, <3>1, <3>2 DEF SpawnFails
  <2>3. Files # limits.files
    BY <1>1, <2>1, FilesBounded
  <2>4. AcceptFails
    <3>1. ASSUME NEW c \in Clients, Client(c) \/ Thread(c) \/ Write(c) \/ Handler(c)
          PROVE  main' = main
      BY <3>1 DEF Client, Connect, SendPreface, HangUp, Receive, Thread, Write, ReadPreface,
         NewPanics, Handle, Answer, ConnectionFails, Handler, HandlerReturns,
         HandlerPanics, End
    <3>2. ~ Accept /\ ~ Spawn
      BY <1>1 DEF Accept, Spawn
    <3> QED
      BY <1>1, <2>2, <3>1, <3>2 DEF Next, Main
  <2> QED
    BY <2>3, <2>4 DEF AcceptFails
<1>2. ServerInv /\ limits \in Limits /\ [Next]_vars =>
        [/\ limits.files > 2 * Cardinality(Clients)
         /\ limits.threads >= Cardinality(Clients)
         /\ main # "panicked" /\ main' = "panicked"
         => backlog # <<>> /\ peer[Head(backlog)] = "gone"]_vars
  BY <1>1
<1> QED
  BY <1>2, ServerAlways, LimitsStay, PTL DEF Spec, EnoughToServeAll

=============================================================================
