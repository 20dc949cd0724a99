----------------------------- MODULE GrpcServer -----------------------------
(***************************************************************************)
(* GrpcServer (src/src/server.rs): the thread of main accepts connections  *)
(* for ever and starts a thread for each, which reads the preface and then *)
(* runs a GrpcServerConnection.  The threads share the service definition, *)
(* which never changes, and the limits of the process.                     *)
(*                                                                         *)
(* Of a running connection this module keeps what MessageExchange says:    *)
(* GrpcServerConnection is shown to implement that.  The handler of a      *)
(* message is the user's and may take for ever, and so may a write to a    *)
(* client that does not read.                                              *)
(***************************************************************************)
EXTENDS Naturals, SequencesExt, FiniteSets

CONSTANTS
  Clients,      \* who may connect, once each
  NoClient,
  Streams,      \* streams of a connection
  Messages,     \* numbers of the messages of a stream
  Limits        \* file descriptors and threads the process may be given

ASSUME ClientsAssumption == IsFiniteSet(Clients) /\ NoClient \notin Clients

ASSUME MessagesAssumption == Messages \subseteq Nat

ASSUME LimitsAssumption == Limits \subseteq [files : Nat, threads : Nat]

VARIABLES
  limits,       \* what the system has given the process
  peer,         \* whether each client is away, here or gone: it has hung up,
                \* or sent what ends its connection and takes what is still
                \* written to it
  preface,      \* the first 24 bytes it has sent: none, the right or wrong ones
  backlog,      \* clients the system has connected and nobody has accepted
  main,         \* where the main thread is in run
  accepted,     \* the client whose stream the main thread holds
  thread,       \* where the thread of each connection is
  handling,     \* whether a handler is running in it
  received, dispatched, answered
                \* per connection and stream: see MessageExchange

exchangeVars == <<received, dispatched, answered>>
clientVars == <<peer, preface>>
vars == <<limits, clientVars, backlog, main, accepted, thread, handling, exchangeVars>>

Exchange == [Clients -> [Streams -> SUBSET Messages]]

TypeOK ==
  /\ limits \in Limits
  /\ peer \in [Clients -> {"away", "here", "gone"}]
  /\ preface \in [Clients -> {"none", "right", "wrong"}]
  /\ backlog \in Seq(Clients) /\ IsInjective(backlog)
  /\ main \in {"incoming", "spawn", "panicked"}
  /\ accepted \in Clients \cup {NoClient}
  /\ main = "spawn" <=> accepted # NoClient
  /\ thread \in [Clients -> {"none", "preface", "running", "ended"}]
  /\ \A c \in Range(backlog) \cup {accepted} : c # NoClient =>
       thread[c] = "none" /\ peer[c] # "away"
  /\ handling \in [Clients -> BOOLEAN]
  /\ \A c \in Clients : handling[c] => thread[c] = "running"
  /\ received \in Exchange /\ dispatched \in Exchange /\ answered \in Exchange

\* GrpcServer::new: the listener is bound.  (Where that fails there is no
\* server.)
Init ==
  /\ limits \in Limits
  /\ peer = [c \in Clients |-> "away"]
  /\ preface = [c \in Clients |-> "none"]
  /\ backlog = <<>>
  /\ main = "incoming"
  /\ accepted = NoClient
  /\ thread = [c \in Clients |-> "none"]
  /\ handling = [c \in Clients |-> FALSE]
  /\ received = [c \in Clients |-> [s \in Streams |-> {}]]
  /\ dispatched = received
  /\ answered = received

-----------------------------------------------------------------------------
(* The clients *)

Connect(c) ==
  /\ main # "panicked"
  /\ peer[c] = "away"
  /\ peer' = [peer EXCEPT ![c] = "here"]
  /\ backlog' = Append(backlog, c)
  /\ UNCHANGED <<limits, preface, main, accepted, thread, handling, exchangeVars>>

\* 24 bytes, the preface of HTTP/2 or others
SendPreface(c, bytes) ==
  /\ peer[c] = "here"
  /\ preface[c] = "none"
  /\ preface' = [preface EXCEPT ![c] = bytes]
  /\ UNCHANGED <<limits, peer, backlog, main, accepted, thread, handling, exchangeVars>>

HangUp(c) ==
  /\ peer[c] = "here"
  /\ peer' = [peer EXCEPT ![c] = "gone"]
  /\ UNCHANGED <<limits, preface, backlog, main, accepted, thread, handling, exchangeVars>>

-----------------------------------------------------------------------------
(* The main thread: run *)

Live == {c \in Clients : thread[c] \in {"preface", "running"}}

\* A connection has one descriptor, and two from try_split on.
FilesOf(c) ==
  CASE thread[c] = "running"                 -> 2
    [] thread[c] = "preface" \/ accepted = c -> 1
    [] OTHER                                 -> 0

\* Mutant: the stream is split twice, into a receiver and a sender.
FilesThrice ==
  Cardinality({c \in Clients : FilesOf(c) >= 1}) + 2 * Cardinality({c \in Clients : FilesOf(c) >= 2})

\* The first descriptors and the second ones
Files ==
  Cardinality({c \in Clients : FilesOf(c) >= 1}) + Cardinality({c \in Clients : FilesOf(c) >= 2})

Accept ==
  /\ main = "incoming"
  /\ backlog # <<>>
  /\ Files < limits.files
  /\ accepted' = Head(backlog)
  /\ backlog' = Tail(backlog)
  /\ main' = "spawn"
  /\ UNCHANGED <<limits, clientVars, thread, handling, exchangeVars>>

\* main panics, which ends the process and all its connections.
EndProcess ==
  /\ main' = "panicked"
  /\ accepted' = NoClient
  /\ backlog' = <<>>
  /\ thread' = [c \in Clients |-> "ended"]
  /\ handling' = [c \in Clients |-> FALSE]
  /\ UNCHANGED <<limits, clientVars, exchangeVars>>

\* Every error of accept is unwrapped: too many descriptors, or a client that
\* has gone before it was accepted.
AcceptFails ==
  /\ main = "incoming"
  /\ \/ Files = limits.files
     \/ backlog # <<>> /\ peer[Head(backlog)] = "gone"
  /\ EndProcess

\* Mutant: the preface is read before the thread is started.
SpawnAfterPreface ==
  /\ main = "spawn"
  /\ preface[accepted] # "none" \/ peer[accepted] = "gone"
  /\ Cardinality(Live) < limits.threads
  /\ thread' = [thread EXCEPT ![accepted] = "preface"]
  /\ accepted' = NoClient
  /\ main' = "incoming"
  /\ UNCHANGED <<limits, clientVars, backlog, handling, exchangeVars>>

\* thread::spawn, and on to the next connection
Spawn ==
  /\ main = "spawn"
  /\ Cardinality(Live) < limits.threads
  /\ thread' = [thread EXCEPT ![accepted] = "preface"]
  /\ accepted' = NoClient
  /\ main' = "incoming"
  /\ UNCHANGED <<limits, clientVars, backlog, handling, exchangeVars>>

\* thread::spawn panics when the system gives no thread.
SpawnFails ==
  /\ main = "spawn"
  /\ Cardinality(Live) >= limits.threads
  /\ EndProcess

Main == Accept \/ AcceptFails \/ Spawn \/ SpawnFails

-----------------------------------------------------------------------------
(* The thread of connection c: GrpcServerConnection::new and run *)

\* Mutant: connections share a thread, and its end is that of all.
EndShared(c) ==
  /\ thread' = [d \in Clients |-> IF thread[d] = "none" THEN "none" ELSE "ended"]
  /\ handling' = [d \in Clients |-> FALSE]
  /\ UNCHANGED <<limits, clientVars, backlog, main, accepted, exchangeVars>>

\* The thread returns or panics: nothing of the connection is kept.
End(c) ==
  /\ thread' = [thread EXCEPT ![c] = "ended"]
  /\ handling' = [handling EXCEPT ![c] = FALSE]
  /\ UNCHANGED <<limits, clientVars, backlog, main, accepted, exchangeVars>>

\* read_exact has the preface and try_split a second descriptor.
ReadPreface(c) ==
  /\ thread[c] = "preface"
  /\ preface[c] = "right"
  /\ Files < limits.files
  /\ thread' = [thread EXCEPT ![c] = "running"]
  /\ UNCHANGED <<limits, clientVars, backlog, main, accepted, handling, exchangeVars>>

\* A client that has gone, other bytes, or no descriptor: new panics.
NewPanics(c) ==
  /\ thread[c] = "preface"
  /\ \/ peer[c] = "gone"
     \/ preface[c] = "wrong"
     \/ preface[c] = "right" /\ Files = limits.files
  /\ End(c)

Idle(c) ==
  /\ thread[c] = "running"
  /\ ~ handling[c]

\* handle_next_frame completes more messages of stream s, those written before
\* the client has hung up too.
Receive(c, s, new) ==
  /\ Idle(c)
  /\ answered[c] = dispatched[c] /\ dispatched[c] = received[c]
  /\ received' = [received EXCEPT ![c][s] = @ \cup new]
  /\ UNCHANGED <<limits, clientVars, backlog, main, accepted, thread, handling>>
  /\ UNCHANGED <<dispatched, answered>>

\* Mutant: the service definition is behind a mutex.
HandleExclusive(c, s) ==
  /\ Idle(c)
  /\ \A d \in Clients : ~ handling[d]
  /\ \E m \in received[c][s] \ dispatched[c][s] :
       /\ \A n \in received[c][s] \ dispatched[c][s] : m <= n
       /\ dispatched' = [dispatched EXCEPT ![c][s] = @ \cup {m}]
  /\ handling' = [handling EXCEPT ![c] = TRUE]
  /\ UNCHANGED <<limits, clientVars, backlog, main, accepted, thread, received, answered>>

\* handle_method calls the handler of the next message.
Handle(c, s) ==
  /\ Idle(c)
  /\ \E m \in received[c][s] \ dispatched[c][s] :
       /\ \A n \in received[c][s] \ dispatched[c][s] : m <= n
       /\ dispatched' = [dispatched EXCEPT ![c][s] = @ \cup {m}]
  /\ handling' = [handling EXCEPT ![c] = TRUE]
  /\ UNCHANGED <<limits, clientVars, backlog, main, accepted, thread, received, answered>>

HandlerReturns(c) ==
  /\ handling[c]
  /\ handling' = [handling EXCEPT ![c] = FALSE]
  /\ UNCHANGED <<limits, clientVars, backlog, main, accepted, thread, exchangeVars>>

\* The handler panics, or there was none for the method.
HandlerPanics(c) ==
  /\ handling[c]
  /\ End(c)

\* prepare_responses writes what is new of stream s, once the client has read
\* enough.  (What it writes again is in GrpcServerConnection.)
Answer(c, s) ==
  /\ Idle(c)
  /\ dispatched[c] = received[c]
  /\ answered[c][s] # dispatched[c][s]
  /\ answered' = [answered EXCEPT ![c][s] = dispatched[c][s]]
  /\ UNCHANGED <<limits, clientVars, backlog, main, accepted, thread, handling>>
  /\ UNCHANGED <<received, dispatched>>

\* Mutant: run logs the error of a read and goes on.
ConnectionFailsOnWrite(c) ==
  /\ Idle(c)
  /\ peer[c] = "gone"
  /\ dispatched[c] = received[c] /\ answered[c] # received[c]
  /\ End(c)

\* A read or a write fails and run returns, or a frame makes the thread panic:
\* see RecvError and RecvBadPath of GrpcServerConnection.
ConnectionFails(c) ==
  /\ Idle(c)
  /\ peer[c] = "gone"
  /\ dispatched[c] = received[c]
  /\ End(c)

\* What the thread does by itself, handlers and writes aside
Thread(c) ==
  \/ ReadPreface(c)
  \/ NewPanics(c)
  \/ \E s \in Streams : Handle(c, s)
  \/ ConnectionFails(c)

Write(c) == \E s \in Streams : Answer(c, s)

-----------------------------------------------------------------------------
Client(c) ==
  \/ Connect(c)
  \/ \E bytes \in {"right", "wrong"} : SendPreface(c, bytes)
  \/ HangUp(c)
  \/ \E s \in Streams : \E new \in SUBSET Messages : Receive(c, s, new)

Handler(c) == HandlerReturns(c) \/ HandlerPanics(c)

Next == Main \/ \E c \in Clients : Client(c) \/ Thread(c) \/ Write(c) \/ Handler(c)

Spec == Init /\ [][Next]_vars

\* The threads are scheduled.  No client has to do anything, not even to read,
\* so no write has to be completed, and no handler has to return.
FairSpec ==
  /\ Spec
  /\ WF_vars(Main)
  /\ \A c \in Clients : WF_vars(Thread(c))

-----------------------------------------------------------------------------
(* Properties *)

\* A connection whose client is there, and behaves, and whose handlers do not
\* panic ends only with the whole process, that is when accept or spawn fails.
CutOnlyWithProcess ==
  [][\A c \in Clients :
       /\ thread[c] = "running" /\ thread'[c] = "ended"
       /\ peer[c] = "here" /\ ~ handling[c]
       => main' = "panicked"]_vars

\* With more than two descriptors for each client, and a thread, the process
\* ends only for a client that has gone before it was accepted: accept and spawn
\* never run out, however connections come, split and end.  (Two for each are
\* too few: the next accept fails though nobody is waiting.)
EnoughToServeAll ==
  [][/\ limits.files > 2 * Cardinality(Clients)
     /\ limits.threads >= Cardinality(Clients)
     /\ main # "panicked" /\ main' = "panicked"
     => backlog # <<>> /\ peer[Head(backlog)] = "gone"]_vars

\* A client that has sent its preface is served though others stay silent
\* after connecting, keep handlers busy for ever or never read an answer,
\* unless it hangs up, there are no descriptors or the process ends.
EveryClientServed ==
  \A c \in Clients : preface[c] = "right" ~> thread[c] \in {"running", "ended"}

\* Messages of a client that reads, of a connection whose handlers return, are
\* all answered, or its thread ends, though handlers of other connections never
\* return and their clients never read.
EveryMessageAnswered ==
  \A c \in Clients :
    WF_vars(HandlerReturns(c)) /\ WF_vars(Write(c)) =>
      [](received[c] # answered[c] => <>(received[c] = answered[c] \/ thread[c] = "ended"))

\* When a client has hung up, its thread and its descriptors are given back,
\* unless its own handler never returns.
HungUpReleased ==
  \A c \in Clients :
    WF_vars(HandlerReturns(c)) => (peer[c] = "gone" ~> FilesOf(c) = 0)

=============================================================================
