--------------------------- MODULE MessageExchange ---------------------------
(***************************************************************************)
(* What one server connection promises its peer, without frames, buffers   *)
(* or threads: the messages of a stream are received, handed to a handler  *)
(* one by one in their order, and answered all together, and the           *)
(* connection takes in nothing new while anything is left to do.           *)
(***************************************************************************)
EXTENDS Naturals

CONSTANTS
  Streams,      \* where messages come from
  Messages      \* the numbers a message may have on its stream

VARIABLES
  received,     \* per stream, the numbers of the messages that are complete
  dispatched,   \* per stream, those a handler has been called for
  answered,     \* per stream, those an answer has been written for
  up            \* the connection has not stopped

vars == <<received, dispatched, answered, up>>

Init ==
  /\ received = [s \in Streams |-> {}]
  /\ dispatched = [s \in Streams |-> {}]
  /\ answered = [s \in Streams |-> {}]
  /\ up = TRUE

\* More messages of s, when there is nothing left to do on any stream.
Receive(s, new) ==
  /\ up
  /\ answered = dispatched /\ dispatched = received
  /\ received' = [received EXCEPT ![s] = @ \cup new]
  /\ UNCHANGED <<dispatched, answered, up>>

\* The first message of s that has not been handed to a handler is.
Dispatch(s) ==
  /\ up
  /\ \E m \in received[s] \ dispatched[s] :
       /\ \A n \in received[s] \ dispatched[s] : m <= n
       /\ dispatched' = [dispatched EXCEPT ![s] = @ \cup {m}]
  /\ UNCHANGED <<received, answered, up>>

\* One write answers every message of s, once all messages were handed over.
Answer(s) ==
  /\ up
  /\ dispatched = received
  /\ answered' = [answered EXCEPT ![s] = dispatched[s]]
  /\ UNCHANGED <<received, dispatched, up>>

\* The connection is lost or its thread panics.
Stop ==
  /\ up
  /\ up' = FALSE
  /\ UNCHANGED <<received, dispatched, answered>>

Next ==
  \/ \E s \in Streams :
       \/ \E new \in SUBSET Messages : Receive(s, new)
       \/ Dispatch(s)
       \/ Answer(s)
  \/ Stop

Spec == Init /\ [][Next]_vars
=============================================================================
