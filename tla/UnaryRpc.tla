------------------------------ MODULE UnaryRpc ------------------------------
(***************************************************************************)
(* What a client that makes unary calls expects: calls are made one after  *)
(* the other, the server executes each at most once, and a call that       *)
(* returns has been executed and has the answer of the method it named.    *)
(***************************************************************************)
EXTENDS Naturals

CONSTANTS
  Calls,        \* the calls, in their order: 1 .. n
  Paths,        \* names a call may ask for
  MethodOf(_),  \* the method that serves a name
  Nobody        \* the method of a call that has no answer

VARIABLES
  asked,        \* of each call: the set of names it has asked for so far
  executed,     \* of each call: how often a method has been run for it
  answer,       \* of each call: the method that has answered it, or Nobody
  failed        \* the client has given up

vars == <<asked, executed, answer, failed>>

Init ==
  /\ asked = [k \in Calls |-> {}]
  /\ executed = [k \in Calls |-> 0]
  /\ answer = [k \in Calls |-> Nobody]
  /\ failed = FALSE

Request(k, p) ==
  /\ ~ failed
  /\ asked[k] = {}
  /\ \A j \in 1 .. k - 1 : answer[j] # Nobody
  /\ asked' = [asked EXCEPT ![k] = {p}]
  /\ UNCHANGED <<executed, answer, failed>>

\* Also after the client has given up
Execute(k) ==
  /\ asked[k] # {}
  /\ executed[k] = 0
  /\ executed' = [executed EXCEPT ![k] = 1]
  /\ UNCHANGED <<asked, answer, failed>>

Return(k) ==
  /\ ~ failed
  /\ executed[k] = 1
  /\ answer[k] = Nobody
  /\ \E p \in asked[k] : answer' = [answer EXCEPT ![k] = MethodOf(p)]
  /\ UNCHANGED <<asked, executed, failed>>

Fail ==
  /\ ~ failed
  /\ failed' = TRUE
  /\ UNCHANGED <<asked, executed, answer>>

Next ==
  \/ \E k \in Calls :
       \/ \E p \in Paths : Request(k, p)
       \/ Execute(k)
       \/ Return(k)
  \/ Fail

Spec == Init /\ [][Next]_vars
=============================================================================
