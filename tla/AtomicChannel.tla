---------------------------- MODULE AtomicChannel ----------------------------
(***************************************************************************)
(* What a channel shared by several senders promises: a send takes effect  *)
(* at one instant, and it fails only because the receiver is gone.         *)
(***************************************************************************)
EXTENDS Naturals, Sequences

CONSTANTS
  Calls,        \* the sends, each made once
  Capacity      \* messages the channel holds before a send has to wait

VARIABLES
  outcome,      \* of each send: "pending", "sent" or "failed"
  queue,        \* the messages in the channel
  receiver      \* "alive" or "gone"

vars == <<outcome, queue, receiver>>

Init ==
  /\ outcome = [c \in Calls |-> "pending"]
  /\ queue = <<>>
  /\ receiver = "alive"

Send(c) ==
  /\ outcome[c] = "pending"
  /\ receiver = "alive"
  /\ Len(queue) < Capacity
  /\ queue' = Append(queue, c)
  /\ outcome' = [outcome EXCEPT ![c] = "sent"]
  /\ UNCHANGED receiver

Fail(c) ==
  /\ outcome[c] = "pending"
  /\ receiver = "gone"
  /\ outcome' = [outcome EXCEPT ![c] = "failed"]
  /\ UNCHANGED <<queue, receiver>>

Receive ==
  /\ receiver = "alive"
  /\ queue # <<>>
  /\ queue' = Tail(queue)
  /\ UNCHANGED <<outcome, receiver>>

DropReceiver ==
  /\ receiver = "alive"
  /\ receiver' = "gone"
  /\ queue' = <<>>
  /\ UNCHANGED outcome

Next ==
  \/ \E c \in Calls : Send(c) \/ Fail(c)
  \/ Receive
  \/ DropReceiver

Spec == Init /\ [][Next]_vars
=============================================================================
