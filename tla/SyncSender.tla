----------------------------- MODULE SyncSender -----------------------------
(***************************************************************************)
(* SyncSender (src/src/channel_sync_sender.rs): a futures Sender, which    *)
(* send consumes and gives back, kept in a Mutex<Option<..>> so that many  *)
(* threads can share it.  A thread that panics inside send poisons the     *)
(* mutex.  The channel itself is external: a bounded queue whose send      *)
(* waits for room and fails once the receiver has been dropped.            *)
(***************************************************************************)
EXTENDS Naturals, Sequences

CONSTANTS
  Calls,        \* the calls of SyncSender::send, each made once by some thread
  Capacity,     \* messages the futures channel holds before a send waits
  NoCall        \* nobody holds the mutex

ASSUME NoCallAssumption == NoCall \notin Calls

ASSUME CapacityAssumption == Capacity \in Nat

VARIABLES
  pc,           \* where each call is
  holder,       \* the call that holds the mutex
  poisoned,     \* the poison flag of the mutex
  sender,       \* the Option in the mutex: "Some" or "None"
  queue,        \* the messages in the channel
  receiver      \* "alive", or "gone" once dropped

lockVars == <<holder, poisoned, sender>>
channelVars == <<queue, receiver>>
vars == <<pc, lockVars, channelVars>>

InSend == {"take", "wait", "put"}
Ended  == {"done", "panicked"}

TypeOK ==
  /\ pc \in [Calls -> {"idle", "lock"} \cup InSend \cup Ended]
  /\ holder \in Calls \cup {NoCall}
  /\ poisoned \in BOOLEAN
  /\ sender \in {"Some", "None"}
  /\ queue \in Seq(Calls)
  /\ Len(queue) <= Capacity
  /\ receiver \in {"alive", "gone"}

\* channel_sync_sender
Init ==
  /\ pc = [c \in Calls |-> "idle"]
  /\ holder = NoCall
  /\ poisoned = FALSE
  /\ sender = "Some"
  /\ queue = <<>>
  /\ receiver = "alive"

Goto(c, label) == pc' = [pc EXCEPT ![c] = label]

Start(c) ==
  /\ pc[c] = "idle"
  /\ Goto(c, "lock")
  /\ UNCHANGED <<lockVars, channelVars>>

\* Mutant: the lock does not exclude other senders.
LockShared(c) ==
  /\ pc[c] = "lock"
  /\ ~ poisoned
  /\ holder' = c
  /\ Goto(c, "take")
  /\ UNCHANGED <<poisoned, sender, channelVars>>

\* self.sender.lock() succeeds
Lock(c) ==
  /\ pc[c] = "lock"
  /\ holder = NoCall
  /\ ~ poisoned
  /\ holder' = c
  /\ Goto(c, "take")
  /\ UNCHANGED <<poisoned, sender, channelVars>>

\* The mutex is poisoned: the first unwrap panics.
LockPoisoned(c) ==
  /\ pc[c] = "lock"
  /\ holder = NoCall
  /\ poisoned
  /\ Goto(c, "panicked")
  /\ UNCHANGED <<lockVars, channelVars>>

\* A panic while the guard is alive: it unlocks and poisons the mutex.
Panic(c) ==
  /\ Goto(c, "panicked")
  /\ holder' = NoCall
  /\ poisoned' = TRUE

\* (*ptr).take().unwrap()
Take(c) ==
  /\ pc[c] = "take"
  /\ IF sender = "Some"
     THEN Goto(c, "wait") /\ UNCHANGED <<holder, poisoned>>
     ELSE Panic(c)
  /\ sender' = "None"
  /\ UNCHANGED channelVars

\* Mutant: neither the room nor the receiver is looked at.
DeliverBlind(c) ==
  /\ pc[c] = "wait"
  /\ queue' = Append(queue, c)
  /\ Goto(c, "put")
  /\ UNCHANGED <<lockVars, receiver>>

\* sender.send(result).wait(), still holding the mutex: there is room and a
\* receiver, ...
Deliver(c) ==
  /\ pc[c] = "wait"
  /\ receiver = "alive"
  /\ Len(queue) < Capacity
  /\ queue' = Append(queue, c)
  /\ Goto(c, "put")
  /\ UNCHANGED <<lockVars, receiver>>

\* Mutant: a full channel is an error too.
SendFailsFull(c) ==
  /\ pc[c] = "wait"
  /\ receiver = "gone" \/ Len(queue) = Capacity
  /\ Panic(c)
  /\ UNCHANGED <<sender, channelVars>>

\* ... or the receiver is gone: ok().unwrap() panics and the Sender is lost.
SendFails(c) ==
  /\ pc[c] = "wait"
  /\ receiver = "gone"
  /\ Panic(c)
  /\ UNCHANGED <<sender, channelVars>>

\* Mutant: the Sender is not put back.
PutForgotten(c) ==
  /\ pc[c] = "put"
  /\ holder' = NoCall
  /\ Goto(c, "done")
  /\ UNCHANGED <<sender, poisoned, channelVars>>

\* *ptr = Some(sender), and the guard goes out of scope.
Put(c) ==
  /\ pc[c] = "put"
  /\ sender' = "Some"
  /\ holder' = NoCall
  /\ Goto(c, "done")
  /\ UNCHANGED <<poisoned, channelVars>>

\* The receiver's side of the channel
Receive ==
  /\ receiver = "alive"
  /\ queue # <<>>
  /\ queue' = Tail(queue)
  /\ UNCHANGED <<pc, lockVars, receiver>>

DropReceiver ==
  /\ receiver = "alive"
  /\ receiver' = "gone"
  /\ queue' = <<>>
  /\ UNCHANGED <<pc, lockVars>>

Step(c) ==
  \/ Lock(c) \/ LockPoisoned(c)
  \/ Take(c)
  \/ Deliver(c) \/ SendFails(c)
  \/ Put(c)

Next ==
  \/ \E c \in Calls : Start(c) \/ Step(c)
  \/ Receive
  \/ DropReceiver

Spec == Init /\ [][Next]_vars

-----------------------------------------------------------------------------
(* Properties *)

\* Whenever the mutex is free and sound the Sender is back in it, so the
\* unwrap of take never meets None; and the mutex is poisoned only by a call
\* that found the receiver gone.
SenderKept ==
  /\ holder = NoCall /\ ~ poisoned => sender = "Some"
  /\ \A c \in Calls : pc[c] = "take" => sender = "Some"
  /\ poisoned => receiver = "gone"

\* After a call has panicked inside send, no later call succeeds.
RefusesAfterPanic ==
  [][poisoned => \A c \in Calls : pc'[c] = "done" => pc[c] = "done"]_vars

Channel == INSTANCE AtomicChannel WITH
  outcome <- [c \in Calls |-> CASE pc[c] \in {"put", "done"} -> "sent"
                                [] pc[c] = "panicked" -> "failed"
                                [] OTHER -> "pending"]

\* To its callers the shared Sender is a channel whose send is one atomic
\* step: no two sends get in each other's way, none is lost or made twice,
\* and none panics while the receiver is alive.
ImplementsChannel == Channel!Spec

=============================================================================
