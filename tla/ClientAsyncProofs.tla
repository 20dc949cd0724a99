-------------------------- MODULE ClientAsyncProofs --------------------------
(***************************************************************************)
(* Proofs about SyncSender, and about ClientAsync, which extends it, for   *)
(* any number of calls and any capacity.                                   *)
(***************************************************************************)
EXTENDS ClientAsync, FiniteSetTheorems, TLAPS

(* SyncSender *)

\* The mutex is held by exactly the call that is between lock and unlock,
\* which keeps the Sender out of it from take to put; once poisoned it is
\* never held again.
LockInv ==
  /\ TypeOK
  /\ \A c \in Calls : pc[c] \in InSend <=> holder = c
  /\ poisoned => holder = NoCall /\ receiver = "gone"
  /\ holder = NoCall /\ ~ poisoned => sender = "Some"
  /\ \A c \in Calls : pc[c] = "take" => sender = "Some"

LEMMA LockInit == Init => LockInv
<1> SUFFICES ASSUME Init PROVE LockInv
  OBVIOUS
<1>1. queue \in Seq(Calls) /\ Len(queue) <= Capacity
  BY CapacityAssumption DEF Init
<1>2. pc \in [Calls -> {"idle"}]
  BY DEF Init
<1>3. TypeOK
  BY <1>1, <1>2 DEF Init, TypeOK
<1> QED
  BY <1>2, <1>3, NoCallAssumption DEF Init, LockInv, InSend

\* Appending within the capacity, and taking the head off, keep the queue
\* within its type and bound.
LEMMA QueueBounds ==
  ASSUME NEW q \in Seq(Calls), NEW c \in Calls
  PROVE  /\ Append(q, c) \in Seq(Calls)
         /\ Len(Append(q, c)) = Len(q) + 1
         /\ q # <<>> => Tail(q) \in Seq(Calls) /\ Len(Tail(q)) = Len(q) - 1
         /\ Len(q) \in Nat
  OBVIOUS

LEMMA LockStep == LockInv /\ [Next]_vars => LockInv'
<1> SUFFICES ASSUME LockInv, [Next]_vars PROVE LockInv'
  OBVIOUS
<1> USE NoCallAssumption, CapacityAssumption
<1> USE DEF LockInv, TypeOK, InSend, Ended
<1>1. ASSUME NEW c \in Calls, Start(c) PROVE LockInv'
  BY <1>1 DEF Start, Goto, lockVars, channelVars
<1>2. ASSUME NEW c \in Calls, Lock(c) PROVE LockInv'
  BY <1>2 DEF Lock, Goto, channelVars
<1>3. ASSUME NEW c \in Calls, LockPoisoned(c) PROVE LockInv'
  BY <1>3 DEF LockPoisoned, Goto, lockVars, channelVars
<1>4. ASSUME NEW c \in Calls, Take(c) PROVE LockInv'
  <2>1. sender = "Some"
    BY <1>4 DEF Take
  <2> QED
    BY <1>4, <2>1 DEF Take, Goto, channelVars
<1>5. ASSUME NEW c \in Calls, Deliver(c) PROVE LockInv'
  <2>1. queue' \in Seq(Calls) /\ Len(queue') <= Capacity
    BY <1>5, QueueBounds DEF Deliver
  <2> QED
    BY <1>5, <2>1 DEF Deliver, Goto, lockVars
<1>6. ASSUME NEW c \in Calls, SendFails(c) PROVE LockInv'
  BY <1>6 DEF SendFails, Panic, Goto, channelVars
<1>7. ASSUME NEW c \in Calls, Put(c) PROVE LockInv'
  BY <1>7 DEF Put, Goto, channelVars
<1>8. ASSUME Receive PROVE LockInv'
  <2>1. queue' \in Seq(Calls) /\ Len(queue') <= Capacity
    BY <1>8 DEF Receive
  <2> QED
    BY <1>8, <2>1 DEF Receive, lockVars
<1>9. ASSUME DropReceiver PROVE LockInv'
  BY <1>9 DEF DropReceiver, lockVars
<1>10. ASSUME UNCHANGED vars PROVE LockInv'
  BY <1>10 DEF vars, lockVars, channelVars
<1> QED
  BY <1>1, <1>2, <1>3, <1>4, <1>5, <1>6, <1>7, <1>8, <1>9, <1>10 DEF Next, Step

LEMMA LockAlways == Spec => []LockInv
  BY LockInit, LockStep, PTL DEF Spec

-----------------------------------------------------------------------------
\* Every variable of SyncSender keeps its type, and the channel its capacity.
THEOREM TypeCorrect == Spec => []TypeOK
<1>1. LockInv => TypeOK
  BY DEF LockInv
<1> QED
  BY <1>1, LockAlways, PTL

\* The Sender is in the mutex whenever a caller can reach for it, and only a
\* receiver that is gone can poison the mutex (SyncSender::send).
THEOREM SenderIsKept == Spec => []SenderKept
<1>1. LockInv => SenderKept
  BY DEF LockInv, SenderKept
<1> QED
  BY <1>1, LockAlways, PTL

\* A poisoned SyncSender lets no further call succeed (lock().unwrap()).
THEOREM PanicIsFinal == Spec => RefusesAfterPanic
<1>1. LockInv /\ [Next]_vars =>
        [poisoned => \A c \in Calls : pc'[c] = "done" => pc[c] = "done"]_vars
  <2> SUFFICES ASSUME LockInv, Next, poisoned,
                      NEW c \in Calls, pc'[c] = "done", pc[c] # "done"
               PROVE  FALSE
    OBVIOUS
  <2>1. pc[c] # "put"
    BY NoCallAssumption DEF LockInv, InSend
  <2>2. pc \in [Calls -> {"idle", "lock"} \cup InSend \cup Ended]
    BY DEF LockInv, TypeOK
  <2> QED
    BY <2>1, <2>2 DEF Next, Step, Start, Lock, LockPoisoned, Take, Deliver,
       SendFails, Put, Panic, Goto, Receive, DropReceiver
<1> QED
  BY <1>1, LockAlways, PTL DEF Spec, RefusesAfterPanic

-----------------------------------------------------------------------------
\* How far a call has got, as the abstract channel sees it.
LEMMA InitImplements == Init => Channel!Init
  BY DEF Init, Channel!Init

LEMMA StepImplements == LockInv /\ [Next]_vars => [Channel!Next]_Channel!vars
<1> SUFFICES ASSUME LockInv, [Next]_vars PROVE [Channel!Next]_Channel!vars
  OBVIOUS
<1> DEFINE Outcome(label) == CASE label \in {"put", "done"} -> "sent"
                               [] label = "panicked" -> "failed"
                               [] OTHER -> "pending"
           outcome == [c \in Calls |-> Outcome(pc[c])]
<1>1. pc \in [Calls -> {"idle", "lock"} \cup InSend \cup Ended]
  BY DEF LockInv, TypeOK
<1>2. ASSUME NEW c \in Calls, NEW label, Goto(c, label)
      PROVE  outcome' = [outcome EXCEPT ![c] = Outcome(label)]
  BY <1>1, <1>2 DEF Goto
<1>3. ASSUME NEW c \in Calls, NEW label, Goto(c, label),
             Outcome(label) = Outcome(pc[c])
      PROVE  outcome' = outcome
  BY <1>1, <1>2, <1>3 DEF Goto
<1>4. ASSUME NEW c \in Calls, Start(c) \/ Lock(c) \/ Put(c)
      PROVE  UNCHANGED Channel!vars
  <2>1. outcome' = outcome
    BY <1>3, <1>4 DEF Start, Lock, Put
  <2>2. UNCHANGED <<queue, receiver>>
    BY <1>4 DEF Start, Lock, Put, channelVars
  <2> QED
    BY <2>1, <2>2 DEF Channel!vars
<1>5. ASSUME NEW c \in Calls, Take(c) PROVE UNCHANGED Channel!vars
  <2>1. sender = "Some"
    BY <1>5 DEF Take, LockInv
  <2>2. Goto(c, "wait") /\ UNCHANGED <<queue, receiver>>
    BY <1>5, <2>1 DEF Take, channelVars
  <2>3. outcome' = outcome
    BY <1>3, <1>5, <2>2 DEF Take
  <2> QED
    BY <2>2, <2>3 DEF Channel!vars
<1>6. ASSUME NEW c \in Calls, LockPoisoned(c) \/ SendFails(c)
      PROVE  Channel!Fail(c)
  <2>1. receiver = "gone" /\ Goto(c, "panicked") /\ UNCHANGED <<queue, receiver>>
    BY <1>6 DEF LockPoisoned, SendFails, Panic, LockInv, channelVars
  <2>2. outcome' = [outcome EXCEPT ![c] = "failed"]
    <3>1. Outcome("panicked") = "failed"
      OBVIOUS
    <3> QED
      BY <1>2, <2>1, <3>1
  <2>3. outcome[c] = "pending"
    BY <1>6 DEF LockPoisoned, SendFails
  <2> QED
    BY <2>1, <2>2, <2>3 DEF Channel!Fail
<1>7. ASSUME NEW c \in Calls, Deliver(c) PROVE Channel!Send(c)
  <2>1. outcome' = [outcome EXCEPT ![c] = "sent"]
    <3>1. Outcome("put") = "sent"
      OBVIOUS
    <3> QED
      BY <1>2, <1>7, <3>1 DEF Deliver
  <2>2. outcome[c] = "pending"
    BY <1>7 DEF Deliver
  <2> QED
    BY <1>7, <2>1, <2>2 DEF Deliver, Channel!Send
<1>8. ASSUME Receive PROVE Channel!Receive
  BY <1>8 DEF Receive, Channel!Receive
<1>9. ASSUME DropReceiver PROVE Channel!DropReceiver
  BY <1>9 DEF DropReceiver, Channel!DropReceiver
<1>10. ASSUME UNCHANGED vars PROVE UNCHANGED Channel!vars
  BY <1>10 DEF vars, channelVars, Channel!vars
<1> QED
  BY <1>4, <1>5, <1>6, <1>7, <1>8, <1>9, <1>10 DEF Next, Step, Channel!Next

\* The shared Sender is an atomic channel: a send takes effect once, at one
\* instant, and fails only when the receiver is gone (SyncSender::send).
THEOREM SenderImplementsChannel == Spec => ImplementsChannel
  BY InitImplements, StepImplements, LockAlways, PTL
     DEF Spec, ImplementsChannel, Channel!Spec

-----------------------------------------------------------------------------
(* GrpcClientAsync *)

\* Every step of the client is a step of its SyncSender, or none.
\* (GrpcClientAsync::call only sends, run_event_loop only drops.)
LEMMA StepUsesSender == [AsyncNext]_asyncVars => [Next]_vars
<1> SUFFICES ASSUME [AsyncNext]_asyncVars PROVE [Next]_vars
  OBVIOUS
<1>1. ASSUME New \/ Connect \/ UNCHANGED asyncVars PROVE UNCHANGED vars
  BY <1>1 DEF New, Connect, asyncVars
<1>2. ASSUME LoopFails \/ Resolves PROVE DropReceiver
  BY <1>2 DEF LoopFails, Resolves, Leave
<1>3. ASSUME NEW c \in Calls, Call(c) PROVE Start(c)
  BY <1>3 DEF Call
<1>4. ASSUME NEW c \in Calls, Send(c) PROVE Step(c)
  BY <1>4 DEF Send
<1>5. ASSUME NEW c \in Calls, Return(c) \/ Unwind(c) \/ Poll(c) PROVE UNCHANGED vars
  BY <1>5 DEF Return, Unwind, Poll
<1> QED
  BY <1>1, <1>2, <1>3, <1>4, <1>5 DEF AsyncNext, EventLoop, Caller, Next

\* What is proved of SyncSender alone holds inside the client, since ClientAsync
\* is written with the actions of SyncSender.
LEMMA ClientUsesSender == AsyncSpec => Spec
<1>1. AsyncInit => Init
  BY DEF AsyncInit
<1>2. [AsyncNext]_asyncVars => [Next]_vars
  BY StepUsesSender
<1> QED
  BY <1>1, <1>2, PTL DEF AsyncSpec, Spec

-----------------------------------------------------------------------------
\* Every variable of the client keeps its type: the SyncSender's, the event
\* loop's, and those of each call's oneshot (GrpcClientAsync).
THEOREM ClientTypeCorrect == AsyncSpec => []AsyncTypeOK
<1> DEFINE OwnTypes == /\ loop \in {"none", "new", "connecting", "returned", "panicked"}
                       /\ complete \in [Calls -> {"none", "held", "dropped"}]
                       /\ future \in [Calls -> {"none", "pending", "other"}]
<1>1. AsyncInit => OwnTypes
  BY DEF AsyncInit
<1>2. OwnTypes /\ [AsyncNext]_asyncVars => OwnTypes'
  BY DEF AsyncNext, asyncVars, New, EventLoop, Connect, LoopFails, Resolves, Leave, Call,
     Caller, Send, Return, Unwind, Poll
<1>3. AsyncSpec => []TypeOK
  BY ClientUsesSender, TypeCorrect, PTL
<1>4. TypeOK /\ OwnTypes => AsyncTypeOK
  BY DEF AsyncTypeOK
<1> HIDE DEF OwnTypes
<1> QED
  BY <1>1, <1>2, <1>3, <1>4, PTL DEF AsyncSpec

-----------------------------------------------------------------------------
Labels == {"idle", "lock", "take", "wait", "put", "done", "panicked"}

\* While the receiver lives the channel holds the request of every call that
\* was accepted, and once it is gone no further call is.
AcceptInv ==
  /\ queue \in Seq(Calls)
  /\ pc \in [Calls -> Labels]
  /\ IsFiniteSet(Accepted)
  /\ AcceptsCapacity
  /\ receiver = "alive" => Cardinality(Accepted) = Len(queue)

LEMMA AcceptInit == AsyncInit => AcceptInv
<1> SUFFICES ASSUME AsyncInit PROVE AcceptInv
  OBVIOUS
<1>1. queue = <<>> /\ pc = [c \in Calls |-> "idle"]
  BY DEF AsyncInit, Init
<1>2. Accepted = {}
  BY <1>1 DEF Accepted
<1>3. IsFiniteSet(Accepted) /\ Cardinality(Accepted) = 0
  BY <1>2, FS_EmptySet
<1>4. queue \in Seq(Calls) /\ Len(queue) = 0
  BY <1>1
<1>5. pc \in [Calls -> Labels]
  BY <1>1 DEF Labels
<1> QED
  BY <1>3, <1>4, <1>5, CapacityAssumption DEF AcceptInv, AcceptsCapacity

\* A step other than Deliver leaves the accepted calls as they are, and one
\* that does not end the event loop the channel as well.
LEMMA AcceptStep == AcceptInv /\ [AsyncNext]_asyncVars => AcceptInv'
<1> SUFFICES ASSUME AcceptInv, [AsyncNext]_asyncVars PROVE AcceptInv'
  OBVIOUS
<1>1. ASSUME UNCHANGED <<queue, receiver>>, Accepted' = Accepted, pc' \in [Calls -> Labels]
      PROVE  AcceptInv'
  BY <1>1 DEF AcceptInv, AcceptsCapacity
<1>2. ASSUME NEW c \in Calls,
             Start(c) \/ Lock(c) \/ LockPoisoned(c) \/ Take(c)
               \/ SendFails(c) \/ Put(c)
      PROVE  AcceptInv'
  <2>1. UNCHANGED <<queue, receiver>>
    BY <1>2 DEF Start, Lock, LockPoisoned, Take,
       SendFails, Put, channelVars
  <2>2. PICK label \in Labels :
          /\ pc' = [pc EXCEPT ![c] = label]
          /\ label \in {"put", "done"} <=> pc[c] \in {"put", "done"}
    BY <1>2 DEF Start, Lock, LockPoisoned, Take,
       SendFails, Put, Goto, Panic, Labels
  <2>3. pc' \in [Calls -> Labels] /\ Accepted' = Accepted
    BY <2>2 DEF AcceptInv, Accepted
  <2> QED
    BY <1>1, <2>1, <2>3
<1>3. ASSUME NEW c \in Calls, Deliver(c) PROVE AcceptInv'
  <2>1. /\ pc[c] = "wait" /\ pc' = [pc EXCEPT ![c] = "put"]
        /\ receiver = "alive" /\ receiver' = "alive"
        /\ Len(queue) < Capacity /\ queue' = Append(queue, c)
    BY <1>3 DEF Deliver, Goto
  <2>2. pc' \in [Calls -> Labels] /\ Accepted' = Accepted \cup {c} /\ c \notin Accepted
    BY <2>1 DEF AcceptInv, Accepted, Labels
  <2>3. IsFiniteSet(Accepted') /\ Cardinality(Accepted') = Cardinality(Accepted) + 1
    BY <2>2, FS_AddElement DEF AcceptInv
  <2>4. queue' \in Seq(Calls) /\ Len(queue') = Len(queue) + 1 /\ Len(queue) \in Nat
    BY <2>1 DEF AcceptInv
  <2>5. Cardinality(Accepted) = Len(queue)
    BY <2>1 DEF AcceptInv
  <2>6. Cardinality(Accepted') = Len(queue') /\ Cardinality(Accepted') <= Capacity
    BY <2>1, <2>3, <2>4, <2>5, CapacityAssumption
  <2> QED
    BY <2>2, <2>3, <2>4, <2>6 DEF AcceptInv, AcceptsCapacity
<1>4. ASSUME DropReceiver PROVE AcceptInv'
  <2>1. queue' \in Seq(Calls) /\ receiver' = "gone" /\ pc' = pc /\ Accepted' = Accepted
    BY <1>4 DEF DropReceiver, Accepted
  <2> QED
    BY <2>1 DEF AcceptInv, AcceptsCapacity
<1>5. ASSUME UNCHANGED vars PROVE AcceptInv'
  BY <1>1, <1>5 DEF vars, channelVars, Accepted, AcceptInv
<1> QED
  <2>1. ASSUME New \/ Connect \/ UNCHANGED asyncVars PROVE UNCHANGED vars
    BY <2>1 DEF New, Connect, asyncVars
  <2>2. ASSUME LoopFails \/ Resolves PROVE DropReceiver
    BY <2>2 DEF LoopFails, Resolves, Leave
  <2>3. ASSUME NEW c \in Calls, Call(c) PROVE Start(c)
    BY <2>3 DEF Call
  <2>4. ASSUME NEW c \in Calls, Send(c)
        PROVE  \/ Lock(c) \/ LockPoisoned(c) \/ Take(c)
               \/ Deliver(c) \/ SendFails(c) \/ Put(c)
    BY <2>4 DEF Send, Step
  <2>5. ASSUME NEW c \in Calls, Return(c) \/ Unwind(c) \/ Poll(c)
        PROVE  UNCHANGED vars
    BY <2>5 DEF Return, Unwind, Poll
  <2> QED
    BY <1>2, <1>3, <1>4, <1>5, <2>1, <2>2, <2>3, <2>4, <2>5
       DEF AsyncNext, EventLoop, Caller

\* Since the event loop never polls the receiver, at most Capacity calls get
\* their request in (client_async.rs, run_event_loop).
THEOREM AcceptsAtMostCapacity == AsyncSpec => []AcceptsCapacity
<1>1. AcceptInv => AcceptsCapacity
  BY DEF AcceptInv
<1> QED
  BY <1>1, AcceptInit, AcceptStep, PTL DEF AsyncSpec

-----------------------------------------------------------------------------
\* There is a caller only once there is an event loop, and the receiver is gone
\* exactly when the loop has ended.
LoopInv ==
  /\ loop = "none" => \A c \in Calls : pc[c] = "idle"
  /\ receiver = "gone" <=> loop \in {"returned", "panicked"}

LEMMA LoopInit == AsyncInit => LoopInv
  BY DEF AsyncInit, Init, LoopInv

\* Steps of the loop and of the callers keep it.
LEMMA LoopStep == AsyncTypeOK /\ LoopInv /\ [AsyncNext]_asyncVars => LoopInv'
<1> SUFFICES ASSUME AsyncTypeOK, LoopInv, [AsyncNext]_asyncVars PROVE LoopInv'
  OBVIOUS
<1>1. CASE UNCHANGED asyncVars
  BY <1>1 DEF LoopInv, asyncVars, vars, channelVars
<1>2. CASE New \/ Connect
  BY <1>2 DEF LoopInv, New, Connect, vars, channelVars
<1>3. CASE LoopFails \/ Resolves
  BY <1>3 DEF LoopInv, LoopFails, Resolves, Leave, DropReceiver
<1>4. ASSUME NEW c \in Calls, Call(c) PROVE LoopInv'
  BY <1>4 DEF LoopInv, Call, Start, channelVars
<1>5. ASSUME NEW c \in Calls, Send(c) PROVE LoopInv'
  <2>1. pc[c] # "idle" /\ loop' = loop /\ receiver' = receiver
    BY <1>5 DEF Send, Step, Lock, LockPoisoned, Take, Deliver, SendFails, Put, channelVars
  <2> QED
    BY <2>1 DEF LoopInv
<1>6. ASSUME NEW c \in Calls, Return(c) \/ Unwind(c) \/ Poll(c) PROVE LoopInv'
  BY <1>6 DEF LoopInv, Return, Unwind, Poll, vars, channelVars
<1> QED
  BY <1>1, <1>2, <1>3, <1>4, <1>5, <1>6 DEF AsyncNext, EventLoop, Caller

LEMMA LoopAlways == AsyncSpec => []LoopInv
  BY LoopInit, LoopStep, ClientTypeCorrect, PTL DEF AsyncSpec

\* Callers block one another only as long as the event loop runs, with the
\* channel full: a holder of the mutex that is not waiting for room goes on
\* (SyncSender::send, run_event_loop).
THEOREM CallersWaitForTheLoop == AsyncSpec => []OnlyLoopBlocks
<1>1. AsyncTypeOK /\ LockInv /\ LoopInv => OnlyLoopBlocks
  <2> SUFFICES ASSUME AsyncTypeOK, LockInv, LoopInv, NEW c \in Calls, Sending(c),
                      \A d \in Calls : Sending(d) => Blocked(d)
               PROVE  loop \in {"new", "connecting"} /\ Len(queue) = Capacity
    BY DEF OnlyLoopBlocks
  <2>1. \E w \in Calls : Sending(w) /\ pc[w] # "lock"
    <3>1. CASE pc[c] = "lock"
      <4>1. holder \in Calls
        BY <3>1 DEF Blocked, AsyncTypeOK, TypeOK
      <4>2. pc[holder] \in InSend
        BY <4>1 DEF LockInv
      <4> QED
        BY <4>1, <4>2 DEF Sending, InSend
    <3> QED
      BY <3>1
  <2>2. PICK w \in Calls : pc[w] = "wait" /\ receiver = "alive" /\ Len(queue) = Capacity
    BY <2>1 DEF Blocked
  <2>3. loop # "none" /\ loop \notin {"returned", "panicked"}
    BY <2>2 DEF LoopInv
  <2> QED
    BY <2>2, <2>3 DEF AsyncTypeOK
<1>2. AsyncSpec => []LockInv
  BY ClientUsesSender, LockAlways, PTL
<1> QED
  BY <1>1, <1>2, LoopAlways, ClientTypeCorrect, PTL

-----------------------------------------------------------------------------
\* A panic in send comes from a receiver that is gone, which is what poisons the
\* mutex for the calls after it.
PanicInv ==
  (\E c \in Calls : pc[c] = "panicked") => receiver = "gone"

\* Take does not panic since the Sender is there, and a poisoned mutex has seen
\* the receiver gone (LockInv).
LEMMA PanicStep == LockInv /\ PanicInv /\ [Next]_vars => PanicInv'
<1> SUFFICES ASSUME LockInv, PanicInv, [Next]_vars,
                    NEW c \in Calls, pc'[c] = "panicked"
             PROVE  receiver' = "gone"
  BY DEF PanicInv
<1>1. receiver = "gone" => receiver' = "gone"
  BY DEF Next, vars, channelVars, Step, Start, Lock, LockPoisoned, Take, Deliver, SendFails,
     Put, Receive, DropReceiver
<1>2. CASE pc[c] = "panicked"
  BY <1>1, <1>2 DEF PanicInv
<1>3. CASE pc[c] # "panicked"
  <2>1. PICK d \in Calls : LockPoisoned(d) \/ Take(d) \/ SendFails(d)
    <3>1. pc \in [Calls -> {"idle", "lock"} \cup InSend \cup Ended]
      BY DEF LockInv, TypeOK
    <3> QED
      BY <1>3, <3>1 DEF Next, vars, Step, Start, Lock, Deliver, Put, Goto, Receive, DropReceiver
  <2>2. ~ Take(d)
    BY <1>3 DEF LockInv, TypeOK, Take, Goto
  <2>3. receiver = "gone"
    BY <2>1, <2>2 DEF LockInv, LockPoisoned, SendFails
  <2> QED
    BY <1>1, <2>3
<1> QED
  BY <1>2, <1>3

\* As long as the event loop runs no caller panics and the mutex stays sound
\* (SyncSender::send, run_event_loop).
THEOREM PanicsEndWithLoop == AsyncSpec => []PanicsOnlyWithLoop
<1>1. LockInv /\ LoopInv /\ PanicInv => PanicsOnlyWithLoop
  BY DEF LockInv, LoopInv, PanicInv, PanicsOnlyWithLoop
<1>2. Init => PanicInv
  BY DEF Init, PanicInv
<1>3. Spec => []PanicInv
  BY <1>2, LockAlways, PanicStep, PTL DEF Spec
<1> QED
  BY <1>1, <1>3, ClientUsesSender, LockAlways, LoopAlways, PTL

=============================================================================
