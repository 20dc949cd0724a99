----------------------------- MODULE ClientAsync -----------------------------
(***************************************************************************)
(* GrpcClientAsync (src/src/client_async.rs): callers on any threads hand  *)
(* a CallRequest to a SyncSender; the thread spawned by new owns the       *)
(* receiving end while it runs an event loop that only connects.  The loop *)
(* never polls the receiver, and drops it when run_event_loop is left.     *)
(* The SyncSender is the one of the module extended, with its variables;   *)
(* its Start and Step happen only as part of a call.                       *)
(***************************************************************************)
EXTENDS SyncSender, FiniteSets

VARIABLES
  loop,         \* the event loop thread
  complete,     \* of each call: the Complete half of its oneshot
  future        \* of each call: what its caller has got

asyncVars == <<vars, loop, complete, future>>

AsyncTypeOK ==
  /\ TypeOK
  /\ loop \in {"none", "new", "connecting", "returned", "panicked"}
  /\ complete \in [Calls -> {"none", "held", "dropped"}]
  /\ future \in [Calls -> {"none", "pending", "other"}]

\* Before GrpcClientAsync::new
AsyncInit ==
  /\ Init
  /\ loop = "none"
  /\ complete = [c \in Calls |-> "none"]
  /\ future = [c \in Calls |-> "none"]

\* new makes the channel and spawns the thread.  (Where to_socket_addrs
\* fails, new panics and there is no client.)
New ==
  /\ loop = "none"
  /\ loop' = "new"
  /\ UNCHANGED <<vars, complete, future>>

-----------------------------------------------------------------------------
(* run_event_loop *)

\* Loop::new and tcp_connect; lp.run then blocks on the connection only.
Connect ==
  /\ loop = "new"
  /\ loop' = "connecting"
  /\ UNCHANGED <<vars, complete, future>>

\* Leaving the function, returning or unwinding, drops rx.
Leave(how) ==
  /\ loop' = how
  /\ DropReceiver
  /\ UNCHANGED <<complete, future>>

\* Loop::new fails.
LoopFails == loop = "new" /\ Leave("panicked")

\* Mutant: the receiver outlives the loop.
ResolvesKept ==
  /\ loop = "connecting"
  /\ loop' = "returned"
  /\ UNCHANGED <<vars, complete, future>>

\* The connection is made and run_event_loop returns; or it is refused and
\* the unwrap of lp.run panics.
Resolves ==
  /\ loop = "connecting"
  /\ Leave("returned") \/ Leave("panicked")

-----------------------------------------------------------------------------
(* call *)

Call(c) ==
  /\ loop # "none"
  /\ Start(c)
  /\ complete' = [complete EXCEPT ![c] = "held"]
  /\ UNCHANGED <<loop, future>>

\* A step inside self.tx.send
Send(c) ==
  /\ Step(c)
  /\ UNCHANGED <<loop, complete, future>>

\* call drops complete, which nobody was given, and returns the future.
Return(c) ==
  /\ pc[c] = "done"
  /\ complete[c] = "held"
  /\ complete' = [complete EXCEPT ![c] = "dropped"]
  /\ future' = [future EXCEPT ![c] = "pending"]
  /\ UNCHANGED <<vars, loop>>

\* send has panicked: the caller's thread unwinds and no future is returned.
Unwind(c) ==
  /\ pc[c] = "panicked"
  /\ complete[c] = "held"
  /\ complete' = [complete EXCEPT ![c] = "dropped"]
  /\ UNCHANGED <<vars, loop, future>>

\* The caller polls the future: the oneshot is cancelled, map_err gives Other.
Poll(c) ==
  /\ future[c] = "pending"
  /\ complete[c] = "dropped"
  /\ future' = [future EXCEPT ![c] = "other"]
  /\ UNCHANGED <<vars, loop, complete>>

-----------------------------------------------------------------------------
EventLoop == Connect \/ LoopFails \/ Resolves

Caller(c) == Send(c) \/ Return(c) \/ Unwind(c) \/ Poll(c)

AsyncNext ==
  \/ New
  \/ EventLoop
  \/ \E c \in Calls : Call(c) \/ Caller(c)

AsyncSpec == AsyncInit /\ [][AsyncNext]_asyncVars

\* The threads are scheduled, and the attempt to connect ends.
FairSpec ==
  AsyncSpec /\ WF_asyncVars(EventLoop) /\ \A c \in Calls : WF_asyncVars(Caller(c))

-----------------------------------------------------------------------------
(* Properties *)

Accepted == {c \in Calls : pc[c] \in {"put", "done"}}

\* Nobody takes a request out of the channel, so no more calls than it has
\* room for ever return; with its one slot, the second call blocks, holding
\* the mutex that every later call waits for, until the attempt to connect
\* is over.
AcceptsCapacity == Cardinality(Accepted) <= Capacity

\* A caller's thread panics in call, and the mutex is poisoned for all the
\* others, only once the event loop has ended: as long as the attempt to connect
\* goes on, however the callers interleave in take, send and put, each of them
\* returns or blocks.
PanicsOnlyWithLoop ==
  poisoned \/ (\E c \in Calls : pc[c] = "panicked") =>
    loop \in {"returned", "panicked"}

\* A call inside send waits for the mutex, or for room in the channel.
Sending(c) == pc[c] \in {"lock"} \cup InSend
Blocked(c) ==
  \/ pc[c] = "lock" /\ holder # NoCall
  \/ pc[c] = "wait" /\ receiver = "alive" /\ Len(queue) = Capacity

\* Callers never block one another for good: where none of them can go on, what
\* they wait for is the event loop, which is still running and will drop the
\* receiver of the full channel.
OnlyLoopBlocks ==
  (\E c \in Calls : Sending(c)) /\ (\A c \in Calls : Sending(c) => Blocked(c)) =>
    loop \in {"new", "connecting"} /\ Len(queue) = Capacity

\* Every call ends, the blocked ones too: its caller gets a future that says
\* GrpcError::Other, or a panic.
EveryCallEnds ==
  \A c \in Calls :
    pc[c] = "lock" ~> \/ future[c] = "other"
                      \/ pc[c] = "panicked" /\ complete[c] = "dropped"

=============================================================================
