------------------------------- MODULE OpLock -------------------------------
(***************************************************************************)
(* How OntologyCoordinator serializes graph operations: one asyncio.Lock,  *)
(* plus the `_waiting` flag that is meant to be a one-deep pending slot    *)
(* for the explicit services (coordinator.py, _run_serialized), while      *)
(* event-driven updates wait in the lock's own queue (_run_incremental).   *)
(*                                                                         *)
(* An action is what one task does between two suspension points of the    *)
(* event loop.  asyncio.Lock is a library; it is modelled by the three     *)
(* things the coordinator observes: `locked()`, FIFO waiters, and the      *)
(* window between release() and the moment the woken waiter resumes, in    *)
(* which locked() is False although the lock is already spoken for.        *)
(* No caller cancels an operation, so a waiter only leaves by resuming.    *)
(***************************************************************************)
EXTENDS Naturals, Sequences, FiniteSets

CONSTANTS Explicit,     \* calls of rebuild, resync, validate, query, ...
          Incremental,  \* registry and state_changed handlers
          NoOp          \* "no operation", for the abstract view

Ops == Explicit \cup Incremental

ASSUME OpsAssumption == Explicit \cap Incremental = {} /\ NoOp \notin Ops

VARIABLES locked,    \* asyncio.Lock._locked
          waiters,   \* asyncio.Lock._waiters, oldest first
          woken,     \* the oldest waiter's future is resolved, its task not yet resumed
          waiting,   \* OntologyCoordinator._waiting
          status     \* where each operation's task is

vars == <<locked, waiters, woken, waiting, status>>

Status == {"idle", "queued", "running", "rejected"}

Init ==
    /\ locked = FALSE
    /\ waiters = <<>>
    /\ woken = FALSE
    /\ waiting = FALSE
    /\ status = [p \in Ops |-> "idle"]

-----------------------------------------------------------------------------
(* asyncio.Lock *)

\* acquire() takes the lock at once only if it is free and nobody queues for it.
LockFree == ~ locked /\ waiters = <<>>

Acquire(p) ==
    /\ LockFree
    /\ locked' = TRUE
    /\ status' = [status EXCEPT ![p] = "running"]
    /\ UNCHANGED <<waiters, woken>>

Wait(p) ==
    /\ ~ LockFree
    /\ waiters' = Append(waiters, p)
    /\ status' = [status EXCEPT ![p] = "queued"]
    /\ UNCHANGED <<locked, woken>>

\* The woken task runs again, leaves the queue and takes the lock.
Awake(p) ==
    /\ woken
    /\ p = Head(waiters)
    /\ waiters' = Tail(waiters)
    /\ woken' = FALSE
    /\ locked' = TRUE
    /\ status' = [status EXCEPT ![p] = "running"]

\* release() frees the lock and resolves the oldest waiter's future.
Release(p) ==
    /\ locked' = FALSE
    /\ woken' = (waiters # <<>>)
    /\ status' = [status EXCEPT ![p] = "idle"]
    /\ UNCHANGED waiters

-----------------------------------------------------------------------------
(* _run_serialized *)

\* The slot looks taken: OperationInProgress is raised before the try block.
Reject(e) ==
    /\ status[e] = "idle"
    /\ locked
    /\ waiting
    /\ status' = [status EXCEPT ![e] = "rejected"]
    /\ UNCHANGED <<locked, waiters, woken, waiting>>

\* The caller is told, and may call again.
ReturnError(e) ==
    /\ status[e] = "rejected"
    /\ status' = [status EXCEPT ![e] = "idle"]
    /\ UNCHANGED <<locked, waiters, woken, waiting>>

RunNow(e) ==
    /\ status[e] = "idle"
    /\ Acquire(e)
    /\ waiting' = FALSE

\* The flag is raised only when locked() is True at the call.
Queue(e) ==
    /\ status[e] = "idle"
    /\ ~ (locked /\ waiting)
    /\ Wait(e)
    /\ waiting' = (waiting \/ locked)

\* Seeded fault: the flag is not cleared when the slot's owner gets its turn.
TakeTurnKeepFlag(e) ==
    /\ status[e] = "queued"
    /\ Awake(e)
    /\ UNCHANGED waiting

TakeTurn(e) ==
    /\ status[e] = "queued"
    /\ Awake(e)
    /\ waiting' = FALSE

\* Seeded fault: an operation that fails keeps the lock.
CompleteStuck(e) ==
    /\ status[e] = "running"
    /\ status' = [status EXCEPT ![e] = "idle"]
    /\ waiting' = FALSE
    /\ UNCHANGED <<locked, waiters, woken>>

\* Success or error alike: the lock is released, then `finally` clears the flag.
Complete(e) ==
    /\ status[e] = "running"
    /\ Release(e)
    /\ waiting' = FALSE

-----------------------------------------------------------------------------
(* _run_incremental, and the batch handler's own `async with self._lock` *)

\* Seeded fault: the update runs outside `async with self._lock`.
UpdateNowUnlocked(i) ==
    /\ status[i] = "idle"
    /\ status' = [status EXCEPT ![i] = "running"]
    /\ UNCHANGED <<locked, waiters, woken, waiting>>

UpdateNow(i) ==
    /\ status[i] = "idle"
    /\ Acquire(i)
    /\ UNCHANGED waiting

UpdateQueue(i) ==
    /\ status[i] = "idle"
    /\ Wait(i)
    /\ UNCHANGED waiting

UpdateTurn(i) ==
    /\ status[i] = "queued"
    /\ Awake(i)
    /\ UNCHANGED waiting

UpdateComplete(i) ==
    /\ status[i] = "running"
    /\ Release(i)
    /\ UNCHANGED waiting

-----------------------------------------------------------------------------
Serialized(e) ==
    \/ Reject(e)
    \/ ReturnError(e)
    \/ RunNow(e)
    \/ Queue(e)
    \/ TakeTurn(e)
    \/ Complete(e)

IncrementalStep(i) ==
    \/ UpdateNow(i)
    \/ UpdateQueue(i)
    \/ UpdateTurn(i)
    \/ UpdateComplete(i)

Next ==
    \/ \E e \in Explicit : Serialized(e)
    \/ \E i \in Incremental : IncrementalStep(i)

\* The event loop resumes every ready task, and every operation ends: each
\* graph call is bounded by a timeout.  Nothing obliges anyone to call.
Fairness ==
    /\ \A e \in Explicit : WF_vars(TakeTurn(e)) /\ WF_vars(Complete(e))
    /\ \A i \in Incremental : WF_vars(UpdateTurn(i)) /\ WF_vars(UpdateComplete(i))

Spec == Init /\ [][Next]_vars

FairSpec == Spec /\ Fairness

-----------------------------------------------------------------------------
TypeOK ==
    /\ locked \in BOOLEAN
    /\ waiters \in Seq(Ops)
    /\ woken \in BOOLEAN
    /\ waiting \in BOOLEAN
    /\ status \in [Ops -> Status]

\* No two graph operations are ever in flight together, and none runs without
\* the lock (coordinator.py:3-14).
MutualExclusion ==
    /\ \A p, q \in Ops : status[p] = "running" /\ status[q] = "running" => p = q
    /\ \A p \in Ops : status[p] = "running" => locked

\* A free lock is never left with sleeping waiters: the release that freed it
\* has already woken the oldest one.
NoLostWakeup == ~ locked /\ waiters # <<>> => woken

\* An explicit request is only ever turned away because another explicit
\* request really is queued: `_waiting` never outlives the request it stands
\* for, so no later call is refused by a stale flag.
NoSpuriousRejection == waiting => \E e \in Explicit : status[e] = "queued"

\* The queue holds exactly the waiting tasks, each once.
QueueIsWaiters ==
    /\ \A i \in 1..Len(waiters) : status[waiters[i]] = "queued"
    /\ \A i, j \in 1..Len(waiters) : waiters[i] = waiters[j] => i = j
    /\ \A p \in Ops : status[p] = "queued" => \E i \in 1..Len(waiters) : waiters[i] = p

\* No update or admitted service call starves behind the others
\* (coordinator.py:407-411).
EveryWaiterRuns == \A p \in Ops : status[p] = "queued" ~> status[p] = "running"

-----------------------------------------------------------------------------
(* Refinement *)

Running == {p \in Ops : status[p] = "running"}

Active == IF Running = {} THEN NoOp ELSE CHOOSE p \in Ops : status[p] = "running"

Serial == INSTANCE SerialOps WITH pending <- waiters, active <- Active

\* The lock and the flag implement serial execution in admission order.
ImplementsSerialOps == Serial!Spec
=============================================================================
