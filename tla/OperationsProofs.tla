-------------------------- MODULE OperationsProofs --------------------------
(***************************************************************************)
(* Operations wait for one lock, and read the registries when they get it. *)
(*                                                                         *)
(* The inductive invariant of OpLock and what follows from it, for every   *)
(* set of callers: mutual exclusion, no lost wakeup, no spurious           *)
(* rejection, and that the lock implements serial execution.               *)
(*                                                                         *)
(* For any floors, areas, devices and entities and any number of registry  *)
(* changes, full syncs and failures: the graph RegistrySync keeps mirrors  *)
(* the registries once what they announced was handled, and a rebuild      *)
(* while they stand still leaves exactly their edges.                      *)
(***************************************************************************)
EXTENDS OpLock, RegistrySync, FiniteSetTheorems, TLAPS

-----------------------------------------------------------------------------
(* The lock *)


LockTyped ==
    /\ locked \in BOOLEAN
    /\ waiters \in Seq(Ops)
    /\ woken \in BOOLEAN
    /\ status \in [Ops -> Status]

\* A woken waiter means the lock is free and somebody waits for it.
WokenMeansFree == woken => ~ locked /\ waiters # <<>>

\* A held lock has a holder.
HeldByRunner == locked => \E p \in Ops : status[p] = "running"

\* What the asyncio lock keeps, whoever calls it.
LockInv ==
    /\ LockTyped
    /\ MutualExclusion
    /\ NoLostWakeup
    /\ WokenMeansFree
    /\ HeldByRunner
    /\ QueueIsWaiters

\* What the coordinator's flag adds.
SlotInv ==
    /\ LockInv
    /\ waiting \in BOOLEAN
    /\ NoSpuriousRejection

-----------------------------------------------------------------------------
(* What Append and Tail do to a queue. *)

\* Appending keeps every earlier element in place and puts the new one last.
LEMMA AppendElements ==
    ASSUME NEW S, NEW q \in Seq(S), NEW e \in S
    PROVE  /\ Append(q, e) \in Seq(S)
           /\ Len(q) \in Nat
           /\ Len(Append(q, e)) = Len(q) + 1
           /\ \A i \in 1..Len(q) : Append(q, e)[i] = q[i]
           /\ Append(q, e)[Len(q) + 1] = e
           /\ Append(q, e) # <<>>
  OBVIOUS

\* Taking the tail of a non-empty queue shifts every later element by one.
LEMMA TailElements ==
    ASSUME NEW S, NEW q \in Seq(S), q # <<>>
    PROVE  /\ Head(q) \in S
           /\ Head(q) = q[1]
           /\ Len(q) \in Nat \ {0}
           /\ Tail(q) \in Seq(S)
           /\ Len(Tail(q)) = Len(q) - 1
           /\ \A i \in 1..Len(Tail(q)) : Tail(q)[i] = q[i + 1]
  OBVIOUS

-----------------------------------------------------------------------------
(* Each lock primitive keeps the lock's invariant. *)

\* Taking a free lock nobody queues for.
LEMMA AcquireKeeps ==
    ASSUME LockInv, NEW p \in Ops, status[p] = "idle", Acquire(p)
    PROVE  LockInv'
<1> USE DEF LockInv, LockTyped, Status
<1>1. LockTyped'
  BY DEF Acquire
<1>2. MutualExclusion' /\ HeldByRunner'
  BY DEF MutualExclusion, HeldByRunner, Acquire, LockFree
<1>3. NoLostWakeup' /\ WokenMeansFree'
  BY DEF NoLostWakeup, WokenMeansFree, Acquire, LockFree
<1>4. QueueIsWaiters'
  BY DEF QueueIsWaiters, Acquire, LockFree
<1> QED
  BY <1>1, <1>2, <1>3, <1>4

\* Joining the queue of a lock that is held or spoken for.
LEMMA WaitKeeps ==
    ASSUME LockInv, NEW p \in Ops, status[p] = "idle", Wait(p)
    PROVE  LockInv'
<1> USE DEF LockInv, LockTyped, Status
<1> DEFINE n == Len(waiters)
<1>1. /\ waiters' \in Seq(Ops) /\ n \in Nat /\ Len(waiters') = n + 1
      /\ \A i \in 1..n : waiters'[i] = waiters[i]
      /\ waiters'[n + 1] = p
      /\ waiters' # <<>>
  BY AppendElements DEF Wait
<1>2. LockTyped'
  BY <1>1 DEF Wait
<1>3. MutualExclusion' /\ HeldByRunner'
  BY DEF MutualExclusion, HeldByRunner, Wait
<1>4. NoLostWakeup' /\ WokenMeansFree'
  BY <1>1 DEF NoLostWakeup, WokenMeansFree, Wait, LockFree
<1>5. \A i \in 1..n : waiters[i] # p
  BY DEF QueueIsWaiters
<1>6. \A i \in 1..(n + 1) : i \in 1..n \/ i = n + 1
  BY <1>1
<1>7. QueueIsWaiters'
  <2>1. \A i \in 1..(n + 1) : status'[waiters'[i]] = "queued"
    BY <1>1, <1>5, <1>6 DEF QueueIsWaiters, Wait
  <2>2. ASSUME NEW i \in 1..(n + 1), NEW j \in 1..(n + 1), waiters'[i] = waiters'[j]
        PROVE  i = j
    <3>1. CASE i \in 1..n /\ j \in 1..n
      BY <1>1, <2>2, <3>1 DEF QueueIsWaiters
    <3>2. CASE i = n + 1 \/ j = n + 1
      BY <1>1, <1>5, <1>6, <2>2, <3>2
    <3> QED
      BY <1>6, <3>1, <3>2
  <2>3. ASSUME NEW q \in Ops, status'[q] = "queued"
        PROVE  \E i \in 1..(n + 1) : waiters'[i] = q
    <3>1. CASE q = p
      BY <1>1, <3>1
    <3>2. CASE q # p
      <4>1. PICK i \in 1..n : waiters[i] = q
        BY <2>3, <3>2 DEF QueueIsWaiters, Wait
      <4> QED
        BY <1>1, <4>1
    <3> QED
      BY <3>1, <3>2
  <2> QED
    BY <1>1, <2>1, <2>2, <2>3 DEF QueueIsWaiters
<1> QED
  BY <1>2, <1>3, <1>4, <1>7

\* The woken waiter leaves the queue and becomes the holder.
LEMMA AwakeKeeps ==
    ASSUME LockInv, NEW p \in Ops, status[p] = "queued", Awake(p)
    PROVE  LockInv'
<1> USE DEF LockInv, LockTyped, Status
<1> DEFINE n == Len(waiters)
<1>1. waiters # <<>> /\ ~ locked
  BY DEF WokenMeansFree, Awake
<1>2. /\ waiters' \in Seq(Ops) /\ n \in Nat \ {0} /\ Len(waiters') = n - 1
      /\ waiters[1] = p
      /\ \A i \in 1..(n - 1) : waiters'[i] = waiters[i + 1]
  BY <1>1, TailElements DEF Awake
<1>3. LockTyped'
  BY <1>2 DEF Awake
<1>4. MutualExclusion' /\ HeldByRunner'
  BY <1>1 DEF MutualExclusion, HeldByRunner, Awake
<1>5. NoLostWakeup' /\ WokenMeansFree'
  BY DEF NoLostWakeup, WokenMeansFree, Awake
<1>6. \A i \in 1..(n - 1) : i + 1 \in 1..n /\ i + 1 # 1
  BY <1>2
<1>7. QueueIsWaiters'
  <2>1. \A i \in 1..(n - 1) : waiters[i + 1] # p
    BY <1>2, <1>6 DEF QueueIsWaiters
  <2>2. \A i \in 1..(n - 1) : status'[waiters'[i]] = "queued"
    BY <1>2, <1>6, <2>1 DEF QueueIsWaiters, Awake
  <2>3. ASSUME NEW i \in 1..(n - 1), NEW j \in 1..(n - 1), waiters'[i] = waiters'[j]
        PROVE  i = j
    <3>1. waiters[i + 1] = waiters[j + 1] /\ i + 1 \in 1..n /\ j + 1 \in 1..n
      BY <1>2, <1>6, <2>3
    <3>2. i + 1 = j + 1
      BY <3>1 DEF QueueIsWaiters
    <3> QED
      BY <3>2
  <2>4. ASSUME NEW q \in Ops, status'[q] = "queued"
        PROVE  \E i \in 1..(n - 1) : waiters'[i] = q
    <3>1. q # p /\ status[q] = "queued"
      BY <2>4 DEF Awake
    <3>2. PICK i \in 1..n : waiters[i] = q
      BY <3>1 DEF QueueIsWaiters
    <3>3. i # 1 /\ i - 1 \in 1..(n - 1) /\ (i - 1) + 1 = i
      BY <1>2, <3>1, <3>2
    <3>4. waiters'[i - 1] = q
      BY <1>2, <3>2, <3>3
    <3> QED
      BY <3>3, <3>4
  <2> QED
    BY <1>2, <2>2, <2>3, <2>4 DEF QueueIsWaiters
<1> QED
  BY <1>3, <1>4, <1>5, <1>7

\* The holder lets go and wakes the oldest waiter, if there is one.
LEMMA ReleaseKeeps ==
    ASSUME LockInv, NEW p \in Ops, status[p] = "running", Release(p)
    PROVE  LockInv'
<1> USE DEF LockInv, LockTyped, Status
<1>1. LockTyped'
  BY DEF Release
<1>2. MutualExclusion' /\ HeldByRunner'
  BY DEF MutualExclusion, HeldByRunner, Release
<1>3. NoLostWakeup' /\ WokenMeansFree'
  BY DEF NoLostWakeup, WokenMeansFree, Release
<1>4. QueueIsWaiters'
  BY DEF QueueIsWaiters, Release
<1> QED
  BY <1>1, <1>2, <1>3, <1>4

\* A rejection and the return of its error touch no lock state.
LEMMA StatusOnlyKeeps ==
    ASSUME LockInv, NEW p \in Ops, NEW s \in {"idle", "rejected"},
           status[p] \in {"idle", "rejected"},
           status' = [status EXCEPT ![p] = s],
           UNCHANGED <<locked, waiters, woken>>
    PROVE  LockInv'
<1> USE DEF LockInv, LockTyped, Status
<1>1. LockTyped' /\ NoLostWakeup' /\ WokenMeansFree'
  BY DEF NoLostWakeup, WokenMeansFree
<1>2. MutualExclusion' /\ HeldByRunner'
  BY DEF MutualExclusion, HeldByRunner
<1>3. QueueIsWaiters'
  BY DEF QueueIsWaiters
<1> QED
  BY <1>1, <1>2, <1>3

-----------------------------------------------------------------------------
(* The invariant *)

\* A free lock without callers satisfies the invariant.
LEMMA SlotStarts == Init => SlotInv
<1> SUFFICES ASSUME Init PROVE SlotInv
  OBVIOUS
<1> USE DEF Init
<1>1. LockTyped
  <2>1. <<>> \in Seq(Ops)
    OBVIOUS
  <2> QED
    BY <2>1 DEF LockTyped, Status
<1>2. MutualExclusion /\ HeldByRunner
  BY DEF MutualExclusion, HeldByRunner
<1>3. NoLostWakeup /\ WokenMeansFree /\ NoSpuriousRejection
  BY DEF NoLostWakeup, WokenMeansFree, NoSpuriousRejection
<1>4. QueueIsWaiters
  BY DEF QueueIsWaiters
<1> QED
  BY <1>1, <1>2, <1>3, <1>4 DEF SlotInv, LockInv

\* A step of an explicit operation.
LEMMA SerializedKeeps ==
    ASSUME SlotInv, NEW e \in Explicit, Serialized(e)
    PROVE  SlotInv'
<1> e \in Ops
  BY DEF Ops
<1> USE DEF SlotInv
<1>t. status \in [Ops -> Status] /\ Explicit \subseteq Ops
  BY DEF LockInv, LockTyped, Ops
<1>1. CASE Reject(e)
  <2>1. LockInv'
    BY <1>1, StatusOnlyKeeps DEF Reject
  <2>2. NoSpuriousRejection' /\ waiting' \in BOOLEAN
    BY <1>1, <1>t DEF Reject, NoSpuriousRejection
  <2> QED
    BY <2>1, <2>2
<1>2. CASE ReturnError(e)
  <2>1. LockInv'
    BY <1>2, StatusOnlyKeeps DEF ReturnError
  <2>2. NoSpuriousRejection' /\ waiting' \in BOOLEAN
    BY <1>2, <1>t DEF ReturnError, NoSpuriousRejection
  <2> QED
    BY <2>1, <2>2
<1>3. CASE RunNow(e)
  BY <1>3, AcquireKeeps DEF RunNow, NoSpuriousRejection
<1>4. CASE Queue(e)
  <2>1. LockInv'
    BY <1>4, WaitKeeps DEF Queue
  <2>2. status'[e] = "queued"
    BY <1>4, <1>t DEF Queue, Wait
  <2>3. waiting' \in BOOLEAN
    BY <1>4 DEF Queue, LockInv, LockTyped
  <2> QED
    BY <2>1, <2>2, <2>3 DEF NoSpuriousRejection
<1>5. CASE TakeTurn(e)
  BY <1>5, AwakeKeeps DEF TakeTurn, NoSpuriousRejection
<1>6. CASE Complete(e)
  BY <1>6, ReleaseKeeps DEF Complete, NoSpuriousRejection
<1> QED
  BY <1>1, <1>2, <1>3, <1>4, <1>5, <1>6 DEF Serialized

\* A step of an event-driven update: it never disturbs a queued explicit one.
LEMMA IncrementalKeeps ==
    ASSUME SlotInv, NEW i \in Incremental, IncrementalStep(i)
    PROVE  SlotInv'
<1> i \in Ops
  BY DEF Ops
<1> USE DEF SlotInv
<1>t. status \in [Ops -> Status] /\ Explicit \subseteq Ops /\ i \notin Explicit
  BY OpsAssumption DEF LockInv, LockTyped, Ops
<1>1. LockInv'
  BY AcquireKeeps, WaitKeeps, AwakeKeeps, ReleaseKeeps
     DEF IncrementalStep, UpdateNow, UpdateQueue, UpdateTurn, UpdateComplete
<1>2. UNCHANGED waiting /\ \E s \in Status : status' = [status EXCEPT ![i] = s]
  BY DEF IncrementalStep, UpdateNow, UpdateQueue, UpdateTurn, UpdateComplete,
         Acquire, Wait, Awake, Release, Status
<1>3. NoSpuriousRejection'
  BY <1>t, <1>2 DEF NoSpuriousRejection
<1> QED
  BY <1>1, <1>2, <1>3

\* Every step of every caller keeps the invariant.
LEMMA SlotStep == SlotInv /\ [Next]_vars => SlotInv'
<1> SUFFICES ASSUME SlotInv, [Next]_vars PROVE SlotInv'
  OBVIOUS
<1>1. CASE UNCHANGED vars
  BY <1>1 DEF vars, SlotInv, LockInv, LockTyped, MutualExclusion, NoLostWakeup,
     WokenMeansFree, HeldByRunner, QueueIsWaiters, NoSpuriousRejection
<1> QED
  BY <1>1, SerializedKeeps, IncrementalKeeps DEF Next

\* The invariant holds in every reachable state.
THEOREM LockInvariant == Spec => []SlotInv
  BY SlotStarts, SlotStep, PTL DEF Spec

\* Every variable keeps its type.
THEOREM LockTypeCorrect == Spec => []TypeOK
<1>1. SlotInv => TypeOK
  BY DEF SlotInv, LockInv, LockTyped, TypeOK
<1> QED
  BY <1>1, LockInvariant, PTL

\* No two graph operations are in flight together, and none without the lock.
THEOREM Mutex == Spec => []MutualExclusion
<1>1. SlotInv => MutualExclusion
  BY DEF SlotInv, LockInv
<1> QED
  BY <1>1, LockInvariant, PTL

\* A free lock never sits in front of sleeping waiters.
THEOREM WakeupNotLost == Spec => []NoLostWakeup
<1>1. SlotInv => NoLostWakeup
  BY DEF SlotInv, LockInv
<1> QED
  BY <1>1, LockInvariant, PTL

\* Whenever the flag would make the next call fail, an explicit call is queued.
THEOREM RejectionIsJustified == Spec => []NoSpuriousRejection
<1>1. SlotInv => NoSpuriousRejection
  BY DEF SlotInv
<1> QED
  BY <1>1, LockInvariant, PTL

\* The waiter queue is exactly the waiting tasks, without duplicates.
THEOREM QueueCorrect == Spec => []QueueIsWaiters
<1>1. SlotInv => QueueIsWaiters
  BY DEF SlotInv, LockInv
<1> QED
  BY <1>1, LockInvariant, PTL

-----------------------------------------------------------------------------
(* OpLock implements SerialOps: rejections and their return are stutters. *)

\* The abstract active operation is the one task that runs, if any.
LEMMA ActiveIsRunner ==
    ASSUME LockInv
    PROVE  /\ \A p \in Ops : status[p] = "running" => Active = p
           /\ (\A p \in Ops : status[p] # "running") => Active = NoOp
           /\ (Active = NoOp) <=> ~ locked
<1>1. ASSUME NEW p \in Ops, status[p] = "running" PROVE Active = p
  BY <1>1 DEF Active, Running, LockInv, MutualExclusion
<1>2. (\A p \in Ops : status[p] # "running") => Active = NoOp
  BY DEF Active, Running
<1>3. (Active = NoOp) <=> ~ locked
  BY <1>1, <1>2, OpsAssumption DEF LockInv, MutualExclusion, HeldByRunner
<1> QED
  BY <1>1, <1>2, <1>3

\* A step that changes no running task leaves the abstract active operation.
LEMMA ActiveUnchanged ==
    ASSUME LockInv, LockInv',
           \A p \in Ops : status[p] = "running" <=> status'[p] = "running"
    PROVE  Active' = Active
<1>1. LockInv' => /\ \A p \in Ops : status'[p] = "running" => Active' = p
                  /\ (\A p \in Ops : status'[p] # "running") => Active' = NoOp
  <2>1. ASSUME LockInv', NEW p \in Ops, status'[p] = "running" PROVE Active' = p
    BY <2>1 DEF Active, Running, LockInv, MutualExclusion
  <2>2. (\A p \in Ops : status'[p] # "running") => Active' = NoOp
    BY DEF Active, Running
  <2> QED
    BY <2>1, <2>2
<1> QED
  BY <1>1, ActiveIsRunner

\* Each step of the coordinator is a step of the serial executor or a stutter.
LEMMA StepRefines ==
    ASSUME SlotInv, SlotInv', [Next]_vars
    PROVE  [Serial!Next]_Serial!vars
<1> LockInv /\ LockInv' /\ LockTyped
  BY DEF SlotInv, LockInv
<1> USE DEF Serial!vars
<1>a. ASSUME NEW p \in Ops, status[p] = "idle", Acquire(p)
      PROVE  Serial!Start(p)
  <2>1. Active = NoOp /\ waiters = <<>>
    BY <1>a, ActiveIsRunner DEF Acquire, LockFree
  <2>2. Active' = p
    BY <1>a DEF Acquire, LockTyped, Active, Running, LockInv, MutualExclusion
  <2> QED
    BY <1>a, <2>1, <2>2 DEF Acquire, Serial!Start
<1>b. ASSUME NEW p \in Ops, status[p] = "idle", Wait(p)
      PROVE  Serial!Admit(p)
  <2>1. Active' = Active
    BY <1>b, ActiveUnchanged DEF Wait, LockTyped
  <2>2. p # Active
    <3>1. Active # NoOp => \E q \in Ops : status[q] = "running" /\ Active = q
      BY ActiveIsRunner
    <3> QED
      BY <1>b, <3>1, OpsAssumption
  <2>3. ~ Serial!Waits(p)
    BY <1>b DEF Serial!Waits, LockInv, QueueIsWaiters
  <2> QED
    BY <1>b, <2>1, <2>2, <2>3 DEF Wait, Serial!Admit
<1>c. ASSUME NEW p \in Ops, Awake(p)
      PROVE  Serial!Begin
  <2>1. Active = NoOp /\ waiters # <<>>
    BY <1>c, ActiveIsRunner DEF Awake, LockInv, WokenMeansFree
  <2>2. Active' = p
    BY <1>c DEF Awake, LockTyped, Active, Running, LockInv, MutualExclusion
  <2> QED
    BY <1>c, <2>1, <2>2 DEF Awake, Serial!Begin
<1>d. ASSUME NEW p \in Ops, status[p] = "running", Release(p)
      PROVE  Serial!Finish
  <2>1. Active = p
    BY <1>d, ActiveIsRunner
  <2>2. \A q \in Ops : status'[q] # "running"
    BY <1>d DEF Release, LockTyped, LockInv, MutualExclusion
  <2>3. Active' = NoOp
    BY <2>2 DEF Active, Running
  <2> QED
    BY <1>d, <2>1, <2>3, OpsAssumption DEF Release, Serial!Finish
<1>1. ASSUME NEW e \in Explicit, Serialized(e) PROVE [Serial!Next]_Serial!vars
  <2> e \in Ops
    BY DEF Ops
  <2>1. CASE Reject(e) \/ ReturnError(e)
    <3>1. Active' = Active
      BY <2>1, ActiveUnchanged DEF Reject, ReturnError, LockTyped
    <3> QED
      BY <2>1, <3>1 DEF Reject, ReturnError
  <2>2. CASE RunNow(e)
    BY <2>2, <1>a DEF RunNow, Serial!Next
  <2>3. CASE Queue(e)
    BY <2>3, <1>b DEF Queue, Serial!Next
  <2>4. CASE TakeTurn(e)
    BY <2>4, <1>c DEF TakeTurn, Serial!Next
  <2>5. CASE Complete(e)
    BY <2>5, <1>d DEF Complete, Serial!Next
  <2> QED
    BY <1>1, <2>1, <2>2, <2>3, <2>4, <2>5 DEF Serialized
<1>2. ASSUME NEW i \in Incremental, IncrementalStep(i) PROVE [Serial!Next]_Serial!vars
  <2> i \in Ops
    BY DEF Ops
  <2> QED
    BY <1>2, <1>a, <1>b, <1>c, <1>d
       DEF IncrementalStep, UpdateNow, UpdateQueue, UpdateTurn, UpdateComplete, Serial!Next
<1>3. CASE UNCHANGED vars
  BY <1>3 DEF vars, Active, Running
<1> QED
  BY <1>1, <1>2, <1>3 DEF Next

\* The coordinator implements serial execution in admission order (the safety
\* part; that admitted operations run at all is left to the model checker).
THEOREM SerialRefinement == Spec => Serial!SafetySpec
<1>1. Init => Serial!Init
  BY DEF Init, Serial!Init, Active, Running
<1>2. SlotInv /\ SlotInv' /\ [Next]_vars => [Serial!Next]_Serial!vars
  BY StepRefines
<1> QED
  BY <1>1, <1>2, LockInvariant, PTL DEF Spec, Serial!SafetySpec


-----------------------------------------------------------------------------
(* Registries and graph *)

Full == job \in FullSyncs

\* The operation at hand is writing what it read of its batch.
Reading == step \in {"nodes", "owner", "unlink", "place"}

InQueue(x) == \E i \in 1..Len(queue) : queue[i] = x

\* An update of a comes before one of y.
Ahead(a, y) == \E i, k \in 1..Len(queue) : i < k /\ queue[i] = a /\ queue[k] = y

RegistriesFit ==
    /\ \A x \in Elements : /\ parents[x] \subseteq Above(x) \cap exists
                           /\ x \notin exists => parents[x] = {}
                           /\ seen[x] \subseteq Above(x)
    /\ \A e \in edges : e[1] \in Above(e[2])

JobFits ==
    /\ job = "none" <=> step = "idle"
    /\ job \in Elements =>
          /\ job \notin Floors /\ layer = LayerOf(job) /\ batch = {job}
          /\ Reading \/ step \in {"delete", "stateNode"}
          /\ step = "stateNode" => job \in Entities
    /\ Full =>
          /\ Reading \/ step \in {"delete", "collect", "finish"}
          /\ step \in {"delete", "collect"} => layer = 0 /\ batch = Elements
          /\ Reading => layer # 0 /\ batch \subseteq Layers[layer]
          /\ step = "finish" => layer = 4
          /\ step = "delete" => job = "rebuild"
    /\ step \in {"owner", "unlink"} => layer = 4
    /\ step = "finish" => Full
    /\ \A i \in 1..Len(queue) : queue[i] \notin Floors
    /\ failed \cap Floors = {}

RegistryTyped == RegistryTypeOK /\ RegistriesFit /\ JobFits

-----------------------------------------------------------------------------
(* What was read, and what of it is written *)

ReadNow(y) == job = y \/ (Full /\ step # "finish" /\ layer = LayerOf(y))

\* What is no longer as it was read has been announced again.
ReadIsCurrent ==
    \A y \in Elements \ Floors : ReadNow(y) =>
        \/ InQueue(y)
        \/ IF y \in batch /\ Reading THEN y \in exists /\ seen[y] = parents[y] ELSE y \notin exists

BatchIsWritten ==
    /\ step \in {"owner", "unlink", "place"} => batch \subseteq nodes
    /\ step \in {"unlink", "place"} =>
          \A y \in batch, a \in Devices : a \in seen[y] \cap nodes => <<a, y>> \in edges

\* A full sync has come to the layer of a, or to the end of that of y.
HasRead(a) == IF Full THEN layer >= LayerOf(a) ELSE ~ broken

HasPlaced(y) == IF Full THEN layer > LayerOf(y) \/ step = "finish" ELSE ~ broken

-----------------------------------------------------------------------------
(* Debts *)

Listed(x) == InQueue(x) \/ (x \in failed /\ job # x)

\* A node whose element is gone.
LeftOver ==
    \A x \in Areas \cup Devices : x \in nodes \ exists =>
        Listed(x) \/ (job = x /\ step = "delete")

\* An element without a node.
Missing ==
    \A x \in Areas \cup Devices : HasRead(x) /\ x \in exists \ nodes =>
        Listed(x) \/ (step = "nodes" /\ x \in batch)

Stays(a) == a \in nodes /\ ~ (job = a /\ step = "delete")

\* Failures of updates do not count while a full sync is at work.
Doubted(a) == a \in suspect /\ ~ Full

\* The node of a is there, or it is still to be written.
NodeOwed ==
    \A a \in Areas \cup Devices : HasRead(a) /\ a \in exists =>
        \/ Stays(a) \/ Doubted(a) \/ InQueue(a)
        \/ step = "nodes" /\ a \in batch

\* It is written before what it contains is.
NodeInTime ==
    \A y \in Elements : \A a \in parents[y] \ Floors : HasRead(a) =>
        \/ Stays(a) \/ Doubted(a) \/ Ahead(a, y)
        \/ step = "nodes" /\ a \in batch /\ (Full \/ InQueue(y))

\* An edge that is called for.
EdgeOwed ==
    \A y \in Elements : \A a \in parents[y] : HasPlaced(y) =>
        \/ Listed(y) \/ Doubted(a) \/ a \notin nodes
        \/ job = y /\ Reading /\ a \in seen[y]
        \/ job # y /\ <<a, y>> \in edges

\* An edge from an area that is not called for any more.
EdgeLeftOver ==
    \A e \in edges : e[1] \in Areas /\ e[2] \in Entities \cap exists /\ e \notin Required =>
        Listed(e[2]) \/ (job = e[2] /\ step \in {"nodes", "owner", "unlink"})

-----------------------------------------------------------------------------
(* A rebuild during which, and after which, the registries stand still *)

StandsStill ==
    exact # "no" /\ job # "none" =>
        /\ seen = parents
        /\ Reading => batch = IF Full THEN exists \cap Layers[layer] ELSE {job} \cap exists
        /\ job \in Elements /\ ~ Reading => job \notin exists

Rebuilding ==
    exact = "maybe" =>
        /\ job = "rebuild"
        /\ step # "delete" =>
              /\ edges \subseteq Required
              /\ \A x \in exists \ nodes : /\ layer <= LayerOf(x) /\ step # "finish"
                                           /\ layer = LayerOf(x) => step = "nodes"
              /\ \A e \in Required \ edges : layer <= LayerOf(e[2]) /\ step # "finish"

Rebuilt ==
    exact = "yes" =>
        /\ job # "rebuild"
        /\ edges \subseteq Required
        /\ exists \subseteq nodes
        /\ \A e \in Required \ edges :
              \/ e[2] \in failed /\ job # e[2]
              \/ job = e[2] /\ Reading
              \/ job = "resync" /\ layer = 4 /\ step = "place" /\ e[1] \in Areas /\ e[2] \in Entities

RegistryInv ==
    /\ RegistryTyped
    /\ ReadIsCurrent
    /\ BatchIsWritten
    /\ LeftOver
    /\ Missing
    /\ NodeOwed
    /\ NodeInTime
    /\ EdgeOwed
    /\ EdgeLeftOver
    /\ StandsStill
    /\ Rebuilding
    /\ Rebuilt
-----------------------------------------------------------------------------
(* Layers and the queue *)

\* No element is in two layers.
LEMMA LayersApart ==
    /\ Floors \cap Areas = {} /\ Floors \cap Devices = {} /\ Floors \cap Entities = {}
    /\ Areas \cap Devices = {} /\ Areas \cap Entities = {} /\ Devices \cap Entities = {}
    /\ Layers[1] = Floors /\ Layers[2] = Areas /\ Layers[3] = Devices /\ Layers[4] = Entities
<1>1. Layers[1] = Floors /\ Layers[2] = Areas /\ Layers[3] = Devices /\ Layers[4] = Entities
  BY DEF Layers
<1>2. \A i, j \in 1..4 : i # j => Layers[i] \cap Layers[j] = {}
  BY RegistryAssumption
<1> HIDE DEF Layers
<1> QED
  BY <1>1, <1>2

\* Every element is in one layer.
LEMMA LayerOfElement ==
    ASSUME NEW x \in Elements
    PROVE  /\ LayerOf(x) \in 1..4
           /\ \A i \in 1..4 : x \in Layers[i] <=> i = LayerOf(x)
           /\ x \in Floors <=> LayerOf(x) = 1
           /\ x \in Areas <=> LayerOf(x) = 2
           /\ x \in Devices <=> LayerOf(x) = 3
           /\ x \in Entities <=> LayerOf(x) = 4
<1>1. \E i \in 1..4 : x \in Layers[i]
  BY LayersApart DEF Elements
<1>2. LayerOf(x) \in 1..4 /\ x \in Layers[LayerOf(x)]
  BY <1>1 DEF LayerOf
<1>3. \A i \in 1..4 : x \in Layers[i] => i = LayerOf(x)
  BY <1>2, RegistryAssumption
<1> QED
  BY <1>2, <1>3, LayersApart

\* What contains an element is one of the layers before.
LEMMA AboveIsBefore ==
    ASSUME NEW y \in Elements, NEW a \in Above(y)
    PROVE  /\ a \in Elements /\ LayerOf(a) \in 1..4 /\ LayerOf(y) \in 1..4 /\ LayerOf(a) < LayerOf(y)
           /\ a \notin Entities /\ y \notin Floors
           /\ a \in Devices => y \in Entities
           /\ a \notin Devices => a \in Floors \cup Areas
           /\ a \in Floors => y \in Areas
<1>1. a \in Elements
  BY DEF Above, Elements
<1> QED
  BY <1>1, LayersApart, LayerOfElement DEF Above

\* No element has the name of a full sync.
LEMMA NotASync ==
    ASSUME NEW x \in Elements
    PROVE  x \notin FullSyncs /\ x # "none"
  BY RegistryAssumption DEF FullSyncs

\* What appending to the queue does.
LEMMA QueueGrows ==
    ASSUME NEW S, queue \in Seq(S), NEW q \in Seq(S), queue' = queue \o q
    PROVE  /\ queue' \in Seq(S)
           /\ \A i \in 1..Len(queue') : (\E k \in 1..Len(queue) : queue'[i] = queue[k]) \/ \E k \in 1..Len(q) : queue'[i] = q[k]
           /\ \A x : InQueue(x) => InQueue(x)'
           /\ \A a, y : Ahead(a, y) => Ahead(a, y)'
           /\ \A i \in 1..Len(q) : InQueue(q[i])'
           /\ \A a : \A i \in 1..Len(q) : InQueue(a) => Ahead(a, q[i])'
<1>1. /\ Len(queue) \in Nat /\ Len(q) \in Nat /\ queue' \in Seq(S) /\ Len(queue') = Len(queue) + Len(q)
      /\ \A i \in 1..Len(queue) : queue'[i] = queue[i]
      /\ \A i \in 1..Len(q) : queue'[Len(queue) + i] = q[i]
  OBVIOUS
<1>2. \A i \in 1..Len(queue') : (\E k \in 1..Len(queue) : queue'[i] = queue[k]) \/ \E k \in 1..Len(q) : queue'[i] = q[k]
  <2> SUFFICES ASSUME NEW i \in 1..Len(queue')
               PROVE  (\E k \in 1..Len(queue) : queue'[i] = queue[k]) \/ \E k \in 1..Len(q) : queue'[i] = q[k]
    OBVIOUS
  <2>1. CASE i \in 1..Len(queue)
    BY <1>1, <2>1
  <2>2. CASE i \notin 1..Len(queue)
    <3>1. i - Len(queue) \in 1..Len(q) /\ Len(queue) + (i - Len(queue)) = i
      BY <1>1, <2>2
    <3> QED
      BY <1>1, <3>1
  <2> QED
    BY <2>1, <2>2
<1>3. \A x : InQueue(x) => InQueue(x)'
  BY <1>1 DEF InQueue
<1>4. \A a, y : Ahead(a, y) => Ahead(a, y)'
  BY <1>1 DEF Ahead
<1>5. ASSUME NEW i \in 1..Len(q)
      PROVE  InQueue(q[i])' /\ \A a : InQueue(a) => Ahead(a, q[i])'
  <2>1. Len(queue) + i \in 1..Len(queue') /\ queue'[Len(queue) + i] = q[i]
    BY <1>1
  <2>2. ASSUME NEW a, NEW k \in 1..Len(queue), queue[k] = a PROVE Ahead(a, q[i])'
    <3>1. k \in 1..Len(queue') /\ k < Len(queue) + i /\ queue'[k] = a
      BY <1>1, <2>2
    <3> QED
      BY <2>1, <3>1 DEF Ahead
  <2> QED
    BY <2>1, <2>2 DEF InQueue
<1> QED
  BY <1>1, <1>2, <1>3, <1>4, <1>5

\* What taking its head does.
LEMMA QueueShrinks ==
    ASSUME NEW S, queue \in Seq(S), queue # <<>>, queue' = Tail(queue)
    PROVE  /\ queue' \in Seq(S) /\ Head(queue) \in S
           /\ \A i \in 1..Len(queue') : \E k \in 1..Len(queue) : queue'[i] = queue[k]
           /\ \E k \in 1..Len(queue) : Head(queue) = queue[k]
           /\ \A x : InQueue(x) /\ x # Head(queue) => InQueue(x)'
           /\ \A a, y : Ahead(a, y) => InQueue(y)'
           /\ \A a, y : Ahead(a, y) /\ a # Head(queue) => Ahead(a, y)'
<1>1. /\ Len(queue) \in Nat \ {0} /\ queue' \in Seq(S) /\ Len(queue') = Len(queue) - 1
      /\ \A i \in 1..Len(queue') : queue'[i] = queue[i + 1]
      /\ Head(queue) = queue[1] /\ Head(queue) \in S
  OBVIOUS
<1>2. ASSUME NEW i \in 1..Len(queue), i # 1
      PROVE  i - 1 \in 1..Len(queue') /\ queue'[i - 1] = queue[i]
  <2>1. i - 1 \in 1..Len(queue') /\ (i - 1) + 1 = i
    BY <1>1, <1>2
  <2> QED
    BY <1>1, <2>1
<1>3. \A x : InQueue(x) /\ x # Head(queue) => InQueue(x)'
  BY <1>1, <1>2 DEF InQueue
<1>4. ASSUME NEW a, NEW y, NEW i \in 1..Len(queue), NEW k \in 1..Len(queue), i < k, queue[i] = a, queue[k] = y
      PROVE  InQueue(y)' /\ (a # Head(queue) => Ahead(a, y)')
  <2>1. k # 1 /\ k - 1 \in 1..Len(queue') /\ queue'[k - 1] = y
    BY <1>2, <1>4
  <2>2. ASSUME a # Head(queue) PROVE Ahead(a, y)'
    <3>1. i # 1 /\ i - 1 \in 1..Len(queue') /\ queue'[i - 1] = a /\ i - 1 < k - 1
      BY <1>1, <1>2, <1>4, <2>2
    <3> QED
      BY <2>1, <3>1 DEF Ahead
  <2> QED
    BY <2>1, <2>2 DEF InQueue
<1>5. ASSUME NEW a, NEW y, Ahead(a, y)
      PROVE  InQueue(y)' /\ (a # Head(queue) => Ahead(a, y)')
  <2>1. PICK i \in 1..Len(queue), k \in 1..Len(queue) : i < k /\ queue[i] = a /\ queue[k] = y
    BY <1>5 DEF Ahead
  <2> QED
    BY <1>4, <2>1
<1>6. \A i \in 1..Len(queue') : \E k \in 1..Len(queue) : queue'[i] = queue[k]
  <2>1. \A i \in 1..Len(queue') : i + 1 \in 1..Len(queue)
    BY <1>1
  <2> QED
    BY <1>1, <2>1
<1> QED
  BY <1>1, <1>3, <1>5, <1>6

\* What is ahead of something is in the queue, and so is what it is ahead of.
LEMMA AheadIsQueued == \A a, y : Ahead(a, y) => InQueue(a) /\ InQueue(y)
  BY DEF Ahead, InQueue
-----------------------------------------------------------------------------
(* Home Assistant *)

sharedVars == <<graphVars, jobVars, failed, suspect, broken>>

\* A step of the registries: what it changes it announces, and what becomes the
\* child of something announced comes behind it.
LEMMA RegistryKeeps ==
    ASSUME RegistryInv, UNCHANGED sharedVars, exact' = "no", RegistryTyped',
           \A x : InQueue(x) => InQueue(x)', \A a, y : Ahead(a, y) => Ahead(a, y)',
           \A y \in Elements \ Floors :
               \/ InQueue(y)'
               \/ (y \in exists' <=> y \in exists) /\ parents'[y] = parents[y],
           \A y \in Elements : \A a \in parents'[y] \ parents[y] :
               a \in exists /\ (InQueue(a) => Ahead(a, y)')
    PROVE  RegistryInv'
<1> USE DEF RegistryInv, sharedVars, graphVars, jobVars
<1>1. ReadIsCurrent'
  BY DEF ReadIsCurrent, ReadNow, Reading, Full
<1>2. BatchIsWritten'
  BY DEF BatchIsWritten
<1>3. /\ \A x : HasRead(x)' <=> HasRead(x)
      /\ \A x : HasPlaced(x)' <=> HasPlaced(x)
      /\ \A x : Stays(x)' <=> Stays(x)
      /\ \A x : Doubted(x)' <=> Doubted(x)
      /\ \A x : Listed(x) => Listed(x)'
  BY DEF HasRead, HasPlaced, Full, Stays, Doubted, Listed
<1>4. Areas \cup Devices \subseteq Elements \ Floors
  BY LayersApart DEF Elements
<1>5. \A x : InQueue(x)' => Listed(x)'
  BY DEF Listed
<1>6. LeftOver'
  BY <1>3, <1>4, <1>5 DEF LeftOver
<1>7. Missing'
  BY <1>3, <1>4, <1>5 DEF Missing
<1>8. NodeOwed'
  BY <1>3, <1>4 DEF NodeOwed
<1>9. NodeInTime'
  <2> SUFFICES ASSUME NEW y \in Elements, NEW a \in parents'[y] \ Floors, HasRead(a)'
               PROVE  \/ Stays(a)' \/ Doubted(a)' \/ Ahead(a, y)'
                      \/ step' = "nodes" /\ a \in batch' /\ (Full' \/ InQueue(y)')
    BY DEF NodeInTime
  <2>1. CASE a \in parents[y]
    BY <1>3, <2>1 DEF NodeInTime, Full
  <2>2. CASE a \notin parents[y]
    <3>1. parents'[y] # parents[y] /\ a \in exists /\ (InQueue(a) => Ahead(a, y)')
      BY <2>2
    <3>2. a \in Above(y)
      BY DEF RegistryTyped, RegistriesFit
    <3>3. InQueue(y)' /\ a \in Areas \cup Devices
      BY <3>1, <3>2, AboveIsBefore
    <3> QED
      BY <1>3, <3>1, <3>3 DEF NodeOwed
  <2> QED
    BY <2>1, <2>2
<1>10. EdgeOwed'
  <2> SUFFICES ASSUME NEW y \in Elements, NEW a \in parents'[y], HasPlaced(y)', ~ InQueue(y)'
               PROVE  \/ Listed(y)' \/ Doubted(a)' \/ a \notin nodes'
                      \/ job' = y /\ Reading' /\ a \in seen'[y]
                      \/ job' # y /\ <<a, y>> \in edges'
    BY <1>5 DEF EdgeOwed
  <2>1. a \in Above(y)
    BY DEF RegistryTyped, RegistriesFit
  <2>2. parents'[y] = parents[y]
    BY <2>1, AboveIsBefore
  <2> QED
    BY <1>3, <2>2 DEF EdgeOwed, Reading
<1>11. EdgeLeftOver'
  <2> SUFFICES ASSUME NEW e \in edges, e[1] \in Areas, e[2] \in Entities, e[2] \in exists', e \notin Required',
                      ~ InQueue(e[2])'
               PROVE  Listed(e[2])' \/ (job' = e[2] /\ step' \in {"nodes", "owner", "unlink"})
    BY <1>5 DEF EdgeLeftOver
  <2>1. e[2] \in Elements \ Floors
    BY LayersApart DEF Elements
  <2>2. e[2] \in exists /\ parents'[e[2]] = parents[e[2]]
    BY <2>1
  <2>3. e \notin Required
    BY <2>1, <2>2 DEF Required
  <2> QED
    BY <1>3, <2>2, <2>3 DEF EdgeLeftOver
<1>12. StandsStill' /\ Rebuilding' /\ Rebuilt'
  BY DEF StandsStill, Rebuilding, Rebuilt
<1> QED
  BY <1>1, <1>2, <1>6, <1>7, <1>8, <1>9, <1>10, <1>11, <1>12

QueueTyped ==
    /\ queue \in Seq(Elements \cup FullSyncs)
    /\ \A i \in 1..Len(queue) : queue[i] \notin Floors

\* A registry event queues the element, then those whose entries lost a reference to it;
\* nothing leaves the queue or changes places.
LEMMA Announced ==
    ASSUME QueueTyped, NEW x \in Elements, NEW q \in Seq(Elements),
           \A i \in 1..Len(q) : q[i] \notin Floors, Announce(x, q)
    PROVE  /\ QueueTyped'
           /\ \A z : InQueue(z) => InQueue(z)'
           /\ \A a, y : Ahead(a, y) => Ahead(a, y)'
           /\ \A i \in 1..Len(q) : InQueue(q[i])'
           /\ x \notin Floors => InQueue(x)' /\ \A a : InQueue(a) => Ahead(a, x)'
<1> DEFINE r == IF x \in Floors THEN q ELSE <<x>> \o q
<1>1. /\ r \in Seq(Elements \cup FullSyncs)
      /\ \A i \in 1..Len(r) : r[i] \notin Floors
      /\ \A i \in 1..Len(q) : \E k \in 1..Len(r) : r[k] = q[i]
      /\ x \notin Floors => 1 \in 1..Len(r) /\ r[1] = x
  <2>1. CASE x \in Floors
    BY <2>1
  <2>2. CASE x \notin Floors
    <3>1. /\ r \in Seq(Elements) /\ Len(r) = Len(q) + 1 /\ r[1] = x /\ Len(q) \in Nat
          /\ \A i \in 1..Len(q) : r[i + 1] = q[i]
      BY <2>2
    <3>2. \A i \in 1..Len(r) : i = 1 \/ (i - 1 \in 1..Len(q) /\ (i - 1) + 1 = i)
      BY <3>1
    <3>3. \A i \in 1..Len(r) : r[i] \notin Floors
      BY <2>2, <3>1, <3>2
    <3>4. \A i \in 1..Len(q) : i + 1 \in 1..Len(r)
      BY <3>1
    <3> HIDE DEF r
    <3> QED
      BY <2>2, <3>1, <3>3, <3>4
  <2> QED
    BY <2>1, <2>2
<1>2. queue' = queue \o r
  BY DEF Announce
<1> HIDE DEF r
<1>3. queue \in Seq(Elements \cup FullSyncs)
  BY DEF QueueTyped
<1>4. /\ QueueTyped'
      /\ \A z : InQueue(z) => InQueue(z)'
      /\ \A a, y : Ahead(a, y) => Ahead(a, y)'
      /\ \A i \in 1..Len(r) : InQueue(r[i])'
      /\ \A a : \A i \in 1..Len(r) : InQueue(a) => Ahead(a, r[i])'
  <2>1. /\ queue' \in Seq(Elements \cup FullSyncs)
        /\ \A i \in 1..Len(queue') : \/ \E k \in 1..Len(queue) : queue'[i] = queue[k]
                                     \/ \E k \in 1..Len(r) : queue'[i] = r[k]
        /\ \A z : InQueue(z) => InQueue(z)'
        /\ \A a, y : Ahead(a, y) => Ahead(a, y)'
        /\ \A i \in 1..Len(r) : InQueue(r[i])'
        /\ \A a : \A i \in 1..Len(r) : InQueue(a) => Ahead(a, r[i])'
    BY <1>1, <1>2, <1>3, QueueGrows
  <2>2. \A i \in 1..Len(queue') : queue'[i] \notin Floors
    BY <1>1, <2>1 DEF QueueTyped
  <2> QED
    BY <2>1, <2>2 DEF QueueTyped
<1>5. \A i \in 1..Len(q) : InQueue(q[i])'
  <2> TAKE i \in 1..Len(q)
  <2>1. PICK k \in 1..Len(r) : r[k] = q[i]
    BY <1>1
  <2> QED
    BY <1>4, <2>1
<1> QED
  BY <1>1, <1>4, <1>5

\* The same, where no other entry is touched.
LEMMA AnnouncedAlone ==
    ASSUME QueueTyped, NEW x \in Elements, Announce(x, <<>>)
    PROVE  /\ QueueTyped'
           /\ \A z : InQueue(z) => InQueue(z)'
           /\ \A a, y : Ahead(a, y) => Ahead(a, y)'
           /\ x \notin Floors => InQueue(x)' /\ \A a : InQueue(a) => Ahead(a, x)'
<1>1. <<>> \in Seq(Elements) /\ \A i \in 1..Len(<<>>) : <<>>[i] \notin Floors
  OBVIOUS
<1> QED
  BY <1>1, Announced

\* The elements below one, in any order.
LEMMA AnyOrder ==
    ASSUME NEW S, IsFiniteSet(S), NEW q \in SetToSeqs(S)
    PROVE  /\ q \in Seq(S)
           /\ \A i \in 1..Len(q) : q[i] \in S
           /\ \A x \in S : \E i \in 1..Len(q) : q[i] = x
<1>1. Cardinality(S) \in Nat
  BY FS_CardinalityType
<1>2. q \in [1..Cardinality(S) -> S] /\ Len(q) = Cardinality(S)
  BY <1>1 DEF SetToSeqs
<1>3. q \in Injection(1..Cardinality(S), S)
  BY <1>1, <1>2 DEF SetToSeqs, Injection, IsInjective
<1>4. q \in Surjection(1..Cardinality(S), S)
  BY <1>1, <1>3, FS_Injection, FS_Interval
<1> QED
  BY <1>1, <1>2, <1>4 DEF Surjection

\* What a step leaves of types and fits when it only touches the registries and
\* the queue.
LEMMA TypedOutside ==
    ASSUME RegistryTyped, UNCHANGED sharedVars, QueueTyped',
           exists' \subseteq Elements, parents' \in [Elements -> SUBSET Elements],
           \A x \in Elements : /\ parents'[x] \subseteq Above(x) \cap exists'
                               /\ x \notin exists' => parents'[x] = {},
           changes' \in 0..MaxChanges, exact' \in {"yes", "maybe", "no"},
           syncs' \in 0..MaxSyncs, failures' \in 0..MaxFailures
    PROVE  RegistryTyped'
<1> USE DEF RegistryTyped, sharedVars, graphVars, jobVars
<1>1. RegistryTypeOK'
  BY DEF RegistryTypeOK, QueueTyped
<1>2. RegistriesFit'
  BY DEF RegistriesFit
<1>3. JobFits'
  BY DEF JobFits, QueueTyped, Full, Reading
<1> QED
  BY <1>1, <1>2, <1>3

\* What the invariant says of the registries and the bounds.
LEMMA TypedFacts ==
    ASSUME RegistryTyped
    PROVE  /\ QueueTyped /\ exists \subseteq Elements /\ parents \in [Elements -> SUBSET Elements]
           /\ \A x \in Elements : /\ parents[x] \subseteq Above(x) \cap exists
                                  /\ x \notin exists => parents[x] = {}
           /\ changes \in 0..MaxChanges /\ syncs \in 0..MaxSyncs /\ failures \in 0..MaxFailures
           /\ exact \in {"yes", "maybe", "no"}
  BY DEF RegistryTyped, RegistryTypeOK, QueueTyped, JobFits, RegistriesFit

\* A registry change touches neither the graph nor the operation at hand.
LEMMA ChangedIsTyped ==
    ASSUME RegistryTyped, Changed
    PROVE  /\ UNCHANGED sharedVars /\ exact' = "no" /\ UNCHANGED <<syncs, failures>>
           /\ changes' \in 0..MaxChanges
  BY RegistryAssumption DEF Changed, RegistryTyped, RegistryTypeOK, sharedVars, graphVars, jobVars

\* A new entry is announced, and nothing names it yet.
LEMMA RegisterKeeps == ASSUME RegistryInv, NEW x \in Elements, Register(x) PROVE RegistryInv'
<1>1. RegistryTyped /\ Changed /\ x \notin exists /\ exists' = exists \cup {x} /\ parents' = parents
      /\ Announce(x, <<>>)
  BY DEF RegistryInv, Register
<1>2. /\ UNCHANGED sharedVars /\ exact' = "no" /\ UNCHANGED <<syncs, failures>>
      /\ changes' \in 0..MaxChanges
  BY <1>1, ChangedIsTyped
<1>3. /\ QueueTyped'
      /\ \A z : InQueue(z) => InQueue(z)'
      /\ \A a, y : Ahead(a, y) => Ahead(a, y)'
      /\ x \notin Floors => InQueue(x)'
  BY <1>1, TypedFacts, AnnouncedAlone
<1>4. RegistryTyped'
  BY <1>1, <1>2, <1>3, TypedFacts, TypedOutside
<1> QED
  BY <1>1, <1>2, <1>3, <1>4, RegistryKeeps

\* An entry that moves is announced, behind whatever is queued of its new place.
LEMMA MoveKeeps == ASSUME RegistryInv, NEW x \in Elements, NEW P \in Places[x], Move(x, P) PROVE RegistryInv'
<1>1. RegistryTyped /\ Changed /\ x \in exists /\ exists' = exists /\ P \subseteq exists
      /\ parents' = [parents EXCEPT ![x] = P] /\ P # parents[x] /\ Announce(x, <<>>)
  BY DEF RegistryInv, Move
<1>2. /\ UNCHANGED sharedVars /\ exact' = "no" /\ UNCHANGED <<syncs, failures>>
      /\ changes' \in 0..MaxChanges
  BY <1>1, ChangedIsTyped
<1>3. P \subseteq Above(x)
  BY DEF Places
<1>4. x \notin Floors
  <2>1. CASE P = {}
    BY <1>1, <2>1, TypedFacts, AboveIsBefore
  <2>2. CASE P # {}
    BY <1>3, <2>2, AboveIsBefore
  <2> QED
    BY <2>1, <2>2
<1>5. /\ QueueTyped'
      /\ \A z : InQueue(z) => InQueue(z)'
      /\ \A a, y : Ahead(a, y) => Ahead(a, y)'
      /\ InQueue(x)' /\ \A a : InQueue(a) => Ahead(a, x)'
  BY <1>1, <1>4, TypedFacts, AnnouncedAlone
<1>6. RegistryTyped'
  BY <1>1, <1>2, <1>3, <1>5, TypedFacts, TypedOutside DEF Elements
<1>7. \A y \in Elements : IF y = x THEN parents'[y] = P ELSE parents'[y] = parents[y]
  BY <1>1, TypedFacts
<1> QED
  BY <1>1, <1>2, <1>5, <1>6, <1>7, RegistryKeeps

\* An entry that goes is announced, and so is every entry that named it.
LEMMA UnregisterKeeps == ASSUME RegistryInv, NEW x \in Elements, Unregister(x) PROVE RegistryInv'
<1>1. /\ RegistryTyped /\ Changed /\ x \in exists /\ exists' = exists \ {x}
      /\ parents' = [y \in Elements |-> IF y = x THEN {} ELSE parents[y] \ {x}]
  BY DEF RegistryInv, Unregister
<1>2. PICK q \in SetToSeqs(Below(x)) : Announce(x, q)
  BY DEF Unregister
<1>3. Below(x) \subseteq Elements \ Floors /\ IsFiniteSet(Below(x))
  <2>1. Below(x) \subseteq Elements
    BY <1>1, TypedFacts DEF Below
  <2>2. ASSUME NEW y \in Below(x) PROVE y \notin Floors
    BY <1>1, <2>1, TypedFacts, AboveIsBefore DEF Below
  <2> QED
    BY <2>1, <2>2, RegistryAssumption, FS_Subset
<1>4. /\ q \in Seq(Elements)
      /\ \A i \in 1..Len(q) : q[i] \notin Floors
      /\ \A y \in Below(x) : \E i \in 1..Len(q) : q[i] = y
  <2>1. q \in Seq(Below(x)) /\ (\A i \in 1..Len(q) : q[i] \in Below(x))
        /\ \A y \in Below(x) : \E i \in 1..Len(q) : q[i] = y
    BY <1>3, AnyOrder
  <2> QED
    BY <1>3, <2>1
<1>5. /\ UNCHANGED sharedVars /\ exact' = "no" /\ UNCHANGED <<syncs, failures>>
      /\ changes' \in 0..MaxChanges
  BY <1>1, ChangedIsTyped
<1>6. /\ QueueTyped'
      /\ \A z : InQueue(z) => InQueue(z)'
      /\ \A a, y : Ahead(a, y) => Ahead(a, y)'
      /\ \A i \in 1..Len(q) : InQueue(q[i])'
      /\ x \notin Floors => InQueue(x)'
  BY <1>1, <1>2, <1>4, TypedFacts, Announced
<1>7. /\ parents' \in [Elements -> SUBSET Elements]
      /\ \A y \in Elements : /\ parents'[y] \subseteq parents[y] \ {x}
                             /\ y # x /\ x \notin parents[y] => parents'[y] = parents[y]
                             /\ y = x => parents'[y] = {}
  BY <1>1, TypedFacts
<1>8. RegistryTyped'
  <2>1. \A y \in Elements : /\ parents'[y] \subseteq Above(y) \cap exists'
                            /\ y \notin exists' => parents'[y] = {}
    BY <1>1, <1>7, TypedFacts
  <2>2. exists' \subseteq Elements
    BY <1>1, TypedFacts
  <2> QED
    BY <1>1, <1>5, <1>6, <1>7, <2>1, <2>2, TypedFacts, TypedOutside
<1>9. ASSUME NEW y \in Elements \ Floors, ~ InQueue(y)'
      PROVE  (y \in exists' <=> y \in exists) /\ parents'[y] = parents[y]
  <2>1. y # x
    BY <1>6, <1>9
  <2>2. y \notin Below(x)
    BY <1>4, <1>6, <1>9
  <2>3. x \notin parents[y]
    BY <1>1, <2>2, TypedFacts DEF Below
  <2> QED
    BY <1>1, <1>7, <2>1, <2>3
<1>10. \A y \in Elements : parents'[y] \ parents[y] = {}
  BY <1>7
<1> QED
  BY <1>5, <1>6, <1>8, <1>9, <1>10, RegistryKeeps
-----------------------------------------------------------------------------
(* Operations are requested and begin *)

\* A longer queue owes no less.
LEMMA LongerQueueKeeps ==
    ASSUME RegistryInv, UNCHANGED <<sharedVars, exists, parents, changes, exact, failures>>, syncs' \in 0..MaxSyncs,
           NEW k \in Elements \cup FullSyncs, k \notin Floors, queue' = Append(queue, k)
    PROVE  RegistryInv'
<1> USE DEF RegistryInv
<1>1. /\ queue \in Seq(Elements \cup FullSyncs) /\ \A i \in 1..Len(queue) : queue[i] \notin Floors
      /\ queue' = queue \o <<k>> /\ <<k>> \in Seq(Elements \cup FullSyncs)
      /\ \A i \in 1..Len(<<k>>) : <<k>>[i] = k
  BY TypedFacts DEF QueueTyped
<1>2. /\ queue' \in Seq(Elements \cup FullSyncs)
      /\ \A i \in 1..Len(queue') : \/ \E j \in 1..Len(queue) : queue'[i] = queue[j]
                                   \/ \E j \in 1..Len(<<k>>) : queue'[i] = <<k>>[j]
      /\ \A z : InQueue(z) => InQueue(z)'
      /\ \A a, y : Ahead(a, y) => Ahead(a, y)'
  BY <1>1, QueueGrows
<1>3. QueueTyped'
  <2>1. \A i \in 1..Len(queue') : queue'[i] \notin Floors
    BY <1>1, <1>2
  <2> QED
    BY <1>2, <2>1 DEF QueueTyped
<1>4. RegistryTyped'
  BY <1>3, TypedFacts, TypedOutside
<1> USE DEF sharedVars, graphVars, jobVars
<1>5. ReadIsCurrent' /\ BatchIsWritten'
  BY <1>2 DEF ReadIsCurrent, ReadNow, Reading, Full, BatchIsWritten
<1>6. /\ \A x : HasRead(x)' <=> HasRead(x)
      /\ \A x : HasPlaced(x)' <=> HasPlaced(x)
      /\ \A x : Stays(x)' <=> Stays(x)
      /\ \A x : Doubted(x)' <=> Doubted(x)
      /\ \A x : Listed(x) => Listed(x)'
      /\ Full' <=> Full
  BY <1>2 DEF HasRead, HasPlaced, Full, Stays, Doubted, Listed
<1>7. LeftOver' /\ Missing'
  BY <1>6 DEF LeftOver, Missing
<1>8. NodeOwed' /\ NodeInTime'
  BY <1>2, <1>6 DEF NodeOwed, NodeInTime
<1>9. EdgeOwed' /\ EdgeLeftOver'
  BY <1>6 DEF EdgeOwed, EdgeLeftOver, Reading, Required
<1>10. StandsStill' /\ Rebuilding' /\ Rebuilt'
  BY DEF StandsStill, Rebuilding, Rebuilt, Full, Reading, Required
<1> QED
  BY <1>4, <1>5, <1>7, <1>8, <1>9, <1>10

\* A full sync in the queue is no update of anything.
LEMMA RequestKeeps == ASSUME RegistryInv, NEW k \in FullSyncs, RequestSync(k) PROVE RegistryInv'
<1>1. syncs' \in 0..MaxSyncs
  BY RegistryAssumption, TypedFacts DEF RegistryInv, RequestSync
<1>2. k \notin Floors
  BY NotASync DEF Elements
<1> QED
  BY <1>1, <1>2, LongerQueueKeeps DEF RequestSync, haVars, history, sharedVars, RegistryInv

\* An update that is asked for once more is one more in the queue.
LEMMA RetryKeeps == ASSUME RegistryInv, NEW x \in Elements, Retry(x) PROVE RegistryInv'
<1>1. x \notin Floors
  BY DEF Retry
<1>2. syncs' \in 0..MaxSyncs
  BY TypedFacts DEF RegistryInv, Retry
<1> QED
  BY <1>1, <1>2, LongerQueueKeeps DEF Retry, haVars, history, sharedVars

\* The types of the operation that begins.
LEMMA TypedAtWork ==
    ASSUME RegistryTyped, QueueTyped', UNCHANGED <<haVars, graphVars, failed, syncs, failures>>,
           suspect' \subseteq Elements, broken' \in BOOLEAN, exact' \in {"yes", "maybe", "no"},
           job' \in Elements \cup FullSyncs \cup {"none"},
           step' \in {"idle", "delete", "collect", "nodes", "stateNode", "owner", "unlink", "place", "finish"},
           layer' \in 0..4, batch' \subseteq Elements,
           seen' \in {parents, NoParents}, JobFits'
    PROVE  RegistryTyped'
<1> USE DEF RegistryTyped, graphVars, haVars
<1>1. RegistryTypeOK'
  BY DEF RegistryTypeOK, QueueTyped, NoParents
<1>2. RegistriesFit'
  BY DEF RegistriesFit, NoParents, Required
<1> QED
  BY <1>1, <1>2

\* The operation at the head of the queue leaves it.
LEMMA HeadLeaves ==
    ASSUME RegistryTyped, queue # <<>>, queue' = Tail(queue)
    PROVE  /\ QueueTyped' /\ Head(queue) \in Elements \cup FullSyncs /\ Head(queue) \notin Floors
           /\ \A z : InQueue(z) /\ z # Head(queue) => InQueue(z)'
           /\ \A a, y : Ahead(a, y) => InQueue(y)'
           /\ \A a, y : Ahead(a, y) /\ a # Head(queue) => Ahead(a, y)'
<1>1. queue \in Seq(Elements \cup FullSyncs) /\ \A i \in 1..Len(queue) : queue[i] \notin Floors
  BY TypedFacts DEF QueueTyped
<1>2. /\ queue' \in Seq(Elements \cup FullSyncs) /\ Head(queue) \in Elements \cup FullSyncs
      /\ \A i \in 1..Len(queue') : \E k \in 1..Len(queue) : queue'[i] = queue[k]
      /\ \E k \in 1..Len(queue) : Head(queue) = queue[k]
      /\ \A z : InQueue(z) /\ z # Head(queue) => InQueue(z)'
      /\ \A a, y : Ahead(a, y) => InQueue(y)'
      /\ \A a, y : Ahead(a, y) /\ a # Head(queue) => Ahead(a, y)'
  BY <1>1, QueueShrinks
<1>3. \A i \in 1..Len(queue') : queue'[i] \notin Floors
  BY <1>1, <1>2
<1> QED
  BY <1>1, <1>2, <1>3 DEF QueueTyped

\* An update reads its element when it gets the lock: what was in the queue is at work.
LEMMA TakeUpdateKeeps == ASSUME RegistryInv, TakeUpdate PROVE RegistryInv'
<1> DEFINE x == Head(queue)
<1>1. /\ RegistryTyped /\ job = "none" /\ queue # <<>> /\ queue' = Tail(queue)
      /\ x \in Elements /\ job' = x
      /\ UNCHANGED <<haVars, graphVars, failed, history, syncs, failures>>
      /\ layer' = LayerOf(x) /\ batch' = {x} /\ seen' = parents
      /\ \/ x \in exists /\ step' = "nodes"
         \/ x \notin exists /\ step' = "delete"
         \/ x \in Entities \ exists /\ step' = "stateNode"
  BY LayerOfElement, LayersApart DEF RegistryInv, TakeUpdate, Work
<1>2. /\ QueueTyped' /\ x \notin Floors
      /\ \A z : InQueue(z) /\ z # x => InQueue(z)'
      /\ \A a, y : Ahead(a, y) => InQueue(y)'
      /\ \A a, y : Ahead(a, y) /\ a # x => Ahead(a, y)'
  BY <1>1, HeadLeaves
<1> HIDE DEF x
<1> USE DEF RegistryInv, haVars, graphVars, history
<1>3. x # "none" /\ x \notin FullSyncs /\ ~ Full /\ ~ Full'
  BY <1>1, NotASync DEF Full, FullSyncs
<1>4. RegistryTyped'
  <2>1. LayerOf(x) \in 1..4
    BY <1>1, LayerOfElement
  <2>2. JobFits'
    BY <1>1, <1>2, <1>3 DEF JobFits, QueueTyped, Full, Reading, RegistryTyped
  <2> QED
    BY <1>1, <1>2, <2>1, <2>2, TypedFacts, TypedAtWork DEF RegistryTyped, RegistryTypeOK
<1>5. ReadIsCurrent'
  BY <1>1, <1>3 DEF ReadIsCurrent, ReadNow, Reading
<1>6. BatchIsWritten'
  BY <1>1 DEF BatchIsWritten
<1>7. /\ \A a : HasRead(a)' <=> HasRead(a)
      /\ \A a : HasPlaced(a)' <=> HasPlaced(a)
      /\ \A a : Doubted(a)' <=> Doubted(a)
      /\ \A a : a # x => (Listed(a) => Listed(a)') /\ (Stays(a) => Stays(a)')
      /\ step = "idle"
  BY <1>1, <1>2, <1>3 DEF HasRead, HasPlaced, Doubted, Listed, Stays, RegistryTyped, JobFits
<1>8. LeftOver'
  <2> SUFFICES ASSUME NEW z \in Areas \cup Devices, z \in nodes \ exists
               PROVE  Listed(z)' \/ (job' = z /\ step' = "delete")
    BY <1>1 DEF LeftOver
  <2>1. z \notin Entities
    BY LayersApart
  <2> QED
    BY <1>1, <1>7, <2>1 DEF LeftOver
<1>9. Missing'
  BY <1>1, <1>7 DEF Missing
<1>10. NodeOwed'
  BY <1>1, <1>2, <1>7 DEF NodeOwed
<1>11. NodeInTime'
  <2> SUFFICES ASSUME NEW y \in Elements, NEW a \in parents[y] \ Floors, HasRead(a)
               PROVE  \/ Stays(a)' \/ Doubted(a)' \/ Ahead(a, y)'
                      \/ step' = "nodes" /\ a \in batch' /\ (Full' \/ InQueue(y)')
    BY <1>1, <1>7 DEF NodeInTime
  <2>1. Stays(a) \/ Doubted(a) \/ Ahead(a, y)
    BY <1>7 DEF NodeInTime
  <2>2. CASE a = x
    <3>1. step' = "nodes"
      BY <1>1, <2>2, TypedFacts
    <3>2. Stays(a) => Stays(a)'
      BY <1>1, <3>1 DEF Stays
    <3> QED
      BY <1>1, <1>2, <1>7, <2>1, <2>2, <3>1, <3>2
  <2> QED
    BY <1>2, <1>7, <2>1, <2>2
<1>12. EdgeOwed'
  <2> SUFFICES ASSUME NEW y \in Elements, NEW a \in parents[y], HasPlaced(y)
               PROVE  \/ Listed(y)' \/ Doubted(a)' \/ a \notin nodes'
                      \/ job' = y /\ Reading' /\ a \in seen'[y]
                      \/ job' # y /\ <<a, y>> \in edges'
    BY <1>1, <1>7 DEF EdgeOwed
  <2>1. CASE y = x
    BY <1>1, <2>1, TypedFacts DEF Reading
  <2>2. CASE y # x
    BY <1>1, <1>7, <2>2, NotASync DEF EdgeOwed
  <2> QED
    BY <2>1, <2>2
<1>13. EdgeLeftOver'
  BY <1>1, <1>7 DEF EdgeLeftOver, Required
<1>14. StandsStill'
  BY <1>1, <1>3 DEF StandsStill, Reading
<1>15. Rebuilding'
  BY <1>1 DEF Rebuilding
<1>16. Rebuilt'
  <2> SUFFICES ASSUME exact = "yes"
               PROVE  /\ job' # "rebuild" /\ edges \subseteq Required /\ exists \subseteq nodes
                      /\ \A e \in Required \ edges :
                            (e[2] \in failed /\ job' # e[2]) \/ (job' = e[2] /\ Reading')
    BY <1>1 DEF Rebuilt, Required
  <2>1. \A e \in Required \ edges : e[2] \in failed
    BY <1>1 DEF Rebuilt, RegistryTyped, JobFits, Reading
  <2>2. \A e \in Required : e[2] \in exists
    BY DEF Required
  <2> QED
    BY <1>1, <1>3, <2>1, <2>2 DEF Rebuilt, Reading, FullSyncs
<1> QED
  BY <1>4, <1>5, <1>6, <1>8, <1>9, <1>10, <1>11, <1>12, <1>13, <1>14, <1>15, <1>16

\* A full sync has read nothing yet, so it owes everything to its collectors.
LEMMA TakeSyncKeeps == ASSUME RegistryInv, TakeSync PROVE RegistryInv'
<1> DEFINE k == Head(queue)
<1>1. /\ RegistryTyped /\ job = "none" /\ queue # <<>> /\ queue' = Tail(queue)
      /\ k \in FullSyncs /\ job' = k
      /\ UNCHANGED <<haVars, graphVars, failed, suspect, broken, syncs, failures>>
      /\ layer' = 0 /\ batch' = Elements /\ seen' = parents
      /\ step' = IF k = "rebuild" THEN "delete" ELSE "collect"
      /\ exact' = IF k = "rebuild" THEN "maybe" ELSE exact
  BY DEF RegistryInv, TakeSync, Work, FirstStep
<1>2. /\ QueueTyped'
      /\ \A z : InQueue(z) /\ z # k => InQueue(z)'
  BY <1>1, HeadLeaves
<1> HIDE DEF k
<1> USE DEF RegistryInv, haVars, graphVars
<1>3. Full' /\ k \notin Elements /\ k # "none"
  BY <1>1, NotASync DEF Full, FullSyncs
<1>4. RegistryTyped'
  <2>1. JobFits'
    BY <1>1, <1>2, <1>3 DEF JobFits, QueueTyped, Reading, RegistryTyped
  <2> QED
    BY <1>1, <1>2, <2>1, TypedFacts, TypedAtWork DEF RegistryTyped, RegistryTypeOK
<1>5. \A x \in Elements : ~ HasRead(x)' /\ ~ HasPlaced(x)' /\ ~ ReadNow(x)' /\ (Listed(x) => Listed(x)')
  <2> TAKE x \in Elements
  <2>1. LayerOf(x) \in 1..4
    BY LayerOfElement
  <2> QED
    BY <1>1, <1>2, <1>3, <2>1 DEF HasRead, HasPlaced, ReadNow, Listed
<1>6. Areas \cup Devices \cup Entities \subseteq Elements
  BY DEF Elements
<1>7. ReadIsCurrent' /\ BatchIsWritten'
  BY <1>1, <1>5 DEF ReadIsCurrent, BatchIsWritten
<1>8. LeftOver' /\ EdgeLeftOver'
  BY <1>1, <1>5, <1>6, NotASync DEF LeftOver, EdgeLeftOver, Required
<1>9. Missing' /\ NodeOwed' /\ EdgeOwed'
  BY <1>5, <1>6 DEF Missing, NodeOwed, EdgeOwed
<1>10. NodeInTime'
  <2>1. \A y \in Elements : parents'[y] \subseteq Elements
    BY <1>4 DEF RegistryTyped, RegistryTypeOK
  <2> QED
    BY <1>5, <2>1 DEF NodeInTime
<1>11. StandsStill'
  BY <1>1, <1>3 DEF StandsStill, Reading
<1>12. Rebuilding' /\ Rebuilt'
  <2>1. exact # "maybe"
    BY <1>1 DEF Rebuilding
  <2>2. exact = "yes" => \A e \in Required \ edges : e[2] \in failed /\ job' # e[2]
    <3>1. \A e \in Required : e[2] \in Elements
      BY DEF Required
    <3>2. exact = "yes" => \A e \in Required \ edges : e[2] \in failed
      BY <1>1, NotASync, <3>1 DEF Rebuilt, FullSyncs
    <3> QED
      BY <1>1, <1>3, <3>1, <3>2
  <2> QED
    BY <1>1, <2>1, <2>2 DEF Rebuilding, Rebuilt, Required
<1> QED
  BY <1>4, <1>7, <1>8, <1>9, <1>10, <1>11, <1>12
-----------------------------------------------------------------------------
(* Calls in the middle of a batch *)

\* What is in the batch was read, and was there when it was.
LEMMA BatchFacts ==
    ASSUME RegistryInv, Reading, NEW y \in batch
    PROVE  /\ y \in Elements /\ layer = LayerOf(y) /\ ReadNow(y)
           /\ ~ HasPlaced(y) \/ job = y
           /\ y \notin Floors => InQueue(y) \/ (y \in exists /\ seen[y] = parents[y])
           /\ seen[y] \subseteq Above(y)
<1>1. y \in Elements /\ seen[y] \subseteq Above(y)
  BY DEF RegistryInv, RegistryTyped, RegistryTypeOK, RegistriesFit
<1>2. layer = LayerOf(y) /\ ReadNow(y) /\ (Full \/ job = y)
  <2>1. CASE Full
    <3>1. layer \in 1..4 /\ y \in Layers[layer] /\ step # "finish"
      BY <2>1 DEF RegistryInv, RegistryTyped, RegistryTypeOK, JobFits, Reading
    <3> QED
      BY <1>1, <2>1, <3>1, LayerOfElement DEF ReadNow
  <2>2. CASE ~ Full
    BY <2>2 DEF RegistryInv, RegistryTyped, RegistryTypeOK, JobFits, Reading, ReadNow, Full
  <2> QED
    BY <2>1, <2>2
<1>3. Full => ~ HasPlaced(y)
  BY <1>1, <1>2, LayerOfElement DEF HasPlaced, Reading
<1>4. y \notin Floors => InQueue(y) \/ (y \in exists /\ seen[y] = parents[y])
  BY <1>1, <1>2 DEF RegistryInv, ReadIsCurrent
<1> QED
  BY <1>1, <1>2, <1>3, <1>4

\* The types, in the middle of a batch.
LEMMA ProceedIsTyped ==
    ASSUME RegistryTyped, UNCHANGED <<haVars, queue, job, layer, batch, seen, failed, history, syncs, failures>>,
           nodes' \subseteq Elements, edges' \subseteq nodes' \X nodes',
           \A e \in edges' : e[1] \in Above(e[2]),
           step' \in {"owner", "unlink", "place"}, Reading, step' \in {"owner", "unlink"} => layer = 4
    PROVE  RegistryTyped' /\ (Full' <=> Full) /\ Reading'
<1> USE DEF RegistryTyped, haVars, history
<1>1. RegistryTypeOK'
  BY DEF RegistryTypeOK
<1>2. RegistriesFit'
  BY DEF RegistriesFit
<1>3. JobFits' /\ (Full' <=> Full) /\ Reading'
  BY DEF JobFits, Full, Reading
<1> QED
  BY <1>1, <1>2, <1>3

\* No step but that of the last collector changes how far a sync has come.
LEMMA SameProgress ==
    ASSUME UNCHANGED <<queue, job, layer, failed, history>>, Reading, Reading'
    PROVE  /\ \A x : HasRead(x)' <=> HasRead(x)
           /\ \A x : HasPlaced(x)' <=> HasPlaced(x)
           /\ \A x : Doubted(x)' <=> Doubted(x)
           /\ \A x : Listed(x)' <=> Listed(x)
           /\ \A x : InQueue(x)' <=> InQueue(x)
           /\ \A a, y : Ahead(a, y)' <=> Ahead(a, y)
           /\ \A y : ReadNow(y)' <=> ReadNow(y)
  BY DEF HasRead, HasPlaced, Full, Doubted, Listed, InQueue, Ahead, history, Reading, ReadNow

\* The nodes of a batch: an edge to a node that is new is owed by an update behind it.
LEMMA NodesKeep ==
    ASSUME RegistryInv, Proceed, step = "nodes"
    PROVE  RegistryInv'
<1> USE DEF RegistryInv, haVars, history
<1>1. /\ RegistryTyped /\ Reading /\ nodes' = nodes \cup batch /\ edges' = edges
      /\ UNCHANGED <<haVars, queue, job, layer, batch, seen, failed, history, syncs, failures>>
      /\ step' = IF layer = 4 THEN "owner" ELSE "place"
  BY DEF Proceed, Effect, WriteNodes, Following, Reading
<1>2. RegistryTyped' /\ (Full' <=> Full) /\ Reading'
  <2>1. nodes' \subseteq Elements /\ edges' \subseteq nodes' \X nodes'
    BY <1>1 DEF RegistryTyped, RegistryTypeOK
  <2>2. \A e \in edges' : e[1] \in Above(e[2])
    BY <1>1 DEF RegistryTyped, RegistriesFit
  <2> QED
    BY <1>1, <2>1, <2>2, ProceedIsTyped
<1>3. /\ \A x : HasRead(x)' <=> HasRead(x)
      /\ \A x : HasPlaced(x)' <=> HasPlaced(x)
      /\ \A x : Doubted(x)' <=> Doubted(x)
      /\ \A x : Listed(x)' <=> Listed(x)
      /\ \A x : InQueue(x)' <=> InQueue(x)
      /\ \A a, y : Ahead(a, y)' <=> Ahead(a, y)
      /\ \A y : ReadNow(y)' <=> ReadNow(y)
  BY <1>1, <1>2, SameProgress
<1>4. ReadIsCurrent'
  BY <1>1, <1>2, <1>3 DEF ReadIsCurrent
<1>5. BatchIsWritten'
  <2>1. ASSUME NEW y \in batch, NEW a \in seen[y], a \in Devices, step' = "place" PROVE FALSE
    <3>1. layer = LayerOf(y) /\ y \in Elements /\ a \in Above(y) /\ layer # 4
      BY <1>1, <2>1, BatchFacts
    <3> QED
      BY <2>1, <3>1, AboveIsBefore, LayerOfElement
  <2> QED
    BY <1>1, <2>1 DEF BatchIsWritten
<1>6. LeftOver'
  <2> SUFFICES ASSUME NEW x \in Areas \cup Devices, x \in nodes' \ exists PROVE Listed(x)
    BY <1>1, <1>3 DEF LeftOver
  <2>1. CASE x \in nodes
    BY <1>1, <2>1 DEF LeftOver
  <2>2. CASE x \in batch
    BY <1>1, <2>2, BatchFacts, LayersApart DEF Listed
  <2> QED
    BY <1>1, <2>1, <2>2
<1>7. \A a : (Stays(a) => Stays(a)') /\ (a \in batch => Stays(a)')
  BY <1>1, <1>2 DEF Stays, Reading
<1>8. Missing' /\ NodeOwed'
  BY <1>1, <1>3, <1>7 DEF Missing, NodeOwed
<1>9. NodeInTime'
  BY <1>1, <1>2, <1>3, <1>7 DEF NodeInTime
<1>10. EdgeOwed'
  <2> SUFFICES ASSUME NEW y \in Elements, NEW a \in parents[y], HasPlaced(y)
               PROVE  \/ Listed(y) \/ Doubted(a) \/ a \notin nodes'
                      \/ job = y /\ Reading /\ a \in seen[y]
                      \/ job # y /\ <<a, y>> \in edges
    BY <1>1, <1>2, <1>3 DEF EdgeOwed
  <2>1. CASE a \in batch /\ a \notin nodes
    <3>1. a \in Above(y) /\ a \in Elements /\ y \in Elements /\ LayerOf(a) < LayerOf(y)
          /\ LayerOf(a) \in 1..4 /\ LayerOf(y) \in 1..4
      BY AboveIsBefore, TypedFacts
    <3>2. layer = LayerOf(a) /\ (job = a \/ Full)
      BY <1>1, <2>1, BatchFacts DEF ReadNow
    <3>3. ~ Full
      <4>1. Full => layer > LayerOf(y)
        BY DEF HasPlaced
      <4> QED
        BY <3>1, <3>2, <4>1
    <3>4. HasRead(a) /\ a \notin Floors
      BY <3>1, <3>2, <3>3 DEF HasPlaced, HasRead, RegistryTyped, JobFits
    <3>5. \/ Stays(a) \/ Doubted(a) \/ Ahead(a, y)
          \/ step = "nodes" /\ a \in batch /\ (Full \/ InQueue(y))
      BY <3>4 DEF NodeInTime
    <3> QED
      BY <2>1, <3>3, <3>5, AheadIsQueued DEF Stays, Listed
  <2>2. CASE ~ (a \in batch /\ a \notin nodes)
    BY <1>1, <2>2 DEF EdgeOwed
  <2> QED
    BY <2>1, <2>2
<1>11. EdgeLeftOver'
  <2>1. ASSUME NEW e \in edges, job = e[2], e[2] \in Entities PROVE step' = "owner"
    BY <1>1, <2>1, LayerOfElement DEF RegistryTyped, JobFits, Elements
  <2> QED
    BY <1>1, <1>3, <2>1 DEF EdgeLeftOver, Required
<1>12. StandsStill'
  BY <1>1, <1>2 DEF StandsStill
<1>13. Rebuilding'
  <2> SUFFICES ASSUME exact = "maybe"
               PROVE  Rebuilding'
    BY <1>1 DEF Rebuilding
  <2>1. Full /\ batch = exists \cap Layers[layer] /\ layer \in 1..4
    BY <1>1 DEF Rebuilding, Full, FullSyncs, StandsStill, RegistryTyped, RegistryTypeOK, JobFits
  <2>2. \A x \in exists \ nodes' : layer <= LayerOf(x) /\ layer # LayerOf(x)
    <3> SUFFICES ASSUME NEW x \in exists \ nodes' PROVE layer <= LayerOf(x) /\ layer # LayerOf(x)
      OBVIOUS
    <3>1. x \in Elements /\ x \notin nodes /\ x \notin batch
      BY <1>1, TypedFacts
    <3>2. layer # LayerOf(x)
      <4>1. x \notin Layers[layer]
        BY <2>1, <3>1
      <4> QED
        BY <2>1, <3>1, <4>1, LayerOfElement
    <3>3. layer <= LayerOf(x)
      BY <3>1 DEF Rebuilding
    <3> QED
      BY <3>2, <3>3
  <2> QED
    BY <1>1, <2>2 DEF Rebuilding, Required
<1>14. Rebuilt'
  BY <1>1, <1>2 DEF Rebuilt, Required
<1> QED
  BY <1>2, <1>4, <1>5, <1>6, <1>8, <1>9, <1>10, <1>11, <1>12, <1>13, <1>14
-----------------------------------------------------------------------------
\* What is written of a batch while nothing happens in Home Assistant is called
\* for.
LEMMA WrittenIsRequired ==
    ASSUME RegistryInv, Reading, exact # "no", NEW above,
           NEW e \in {e \in above \X batch : e[1] \in seen[e[2]] /\ {e[1], e[2]} \subseteq nodes}
    PROVE  e \in Required
<1> USE DEF RegistryInv
<1>1. /\ e[2] \in batch /\ e[1] \in seen[e[2]] /\ {e[1], e[2]} \subseteq nodes
      /\ e = <<e[1], e[2]>>
  OBVIOUS
<1>2. RegistryTyped /\ job # "none" /\ nodes \subseteq Elements
  BY DEF RegistryTyped, RegistryTypeOK, JobFits, Reading
<1>3. seen = parents /\ e[2] \in exists
  BY <1>1, <1>2 DEF StandsStill
<1> QED
  BY <1>1, <1>2, <1>3 DEF Required

\* The calls on edges leave the nodes and what is owed of them.
LEMMA EdgeCallKeeps ==
    ASSUME RegistryInv, Proceed, step \in {"owner", "unlink"}
    PROVE  /\ Reading /\ Reading' /\ layer = 4 /\ nodes' = nodes /\ batch \subseteq nodes
           /\ UNCHANGED <<haVars, queue, job, layer, batch, seen, failed, history, syncs, failures>>
           /\ step' = IF step = "owner" THEN "unlink" ELSE "place"
           /\ ReadIsCurrent' /\ LeftOver' /\ Missing' /\ NodeOwed' /\ NodeInTime' /\ StandsStill'
<1> USE DEF RegistryInv, haVars, history
<1>1. /\ RegistryTyped /\ Reading /\ Reading' /\ nodes' = nodes
      /\ UNCHANGED <<haVars, queue, job, layer, batch, seen, failed, history, syncs, failures>>
      /\ step' = IF step = "owner" THEN "unlink" ELSE "place"
  BY DEF Proceed, Effect, Link, Unlink, Following, Reading
<1>2. layer = 4 /\ batch \subseteq nodes
  BY DEF RegistryTyped, JobFits, BatchIsWritten
<1>3. /\ \A x : HasRead(x)' <=> HasRead(x)
      /\ \A x : Doubted(x)' <=> Doubted(x)
      /\ \A x : Listed(x)' <=> Listed(x)
      /\ \A x : InQueue(x)' <=> InQueue(x)
      /\ \A a, y : Ahead(a, y)' <=> Ahead(a, y)
      /\ \A y : ReadNow(y)' <=> ReadNow(y)
  BY <1>1, SameProgress
<1>4. \A a : Stays(a) => Stays(a)'
  BY <1>1 DEF Stays, Reading
<1>5. ReadIsCurrent'
  BY <1>1, <1>3 DEF ReadIsCurrent
<1>6. LeftOver' /\ Missing' /\ NodeOwed' /\ NodeInTime'
  BY <1>1, <1>3, <1>4 DEF LeftOver, Missing, NodeOwed, NodeInTime
<1>7. StandsStill'
  BY <1>1 DEF StandsStill, Full
<1> QED
  BY <1>1, <1>2, <1>5, <1>6, <1>7

\* The device edges of entities: only what was read, and all of it.
LEMMA OwnerKeeps ==
    ASSUME RegistryInv, Proceed, step = "owner"
    PROVE  RegistryInv'
<1> USE DEF RegistryInv, haVars, history
<1> DEFINE new == {e \in Devices \X batch : e[1] \in seen[e[2]] /\ {e[1], e[2]} \subseteq nodes}
<1>1. /\ Reading /\ Reading' /\ layer = 4 /\ nodes' = nodes /\ batch \subseteq nodes
      /\ UNCHANGED <<haVars, queue, job, layer, batch, seen, failed, history, syncs, failures>>
      /\ step' = "unlink"
      /\ ReadIsCurrent' /\ LeftOver' /\ Missing' /\ NodeOwed' /\ NodeInTime' /\ StandsStill'
  BY EdgeCallKeeps
<1>2. edges' = edges \cup new /\ RegistryTyped
  BY DEF Proceed, Effect, Link
<1>3. exact # "no" => new \subseteq Required
  BY <1>1, WrittenIsRequired
<1>4. RegistryTyped' /\ (Full' <=> Full)
  <2>1. \A e \in new : e[1] \in Above(e[2])
    BY <1>1, BatchFacts
  <2>2. nodes' \subseteq Elements /\ edges' \subseteq nodes' \X nodes'
    BY <1>1, <1>2 DEF RegistryTyped, RegistryTypeOK
  <2>3. \A e \in edges' : e[1] \in Above(e[2])
    BY <1>2, <2>1 DEF RegistryTyped, RegistriesFit
  <2> QED
    BY <1>1, <1>2, <2>2, <2>3, ProceedIsTyped
<1>5. BatchIsWritten'
  <2>1. \A y \in batch, a \in Devices : a \in seen[y] \cap nodes => <<a, y>> \in edges'
    BY <1>1, <1>2
  <2> QED
    BY <1>1, <2>1 DEF BatchIsWritten
<1>6. /\ \A x : HasPlaced(x)' <=> HasPlaced(x)
      /\ \A x : Doubted(x)' <=> Doubted(x)
      /\ \A x : Listed(x)' <=> Listed(x)
  BY <1>1, SameProgress
<1>7. EdgeOwed'
  BY <1>1, <1>2, <1>6 DEF EdgeOwed
<1>8. EdgeLeftOver'
  <2>1. \A e \in new : e[1] \notin Areas
    BY LayersApart
  <2> QED
    BY <1>1, <1>2, <1>6, <2>1 DEF EdgeLeftOver, Required
<1> HIDE DEF new
<1>9. Rebuilding'
  BY <1>1, <1>2, <1>3 DEF Rebuilding, Required
<1>10. Rebuilt'
  BY <1>1, <1>2, <1>3 DEF Rebuilt, Required
<1> QED
  BY <1>1, <1>4, <1>5, <1>7, <1>8, <1>9, <1>10

\* The area edges that are removed are written again by the next call.
LEMMA UnlinkKeeps ==
    ASSUME RegistryInv, Proceed, step = "unlink"
    PROVE  RegistryInv'
<1> USE DEF RegistryInv, haVars, history
<1>1. /\ Reading /\ Reading' /\ layer = 4 /\ nodes' = nodes /\ batch \subseteq nodes
      /\ UNCHANGED <<haVars, queue, job, layer, batch, seen, failed, history, syncs, failures>>
      /\ step' = "place"
      /\ ReadIsCurrent' /\ LeftOver' /\ Missing' /\ NodeOwed' /\ NodeInTime' /\ StandsStill'
  BY EdgeCallKeeps
<1>2. edges' = {e \in edges : ~ (e[1] \in Areas /\ e[2] \in batch)} /\ RegistryTyped
  BY DEF Proceed, Effect, Unlink
<1>3. edges \subseteq nodes \X nodes /\ nodes \subseteq Elements
  BY <1>2 DEF RegistryTyped, RegistryTypeOK
<1>4. RegistryTyped' /\ (Full' <=> Full)
  <2>1. edges' \subseteq nodes' \X nodes'
    BY <1>1, <1>2, <1>3
  <2>2. \A e \in edges' : e[1] \in Above(e[2])
    BY <1>2 DEF RegistryTyped, RegistriesFit
  <2> QED
    BY <1>1, <1>2, <1>3, <2>1, <2>2, ProceedIsTyped
<1>5. BatchIsWritten'
  <2>1. ASSUME NEW y \in batch, NEW a \in Devices, a \in seen[y] \cap nodes
        PROVE  <<a, y>> \in edges'
    <3>1. <<a, y>> \in edges /\ a \notin Areas
      BY <2>1, LayersApart DEF BatchIsWritten
    <3> QED
      BY <1>2, <3>1
  <2> QED
    BY <1>1, <2>1 DEF BatchIsWritten
<1>6. /\ \A x : HasPlaced(x)' <=> HasPlaced(x)
      /\ \A x : Doubted(x)' <=> Doubted(x)
      /\ \A x : Listed(x)' <=> Listed(x)
  BY <1>1, SameProgress
<1>7. EdgeOwed'
  <2> SUFFICES ASSUME NEW y \in Elements, NEW a \in parents[y], HasPlaced(y)
               PROVE  \/ Listed(y) \/ Doubted(a) \/ a \notin nodes
                      \/ job = y /\ Reading /\ a \in seen[y]
                      \/ job # y /\ <<a, y>> \in edges'
    BY <1>1, <1>6 DEF EdgeOwed
  <2>1. job # y => y \notin batch
    BY <1>1, BatchFacts
  <2> QED
    BY <1>2, <2>1 DEF EdgeOwed
<1>8. EdgeLeftOver'
  <2> SUFFICES ASSUME NEW e \in edges', e[1] \in Areas, e[2] \in Entities \cap exists, e \notin Required
               PROVE  Listed(e[2])
    BY <1>1, <1>6 DEF EdgeLeftOver, Required
  <2>1. e \in edges /\ e[2] \in Elements /\ e[2] \notin batch
    BY <1>2, <1>3
  <2>2. job # e[2]
    BY <2>1 DEF RegistryTyped, JobFits
  <2> QED
    BY <2>1, <2>2 DEF EdgeLeftOver
<1>9. Rebuilding'
  <2> SUFFICES ASSUME exact = "maybe", NEW e \in Required \ edges' PROVE layer <= LayerOf(e[2])
    BY <1>1, <1>2 DEF Rebuilding, Required
  <2>1. e \in edges => e[2] \in batch
    BY <1>2
  <2>2. e[2] \in batch => layer = LayerOf(e[2]) /\ LayerOf(e[2]) \in 1..4
    BY <1>1, BatchFacts, LayerOfElement
  <2> QED
    BY <1>1, <2>1, <2>2 DEF Rebuilding
<1>10. Rebuilt'
  <2> SUFFICES ASSUME exact = "yes", NEW e \in Required \ edges'
               PROVE  \/ e[2] \in failed /\ job # e[2]
                      \/ job = e[2]
                      \/ job = "resync" /\ e[1] \in Areas /\ e[2] \in Entities
    BY <1>1, <1>2 DEF Rebuilt, Required
  <2>1. CASE e \in edges
    <3>1. e[1] \in Areas /\ e[2] \in batch /\ e[2] \in Elements
      BY <1>2, <1>3, <2>1
    <3>2. e[2] \in Entities /\ (Full \/ job = e[2])
      BY <1>1, <3>1, BatchFacts, LayerOfElement DEF ReadNow
    <3> QED
      BY <1>1, <3>1, <3>2 DEF Rebuilt, Full, FullSyncs
  <2>2. CASE e \notin edges
    BY <1>1, <2>2 DEF Rebuilt
  <2> QED
    BY <2>1, <2>2
<1> QED
  BY <1>1, <1>4, <1>5, <1>7, <1>8, <1>9, <1>10

\* Each call in the middle of a batch.
LEMMA ProceedKeeps == ASSUME RegistryInv, Proceed PROVE RegistryInv'
  BY NodesKeep, OwnerKeeps, UnlinkKeeps DEF Proceed
-----------------------------------------------------------------------------
(* A full sync comes to its next collector *)

\* Where a full sync is, and where it goes next.
LEMMA CollectFacts ==
    ASSUME RegistryInv, Collect
    PROVE  /\ RegistryTyped /\ Full /\ Full' /\ job' = job /\ job \notin Elements /\ seen' = parents
           /\ UNCHANGED <<haVars, queue, failed, history, syncs, failures>>
           /\ \/ step \in {"delete", "collect"} /\ layer = 0 /\ batch = Elements
              \/ step = "place" /\ layer \in 1..4 /\ batch \subseteq Layers[layer]
           /\ \/ /\ layer < 4 /\ step' = "nodes" /\ layer' = layer + 1 /\ layer' \in 1..4
                 /\ batch' = exists \cap Layers[layer']
              \/ layer = 4 /\ step' = "finish" /\ layer' = 4 /\ batch' = {}
           /\ \A x : Listed(x)' <=> Listed(x)
           /\ \A x : InQueue(x)' <=> InQueue(x)
           /\ \A x : ~ Doubted(x) /\ ~ Doubted(x)'
           /\ \A a, y : Ahead(a, y)' <=> Ahead(a, y)
           /\ \A a \in Elements : /\ Stays(a)' <=> a \in nodes'
                                  /\ step # "delete" => (Stays(a) <=> a \in nodes)
<1> USE DEF RegistryInv, haVars, history
<1>1. /\ RegistryTyped /\ Full /\ Full' /\ job' = job /\ seen' = parents
      /\ UNCHANGED <<haVars, queue, failed, history, syncs, failures>>
      /\ \/ layer < 4 /\ step' = "nodes" /\ layer' = layer + 1 /\ batch' = exists \cap Layers[layer + 1]
         \/ ~ (layer < 4) /\ step' = "finish" /\ layer' = 4 /\ batch' = {}
      /\ step \in {"delete", "collect", "place"}
  BY DEF Collect, Work, Full
<1>2. layer \in 0..4 /\ job \notin Elements
  BY <1>1, NotASync DEF RegistryTyped, RegistryTypeOK, Full
<1>3. \/ step \in {"delete", "collect"} /\ layer = 0 /\ batch = Elements
      \/ step = "place" /\ layer \in 1..4 /\ batch \subseteq Layers[layer]
  BY <1>1, <1>2 DEF RegistryTyped, JobFits, Reading
<1>4. /\ \A x : Listed(x)' <=> Listed(x)
      /\ \A x : InQueue(x)' <=> InQueue(x)
      /\ \A x : ~ Doubted(x) /\ ~ Doubted(x)'
      /\ \A a, y : Ahead(a, y)' <=> Ahead(a, y)
  BY <1>1 DEF Listed, InQueue, Doubted, Ahead
<1>5. \A a \in Elements : /\ Stays(a)' <=> a \in nodes'
                          /\ step # "delete" => (Stays(a) <=> a \in nodes)
  BY <1>1, <1>2 DEF Stays
<1> QED
  BY <1>1, <1>2, <1>3, <1>4, <1>5

\* The types, at the next collector.
LEMMA CollectIsTyped ==
    ASSUME RegistryInv, Collect, nodes' \subseteq Elements, edges' \subseteq nodes' \X nodes',
           \A e \in edges' : e[1] \in Above(e[2])
    PROVE  RegistryTyped'
<1> USE DEF haVars, history
<1>1. /\ RegistryTyped /\ Full /\ Full' /\ job' = job /\ job \notin Elements /\ seen' = parents
      /\ UNCHANGED <<haVars, queue, failed, history, syncs, failures>>
      /\ \/ /\ layer < 4 /\ step' = "nodes" /\ layer' = layer + 1 /\ layer' \in 1..4
            /\ batch' = exists \cap Layers[layer']
         \/ layer = 4 /\ step' = "finish" /\ layer' = 4 /\ batch' = {}
  BY CollectFacts
<1> USE DEF RegistryTyped
<1>2. RegistryTypeOK'
  BY <1>1 DEF RegistryTypeOK
<1>3. RegistriesFit'
  BY <1>1 DEF RegistriesFit
<1>4. JobFits'
  <2>1. job # "none"
    BY <1>1, NotASync DEF Full, FullSyncs
  <2> QED
    BY <1>1, <2>1 DEF JobFits, Reading
<1> QED
  BY <1>2, <1>3, <1>4

\* The registry that was read last is complete, and the ones before it stay as
\* they were written.
LEMMA CollectNodesKeep ==
    ASSUME RegistryInv, Collect, step # "delete" => nodes' = nodes
    PROVE  ReadIsCurrent' /\ LeftOver' /\ Missing' /\ NodeOwed' /\ NodeInTime' /\ StandsStill'
<1> USE DEF RegistryInv, haVars, history
<1>1. /\ RegistryTyped /\ Full /\ Full' /\ job' = job /\ job \notin Elements /\ seen' = parents
      /\ UNCHANGED <<haVars, queue, failed, history, syncs, failures>>
      /\ \/ step \in {"delete", "collect"} /\ layer = 0 /\ batch = Elements
         \/ step = "place" /\ layer \in 1..4 /\ batch \subseteq Layers[layer]
      /\ \/ /\ layer < 4 /\ step' = "nodes" /\ layer' = layer + 1 /\ layer' \in 1..4
            /\ batch' = exists \cap Layers[layer']
         \/ layer = 4 /\ step' = "finish" /\ layer' = 4 /\ batch' = {}
      /\ \A x : Listed(x)' <=> Listed(x)
      /\ \A x : InQueue(x)' <=> InQueue(x)
      /\ \A x : ~ Doubted(x) /\ ~ Doubted(x)'
      /\ \A a, y : Ahead(a, y)' <=> Ahead(a, y)
      /\ \A a \in Elements : /\ Stays(a)' <=> a \in nodes'
                             /\ step # "delete" => (Stays(a) <=> a \in nodes)
  BY CollectFacts
<1>2. nodes' \subseteq nodes
  BY DEF Collect, Effect, Detach
<1>3. Areas \cup Devices \subseteq Elements
  BY DEF Elements
<1>4. ASSUME NEW a \in Elements, HasRead(a)'
      PROVE  \/ HasRead(a) /\ step # "delete"
             \/ step' = "nodes" /\ (a \in exists => a \in batch')
  <2>1. LayerOf(a) \in 1..4 /\ \A i \in 1..4 : a \in Layers[i] <=> i = LayerOf(a)
    BY LayerOfElement
  <2>2. layer' >= LayerOf(a)
    BY <1>1, <1>4 DEF HasRead
  <2>3. CASE layer < 4
    <3>1. CASE LayerOf(a) = layer'
      BY <1>1, <2>1, <2>3, <3>1
    <3>2. CASE LayerOf(a) # layer'
      <4>1. layer >= LayerOf(a)
        BY <1>1, <2>1, <2>2, <2>3, <3>2
      <4> QED
        BY <1>1, <2>1, <4>1 DEF HasRead
    <3> QED
      BY <3>1, <3>2
  <2>4. CASE layer = 4
    BY <1>1, <2>1, <2>4 DEF HasRead
  <2> QED
    BY <1>1, <2>3, <2>4
<1>5. ReadIsCurrent'
  <2> SUFFICES ASSUME NEW y \in Elements \ Floors, ReadNow(y)'
               PROVE  IF y \in batch' /\ Reading' THEN y \in exists /\ seen'[y] = parents[y] ELSE y \notin exists
    BY <1>1 DEF ReadIsCurrent
  <2>1. step' = "nodes" /\ layer' = LayerOf(y) /\ layer' \in 1..4
    BY <1>1 DEF ReadNow
  <2>2. y \in Layers[layer']
    BY <2>1, LayerOfElement
  <2> QED
    BY <1>1, <2>1, <2>2 DEF Reading
<1>6. LeftOver'
  BY <1>1, <1>2, <1>3 DEF LeftOver
<1>7. Missing'
  <2> SUFFICES ASSUME NEW x \in Areas \cup Devices, HasRead(x)', x \in exists \ nodes'
               PROVE  Listed(x) \/ (step' = "nodes" /\ x \in batch')
    BY <1>1 DEF Missing
  <2> QED
    BY <1>1, <1>3, <1>4 DEF Missing
<1>8. NodeOwed'
  <2> SUFFICES ASSUME NEW a \in Areas \cup Devices, HasRead(a)', a \in exists
               PROVE  a \in nodes' \/ InQueue(a) \/ (step' = "nodes" /\ a \in batch')
    BY <1>1, <1>3 DEF NodeOwed
  <2> QED
    BY <1>1, <1>3, <1>4 DEF NodeOwed
<1>9. NodeInTime'
  <2> SUFFICES ASSUME NEW y \in Elements, NEW a \in parents[y] \ Floors, HasRead(a)'
               PROVE  a \in nodes' \/ Ahead(a, y) \/ (step' = "nodes" /\ a \in batch')
    BY <1>1, TypedFacts DEF NodeInTime
  <2>1. a \in Elements /\ a \in exists
    BY <1>1, TypedFacts
  <2> QED
    BY <1>1, <1>4, <2>1 DEF NodeInTime
<1>10. StandsStill'
  BY <1>1 DEF StandsStill, Reading
<1> QED
  BY <1>5, <1>6, <1>7, <1>8, <1>9, <1>10

\* A rebuild clears the graph, a resync nothing; the floors are read.
LEMMA FirstCollectorKeeps ==
    ASSUME RegistryInv, Collect, step \in {"delete", "collect"}
    PROVE  RegistryInv'
<1> USE DEF RegistryInv, haVars, history
<1>1. /\ RegistryTyped /\ Full /\ Full' /\ job' = job /\ job \notin Elements /\ seen' = parents
      /\ UNCHANGED <<haVars, queue, failed, history, syncs, failures>>
      /\ layer = 0 /\ batch = Elements /\ step' = "nodes" /\ layer' = 1
      /\ \A x : Listed(x)' <=> Listed(x)
  BY CollectFacts
<1>2. nodes \subseteq Elements /\ edges \subseteq nodes \X nodes /\ \A e \in edges : e[1] \in Above(e[2])
  BY <1>1 DEF RegistryTyped, RegistryTypeOK, RegistriesFit
<1>3. IF step = "delete" THEN nodes' = {} /\ edges' = {} ELSE UNCHANGED graphVars
  <2>1. IF step = "delete" THEN Detach(Elements) ELSE UNCHANGED graphVars
    BY <1>1 DEF Collect, Effect
  <2> QED
    BY <1>2, <2>1 DEF Detach
<1>4. RegistryTyped'
  BY <1>2, <1>3, CollectIsTyped DEF graphVars
<1>5. ReadIsCurrent' /\ LeftOver' /\ Missing' /\ NodeOwed' /\ NodeInTime' /\ StandsStill'
  BY <1>3, CollectNodesKeep DEF graphVars
<1>6. BatchIsWritten'
  BY <1>1 DEF BatchIsWritten
<1>7. \A y \in Elements : LayerOf(y) \in 1..4 /\ ~ HasPlaced(y)'
  BY <1>1, LayerOfElement DEF HasPlaced
<1>8. EdgeOwed'
  BY <1>7 DEF EdgeOwed
<1>9. EdgeLeftOver'
  <2>1. \A e \in edges : e[2] \in Elements
    BY <1>2
  <2> QED
    BY <1>1, <1>3, <2>1 DEF EdgeLeftOver, Required, graphVars
<1>10. Rebuilding'
  <2>1. \A x \in exists : x \in Elements
    BY <1>1, TypedFacts
  <2>2. \A e \in Required : e[2] \in Elements
    BY DEF Required
  <2>3. Required' = Required
    BY <1>1 DEF Required
  <2>4. exact = "maybe" => edges' \subseteq Required /\ job = "rebuild"
    BY <1>3 DEF Rebuilding, graphVars
  <2> QED
    BY <1>1, <1>7, <2>1, <2>2, <2>3, <2>4 DEF Rebuilding
<1>11. Rebuilt'
  <2>1. exact = "yes" => step # "delete"
    BY <1>1 DEF Rebuilt, RegistryTyped, JobFits
  <2>2. \A e \in Required : e[2] \in Elements
    BY DEF Required
  <2> QED
    BY <1>1, <1>3, <2>1, <2>2 DEF Rebuilt, Required, graphVars
<1> QED
  BY <1>4, <1>5, <1>6, <1>8, <1>9, <1>10, <1>11

\* What a collector read and has written is what the registry calls for, or it
\* is in the queue again.
LEMMA LayerIsPlaced ==
    ASSUME RegistryInv, Full, step = "place", Link(batch, Floors \cup Areas),
           NEW y \in Elements, layer = LayerOf(y), NEW a \in parents[y]
    PROVE  InQueue(y) \/ a \notin nodes \/ <<a, y>> \in edges'
<1> USE DEF RegistryInv
<1>1. RegistryTyped
  OBVIOUS
<1>2. a \in Above(y) /\ a \in Elements /\ y \in exists
  BY <1>1, TypedFacts
<1>3. y \notin Floors /\ (a \in Devices \/ a \in Floors \cup Areas)
  BY <1>2, AboveIsBefore
<1>4. InQueue(y) \/ (y \in batch /\ seen[y] = parents[y])
  BY <1>2, <1>3 DEF ReadIsCurrent, ReadNow
<1>5. CASE y \in batch /\ seen[y] = parents[y]
  <2>1. y \in nodes /\ (a \in Devices /\ a \in nodes => <<a, y>> \in edges)
    BY <1>5 DEF BatchIsWritten
  <2> QED
    BY <1>3, <1>5, <2>1 DEF Link
<1> QED
  BY <1>4, <1>5

\* The placed layer is complete; the next one is read, or the sync is at its end.
LEMMA NextCollectorKeeps ==
    ASSUME RegistryInv, Collect, step = "place"
    PROVE  RegistryInv'
<1> USE DEF RegistryInv, haVars, history
<1> DEFINE new == {e \in (Floors \cup Areas) \X batch : e[1] \in seen[e[2]] /\ {e[1], e[2]} \subseteq nodes}
<1>1. /\ RegistryTyped /\ Full /\ Full' /\ job' = job /\ job \notin Elements /\ seen' = parents
      /\ UNCHANGED <<haVars, queue, failed, history, syncs, failures>>
      /\ layer \in 1..4 /\ batch \subseteq Layers[layer]
      /\ \/ layer < 4 /\ step' = "nodes" /\ layer' = layer + 1
         \/ layer = 4 /\ step' = "finish"
      /\ \A x : Listed(x)' <=> Listed(x)
      /\ \A x : InQueue(x)' <=> InQueue(x)
      /\ \A x : ~ Doubted(x)
  BY CollectFacts
<1>2. Link(batch, Floors \cup Areas) /\ nodes' = nodes /\ edges' = edges \cup new /\ Reading
  BY DEF Collect, Effect, Link, Reading
<1>3. nodes \subseteq Elements /\ edges \subseteq nodes \X nodes /\ \A e \in edges : e[1] \in Above(e[2])
  BY <1>1 DEF RegistryTyped, RegistryTypeOK, RegistriesFit
<1>4. exact # "no" => new \subseteq Required
  BY <1>2, WrittenIsRequired
<1>5. RegistryTyped'
  <2>1. batch \subseteq nodes
    BY DEF BatchIsWritten
  <2>2. \A e \in new : e[1] \in Above(e[2])
    BY <1>2, BatchFacts
  <2>3. edges' \subseteq nodes' \X nodes'
    BY <1>2, <1>3, <2>1
  <2>4. \A e \in edges' : e[1] \in Above(e[2])
    BY <1>2, <1>3, <2>2
  <2> QED
    BY <1>2, <1>3, <2>3, <2>4, CollectIsTyped
<1>6. ReadIsCurrent' /\ LeftOver' /\ Missing' /\ NodeOwed' /\ NodeInTime' /\ StandsStill'
  BY <1>2, CollectNodesKeep
<1>7. BatchIsWritten'
  BY <1>1 DEF BatchIsWritten
<1>8. EdgeOwed'
  <2> SUFFICES ASSUME NEW y \in Elements, NEW a \in parents[y], HasPlaced(y)'
               PROVE  Listed(y) \/ a \notin nodes \/ <<a, y>> \in edges'
    BY <1>1, <1>2 DEF EdgeOwed
  <2>1. LayerOf(y) \in 1..4
    BY LayerOfElement
  <2>2. layer = LayerOf(y) \/ HasPlaced(y)
    BY <1>1, <2>1 DEF HasPlaced
  <2>3. CASE layer = LayerOf(y)
    BY <1>1, <1>2, <2>3, LayerIsPlaced DEF Listed
  <2>4. CASE HasPlaced(y)
    BY <1>1, <1>2, <2>4 DEF EdgeOwed
  <2> QED
    BY <2>2, <2>3, <2>4
<1>9. EdgeLeftOver'
  <2> SUFFICES ASSUME NEW e \in edges', e[1] \in Areas, e[2] \in Entities \cap exists, e \notin Required
               PROVE  Listed(e[2])
    BY <1>1 DEF EdgeLeftOver, Required
  <2>1. e[2] \in Elements
    BY DEF Elements
  <2>2. CASE e \in edges
    BY <1>1, <2>1, <2>2 DEF EdgeLeftOver
  <2>3. CASE e \in new
    <3>1. e[2] \in batch /\ e[1] \in seen[e[2]] /\ e[1] \in nodes
      BY <2>3
    <3>2. e[2] \notin Floors
      BY LayersApart
    <3>3. InQueue(e[2]) \/ seen[e[2]] = parents[e[2]]
      BY <1>2, <3>1, <3>2, BatchFacts
    <3>4. seen[e[2]] = parents[e[2]] => e \in Required
      BY <1>3, <2>1, <2>3, <3>1 DEF Required
    <3> QED
      BY <3>3, <3>4 DEF Listed
  <2> QED
    BY <1>2, <2>2, <2>3
<1> HIDE DEF new
<1>10. exact # "no" => seen = parents /\ batch = exists \cap Layers[layer]
  <2>1. job # "none"
    BY <1>2 DEF RegistryTyped, JobFits, Reading
  <2> QED
    BY <1>1, <1>2, <2>1 DEF StandsStill
<1>11. Rebuilding'
  <2> SUFFICES ASSUME exact = "maybe" PROVE Rebuilding'
    BY <1>1 DEF Rebuilding
  <2>1. /\ job = "rebuild" /\ edges \subseteq Required
        /\ \A x \in exists \ nodes : layer <= LayerOf(x) /\ layer # LayerOf(x)
        /\ \A e \in Required \ edges : layer <= LayerOf(e[2])
    BY DEF Rebuilding
  <2>2. edges' \subseteq Required
    BY <1>2, <1>4, <2>1
  <2>3. \A x \in exists \ nodes' : layer' <= LayerOf(x) /\ step' = "nodes"
    <3> SUFFICES ASSUME NEW x \in exists \ nodes PROVE layer' <= LayerOf(x) /\ step' = "nodes"
      BY <1>2
    <3>1. LayerOf(x) \in 1..4
      BY <1>1, TypedFacts, LayerOfElement
    <3>2. layer <= LayerOf(x) /\ layer # LayerOf(x)
      BY <2>1
    <3> QED
      BY <1>1, <3>1, <3>2
  <2>4. ASSUME NEW e \in Required \ edges' PROVE layer' <= LayerOf(e[2]) /\ step' # "finish"
    <3>1. /\ e[2] \in Elements /\ e[2] \in exists /\ e[1] \in parents[e[2]] /\ e[1] \in exists
          /\ e[1] \in Above(e[2]) /\ e = <<e[1], e[2]>> /\ e \notin edges
      BY <1>1, <1>2, <2>4, TypedFacts DEF Required
    <3>2. LayerOf(e[1]) \in 1..4 /\ LayerOf(e[2]) \in 1..4 /\ LayerOf(e[1]) < LayerOf(e[2])
          /\ (e[1] \in Devices \/ e[1] \in Floors \cup Areas)
      BY <3>1, AboveIsBefore
    <3>3. layer <= LayerOf(e[2])
      BY <2>1, <2>4, <3>1
    <3>4. layer # LayerOf(e[2])
      <4> SUFFICES ASSUME layer = LayerOf(e[2]) PROVE FALSE
        OBVIOUS
      <4>1. e[1] \in nodes
        <5>1. e[1] \notin nodes => layer <= LayerOf(e[1])
          BY <2>1, <3>1
        <5> QED
          BY <1>1, <3>2, <5>1
      <4>2. e[2] \in batch
        BY <1>10, <3>1, LayerOfElement
      <4>3. e[2] \in nodes /\ (e[1] \in Devices => e \in edges)
        BY <1>10, <3>1, <4>1, <4>2 DEF BatchIsWritten
      <4>4. e[1] \in Floors \cup Areas => e \in new
        BY <1>10, <3>1, <4>1, <4>2, <4>3 DEF new
      <4> QED
        BY <1>2, <2>4, <3>1, <3>2, <4>3, <4>4
    <3> QED
      BY <1>1, <3>2, <3>3, <3>4
  <2> QED
    BY <1>1, <2>1, <2>2, <2>3, <2>4 DEF Rebuilding, Required
<1>12. Rebuilt'
  <2> SUFFICES ASSUME exact = "yes" PROVE Rebuilt'
    BY <1>1 DEF Rebuilt
  <2>1. /\ job # "rebuild" /\ edges \subseteq Required /\ exists \subseteq nodes
        /\ \A e \in Required \ edges :
              \/ e[2] \in failed
              \/ job = e[2]
              \/ layer = 4 /\ e[1] \in Areas /\ e[2] \in Entities
    BY DEF Rebuilt
  <2>2. edges' \subseteq Required
    BY <1>2, <1>4, <2>1
  <2>3. ASSUME NEW e \in Required \ edges' PROVE e[2] \in failed /\ job # e[2]
    <3>1. /\ e[2] \in Elements /\ e[2] \in exists /\ e[1] \in parents[e[2]] /\ e[1] \in exists
          /\ e = <<e[1], e[2]>> /\ e \notin edges
      BY <1>1, <1>2, <2>3, TypedFacts DEF Required
    <3>2. ~ (layer = 4 /\ e[1] \in Areas /\ e[2] \in Entities)
      <4> SUFFICES ASSUME layer = 4, e[1] \in Areas, e[2] \in Entities PROVE FALSE
        OBVIOUS
      <4>1. e[2] \in batch
        BY <1>10, <3>1, LayersApart
      <4>2. e \in new
        BY <1>10, <2>1, <3>1, <4>1 DEF new
      <4> QED
        BY <1>2, <2>3, <4>2
    <3> QED
      BY <1>1, <2>1, <2>3, <3>1, <3>2
  <2> QED
    BY <1>1, <1>2, <2>1, <2>2, <2>3 DEF Rebuilt, Required
<1> QED
  BY <1>5, <1>6, <1>7, <1>8, <1>9, <1>11, <1>12

\* Each step to the next collector.
LEMMA CollectKeeps == ASSUME RegistryInv, Collect PROVE RegistryInv'
  BY FirstCollectorKeeps, NextCollectorKeeps DEF Collect
-----------------------------------------------------------------------------
(* An operation ends *)

\* What a call does, to whatever part of its batch.
LEMMA EffectFacts ==
    ASSUME RegistryInv, NEW S \in SUBSET batch, Effect(S)
    PROVE  /\ nodes' \subseteq Elements /\ edges' \subseteq nodes' \X nodes'
           /\ \A e \in edges' : e[1] \in Above(e[2])
           /\ \A x : x \notin S => (x \in nodes' <=> x \in nodes)
           /\ \A x \in nodes' \ nodes : step \in {"nodes", "stateNode"}
           /\ \A e \in edges : e[2] \notin S /\ (step = "delete" => e[1] \notin S) => e \in edges'
           /\ \A e \in edges' \ edges : /\ Reading /\ e[2] \in S /\ e[1] \in seen[e[2]]
                                        /\ exact # "no" => e \in Required
           /\ \A x \in nodes \ nodes' : step = "delete"
           /\ \A e \in edges \ edges' : step \in {"unlink", "delete"}
<1> USE DEF RegistryInv
<1>1. /\ RegistryTyped /\ nodes \subseteq Elements /\ batch \subseteq Elements
      /\ edges \subseteq nodes \X nodes /\ \A e \in edges : e[1] \in Above(e[2])
  BY DEF RegistryTyped, RegistryTypeOK, RegistriesFit
<1>2. CASE step \in {"nodes", "stateNode"} /\ WriteNodes(S)
  BY <1>1, <1>2 DEF WriteNodes
<1>3. ASSUME step \in {"owner", "place"}, NEW above, Link(S, above)
      PROVE  /\ nodes' = nodes /\ edges' \subseteq nodes' \X nodes' /\ edges \subseteq edges'
             /\ \A e \in edges' : e[1] \in Above(e[2])
             /\ \A e \in edges' \ edges : /\ Reading /\ e[2] \in S /\ e[1] \in seen[e[2]]
                                          /\ exact # "no" => e \in Required
  <2> DEFINE new == {e \in above \X S : e[1] \in seen[e[2]] /\ {e[1], e[2]} \subseteq nodes}
  <2>1. nodes' = nodes /\ edges' = edges \cup new
    BY <1>3 DEF Link
  <2>2. Reading
    BY <1>3 DEF Reading
  <2>3. new \subseteq {e \in above \X batch : e[1] \in seen[e[2]] /\ {e[1], e[2]} \subseteq nodes}
    OBVIOUS
  <2>4. exact # "no" => new \subseteq Required
    BY <2>2, <2>3, WrittenIsRequired
  <2>5. \A e \in new : /\ e[2] \in S /\ e[1] \in seen[e[2]] /\ e[1] \in nodes /\ e[2] \in nodes
                       /\ e = <<e[1], e[2]>>
    OBVIOUS
  <2>6. \A e \in new : e[1] \in Above(e[2])
    BY <2>2, <2>5, BatchFacts
  <2> HIDE DEF new
  <2>7. edges' \subseteq nodes' \X nodes'
    BY <1>1, <2>1, <2>5
  <2> QED
    BY <1>1, <2>1, <2>2, <2>4, <2>5, <2>6, <2>7
<1>4. CASE step \in {"owner", "place"} /\ \E above : Link(S, above)
  BY <1>1, <1>3, <1>4
<1>5. CASE step = "unlink" /\ Unlink(S)
  BY <1>1, <1>5 DEF Unlink
<1>6. CASE step = "delete" /\ Detach(S)
  <2>1. nodes' = nodes \ S /\ edges' = {e \in edges : e[1] \notin S /\ e[2] \notin S}
    BY <1>6 DEF Detach
  <2>2. edges' \subseteq nodes' \X nodes'
    BY <1>1, <2>1
  <2> QED
    BY <1>1, <1>6, <2>1, <2>2
<1>7. CASE UNCHANGED graphVars
  BY <1>1, <1>7 DEF graphVars
<1> QED
  BY <1>2, <1>4, <1>5, <1>6, <1>7 DEF Effect

\* No operation is at work after one has ended.
LEMMA EndIsTyped ==
    ASSUME RegistryTyped, EndJob, UNCHANGED <<haVars, queue, syncs>>,
           nodes' \subseteq Elements, edges' \subseteq nodes' \X nodes',
           \A e \in edges' : e[1] \in Above(e[2]),
           failed' \subseteq Elements \ Floors, suspect' \subseteq Elements, broken' \in BOOLEAN,
           exact' \in {"yes", "maybe", "no"}, failures' \in 0..MaxFailures
    PROVE  /\ RegistryTyped' /\ ~ Full' /\ \A y \in Elements : job' # y
           /\ ReadIsCurrent' /\ BatchIsWritten' /\ StandsStill'
           /\ \A a \in Elements : Stays(a)' <=> a \in nodes'
           /\ \A x : InQueue(x)' <=> InQueue(x)
           /\ \A a, y : Ahead(a, y)' <=> Ahead(a, y)
           /\ \A x \in Elements : Listed(x)' <=> InQueue(x) \/ x \in failed'
           /\ step' = "idle" /\ job' = "none"
<1> USE DEF RegistryTyped, haVars, EndJob
<1>1. ~ Full' /\ \A y \in Elements : job' # y
  BY NotASync DEF Full, FullSyncs
<1>2. RegistryTypeOK'
  BY DEF RegistryTypeOK, NoParents
<1>3. RegistriesFit'
  BY DEF RegistriesFit, NoParents
<1>4. JobFits'
  BY <1>1 DEF JobFits, Full, Reading
<1>5. ReadIsCurrent' /\ BatchIsWritten' /\ StandsStill'
  BY <1>1 DEF ReadIsCurrent, ReadNow, BatchIsWritten, StandsStill
<1>6. /\ \A x : InQueue(x)' <=> InQueue(x)
      /\ \A a, y : Ahead(a, y)' <=> Ahead(a, y)
      /\ \A x \in Elements : Listed(x)' <=> InQueue(x) \/ x \in failed'
      /\ \A a \in Elements : Stays(a)' <=> a \in nodes'
  BY <1>1 DEF InQueue, Ahead, Listed, Stays
<1> QED
  BY <1>1, <1>2, <1>3, <1>4, <1>5, <1>6

\* A full sync that ends has read and placed every layer.
LEMMA SyncDoneKeeps == ASSUME RegistryInv, SyncDone PROVE RegistryInv'
<1> USE DEF RegistryInv, haVars, graphVars
<1>1. /\ RegistryTyped /\ step = "finish" /\ EndJob /\ suspect' = {} /\ broken' = FALSE
      /\ UNCHANGED <<haVars, graphVars, queue, failed, syncs, failures>>
      /\ exact' = IF exact = "maybe" THEN "yes" ELSE exact
  BY DEF SyncDone
<1>2. Full /\ layer = 4 /\ job \notin Elements
  BY <1>1, NotASync DEF RegistryTyped, JobFits, Full
<1>3. /\ RegistryTyped' /\ ~ Full' /\ \A y \in Elements : job' # y
      /\ ReadIsCurrent' /\ BatchIsWritten' /\ StandsStill'
      /\ \A a \in Elements : Stays(a)' <=> a \in nodes'
      /\ \A x : InQueue(x)' <=> InQueue(x)
      /\ \A a, y : Ahead(a, y)' <=> Ahead(a, y)
      /\ \A x \in Elements : Listed(x)' <=> InQueue(x) \/ x \in failed'
      /\ step' = "idle" /\ job' = "none"
  BY <1>1, EndIsTyped DEF RegistryTyped, RegistryTypeOK, RegistriesFit, JobFits
<1>4. /\ \A x \in Elements : HasRead(x) /\ HasPlaced(x) /\ (Listed(x)' <=> Listed(x)) /\ (Stays(x)' <=> Stays(x))
      /\ \A x : ~ Doubted(x)
  BY <1>1, <1>2, <1>3, LayerOfElement DEF HasRead, HasPlaced, Doubted, Listed, Stays
<1>5. Areas \cup Devices \cup Entities \subseteq Elements
  BY DEF Elements
<1>6. LeftOver'
  BY <1>1, <1>2, <1>4, <1>5 DEF LeftOver
<1>7. Missing'
  BY <1>1, <1>4, <1>5 DEF Missing
<1>8. NodeOwed'
  BY <1>1, <1>3, <1>4, <1>5 DEF NodeOwed
<1>9. NodeInTime'
  <2>1. \A y \in Elements : parents[y] \subseteq Elements
    BY <1>1 DEF RegistryTyped, RegistryTypeOK
  <2> QED
    BY <1>1, <1>3, <1>4, <2>1 DEF NodeInTime
<1>10. EdgeOwed'
  BY <1>1, <1>2, <1>3, <1>4 DEF EdgeOwed
<1>11. EdgeLeftOver'
  BY <1>1, <1>2, <1>4, <1>5 DEF EdgeLeftOver, Required
<1>12. Rebuilding' /\ Rebuilt'
  <2>1. exact' # "maybe" /\ Required' = Required
    BY <1>1 DEF Required
  <2>2. exact' = "yes" => /\ edges \subseteq Required /\ exists \subseteq nodes
                          /\ \A e \in Required \ edges : e[2] \in failed
    <3>1. CASE exact = "maybe"
      BY <1>1, <3>1 DEF Rebuilding
    <3>2. CASE exact = "yes"
      <4>1. \A e \in Required : e[2] \in Elements
        BY DEF Required
      <4> QED
        BY <1>1, <1>2, <3>2, <4>1 DEF Rebuilt
    <3> QED
      BY <1>1, <3>1, <3>2
  <2>3. \A e \in Required : job' # e[2]
    BY <1>3 DEF Required
  <2> QED
    BY <1>1, <1>3, <2>1, <2>2, <2>3 DEF Rebuilding, Rebuilt
<1> QED
  BY <1>3, <1>6, <1>7, <1>8, <1>9, <1>10, <1>11, <1>12

\* An update that ends has done what it read, or is announced again.
LEMMA UpdateDoneKeeps == ASSUME RegistryInv, UpdateDone PROVE RegistryInv'
<1> USE DEF RegistryInv, haVars, history
<1>1. /\ RegistryTyped /\ job \in Elements /\ step \in {"place", "stateNode", "delete"}
      /\ Effect(batch) /\ EndJob /\ failed' = failed \ {job}
      /\ UNCHANGED <<haVars, queue, history, syncs, failures>>
  BY DEF UpdateDone
<1>2. /\ ~ Full /\ job \notin Floors /\ layer = LayerOf(job) /\ batch = {job}
      /\ step = "stateNode" => job \in Entities
  BY <1>1, NotASync DEF RegistryTyped, JobFits, Full
<1>3. /\ nodes' \subseteq Elements /\ edges' \subseteq nodes' \X nodes'
      /\ \A e \in edges' : e[1] \in Above(e[2])
      /\ \A x : x # job => (x \in nodes' <=> x \in nodes)
      /\ \A x \in nodes' \ nodes : step \in {"nodes", "stateNode"}
      /\ \A e \in edges : e[2] # job /\ (step = "delete" => e[1] # job) => e \in edges'
      /\ \A e \in edges' \ edges : /\ Reading /\ e[2] = job /\ e[1] \in seen[e[2]]
                                   /\ exact # "no" => e \in Required
      /\ \A x \in nodes \ nodes' : step = "delete"
      /\ \A e \in edges \ edges' : step \in {"unlink", "delete"}
  <2>1. \A x : x \in batch <=> x = job
    BY <1>2
  <2> QED
    BY <1>1, <2>1, EffectFacts
<1>4. step = "delete" => job \notin nodes'
  BY <1>1, <1>2 DEF Effect, Detach
<1>5. /\ RegistryTyped' /\ ~ Full' /\ \A y \in Elements : job' # y
      /\ ReadIsCurrent' /\ BatchIsWritten' /\ StandsStill'
      /\ \A a \in Elements : Stays(a)' <=> a \in nodes'
      /\ \A x : InQueue(x)' <=> InQueue(x)
      /\ \A a, y : Ahead(a, y)' <=> Ahead(a, y)
      /\ \A x \in Elements : Listed(x)' <=> InQueue(x) \/ x \in failed'
      /\ step' = "idle" /\ job' = "none"
  BY <1>1, <1>3, EndIsTyped DEF RegistryTyped, RegistryTypeOK, RegistriesFit, JobFits
<1>6. /\ \A x : HasRead(x)' <=> HasRead(x)
      /\ \A x : HasPlaced(x)' <=> HasPlaced(x)
      /\ \A x : Doubted(x)' <=> Doubted(x)
      /\ \A x \in Elements : Listed(x)' <=> Listed(x)
      /\ \A a : a # job => (Stays(a) <=> a \in nodes)
      /\ Stays(job) => step # "delete" /\ job \in nodes
  BY <1>1, <1>2, <1>5 DEF HasRead, HasPlaced, Doubted, Listed, Stays
<1>7. Areas \cup Devices \cup Entities \subseteq Elements
  BY DEF Elements
<1>8. job \in exists => InQueue(job) \/ (job \in batch /\ Reading /\ seen[job] = parents[job])
  BY <1>1, <1>2 DEF ReadIsCurrent, ReadNow
<1>9. step = "place" => Reading
  BY DEF Reading
<1>10. LeftOver'
  <2> SUFFICES ASSUME NEW x \in Areas \cup Devices, x \in nodes' \ exists PROVE Listed(x)
    BY <1>1, <1>6, <1>7 DEF LeftOver
  <2>1. x \in nodes /\ ~ (job = x /\ step = "delete")
    BY <1>1, <1>2, <1>3, <1>4, LayersApart
  <2> QED
    BY <2>1 DEF LeftOver
<1>11. Missing'
  <2> SUFFICES ASSUME NEW x \in Areas \cup Devices, HasRead(x), x \in exists \ nodes' PROVE Listed(x)
    BY <1>1, <1>6, <1>7 DEF Missing
  <2>1. CASE x \in nodes
    BY <1>3, <1>8, <2>1 DEF Reading, Listed
  <2>2. CASE x \notin nodes
    BY <1>1, <2>2 DEF Missing
  <2> QED
    BY <2>1, <2>2
<1>12. NodeOwed'
  <2> SUFFICES ASSUME NEW a \in Areas \cup Devices, HasRead(a), a \in exists
               PROVE  a \in nodes' \/ Doubted(a) \/ InQueue(a)
    BY <1>1, <1>5, <1>6, <1>7 DEF NodeOwed
  <2>1. Stays(a) \/ Doubted(a) \/ InQueue(a)
    BY <1>1 DEF NodeOwed
  <2> QED
    BY <1>3, <1>6, <2>1
<1>13. NodeInTime'
  <2> SUFFICES ASSUME NEW y \in Elements, NEW a \in parents[y] \ Floors, HasRead(a)
               PROVE  a \in nodes' \/ Doubted(a) \/ Ahead(a, y)
    BY <1>1, <1>5, <1>6, TypedFacts DEF NodeInTime
  <2>1. Stays(a) \/ Doubted(a) \/ Ahead(a, y)
    BY <1>1 DEF NodeInTime
  <2> QED
    BY <1>3, <1>6, <2>1
\* What the update read of its element is in the graph.
<1>14. ASSUME NEW a \in seen[job], a \in nodes, step = "place"
       PROVE  <<a, job>> \in edges'
  <2>1. a \in Above(job) /\ job \in nodes
    BY <1>1, <1>2, <1>9, <1>14, BatchFacts DEF BatchIsWritten
  <2>2. CASE a \in Devices
    BY <1>2, <1>3, <1>14, <2>2 DEF BatchIsWritten
  <2>3. CASE a \in Floors \cup Areas
    BY <1>1, <1>2, <1>14, <2>1, <2>3 DEF Effect, Link
  <2> QED
    BY <1>1, <2>1, <2>2, <2>3, AboveIsBefore
<1>15. EdgeOwed'
  <2> SUFFICES ASSUME NEW y \in Elements, NEW a \in parents[y], HasPlaced(y)
               PROVE  Listed(y) \/ Doubted(a) \/ a \notin nodes' \/ <<a, y>> \in edges'
    BY <1>1, <1>5, <1>6 DEF EdgeOwed
  <2>1. a \in Above(y) /\ a \in Elements /\ y \in exists
    BY <1>1, TypedFacts
  <2>2. a \in nodes' => a \in nodes
    <3>1. a = job => job \notin Entities
      BY <2>1, AboveIsBefore
    <3> QED
      BY <1>1, <1>2, <1>3, <3>1
  <2>3. CASE y = job
    <3>1. step # "place" => InQueue(y)
      BY <1>1, <1>8, <2>1, <2>3 DEF Reading
    <3>2. \/ Listed(y) \/ Doubted(a) \/ a \notin nodes \/ a \in seen[y]
      BY <2>3 DEF EdgeOwed
    <3> QED
      BY <1>14, <2>2, <2>3, <3>1, <3>2 DEF Listed
  <2>4. CASE y # job
    <3>1. \/ Listed(y) \/ Doubted(a) \/ a \notin nodes \/ <<a, y>> \in edges
      BY <2>4 DEF EdgeOwed
    <3>2. <<a, y>> \in edges => <<a, y>> \in edges' \/ (a = job /\ step = "delete")
      BY <1>3, <2>4
    <3> QED
      BY <1>4, <2>2, <3>1, <3>2
  <2> QED
    BY <2>3, <2>4
<1>16. EdgeLeftOver'
  <2> SUFFICES ASSUME NEW e \in edges', e[1] \in Areas, e[2] \in Entities \cap exists, e \notin Required
               PROVE  Listed(e[2])
    BY <1>1, <1>6, <1>7 DEF EdgeLeftOver, Required
  <2>1. CASE e \in edges
    BY <1>1, <2>1 DEF EdgeLeftOver
  <2>2. CASE e \notin edges
    <3>1. /\ e[2] = job /\ e[1] \in seen[e[2]] /\ e[1] \in Elements /\ e = <<e[1], e[2]>>
      BY <1>3, <2>2
    <3> QED
      BY <1>1, <1>8, <3>1 DEF Required, Listed
  <2> QED
    BY <2>1, <2>2
<1>17. exact # "maybe"
  BY <1>1, NotASync DEF Rebuilding, FullSyncs
<1>18. Rebuilt'
  <2> SUFFICES ASSUME exact = "yes" PROVE Rebuilt'
    BY <1>1 DEF Rebuilt
  <2>1. /\ edges \subseteq Required /\ exists \subseteq nodes
        /\ \A e \in Required \ edges :
              (e[2] \in failed /\ job # e[2]) \/ (job = e[2] /\ Reading)
    BY <1>1, <1>2 DEF Rebuilt, Full, FullSyncs
  <2>2. /\ step = "delete" => job \notin exists
        /\ Reading => seen = parents
    BY <1>1, <1>17, NotASync DEF StandsStill, Reading
  <2>3. edges' \subseteq Required
    BY <1>3, <2>1
  <2>4. exists \subseteq nodes'
    BY <1>3, <2>1, <2>2
  <2>5. ASSUME NEW e \in Required \ edges' PROVE e[2] \in failed /\ e[2] # job
    <3>1. /\ e[2] \in Elements /\ e[2] \in exists /\ e[1] \in parents[e[2]] /\ e[1] \in exists
          /\ e = <<e[1], e[2]>>
      BY <1>1, <2>5, TypedFacts DEF Required
    <3>2. e \notin edges
      BY <1>1, <1>3, <2>2, <2>5, <3>1
    <3>3. ~ (job = e[2] /\ Reading)
      BY <1>1, <1>14, <2>1, <2>2, <2>5, <3>1 DEF Reading
    <3> QED
      BY <2>1, <2>5, <3>2, <3>3
  <2> QED
    BY <1>1, <1>5, <2>3, <2>4, <2>5 DEF Rebuilt, Required
<1> QED
  BY <1>1, <1>5, <1>10, <1>11, <1>12, <1>13, <1>15, <1>16, <1>17, <1>18 DEF Rebuilding

\* A full sync that fails leaves nothing behind but what is announced.
LEMMA SyncFails == ASSUME RegistryInv, Fail, Full PROVE RegistryInv'
<1> USE DEF RegistryInv, haVars
<1>1. /\ RegistryTyped /\ failures' \in 0..MaxFailures
      /\ broken' = TRUE /\ exact' = "no" /\ UNCHANGED <<failed, suspect>>
      /\ EndJob /\ UNCHANGED <<haVars, queue, syncs>>
  BY RegistryAssumption DEF Fail, Track, Full, RegistryTyped, RegistryTypeOK
<1>2. PICK S \in SUBSET batch : Effect(S)
  BY DEF Fail
<1>3. /\ nodes' \subseteq Elements /\ edges' \subseteq nodes' \X nodes'
      /\ \A e \in edges' : e[1] \in Above(e[2])
      /\ \A x : x \notin S => (x \in nodes' <=> x \in nodes)
      /\ \A x \in nodes' \ nodes : step \in {"nodes", "stateNode"}
      /\ \A e \in edges' \ edges : Reading /\ e[2] \in S /\ e[1] \in seen[e[2]]
  BY <1>2, EffectFacts
<1>4. /\ RegistryTyped' /\ ~ Full' /\ \A y \in Elements : job' # y
      /\ ReadIsCurrent' /\ BatchIsWritten' /\ StandsStill'
      /\ \A x \in Elements : Listed(x)' <=> InQueue(x) \/ x \in failed'
  BY <1>1, <1>3, EndIsTyped DEF RegistryTyped, RegistryTypeOK, RegistriesFit, JobFits
<1>5. \A x \in Elements : job # x /\ (Listed(x) => Listed(x)') /\ (InQueue(x) => Listed(x)')
  BY <1>1, <1>4, NotASync DEF Listed, Full
<1>6. step # "stateNode"
  BY <1>1 DEF RegistryTyped, JobFits, Full, Reading
<1>7. \A x : ~ HasRead(x)' /\ ~ HasPlaced(x)'
  BY <1>1, <1>4 DEF HasRead, HasPlaced
<1>8. LeftOver'
  <2> SUFFICES ASSUME NEW x \in Areas \cup Devices, x \in nodes' \ exists PROVE Listed(x)'
    BY <1>1 DEF LeftOver
  <2>1. x \in Elements /\ x \notin Floors
    BY LayersApart DEF Elements
  <2>2. CASE x \in nodes
    BY <1>5, <2>1, <2>2 DEF LeftOver
  <2>3. CASE x \notin nodes
    <3>1. Reading /\ x \in batch
      BY <1>2, <1>3, <1>6, <2>3 DEF Reading
    <3> QED
      BY <1>5, <2>1, <3>1, BatchFacts
  <2> QED
    BY <2>2, <2>3
<1>9. EdgeLeftOver'
  <2> SUFFICES ASSUME NEW e \in edges', e[1] \in Areas, e[2] \in Entities \cap exists, e \notin Required
               PROVE  Listed(e[2])'
    BY <1>1 DEF EdgeLeftOver, Required
  <2>1. e[2] \in Elements /\ e[2] \notin Floors /\ e = <<e[1], e[2]>> /\ e[1] \in Elements
    BY <1>3, LayersApart DEF Elements
  <2>2. CASE e \in edges
    BY <1>5, <2>1, <2>2 DEF EdgeLeftOver
  <2>3. CASE e \notin edges
    <3>1. Reading /\ e[2] \in batch /\ e[1] \in seen[e[2]]
      BY <1>2, <1>3, <2>3
    <3>2. InQueue(e[2]) \/ seen[e[2]] = parents[e[2]]
      BY <2>1, <3>1, BatchFacts
    <3> QED
      BY <1>5, <2>1, <3>1, <3>2 DEF Required
  <2> QED
    BY <2>2, <2>3
<1> QED
  BY <1>1, <1>4, <1>7, <1>8, <1>9 DEF Missing, NodeOwed, NodeInTime, EdgeOwed, Rebuilding, Rebuilt

\* An update that fails is on the list, whatever it has written.
LEMMA UpdateFails == ASSUME RegistryInv, Fail, ~ Full PROVE RegistryInv'
<1> USE DEF RegistryInv, haVars
<1>1. /\ RegistryTyped /\ failures' \in 0..MaxFailures /\ job # "none"
      /\ failed' = failed \cup {job} /\ suspect' = suspect \cup {job} /\ UNCHANGED <<broken, exact>>
      /\ EndJob /\ UNCHANGED <<haVars, queue, syncs>>
  BY RegistryAssumption DEF Fail, Track, Full, RegistryTyped, RegistryTypeOK
<1>2. job \in Elements /\ job \notin Floors /\ batch = {job}
  BY <1>1 DEF RegistryTyped, RegistryTypeOK, JobFits, Full
<1>3. PICK S \in SUBSET batch : Effect(S)
  BY DEF Fail
<1>4. /\ nodes' \subseteq Elements /\ edges' \subseteq nodes' \X nodes'
      /\ \A e \in edges' : e[1] \in Above(e[2])
      /\ \A x : x # job => (x \in nodes' <=> x \in nodes)
      /\ \A e \in edges : e[2] # job /\ (step = "delete" => e[1] # job) => e \in edges'
      /\ \A e \in edges' \ edges : e[2] = job /\ (exact # "no" => e \in Required)
      /\ \A x \in nodes \ nodes' : step = "delete"
      /\ \A e \in edges \ edges' : step \in {"unlink", "delete"}
  <2>1. \A x : x \in S => x = job
    BY <1>2, <1>3
  <2> QED
    BY <1>3, <2>1, EffectFacts
<1>5. /\ RegistryTyped' /\ ~ Full' /\ \A y \in Elements : job' # y
      /\ ReadIsCurrent' /\ BatchIsWritten' /\ StandsStill'
      /\ \A a \in Elements : Stays(a)' <=> a \in nodes'
      /\ \A x : InQueue(x)' <=> InQueue(x)
      /\ \A a, y : Ahead(a, y)' <=> Ahead(a, y)
      /\ \A x \in Elements : Listed(x)' <=> InQueue(x) \/ x \in failed'
      /\ step' = "idle" /\ job' = "none"
  BY <1>1, <1>2, <1>4, EndIsTyped DEF RegistryTyped, RegistryTypeOK, RegistriesFit, JobFits
<1>6. /\ \A x : HasRead(x)' <=> HasRead(x)
      /\ \A x : HasPlaced(x)' <=> HasPlaced(x)
      /\ \A x : Doubted(x) => Doubted(x)'
      /\ \A x \in Elements : x = job => Doubted(x)' /\ Listed(x)'
      /\ \A x \in Elements : Listed(x) => Listed(x)'
      /\ \A a \in Elements : a # job => (Stays(a) => Stays(a)')
      /\ \A x : x \in batch => x = job
  <2>1. /\ \A x : HasRead(x)' <=> HasRead(x)
        /\ \A x : HasPlaced(x)' <=> HasPlaced(x)
    BY <1>1, <1>5 DEF HasRead, HasPlaced
  <2>2. \A x : Doubted(x) \/ x = job => Doubted(x)'
    BY <1>1, <1>5 DEF Doubted
  <2>3. \A x \in Elements : Listed(x) \/ x = job => Listed(x)'
    BY <1>1, <1>2, <1>5 DEF Listed
  <2>4. \A a \in Elements : a # job => (Stays(a) => Stays(a)')
    BY <1>4, <1>5 DEF Stays
  <2> QED
    BY <1>2, <2>1, <2>2, <2>3, <2>4
<1>7. Areas \cup Devices \cup Entities \subseteq Elements
  BY DEF Elements
<1>8. LeftOver' /\ Missing'
  BY <1>1, <1>4, <1>6, <1>7 DEF LeftOver, Missing
<1>9. NodeOwed'
  BY <1>1, <1>5, <1>6, <1>7 DEF NodeOwed
<1>10. NodeInTime'
  <2>1. \A y \in Elements : parents[y] \subseteq Elements
    BY <1>1, TypedFacts
  <2> QED
    BY <1>1, <1>5, <1>6, <2>1 DEF NodeInTime
<1>11. EdgeOwed'
  <2> SUFFICES ASSUME NEW y \in Elements, NEW a \in parents[y], HasPlaced(y), y # job, a # job
               PROVE  Listed(y)' \/ Doubted(a)' \/ a \notin nodes' \/ <<a, y>> \in edges'
    BY <1>1, <1>2, <1>5, <1>6 DEF EdgeOwed
  <2> QED
    BY <1>4, <1>6 DEF EdgeOwed
<1>12. EdgeLeftOver'
  <2> SUFFICES ASSUME NEW e \in edges', e[1] \in Areas, e[2] \in Entities \cap exists, e \notin Required, e[2] # job
               PROVE  Listed(e[2])'
    BY <1>1, <1>6, <1>7 DEF EdgeLeftOver, Required
  <2> QED
    BY <1>4, <1>6, <1>7 DEF EdgeLeftOver
<1>13. exact # "maybe"
  BY <1>2, NotASync DEF Rebuilding, FullSyncs
<1>14. Rebuilt'
  <2> SUFFICES ASSUME exact = "yes" PROVE Rebuilt'
    BY <1>1 DEF Rebuilt
  <2>1. /\ edges \subseteq Required /\ exists \subseteq nodes
        /\ \A e \in Required \ edges : e[2] \in failed \/ job = e[2]
    BY DEF Rebuilt, Full, FullSyncs
  <2>2. step = "delete" => job \notin exists
    BY <1>1, <1>2, <1>13 DEF StandsStill, Reading
  <2>3. edges' \subseteq Required
    BY <1>4, <2>1
  <2>4. exists \subseteq nodes'
    BY <1>4, <2>1, <2>2
  <2>5. ASSUME NEW e \in Required \ edges' PROVE e[2] \in failed' /\ job' # e[2]
    <3>1. e[2] \in Elements /\ e[2] \in exists /\ e[1] \in exists
      BY <1>1, <2>5, TypedFacts DEF Required
    <3>2. e \in edges => e[2] = job
      BY <1>4, <2>2, <2>5, <3>1
    <3> QED
      BY <1>1, <1>5, <2>1, <2>5, <3>1, <3>2
  <2> QED
    BY <1>1, <1>5, <2>3, <2>4, <2>5 DEF Rebuilt, Required
<1> QED
  BY <1>1, <1>5, <1>8, <1>9, <1>10, <1>11, <1>12, <1>13, <1>14 DEF Rebuilding
-----------------------------------------------------------------------------
(* The invariant *)

\* Right after a rebuild nothing is owed.
LEMMA RegistryStarts == RegistryInit => RegistryInv
<1> SUFFICES ASSUME RegistryInit PROVE RegistryInv
  OBVIOUS
<1>1. /\ exists \in SUBSET Elements /\ nodes = exists /\ edges = Required
      /\ DOMAIN parents = Elements
      /\ \A x \in Elements : parents[x] \in Places[x] /\ parents[x] \subseteq exists
                             /\ (x \notin exists => parents[x] = {})
      /\ queue = <<>> /\ job = "none" /\ step = "idle" /\ layer = 0 /\ batch = {}
      /\ failed = {} /\ suspect = {} /\ broken = FALSE /\ exact = "yes"
      /\ \A x \in Elements : seen[x] = {}
  BY DEF RegistryInit, NoParents
<1>2. \A x \in Elements : parents[x] \subseteq Above(x) /\ Above(x) \subseteq Elements
  BY <1>1 DEF Places, Above, Elements
<1>3. parents \in [Elements -> SUBSET Elements]
  BY <1>2 DEF RegistryInit
<1>4. /\ ~ Full /\ ~ Reading /\ (\A x : ~ InQueue(x)) /\ \A x \in Elements : job # x
  BY <1>1, NotASync DEF Full, FullSyncs, Reading, InQueue
<1>5. \A e \in Required : e[1] \in Above(e[2]) /\ e[1] \in exists /\ e[2] \in exists
  BY <1>1, <1>2 DEF Required
<1>6. RegistryTyped
  <2>1. edges \subseteq nodes \X nodes
    BY <1>1, <1>5 DEF Required
  <2>2. seen \in [Elements -> SUBSET Elements] /\ queue \in Seq(Elements \cup FullSyncs)
    BY <1>1 DEF RegistryInit, NoParents
  <2>3. changes \in 0..MaxChanges /\ syncs \in 0..MaxSyncs /\ failures \in 0..MaxFailures
    BY RegistryAssumption DEF RegistryInit
  <2>4. /\ exists \subseteq Elements /\ nodes \subseteq Elements /\ batch \subseteq Elements
        /\ failed \subseteq Elements /\ suspect \subseteq Elements
        /\ job \in Elements \cup FullSyncs \cup {"none"} /\ layer \in 0..4
        /\ step \in {"idle", "delete", "collect", "nodes", "stateNode", "owner", "unlink", "place", "finish"}
        /\ broken \in BOOLEAN /\ exact \in {"yes", "maybe", "no"}
    <3>1. broken \in BOOLEAN
      BY <1>1
    <3>2. /\ exists \subseteq Elements /\ nodes \subseteq Elements /\ batch \subseteq Elements
          /\ failed \subseteq Elements /\ suspect \subseteq Elements
      BY <1>1
    <3>3. job \in Elements \cup FullSyncs \cup {"none"} /\ layer \in 0..4
      BY <1>1
    <3>4. /\ step \in {"idle", "delete", "collect", "nodes", "stateNode", "owner", "unlink", "place", "finish"}
          /\ exact \in {"yes", "maybe", "no"}
      BY <1>1
    <3> QED
      BY <3>1, <3>2, <3>3, <3>4
  <2>5. RegistryTypeOK
    BY <1>3, <2>1, <2>2, <2>3, <2>4 DEF RegistryTypeOK
  <2>6. RegistriesFit
    BY <1>1, <1>2, <1>5 DEF RegistriesFit
  <2>7. JobFits
    BY <1>1, <1>4 DEF JobFits
  <2> QED
    BY <2>5, <2>6, <2>7 DEF RegistryTyped
<1>7. Areas \cup Devices \subseteq Elements
  BY DEF Elements
<1>8. ReadIsCurrent /\ BatchIsWritten
  BY <1>1, <1>4 DEF ReadIsCurrent, ReadNow, BatchIsWritten
<1>9. LeftOver /\ Missing /\ EdgeLeftOver
  BY <1>1 DEF LeftOver, Missing, EdgeLeftOver
<1>10. \A a \in exists : Stays(a)
  BY <1>1, <1>4 DEF Stays
<1>11. NodeOwed /\ NodeInTime
  BY <1>1, <1>10 DEF NodeOwed, NodeInTime
<1>12. EdgeOwed
  <2>1. ASSUME NEW y \in Elements, NEW a \in parents[y] PROVE <<a, y>> \in Required
    BY <1>1, <1>2, <2>1 DEF Required
  <2> QED
    BY <1>1, <1>4, <2>1 DEF EdgeOwed
<1>13. StandsStill /\ Rebuilding /\ Rebuilt
  BY <1>1 DEF StandsStill, Rebuilding, Rebuilt
<1> QED
  BY <1>6, <1>8, <1>9, <1>11, <1>12, <1>13 DEF RegistryInv

\* What the invariant speaks of: everything but the rounds of the retry.
ownVars == <<haVars, graphVars, queue, jobVars, failed, history, syncs, failures>>

\* A step of something else, or the begin of a round.
LEMMA RegistryIdles == ASSUME RegistryInv, UNCHANGED ownVars PROVE RegistryInv'
<1> USE DEF RegistryInv, ownVars, haVars, graphVars, jobVars, history
<1>1. RegistryTyped'
  BY DEF RegistryTyped, RegistryTypeOK, RegistriesFit, JobFits, Full, Reading
<1>2. /\ \A x : InQueue(x)' <=> InQueue(x)
      /\ \A a, y : Ahead(a, y)' <=> Ahead(a, y)
      /\ \A x : Listed(x)' <=> Listed(x)
      /\ \A x : HasRead(x)' <=> HasRead(x)
      /\ \A x : HasPlaced(x)' <=> HasPlaced(x)
      /\ \A x : Doubted(x)' <=> Doubted(x)
      /\ \A x : Stays(x)' <=> Stays(x)
  BY DEF InQueue, Ahead, Listed, HasRead, HasPlaced, Doubted, Stays, Full
<1>3. ReadIsCurrent' /\ BatchIsWritten'
  BY <1>2 DEF ReadIsCurrent, ReadNow, Full, Reading, BatchIsWritten
<1>4. LeftOver' /\ Missing' /\ NodeOwed' /\ NodeInTime'
  BY <1>2 DEF LeftOver, Missing, NodeOwed, NodeInTime, Full
<1>5. EdgeOwed' /\ EdgeLeftOver'
  BY <1>2 DEF EdgeOwed, EdgeLeftOver, Required, Reading
<1>6. StandsStill' /\ Rebuilding' /\ Rebuilt'
  BY DEF StandsStill, Rebuilding, Rebuilt, Required, Full, Reading
<1> QED
  BY <1>1, <1>3, <1>4, <1>5, <1>6

\* Every operation of the graph and every change of the registries leaves no
\* debt unlisted.
LEMMA RegistryStep == RegistryInv /\ [RegistryNext]_registryVars => RegistryInv'
<1> SUFFICES ASSUME RegistryInv, [RegistryNext]_registryVars PROVE RegistryInv'
  OBVIOUS
<1>1. ASSUME NEW x \in Elements, Register(x) \/ Unregister(x) \/ (\E P \in Places[x] : Move(x, P))
      PROVE  RegistryInv'
  BY <1>1, RegisterKeeps, UnregisterKeeps, MoveKeeps
<1>2. ASSUME NEW k \in FullSyncs, RequestSync(k) PROVE RegistryInv'
  BY <1>2, RequestKeeps
<1>3. ASSUME NEW x \in Elements, Retry(x) PROVE RegistryInv'
  BY <1>3, RetryKeeps
<1>4. CASE TakeUpdate
  BY <1>4, TakeUpdateKeeps
<1>5. CASE TakeSync
  BY <1>5, TakeSyncKeeps
<1>6. CASE Proceed
  BY <1>6, ProceedKeeps
<1>7. CASE Collect
  BY <1>7, CollectKeeps
<1>8. CASE UpdateDone
  BY <1>8, UpdateDoneKeeps
<1>9. CASE SyncDone
  BY <1>9, SyncDoneKeeps
<1>10. CASE Fail
  BY <1>10, SyncFails, UpdateFails
<1>11. CASE UNCHANGED registryVars \/ BeginRetries
  <2>1. UNCHANGED ownVars
    BY <1>11 DEF registryVars, BeginRetries, ownVars
  <2> QED
    BY <2>1, RegistryIdles
<1>12. CASE RegistryWork
  BY <1>1, <1>2, <1>4, <1>5, <1>6, <1>7, <1>8, <1>9, <1>10, <1>12 DEF RegistryWork
<1> QED
  BY <1>3, <1>11, <1>12 DEF RegistryNext

\* For any layers of elements and any number of changes, full syncs and
\* failures: what the graph lacks, or has too much, is in the queue, on the list
\* of failed updates, or still to be written by the operation that has the lock.
THEOREM RegistryInvariant == RegistrySpec => []RegistryInv
<1> QED
  BY RegistryStarts, RegistryStep, PTL DEF RegistrySpec

\* A round of the retry has elements to ask for, and there are as many as may be.
LEMMA RetriesTyped == RegistrySpec => []RetryTypeOK
<1>1. RegistryInit => RetryTypeOK
  BY RegistryAssumption DEF RegistryInit, RetryTypeOK
<1>2. RegistryInv /\ RetryTypeOK /\ [RegistryNext]_registryVars => RetryTypeOK'
  <2> SUFFICES ASSUME RegistryInv, RetryTypeOK, [RegistryNext]_registryVars PROVE RetryTypeOK'
    OBVIOUS
  <2>1. CASE UNCHANGED retryVars
    BY <2>1 DEF RetryTypeOK, retryVars
  <2>2. CASE BeginRetries
    <3>1. failed \subseteq Elements
      BY DEF RegistryInv, RegistryTyped, RegistryTypeOK
    <3> QED
      BY <2>2, <3>1, RegistryAssumption DEF BeginRetries, RetryTypeOK
  <2>3. ASSUME NEW x \in Elements, Retry(x) PROVE RetryTypeOK'
    BY <2>3 DEF Retry, RetryTypeOK
  <2>4. UNCHANGED registryVars => UNCHANGED retryVars
    BY DEF registryVars
  <2> QED
    BY <2>1, <2>2, <2>3, <2>4 DEF RegistryNext
<1> QED
  BY <1>1, <1>2, RegistryInvariant, PTL DEF RegistrySpec

\* Nothing is in the queue or at work: the debts are on the list of failures.
LEMMA NoDebts ==
    ASSUME RegistryInv, Quiet, ~ broken
    PROVE  /\ \A x \in (Areas \cup Devices) \ failed : x \in nodes <=> x \in exists
           /\ \A e \in Required :
                 e[1] \in nodes \ suspect /\ e[2] \notin failed => e \in edges
           /\ \A e \in edges :
                 e[1] \in Areas /\ e[2] \in (Entities \cap exists) \ failed => e \in Required
<1> USE DEF RegistryInv
<1>1. job = "none" /\ step = "idle" /\ ~ Full /\ ~ Reading /\ \A x : ~ InQueue(x)
  BY DEF Quiet, RegistryTyped, JobFits, Full, FullSyncs, Reading, InQueue
<1>2. /\ \A x : Listed(x) => x \in failed
      /\ \A x : HasRead(x) /\ HasPlaced(x)
      /\ \A x : Doubted(x) => x \in suspect
      /\ \A x \in Elements : job # x
  BY <1>1, NotASync DEF Listed, HasRead, HasPlaced, Doubted
<1>3. \A x \in (Areas \cup Devices) \ failed : x \in nodes <=> x \in exists
  BY <1>1, <1>2 DEF LeftOver, Missing
<1>4. ASSUME NEW e \in Required, e[1] \in nodes \ suspect, e[2] \notin failed PROVE e \in edges
  <2>1. e[2] \in Elements /\ e[1] \in parents[e[2]] /\ e = <<e[1], e[2]>>
    BY DEF Required
  <2> QED
    BY <1>1, <1>2, <1>4, <2>1 DEF EdgeOwed
<1>5. \A e \in edges : e[1] \in Areas /\ e[2] \in (Entities \cap exists) \ failed => e \in Required
  BY <1>1, <1>2 DEF EdgeLeftOver
<1> QED
  BY <1>3, <1>4, <1>5

\* update_area, update_device, update_entity, retry, resync and rebuild: once
\* every announced change was handled, areas and devices have nodes exactly if
\* they exist, the graph has the containments the registries call for and no
\* registered entity an area it has left, failed updates apart; and a rebuild
\* while the registries stand still leaves their edges and no others.
THEOREM GraphMirrorsRegistries == RegistrySpec => []RegistryIsMirrored
<1>1. RegistryInv /\ RetryTypeOK => RegistryIsMirrored
  <2> SUFFICES ASSUME RegistryInv, RetryTypeOK PROVE RegistryIsMirrored
    OBVIOUS
  <2>1. RegistryTypeOK
    BY DEF RegistryInv, RegistryTyped
  <2>2. QuietGraphMirrors
    BY NoDebts DEF QuietGraphMirrors
  <2>3. RebuildIsExact
    <3> SUFFICES ASSUME exact = "yes"
                 PROVE  edges \subseteq Required /\ (job = "none" => \A e \in Required \ edges : e[2] \in failed)
      BY DEF RebuildIsExact
    <3>1. job = "none" => ~ Reading
      BY DEF RegistryInv, RegistryTyped, JobFits, Reading
    <3> QED
      BY <3>1 DEF RegistryInv, Rebuilt
  <2> QED
    BY <2>1, <2>2, <2>3 DEF RegistryIsMirrored
<1> QED
  BY <1>1, RegistryInvariant, RetriesTyped, PTL
=============================================================================
