-------------------------- MODULE EntitySyncProofs --------------------------
(***************************************************************************)
(* For any number of entities, changes, failures and waiting operations:   *)
(* an accepted change is in the graph, on its way or tracked as failed,    *)
(* unless a rebuild took its node, and what was settled was announced as   *)
(* an upsert.                                                              *)
(*                                                                         *)
(* What makes it hard is that a batch writes the state it captured, and    *)
(* writes it late: the invariant says that whoever is about to write an    *)
(* old state has the new one behind it, because the queue is first in,     *)
(* first out.                                                              *)
(***************************************************************************)
EXTENDS EntitySync, TLAPS

\* The last state of e was accepted by the debouncer.
Due(e) == accepted[e] > 0 /\ accepted[e] = state[e]

\* e waits in the window or in an operation that will sync it.
Queued(e) == pending[e] > 0 \/ \E i \in 1..Len(queue) : Carries(queue[i], e)

Incremental == job.kind \in {"batch", "entity", "retry"}

-----------------------------------------------------------------------------
(* What operations look like *)

Kinds == {"batch", "entity", "retry", "service"} \cup FullSyncs

\* A batch has a captured state of each of its entities, no other operation has
\* any; all but a batch are about at most one entity.
Item == {j \in [kind : Kinds, ids : SUBSET Entities, ctx : [Entities -> Version]] :
            /\ \A e \in Entities : j.ctx[e] > 0 <=> j.kind = "batch" /\ e \in j.ids
            /\ j.kind # "batch" => \A x, y \in j.ids : x = y
            /\ j.kind \in FullSyncs => j.ids = {}}

Progress == [kind : Kinds, ctx : [Entities -> Version],
             stage : {"bulk", "clear", "collect", "each", "shared", "write"},
             todo : SUBSET Entities, written : SUBSET Entities, ok : SUBSET Entities,
             bad : SUBSET Entities, removed : SUBSET Entities]

\* Each entity is in one place, and what the bulk write took holds what the
\* batch captured.
ProgressFits ==
    /\ job.todo \cap (job.ok \cup job.bad) = {} /\ job.ok \cap job.bad = {}
    /\ job.kind = "batch" =>
           /\ \A e \in job.todo \cup job.ok \cup job.bad : job.ctx[e] > 0
           /\ \A e \in job.written \cap job.todo : graph[e] = job.ctx[e]
    /\ job.kind \in {"entity", "retry", "service"} =>
           /\ \A x, y \in job.todo \cup job.ok \cup job.bad : x = y
           /\ \A e \in Entities : job.ctx[e] = 0
           /\ job.written = {}
    /\ job.kind \in FullSyncs => job.ok = {} /\ job.bad = {}
    /\ job.stage = "shared" => job.todo = {}
    /\ job.stage = "write" => job.kind \in FullSyncs
    /\ job.stage # "shared" => job.removed = {}

Typed ==
    /\ TypeOK
    /\ queue \in Seq(Item)
    /\ job \in Progress \cup {NoJob}
    /\ job # NoJob => ProgressFits
    /\ \A e \in Entities : /\ accepted[e] <= changes /\ state[e] <= changes
                           /\ pending[e] > 0 => pending[e] = accepted[e]

-----------------------------------------------------------------------------
(* What is owed to an entity *)

\* Behind an operation with an old state of e comes one with the new state.
OldStateIsFollowed(e) ==
    \A i \in 1..Len(queue) :
        \/ queue[i].ctx[e] \in {0, state[e]}
        \/ pending[e] = state[e]
        \/ \E k \in (i + 1)..Len(queue) : queue[k].ctx[e] = state[e]

\* So it does behind the operation at hand.
WritesOld(e) ==
    /\ job # NoJob
    /\ job.stage = "write" \/ job.ctx[e] > 0
    /\ job.ctx[e] # state[e]

\* e is on a list on which it is looked after until its node is right.
Owed(e) ==
    \/ Queued(e)
    \/ Incremental /\ e \in job.todo \cup job.bad
    \/ e \in failed

\* The end of the operation at hand may take e from the failed list.
Passed(e) == Incremental /\ e \in job.ok

IsPaid(e) ==
    /\ OldStateIsFollowed(e)
    /\ WritesOld(e) => Queued(e)
    /\ ~ UpToDate(e) => Owed(e)
    /\ graph[e] # state[e] => (Passed(e) => Queued(e))
    /\ events[e] \notin {"upsert", "reconcile"} => Owed(e) \/ Passed(e)
    /\ job # NoJob /\ e \in job.removed => Queued(e)

IInv == Typed /\ \A e \in Entities : Due(e) => IsPaid(e)

-----------------------------------------------------------------------------
(* Operations and the queue *)

\* What appending to a sequence does, element by element.
LEMMA AppendElements ==
    ASSUME NEW S, NEW q \in Seq(S), NEW j \in S
    PROVE  /\ Append(q, j) \in Seq(S)
           /\ Len(q) \in Nat
           /\ Len(Append(q, j)) = Len(q) + 1
           /\ \A i \in 1..Len(q) : Append(q, j)[i] = q[i]
           /\ Append(q, j)[Len(q) + 1] = j
  OBVIOUS

\* What taking the oldest element does, element by element.
LEMMA TailElements ==
    ASSUME NEW S, NEW q \in Seq(S), q # <<>>
    PROVE  /\ Tail(q) \in Seq(S)
           /\ Head(q) \in S /\ Head(q) = q[1]
           /\ Len(q) \in Nat \ {0}
           /\ Len(Tail(q)) = Len(q) - 1
           /\ \A i \in 1..Len(Tail(q)) : Tail(q)[i] = q[i + 1]
  OBVIOUS

LEMMA NoContextIsTyped == NoContext \in [Entities -> Version] /\ \A e \in Entities : NoContext[e] = 0
  BY BoundsAssumption DEF NoContext, Version

\* The operations the code enqueues are operations of this kind.
LEMMA ItemsAreTyped ==
    /\ \A kind \in FullSyncs : FullSync(kind) \in Item
    /\ \A e \in Entities : EntityJob(e) \in Item /\ RetryJob(e) \in Item /\ ServiceJob(e) \in Item
    /\ \A ctx \in [Entities -> Version] : Batch(ctx) \in Item
<1>1. ASSUME NEW kind \in FullSyncs PROVE FullSync(kind) \in Item
  <2>1. kind # "batch" /\ kind \in Kinds
    BY DEF FullSyncs, Kinds
  <2> QED
    BY <2>1, NoContextIsTyped DEF FullSync, Item
<1>2. ASSUME NEW e \in Entities
      PROVE  EntityJob(e) \in Item /\ RetryJob(e) \in Item /\ ServiceJob(e) \in Item
  BY NoContextIsTyped DEF EntityJob, RetryJob, ServiceJob, Item, Kinds, FullSyncs
<1>3. ASSUME NEW ctx \in [Entities -> Version] PROVE Batch(ctx) \in Item
  BY DEF Batch, Item, Kinds, FullSyncs
<1> QED
  BY <1>1, <1>2, <1>3

LEMMA ProgressIsNotNone ==
    ASSUME NEW j \in Progress
    PROVE  j # NoJob /\ j.kind \in Kinds
<1>1. j.kind \in Kinds
  BY DEF Progress
<1>2. NoJob.kind = "none"
  BY DEF NoJob
<1> QED
  BY <1>1, <1>2 DEF Kinds, FullSyncs

\* An operation that holds the lock begins with all it has to do.
LEMMA BegunIsProgress ==
    ASSUME NEW j \in Item
    PROVE  /\ Begun(j) \in Progress
           /\ Begun(j).kind = j.kind /\ Begun(j).ctx = j.ctx /\ Begun(j).todo = j.ids
           /\ Begun(j).stage = CASE j.kind = "batch"   -> "bulk"
                                 [] j.kind = "resync"  -> "collect"
                                 [] j.kind = "rebuild" -> "clear"
                                 [] OTHER              -> "each"
           /\ Begun(j).written = {} /\ Begun(j).ok = {} /\ Begun(j).bad = {}
           /\ Begun(j).removed = {}
  BY DEF Begun, Progress, Item

\* Whoever has a captured state of e has e to sync.
LEMMA ContextIsCarried ==
    ASSUME NEW j \in Item, NEW e \in Entities, j.ctx[e] > 0
    PROVE  Carries(j, e)
  BY DEF Item, Carries

-----------------------------------------------------------------------------
(* What the rest of a step leaves as it was *)

\* An entity none of whose variables change, while queue and operation stay.
LEMMA PointFrame ==
    ASSUME NEW e \in Entities, Due(e) => IsPaid(e),
           state'[e] = state[e], accepted'[e] = accepted[e], pending'[e] = pending[e],
           graph'[e] = graph[e], e \in swept' <=> e \in swept, events'[e] = events[e],
           UNCHANGED <<queue, job, failed>>
    PROVE  Due(e)' => IsPaid(e)'
  BY DEF UpToDate, Due, IsPaid, OldStateIsFollowed, WritesOld, Owed, Passed, Queued, Incremental

\* While no change of e is accepted and no operation comes or goes, the queue
\* owes e what it did.
LEMMA QueueFrame ==
    ASSUME NEW e \in Entities, UNCHANGED <<state, accepted, pending, queue>>
    PROVE  /\ Due(e)' <=> Due(e)
           /\ Queued(e)' <=> Queued(e)
           /\ OldStateIsFollowed(e)' <=> OldStateIsFollowed(e)
  BY DEF Due, Queued, OldStateIsFollowed

\* An operation is appended: without a captured state of e, or with the one that
\* was pending.
LEMMA EnqueuePaid ==
    ASSUME Typed, NEW e \in Entities, Due(e) => IsPaid(e), NEW j \in Item, Enqueue(j),
           UNCHANGED <<state, accepted, graph, swept, events, job, failed>>,
           \/ pending'[e] = pending[e] /\ j.ctx[e] = 0
           \/ pending'[e] = 0 /\ j.ctx[e] = pending[e]
    PROVE  Due(e)' => IsPaid(e)'
<1> SUFFICES ASSUME Due(e), IsPaid(e) PROVE IsPaid(e)'
  BY DEF Due
<1>1. /\ Len(queue) \in Nat /\ Len(queue') = Len(queue) + 1
      /\ \A i \in 1..Len(queue) : queue'[i] = queue[i]
      /\ queue'[Len(queue) + 1] = j
  BY AppendElements DEF Enqueue, Typed
<1>2. pending[e] > 0 => pending[e] = state[e]
  BY DEF Typed, Due
<1>3. pending[e] \in Nat /\ state[e] \in Nat /\ state[e] > 0
  BY BoundsAssumption DEF Typed, TypeOK, Version, Due
<1>4. Queued(e) => Queued(e)'
  <2>1. CASE pending[e] > 0 /\ pending'[e] = 0
    <3>1. Carries(j, e)
      BY <1>3, <2>1, ContextIsCarried
    <3> QED
      BY <1>1, <3>1 DEF Queued
  <2>2. CASE pending'[e] = pending[e]
    BY <1>1, <2>2 DEF Queued
  <2>3. CASE ~ (pending[e] > 0)
    <3>1. ASSUME NEW i \in 1..Len(queue), Carries(queue[i], e) PROVE Queued(e)'
      <4>1. i \in 1..Len(queue') /\ queue'[i] = queue[i]
        BY <1>1
      <4> QED
        BY <3>1, <4>1 DEF Queued
    <3> QED
      BY <2>3, <3>1 DEF Queued
  <2> QED
    BY <2>1, <2>2, <2>3
<1>5. OldStateIsFollowed(e)'
  <2> SUFFICES ASSUME NEW i \in 1..Len(queue'), ~ (queue'[i].ctx[e] \in {0, state[e]}),
                      pending'[e] # state[e]
               PROVE  \E k \in (i + 1)..Len(queue') : queue'[k].ctx[e] = state[e]
    BY DEF OldStateIsFollowed
  <2>1. i \in 1..Len(queue)
    <3>1. j.ctx[e] \in {0, state[e]}
      BY <1>2, <1>3
    <3> QED
      BY <1>1, <3>1
  <2>2. CASE pending[e] = state[e]
    <3>1. j.ctx[e] = state[e]
      BY <2>2
    <3>2. Len(queue) + 1 \in (i + 1)..Len(queue')
      BY <1>1, <2>1
    <3> QED
      BY <1>1, <3>1, <3>2
  <2>3. CASE pending[e] # state[e]
    <3>1. PICK k \in (i + 1)..Len(queue) : queue[k].ctx[e] = state[e]
      BY <1>1, <2>1, <2>3 DEF IsPaid, OldStateIsFollowed
    <3>2. k \in 1..Len(queue) /\ k \in (i + 1)..Len(queue')
      BY <1>1, <2>1
    <3> QED
      BY <1>1, <3>1, <3>2
  <2> QED
    BY <2>2, <2>3
<1> QED
  BY <1>4, <1>5 DEF IsPaid, UpToDate, WritesOld, Owed, Passed, Incremental

-----------------------------------------------------------------------------
LEMMA InitInv == Init => IInv
<1> SUFFICES ASSUME Init PROVE IInv
  OBVIOUS
<1>1. /\ queue \in Seq(Item) /\ Len(queue) = 1 /\ queue[1] = FullSync("resync")
  BY ItemsAreTyped DEF Init, FullSyncs
<1>2. TypeOK
  <2>1. state \in [Entities -> Version]
    BY BoundsAssumption DEF Init, Version
  <2>2. pending \in [Entities -> Version] /\ accepted \in [Entities -> Version]
    BY NoContextIsTyped DEF Init
  <2>3. changes \in 1..MaxChanges /\ failures \in 0..MaxFailures
    BY BoundsAssumption DEF Init
  <2>4. graph \in [Entities -> Version \cup {NoNode}]
    BY DEF Init
  <2>5. events \in [Entities -> {"none", "upsert", "remove", "reconcile"}]
    BY DEF Init
  <2>6. \A i \in 1..Len(queue) : queue[i].ids \subseteq Entities
    BY <1>1 DEF FullSync
  <2> QED
    BY <2>1, <2>2, <2>3, <2>4, <2>5, <2>6 DEF Init, TypeOK
<1>3. Typed
  BY <1>1, <1>2, NoContextIsTyped DEF Init, Typed
<1>4. \A e \in Entities : ~ Due(e)
  BY NoContextIsTyped DEF Init, Due
<1> QED
  BY <1>3, <1>4 DEF IInv

-----------------------------------------------------------------------------
(* Home Assistant *)

\* The operation at hand is unaffected by what does not touch it or the graph.
LEMMA TypedFrame ==
    ASSUME Typed, TypeOK', UNCHANGED <<job, graph>>, queue' \in Seq(Item),
           \A e \in Entities : /\ accepted'[e] <= changes' /\ state'[e] <= changes'
                               /\ pending'[e] > 0 => pending'[e] = accepted'[e]
    PROVE  Typed'
  BY DEF Typed, ProgressFits

\* The debouncer takes the new state, and nobody has a newer one; or it was not
\* accepted, and is not due.
LEMMA StateChangeInv == ASSUME IInv, NEW e \in Entities, StateChange(e) PROVE IInv'
<1>1. /\ changes < MaxChanges /\ changes' = changes + 1 /\ changes \in Nat
      /\ state' = [state EXCEPT ![e] = changes + 1]
      /\ UNCHANGED <<registered, hassRunning, queue, job, failed, sweep, events, graph, failures>>
      /\ \/ /\ pending' = [pending EXCEPT ![e] = changes + 1]
            /\ accepted' = [accepted EXCEPT ![e] = changes + 1]
            /\ timer' \in BOOLEAN
         \/ UNCHANGED <<pending, timer, accepted>>
      /\ swept' \in {swept, swept \ {e}}
  BY BoundsAssumption
  DEF StateChange, Accept, jobVars, graphVars, bounceVars, IInv, Typed, TypeOK
<1>2. changes + 1 \in Version /\ changes + 1 \in 1..MaxChanges
  BY <1>1, BoundsAssumption DEF Version
<1>3. TypeOK'
  BY <1>1, <1>2 DEF IInv, Typed, TypeOK
<1>4. \A x \in Entities : /\ state[x] \in Nat /\ accepted[x] \in Nat
                          /\ accepted[x] <= changes /\ state[x] <= changes
                          /\ pending[x] > 0 => pending[x] = accepted[x]
  BY DEF IInv, Typed, TypeOK, Version
<1>5. \A x \in Entities : /\ state'[x] = IF x = e THEN changes + 1 ELSE state[x]
                          /\ x # e => /\ accepted'[x] = accepted[x] /\ pending'[x] = pending[x]
                                      /\ x \in swept' <=> x \in swept
                          /\ \/ accepted'[e] = changes + 1 /\ pending'[e] = changes + 1
                             \/ accepted'[e] = accepted[e] /\ pending'[e] = pending[e]
  BY <1>1 DEF IInv, Typed, TypeOK
<1>6. Typed'
  <2>1. ASSUME NEW x \in Entities
        PROVE  /\ accepted'[x] <= changes' /\ state'[x] <= changes'
               /\ pending'[x] > 0 => pending'[x] = accepted'[x]
    <3>1. CASE x = e
      BY <1>1, <1>4, <1>5, <3>1
    <3>2. CASE x # e
      BY <1>1, <1>4, <1>5, <3>2
    <3> QED
      BY <3>1, <3>2
  <2> QED
    BY <1>1, <1>3, <2>1, TypedFrame DEF IInv, Typed
<1>7. ASSUME NEW x \in Entities PROVE Due(x)' => IsPaid(x)'
  <2>1. CASE x # e
    BY <1>1, <1>5, <2>1, PointFrame DEF IInv
  <2>2. CASE x = e /\ accepted'[e] = accepted[e]
    BY <1>1, <1>4, <1>5, <2>2 DEF Due
  <2>3. CASE x = e /\ pending'[e] = changes + 1
    <3>1. pending'[e] = state'[e] /\ pending'[e] > 0
      BY <1>1, <1>5, <2>3
    <3>2. Queued(e)' /\ OldStateIsFollowed(e)'
      BY <3>1 DEF Queued, OldStateIsFollowed
    <3> QED
      BY <2>3, <3>2 DEF IsPaid, Owed
  <2> QED
    BY <1>5, <2>1, <2>2, <2>3
<1> QED
  BY <1>6, <1>7 DEF IInv

LEMMA StateRemoveInv == ASSUME IInv, NEW e \in Entities, StateRemove(e) PROVE IInv'
<1>1. /\ changes < MaxChanges /\ changes' = changes + 1 /\ changes \in Nat
      /\ state' = [state EXCEPT ![e] = 0]
      /\ UNCHANGED <<registered, hassRunning, pending, timer, accepted, queue, job, failed, sweep,
                     events, graph, swept, failures>>
  BY BoundsAssumption
  DEF StateRemove, jobVars, graphVars, bounceVars, IInv, Typed, TypeOK
<1>2. TypeOK'
  BY <1>1, BoundsAssumption DEF IInv, Typed, TypeOK, Version
<1>3. \A x \in Entities : /\ state[x] \in Nat /\ accepted[x] \in Nat
                          /\ accepted[x] <= changes /\ state[x] <= changes
                          /\ pending[x] > 0 => pending[x] = accepted[x]
                          /\ state'[x] = IF x = e THEN 0 ELSE state[x]
  BY <1>1 DEF IInv, Typed, TypeOK, Version
<1>4. Typed'
  BY <1>1, <1>2, <1>3, TypedFrame DEF IInv, Typed
<1>5. ASSUME NEW x \in Entities PROVE Due(x)' => IsPaid(x)'
  <2>1. CASE x # e
    BY <1>1, <1>3, <2>1, PointFrame DEF IInv
  <2>2. CASE x = e
    BY <1>1, <1>3, <2>2 DEF Due
  <2> QED
    BY <2>1, <2>2
<1> QED
  BY <1>4, <1>5 DEF IInv

LEMMA HassStartedInv == ASSUME IInv, HassStarted PROVE IInv'
<1>1. /\ UNCHANGED <<state, registered, changes, pending, timer, accepted, queue, job, failed, sweep,
                     events, graph, swept, failures>>
      /\ hassRunning' = TRUE
  BY DEF HassStarted, bounceVars, jobVars, graphVars
<1>2. Typed'
  <2>1. TypeOK'
    BY <1>1 DEF IInv, Typed, TypeOK
  <2> QED
    BY <1>1, <2>1, TypedFrame DEF IInv, Typed
<1>3. \A x \in Entities : Due(x)' => IsPaid(x)'
  BY <1>1, PointFrame DEF IInv
<1> QED
  BY <1>2, <1>3 DEF IInv

-----------------------------------------------------------------------------
(* Operations are requested *)

\* What any step that appends an operation without a captured state keeps.
LEMMA EnqueueInv ==
    ASSUME IInv, NEW j \in Item, j.kind # "batch", Enqueue(j),
           UNCHANGED <<state, hassRunning, pending, timer, accepted, job, failed, events, graph,
                       swept, failures>>,
           registered' \subseteq Entities, sweep' \subseteq Entities,
           changes' \in 1..MaxChanges, changes <= changes'
    PROVE  IInv'
<1>1. /\ queue' \in Seq(Item) /\ Len(queue) \in Nat
  BY AppendElements DEF Enqueue, IInv, Typed
<1>2. TypeOK'
  <2>1. \A i \in 1..Len(queue') : queue'[i].ids \subseteq Entities
    BY <1>1 DEF Item
  <2> QED
    BY <2>1 DEF IInv, Typed, TypeOK
<1>3. \A e \in Entities : accepted[e] <= changes' /\ state[e] <= changes'
  BY BoundsAssumption DEF IInv, Typed, TypeOK, Version
<1>4. Typed'
  BY <1>1, <1>2, <1>3, TypedFrame DEF IInv, Typed
<1>5. ASSUME NEW e \in Entities PROVE Due(e)' => IsPaid(e)'
  <2>1. j.ctx[e] = 0
    BY BoundsAssumption DEF Item, Version
  <2> QED
    BY <2>1, EnqueuePaid DEF IInv
<1> QED
  BY <1>4, <1>5 DEF IInv

LEMMA RequestInv ==
    ASSUME IInv, NEW e \in Entities,
           RegistryUpdated(e) \/ SweepNext(e) \/ CallSyncEntity(e)
    PROVE  IInv'
<1> USE BoundsAssumption, ItemsAreTyped
<1>1. CASE RegistryUpdated(e)
  <2>1. /\ UNCHANGED <<state, hassRunning, pending, timer, accepted, job, failed, sweep, events,
                       graph, swept, failures>>
        /\ registered' \subseteq Entities
        /\ changes' \in 1..MaxChanges /\ changes <= changes'
        /\ Enqueue(EntityJob(e)) \/ queue' = queue
    BY <1>1 DEF RegistryUpdated, bounceVars, graphVars, IInv, Typed, TypeOK
  <2>2. CASE Enqueue(EntityJob(e))
    <3>1. EntityJob(e).kind # "batch"
      BY DEF EntityJob
    <3> QED
      BY <2>1, <2>2, <3>1, EnqueueInv DEF IInv, Typed, TypeOK
  <2>3. CASE queue' = queue
    <3>1. TypeOK'
      BY <2>1, <2>3 DEF IInv, Typed, TypeOK
    <3>2. \A x \in Entities : accepted[x] <= changes' /\ state[x] <= changes'
      BY <2>1 DEF IInv, Typed, TypeOK, Version
    <3>3. Typed'
      BY <2>1, <2>3, <3>1, <3>2, TypedFrame DEF IInv, Typed
    <3>4. \A x \in Entities : Due(x)' => IsPaid(x)'
      BY <2>1, <2>3, PointFrame DEF IInv
    <3> QED
      BY <3>3, <3>4 DEF IInv
  <2> QED
    BY <2>1, <2>2, <2>3
<1>2. CASE SweepNext(e)
  <2>1. /\ UNCHANGED <<state, registered, hassRunning, changes, pending, timer, accepted, job, failed,
                       events, graph, swept, failures>>
        /\ sweep' \subseteq Entities /\ Enqueue(RetryJob(e))
    BY <1>2 DEF SweepNext, haVars, bounceVars, graphVars, IInv, Typed, TypeOK
  <2>2. RetryJob(e).kind # "batch"
    BY DEF RetryJob
  <2> QED
    BY <2>1, <2>2, EnqueueInv DEF IInv, Typed, TypeOK
<1>3. CASE CallSyncEntity(e)
  <2>1. /\ UNCHANGED <<state, registered, hassRunning, changes, pending, timer, accepted, job, failed,
                       sweep, events, graph, swept, failures>>
        /\ Enqueue(ServiceJob(e))
    BY <1>3, Zenon DEF CallSyncEntity, haVars, bounceVars, graphVars
  <2>2. ServiceJob(e).kind # "batch"
    BY DEF ServiceJob
  <2>3. registered \subseteq Entities /\ sweep \subseteq Entities /\ changes \in 1..MaxChanges
    BY DEF IInv, Typed, TypeOK
  <2>4. changes' \in 1..MaxChanges /\ changes <= changes'
    BY <2>1, <2>3
  <2> QED
    BY <2>1, <2>2, <2>3, <2>4, EnqueueInv
<1> QED
  BY <1>1, <1>2, <1>3

LEMMA CallFullSyncInv == ASSUME IInv, CallResync \/ CallRebuild PROVE IInv'
<1>1. /\ UNCHANGED <<state, registered, hassRunning, pending, timer, accepted, job, failed, sweep,
                     events, graph, swept, failures>>
      /\ Enqueue(FullSync("resync")) \/ Enqueue(FullSync("rebuild"))
      /\ changes' = changes \/ (changes < MaxChanges /\ changes' = changes + 1)
  BY DEF CallResync, CallRebuild, haVars, bounceVars, graphVars
<1>2. ASSUME NEW kind \in FullSyncs
      PROVE  FullSync(kind) \in Item /\ FullSync(kind).kind # "batch"
  BY ItemsAreTyped DEF FullSync, FullSyncs
<1>3. /\ registered \subseteq Entities /\ sweep \subseteq Entities
      /\ changes' \in 1..MaxChanges /\ changes <= changes'
  BY <1>1, BoundsAssumption DEF IInv, Typed, TypeOK
<1>4. {"resync", "rebuild"} = FullSyncs
  BY DEF FullSyncs
<1> QED
  BY <1>1, <1>2, <1>3, <1>4, EnqueueInv

\* The window closes: what was pending goes to the end of the queue.
LEMMA TimerFiresInv == ASSUME IInv, TimerFires PROVE IInv'
<1>1. /\ UNCHANGED <<state, registered, hassRunning, changes, accepted, job, failed, sweep, events,
                     graph, swept, failures>>
      /\ timer' = FALSE /\ pending' = NoContext /\ Enqueue(Batch(pending))
  BY DEF TimerFires, haVars, graphVars
<1>2. Batch(pending) \in Item /\ Batch(pending).ctx = pending
  BY ItemsAreTyped DEF Batch, IInv, Typed, TypeOK
<1>3. queue' \in Seq(Item) /\ Len(queue) \in Nat
  BY <1>1, <1>2, AppendElements DEF Enqueue, IInv, Typed
<1>4. TypeOK'
  <2>1. \A i \in 1..Len(queue') : queue'[i].ids \subseteq Entities
    BY <1>3 DEF Item
  <2> QED
    BY <1>1, <2>1, NoContextIsTyped DEF IInv, Typed, TypeOK
<1>5. Typed'
  <2>1. \A e \in Entities : ~ (pending'[e] > 0)
    BY <1>1, NoContextIsTyped
  <2> QED
    BY <1>1, <1>3, <1>4, <2>1, TypedFrame DEF IInv, Typed
<1>6. ASSUME NEW e \in Entities PROVE Due(e)' => IsPaid(e)'
  BY <1>1, <1>2, NoContextIsTyped, EnqueuePaid DEF IInv
<1> QED
  BY <1>5, <1>6 DEF IInv

LEMMA StartSweepInv == ASSUME IInv, StartSweep PROVE IInv'
<1>1. /\ UNCHANGED <<state, registered, hassRunning, changes, pending, timer, accepted, queue, job,
                     failed, events, graph, swept, failures>>
      /\ sweep' = failed
  BY DEF StartSweep, haVars, bounceVars, graphVars
<1>2. Typed'
  <2>1. TypeOK'
    BY <1>1 DEF IInv, Typed, TypeOK
  <2> QED
    BY <1>1, <2>1, TypedFrame DEF IInv, Typed
<1>3. \A x \in Entities : Due(x)' => IsPaid(x)'
  BY <1>1, PointFrame DEF IInv
<1> QED
  BY <1>2, <1>3 DEF IInv

-----------------------------------------------------------------------------
(* The oldest operation gets the lock *)

LEMMA TakeLockInv == ASSUME IInv, TakeLock PROVE IInv'
<1> DEFINE j == Head(queue)
<1>1. /\ UNCHANGED <<state, registered, hassRunning, changes, pending, timer, accepted, failed, sweep,
                     events, graph, swept, failures>>
      /\ job = NoJob /\ job' = Begun(j)
      /\ queue' \in Seq(Item) /\ Len(queue) \in Nat \ {0} /\ Len(queue') = Len(queue) - 1
      /\ \A i \in 1..Len(queue') : queue'[i] = queue[i + 1]
      /\ j \in Item /\ j = queue[1]
  BY TailElements DEF TakeLock, IInv, Typed, haVars, bounceVars, graphVars
<1> HIDE DEF j
<1>2. /\ job' \in Progress /\ job' # NoJob
      /\ job'.kind = j.kind /\ job'.ctx = j.ctx /\ job'.todo = j.ids
      /\ job'.written = {} /\ job'.ok = {} /\ job'.bad = {} /\ job'.removed = {}
      /\ job'.stage \in {"bulk", "clear", "collect", "each"}
  BY <1>1, BegunIsProgress, ProgressIsNotNone
<1>3. j.kind \in Kinds /\ j.ids \in SUBSET Entities /\ j.ctx \in [Entities -> Version]
  BY <1>1 DEF Item
<1>4. Typed'
  <2>1. TypeOK'
    <3>1. \A i \in 1..Len(queue') : queue'[i].ids \subseteq Entities
      BY <1>1 DEF Item
    <3> QED
      BY <1>1, <3>1 DEF IInv, Typed, TypeOK
  <2>2. /\ \A e \in Entities : j.ctx[e] > 0 <=> j.kind = "batch" /\ e \in j.ids
        /\ j.kind # "batch" => \A x, y \in j.ids : x = y
    BY <1>1 DEF Item
  <2>3. \A e \in Entities : j.kind # "batch" => j.ctx[e] = 0
    BY <1>3, <2>2, BoundsAssumption DEF Version
  <2>4. ProgressFits'
    BY <1>2, <1>3, <2>2, <2>3 DEF ProgressFits
  <2> QED
    BY <1>1, <1>2, <2>1, <2>4 DEF IInv, Typed
<1>5. ASSUME NEW e \in Entities, Due(e)' PROVE IsPaid(e)'
  <2>1. Due(e) /\ IsPaid(e)
    BY <1>1, <1>5 DEF Due, IInv
  <2>2. /\ ~ Incremental /\ ~ Passed(e)
        /\ state[e] \in Nat /\ state[e] > 0 /\ pending[e] \in Nat
    BY <1>1, <2>1, BoundsAssumption
    DEF Incremental, Passed, NoJob, IInv, Typed, TypeOK, Version, Due
  <2>3. OldStateIsFollowed(e)'
    <3> SUFFICES ASSUME NEW i \in 1..Len(queue'), ~ (queue'[i].ctx[e] \in {0, state[e]}),
                        pending[e] # state[e]
                 PROVE  \E k \in (i + 1)..Len(queue') : queue'[k].ctx[e] = state[e]
      BY <1>1 DEF OldStateIsFollowed
    <3>1. i + 1 \in 1..Len(queue) /\ queue'[i] = queue[i + 1]
      BY <1>1
    <3>2. PICK k \in (i + 1 + 1)..Len(queue) : queue[k].ctx[e] = state[e]
      BY <2>1, <3>1 DEF IsPaid, OldStateIsFollowed
    <3>3. k - 1 \in (i + 1)..Len(queue') /\ k - 1 \in 1..Len(queue') /\ (k - 1) + 1 = k
      BY <1>1, <3>1, <3>2
    <3>4. queue'[k - 1] = queue[k]
      BY <1>1, <3>3
    <3> QED
      BY <3>2, <3>3, <3>4
  <2>4. ASSUME NEW k \in 2..Len(queue), Carries(queue[k], e) PROVE Queued(e)'
    <3>1. k - 1 \in 1..Len(queue') /\ (k - 1) + 1 = k
      BY <1>1
    <3>2. queue'[k - 1] = queue[k]
      BY <1>1, <3>1
    <3> QED
      BY <2>4, <3>1, <3>2 DEF Queued
  <2>5. Owed(e) => Owed(e)'
    <3>1. CASE pending[e] > 0 \/ e \in failed
      BY <1>1, <3>1 DEF Owed, Queued
    <3>2. CASE \E i \in 1..Len(queue) : Carries(queue[i], e)
      <4>1. PICK i \in 1..Len(queue) : Carries(queue[i], e)
        BY <3>2
      <4>2. CASE i = 1
        BY <1>1, <1>2, <4>1, <4>2 DEF Owed, Incremental, Carries
      <4>3. CASE i # 1
        <5>1. i \in 2..Len(queue)
          BY <1>1, <4>3
        <5> QED
          BY <2>4, <4>1, <5>1 DEF Owed
      <4> QED
        BY <4>2, <4>3
    <3> QED
      BY <2>2, <3>1, <3>2 DEF Owed, Queued
  <2>6. WritesOld(e)' => Queued(e)'
    <3> SUFFICES ASSUME WritesOld(e)' PROVE Queued(e)'
      OBVIOUS
    <3>1. queue[1].ctx[e] > 0 /\ queue[1].ctx[e] # state[e]
      BY <1>1, <1>2 DEF WritesOld
    <3>2. 1 \in 1..Len(queue) /\ queue[1].ctx[e] # 0
      BY <1>1, <3>1
    <3>3. pending[e] = state[e] \/ \E k \in (1 + 1)..Len(queue) : queue[k].ctx[e] = state[e]
      BY <2>1, <3>1, <3>2 DEF IsPaid, OldStateIsFollowed
    <3>4. CASE pending[e] = state[e]
      BY <1>1, <2>2, <3>4 DEF Queued
    <3>5. CASE \E k \in (1 + 1)..Len(queue) : queue[k].ctx[e] = state[e]
      <4>1. PICK k \in 2..Len(queue) : queue[k].ctx[e] = state[e]
        BY <3>5
      <4>2. queue[k] \in Item
        BY <1>1, <4>1 DEF IInv, Typed
      <4>3. Carries(queue[k], e)
        BY <2>2, <4>1, <4>2, ContextIsCarried
      <4> QED
        BY <2>4, <4>3
    <3> QED
      BY <3>3, <3>4, <3>5
  <2>7. ~ Passed(e)' /\ e \notin job'.removed
    BY <1>2 DEF Passed
  <2> QED
    BY <1>1, <2>1, <2>2, <2>3, <2>5, <2>6, <2>7 DEF IsPaid, UpToDate
<1> QED
  BY <1>4, <1>5 DEF IInv

-----------------------------------------------------------------------------
(* The operation that holds the lock *)

\* Whatever is at hand is an operation with its progress.
LEMMA JobHeld ==
    ASSUME Typed, job.kind \in Kinds
    PROVE  job \in Progress /\ job # NoJob /\ ProgressFits
<1>1. job # NoJob
  BY DEF NoJob, Kinds, FullSyncs
<1> QED
  BY <1>1 DEF Typed

\* What a step of the operation may change.
LEMMA WorkTyped ==
    ASSUME Typed,
           UNCHANGED <<state, registered, hassRunning, changes, pending, timer, accepted, queue, sweep>>,
           failed' \subseteq Entities,
           events' \in [Entities -> {"none", "upsert", "remove", "reconcile"}],
           graph' \in [Entities -> Version \cup {NoNode}], swept' \subseteq Entities,
           MayFail \/ UNCHANGED failures,
           job' \in Progress \cup {NoJob}, job' # NoJob => ProgressFits'
    PROVE  Typed'
<1>1. failures' \in 0..MaxFailures
  BY BoundsAssumption DEF MayFail, Typed, TypeOK
<1>2. TypeOK'
  BY <1>1 DEF Typed, TypeOK
<1> QED
  BY <1>2 DEF Typed

\* An entity whose node is not written is as up to date as it was.
LEMMA SweptFrame ==
    ASSUME NEW e \in Entities, graph'[e] = graph[e], UNCHANGED state,
           swept' = {x \in swept : graph'[x] = NoNode}
    PROVE  UpToDate(e)' <=> UpToDate(e)
  BY DEF UpToDate

\* An entity the step is not about.
LEMMA WorkFrame ==
    ASSUME NEW e \in Entities, Due(e) => IsPaid(e),
           UNCHANGED <<state, accepted, pending, queue, events, failed>>, graph'[e] = graph[e],
           swept' = {x \in swept : graph'[x] = NoNode},
           job # NoJob, job'.kind = job.kind, job'.ctx = job.ctx,
           job.stage \in {"bulk", "each"}, job'.stage = "each",
           e \in job'.todo <=> e \in job.todo, e \in job'.ok <=> e \in job.ok,
           e \in job'.bad <=> e \in job.bad, e \in job'.removed <=> e \in job.removed
    PROVE  Due(e)' => IsPaid(e)'
  BY QueueFrame, SweptFrame DEF IsPaid, WritesOld, Owed, Passed, Incremental

\* The bulk write only touches entities whose turn is still to come.
LEMMA BulkWriteInv == ASSUME IInv, BulkWrite PROVE IInv'
<1> DEFINE present == {e \in job.todo : state[e] > 0 /\ graph[e] # NoNode}
<1>1. /\ UNCHANGED <<state, registered, hassRunning, changes, pending, timer, accepted, queue, sweep,
                     failed, events>>
      /\ job.kind = "batch" /\ job.stage = "bulk"
      /\ MayFail \/ UNCHANGED failures
      /\ swept' = {e \in swept : graph'[e] = NoNode}
  BY DEF BulkWrite, Leaves, haVars, bounceVars
<1>2. job \in Progress /\ job # NoJob /\ ProgressFits
  BY <1>1, JobHeld DEF IInv, Kinds, FullSyncs
<1>3. /\ \E S \in SUBSET present : graph' = BulkUpdated(S)
      /\ \/ job' = [job EXCEPT !.stage = "each", !.written = present] /\ graph' = BulkUpdated(present)
         \/ job' = [job EXCEPT !.stage = "each"]
  BY DEF BulkWrite, Leaves
<1>4. PICK S \in SUBSET present : graph' = BulkUpdated(S)
  BY <1>3
<1>5. /\ job' \in Progress
      /\ job'.kind = "batch" /\ job'.ctx = job.ctx /\ job'.stage = "each" /\ job'.todo = job.todo
      /\ job'.ok = job.ok /\ job'.bad = job.bad /\ job'.removed = job.removed
      /\ \/ job'.written = job.written
         \/ job'.written = present /\ graph' = BulkUpdated(present)
  <2>1. present \in SUBSET Entities
    BY <1>2 DEF Progress
  <2> HIDE DEF present
  <2>2. CASE job' = [job EXCEPT !.stage = "each"]
    BY <1>1, <1>2, <2>2 DEF Progress
  <2>3. CASE /\ job' = [job EXCEPT !.stage = "each", !.written = present]
             /\ graph' = BulkUpdated(present)
    BY <1>1, <1>2, <2>1, <2>3 DEF Progress
  <2> QED
    BY <1>3, <2>2, <2>3
<1>6. /\ graph' \in [Entities -> Version \cup {NoNode}]
      /\ \A e \in Entities : graph'[e] = IF e \in S THEN job.ctx[e] ELSE graph[e]
  BY <1>2, <1>4 DEF BulkUpdated, Progress, IInv, Typed, TypeOK
<1>7. Typed'
  <2>1. \A e \in job'.written \cap job'.todo : graph'[e] = job'.ctx[e]
    <3>1. CASE job'.written = job.written
      BY <1>1, <1>2, <1>5, <1>6, <3>1 DEF ProgressFits, Progress
    <3>2. CASE job'.written = present /\ graph' = BulkUpdated(present)
      BY <1>2, <1>5, <3>2 DEF BulkUpdated, Progress
    <3> QED
      BY <1>5, <3>1, <3>2
  <2>2. ProgressFits'
    BY <1>1, <1>2, <1>5, <2>1 DEF ProgressFits
  <2> QED
    BY <1>1, <1>5, <1>6, <2>2, WorkTyped DEF IInv, Typed, TypeOK
<1>8. ASSUME NEW e \in Entities PROVE Due(e)' => IsPaid(e)'
  <2>1. CASE e \notin job.todo
    <3>1. graph'[e] = graph[e]
      BY <1>6, <2>1
    <3> QED
      BY <1>1, <1>2, <1>5, <3>1, WorkFrame DEF IInv
  <2>2. CASE e \in job.todo
    <3>1. e \notin job.ok /\ job.removed = {}
      BY <1>1, <1>2, <2>2 DEF ProgressFits
    <3>2. Owed(e)' /\ ~ Passed(e)'
      BY <1>5, <2>2, <3>1 DEF Owed, Passed, Incremental
    <3>3. WritesOld(e)' => WritesOld(e)
      BY <1>1, <1>2, <1>5 DEF WritesOld
    <3> QED
      BY <1>1, <1>5, <3>1, <3>2, <3>3, QueueFrame DEF IsPaid, IInv
  <2> QED
    BY <2>1, <2>2
<1> QED
  BY <1>7, <1>8 DEF IInv

\* The state of x it writes is the last one, or the last one is behind it.
LEMMA SyncOneInv == ASSUME IInv, NEW x \in Entities, SyncOne(x) PROVE IInv'
<1> DEFINE after == IF x \in job.written THEN graph[x] ELSE Updated(x, job.ctx[x])
           Succeeds == graph' = [graph EXCEPT ![x] = after]
                       /\ job' = [job EXCEPT !.todo = @ \ {x}, !.ok = @ \cup {x}]
           Fails == (\E g \in {graph[x], after} : graph' = [graph EXCEPT ![x] = g])
                    /\ job' = [job EXCEPT !.todo = @ \ {x}, !.bad = @ \cup {x}]
<1>1. /\ UNCHANGED <<state, registered, hassRunning, changes, pending, timer, accepted, queue, sweep,
                     failed, events>>
      /\ job.kind \in {"batch", "entity", "retry", "service"} /\ job.stage = "each"
      /\ x \in job.todo
      /\ MayFail \/ UNCHANGED failures
      /\ swept' = {e \in swept : graph'[e] = NoNode}
  BY DEF SyncOne, Leaves, haVars, bounceVars
<1>2. Succeeds \/ Fails
  BY DEF SyncOne, Leaves
<1>3. job \in Progress /\ job # NoJob /\ ProgressFits
  BY <1>1, JobHeld DEF IInv, Kinds, FullSyncs
<1>4. /\ x \notin job.ok /\ x \notin job.bad /\ job.removed = {}
      /\ state[x] \in Version /\ graph[x] \in Version \cup {NoNode} /\ job.ctx[x] \in Version
  BY <1>1, <1>3 DEF ProgressFits, Progress, IInv, Typed, TypeOK
<1>5. after \in Version \cup {NoNode}
  BY <1>4, BoundsAssumption DEF Updated, Merged, Version
<1>6. /\ job' \in Progress
      /\ job'.kind = job.kind /\ job'.ctx = job.ctx /\ job'.stage = "each"
      /\ job'.todo = job.todo \ {x} /\ job'.written = job.written /\ job'.removed = {}
      /\ \/ Succeeds /\ job'.ok = job.ok \cup {x} /\ job'.bad = job.bad
         \/ Fails /\ job'.ok = job.ok /\ job'.bad = job.bad \cup {x}
  <2>1. x \in Entities
    OBVIOUS
  <2> HIDE DEF after
  <2>2. CASE Succeeds
    BY <1>1, <1>3, <1>4, <2>2 DEF Progress
  <2>3. CASE Fails
    BY <1>1, <1>3, <1>4, <2>3 DEF Progress
  <2> QED
    BY <1>2, <2>2, <2>3
<1>7. /\ graph' \in [Entities -> Version \cup {NoNode}]
      /\ \A e \in Entities : e # x => graph'[e] = graph[e]
      /\ graph'[x] = after \/ (Fails /\ graph'[x] = graph[x])
  <2>1. PICK g \in {graph[x], after} : graph' = [graph EXCEPT ![x] = g]
    BY <1>2
  <2>2. g \in Version \cup {NoNode}
    BY <1>4, <1>5
  <2>3. Succeeds => graph'[x] = after
    BY DEF IInv, Typed, TypeOK
  <2>4. graph'[x] = g
    BY <2>1, <2>2 DEF IInv, Typed, TypeOK
  <2> HIDE DEF after
  <2>5. graph' \in [Entities -> Version \cup {NoNode}]
    BY <2>1, <2>2 DEF IInv, Typed, TypeOK
  <2>6. \A e \in Entities : e # x => graph'[e] = graph[e]
    BY <2>1 DEF IInv, Typed, TypeOK
  <2>7. graph'[x] = after \/ (Fails /\ graph'[x] = graph[x])
    BY <1>2, <2>3, <2>4
  <2> QED
    BY <2>5, <2>6, <2>7
<1>8. Typed'
  <2>1. ProgressFits'
    BY <1>1, <1>3, <1>4, <1>6, <1>7 DEF ProgressFits, Progress, FullSyncs
  <2> QED
    BY <1>1, <1>6, <1>7, <2>1, WorkTyped DEF IInv, Typed, TypeOK
<1>9. ASSUME Due(x), after # state[x] PROVE Queued(x)
  <2>1. ~ Gone(x) /\ state[x] > 0
    BY <1>4, <1>9, BoundsAssumption DEF Gone, Due, Version
  <2>2. WritesOld(x)
    <3>1. CASE job.kind = "batch"
      <4>1. job.ctx[x] > 0
        BY <1>1, <1>3, <3>1 DEF ProgressFits
      <4>2. after = job.ctx[x]
        BY <1>1, <1>3, <2>1, <3>1, <4>1 DEF ProgressFits, Updated, Merged
      <4> QED
        BY <1>3, <1>9, <4>1, <4>2 DEF WritesOld
    <3>2. CASE job.kind # "batch"
      <4>1. after = state[x]
        BY <1>1, <1>3, <2>1, <3>2 DEF ProgressFits, Updated, Merged
      <4> QED
        BY <1>9, <4>1
    <3> QED
      BY <3>1, <3>2
  <2> QED
    BY <1>9, <2>2 DEF IsPaid, IInv
<1> HIDE DEF after, Succeeds, Fails
<1>10. ASSUME NEW e \in Entities PROVE Due(e)' => IsPaid(e)'
  <2>1. CASE e # x
    BY <1>1, <1>3, <1>4, <1>6, <1>7, <2>1, WorkFrame DEF IInv
  <2>2. CASE e = x
    <3> SUFFICES ASSUME Due(x), IsPaid(x) PROVE IsPaid(x)'
      BY <1>1, <2>2, QueueFrame DEF IInv
    <3>1. WritesOld(x)' => WritesOld(x)
      BY <1>1, <1>3, <1>6 DEF WritesOld
    <3>2. /\ OldStateIsFollowed(x)' /\ (WritesOld(x)' => Queued(x)')
          /\ Queued(x)' <=> Queued(x)
      BY <1>1, <3>1, QueueFrame DEF IsPaid
    <3>3. events'[x] \notin {"upsert", "reconcile"} => Owed(x)' \/ Passed(x)'
      <4>1. CASE job.kind = "service"
        BY <1>1, <1>6, <3>2, <4>1 DEF IsPaid, Owed, Passed, Incremental
      <4>2. CASE job.kind # "service"
        BY <1>1, <1>6, <4>2 DEF Owed, Passed, Incremental
      <4> QED
        BY <4>1, <4>2
    <3>4. /\ ~ UpToDate(x)' => Owed(x)'
          /\ graph'[x] # state'[x] => (Passed(x)' => Queued(x)')
      <4>1. CASE graph'[x] = after
        <5>1. graph'[x] # state'[x] => Queued(x)'
          BY <1>1, <1>9, <3>2, <4>1
        <5> QED
          BY <5>1 DEF Owed, UpToDate
      <4>2. CASE Fails /\ graph'[x] = graph[x]
        <5>1. Succeeds \/ (job'.ok = job.ok /\ x \in job'.bad)
          BY <1>6
        <5>2. CASE job'.ok = job.ok /\ x \in job'.bad
          <6> UpToDate(x)' <=> UpToDate(x)
            BY <1>1, <4>2, SweptFrame
          <6>1. CASE job.kind = "service"
            BY <1>1, <1>6, <3>2, <4>2, <6>1 DEF IsPaid, Owed, Passed, Incremental
          <6>2. CASE job.kind # "service"
            BY <1>1, <1>4, <1>6, <5>2, <6>2 DEF Owed, Passed, Incremental
          <6> QED
            BY <6>1, <6>2
        <5>3. CASE Succeeds
          <6>1. graph'[x] = after
            BY <5>3 DEF Succeeds, IInv, Typed, TypeOK
          <6> QED
            BY <4>1, <6>1
        <5> QED
          BY <5>1, <5>2, <5>3
      <4> QED
        BY <1>7, <4>1, <4>2
    <3> QED
      BY <1>6, <2>2, <3>2, <3>3, <3>4 DEF IsPaid
  <2> QED
    BY <2>1, <2>2
<1> QED
  BY <1>8, <1>10 DEF IInv

-----------------------------------------------------------------------------
(* The operation ends *)

\* What the end of an incremental or service operation owes to e: whoever has
\* failed is listed, and nobody is cleared who was not written.
LEMMA EndPaid ==
    ASSUME Typed, NEW e \in Entities, Due(e), IsPaid(e),
           job.kind \in {"batch", "entity", "retry", "service"}, job.todo = {},
           NEW good, NEW bad, NEW down, End(good, bad, down), UNCHANGED <<graph, swept>>,
           good \subseteq job.ok, job.ok \cup job.bad = good \cup bad,
           e \in down => Queued(e)
    PROVE  IsPaid(e)'
<1>1. /\ UNCHANGED <<state, accepted, pending, queue>>
      /\ job' = NoJob
      /\ failed' = IF job.kind = "service" THEN failed ELSE (failed \ good) \cup bad
      /\ events'[e] = IF e \in down THEN "remove" ELSE IF e \in good \ down THEN "upsert" ELSE events[e]
  BY DEF End, Outcome, Publish, haVars, bounceVars
<1>2. Queued(e)' <=> Queued(e)
  BY <1>1, QueueFrame
<1>3. Owed(e)' <=> Queued(e) \/ e \in failed'
  BY <1>1, <1>2 DEF Owed, Incremental, NoJob
<1>4. OldStateIsFollowed(e)' /\ ~ WritesOld(e)' /\ ~ Passed(e)'
  BY <1>1, QueueFrame DEF IsPaid, WritesOld, Passed, Incremental, NoJob
<1>5. ASSUME Owed(e), e \notin good PROVE Owed(e)'
  BY <1>1, <1>3, <1>5 DEF Owed, Incremental
<1>6. ASSUME Passed(e), e \notin good PROVE Owed(e)'
  BY <1>1, <1>3, <1>6 DEF Passed, Incremental
<1>7. ~ UpToDate(e)' => Owed(e)'
  <2> SUFFICES ASSUME ~ UpToDate(e) PROVE Owed(e)'
    BY <1>1 DEF UpToDate
  <2>1. Owed(e) /\ (Passed(e) => Queued(e))
    BY DEF IsPaid, UpToDate
  <2>2. CASE e \notin good
    BY <1>5, <2>1, <2>2
  <2>3. CASE e \in good /\ job.kind = "service"
    BY <1>1, <1>3, <2>1, <2>3 DEF Owed, Incremental
  <2>4. CASE e \in good /\ job.kind # "service"
    BY <1>3, <2>1, <2>4 DEF Passed, Incremental
  <2> QED
    BY <2>2, <2>3, <2>4
<1>8. events'[e] \notin {"upsert", "reconcile"} => Owed(e)'
  <2> SUFFICES ASSUME events'[e] \notin {"upsert", "reconcile"}, e \notin down PROVE Owed(e)'
    BY <1>3
  <2>1. e \notin good /\ events'[e] = events[e]
    BY <1>1
  <2>2. Owed(e) \/ Passed(e)
    BY <2>1 DEF IsPaid
  <2> QED
    BY <1>5, <1>6, <2>1, <2>2
<1> QED
  BY <1>1, <1>4, <1>7, <1>8 DEF IsPaid

LEMMA EndInv ==
    ASSUME IInv, job.kind \in {"batch", "entity", "retry", "service"}, job.todo = {},
           NEW good, NEW bad, NEW down, End(good, bad, down), UNCHANGED <<graph, swept>>,
           MayFail \/ UNCHANGED failures,
           good \subseteq job.ok, job.ok \cup job.bad = good \cup bad,
           \A e \in down \cap Entities : Due(e) => Queued(e)
    PROVE  IInv'
<1>1. /\ UNCHANGED <<state, registered, hassRunning, changes, pending, timer, accepted, queue, sweep>>
      /\ job' = NoJob
      /\ failed' = IF job.kind = "service" THEN failed ELSE (failed \ good) \cup bad
      /\ events' = [e \in Entities |-> IF e \in down THEN "remove"
                                       ELSE IF e \in good \ down THEN "upsert" ELSE events[e]]
  BY DEF End, Outcome, Publish, haVars, bounceVars
<1>2. job \in Progress
  BY JobHeld DEF IInv, Kinds, FullSyncs
<1>3. bad \subseteq Entities
  BY <1>2 DEF Progress
<1>4. failed' \subseteq Entities
  BY <1>1, <1>3 DEF IInv, Typed, TypeOK
<1>5. events' \in [Entities -> {"none", "upsert", "remove", "reconcile"}]
  BY <1>1 DEF IInv, Typed, TypeOK
<1>6. Typed'
  BY <1>1, <1>4, <1>5, WorkTyped DEF IInv, Typed, TypeOK
<1>7. ASSUME NEW e \in Entities, Due(e)' PROVE IsPaid(e)'
  <2>1. Due(e) /\ IsPaid(e)
    BY <1>1, <1>7, QueueFrame DEF IInv
  <2> QED
    BY <2>1, EndPaid DEF IInv
<1> QED
  BY <1>6, <1>7 DEF IInv

\* Whoever is due has a state, and is not gone.
LEMMA DueIsNotGone == ASSUME NEW e \in Entities, Due(e) PROVE ~ Gone(e)
  BY DEF Due, Gone

LEMMA FinishEntityInv == ASSUME IInv, FinishEntity PROVE IInv'
<1> DEFINE gone == {e \in job.ok : Gone(e)}
<1>1. /\ job.kind \in {"entity", "retry", "service"} /\ job.todo = {}
      /\ \/ job.bad # {} /\ End({}, job.bad, {}) /\ UNCHANGED <<graph, swept, failures>>
         \/ job.ok # {} /\ End(job.ok, {}, gone) /\ UNCHANGED <<graph, swept, failures>>
         \/ job.ok # {} /\ End({}, job.ok, {}) /\ MayFail /\ UNCHANGED <<graph, swept>>
  BY DEF FinishEntity, graphVars
<1>2. \A x, y \in job.todo \cup job.ok \cup job.bad : x = y
  BY <1>1, JobHeld DEF ProgressFits, IInv, Kinds, FullSyncs
<1>3. job.ok \cap job.bad = {}
  BY <1>1, JobHeld DEF ProgressFits, IInv, Kinds, FullSyncs
<1>4. job.ok = {} \/ job.bad = {}
  BY <1>2, <1>3
<1>5. CASE job.bad # {} /\ End({}, job.bad, {}) /\ UNCHANGED <<graph, swept, failures>>
  BY <1>1, <1>4, <1>5, EndInv
<1>6. CASE job.ok # {} /\ End(job.ok, {}, gone) /\ UNCHANGED <<graph, swept, failures>>
  <2>1. \A e \in gone \cap Entities : Due(e) => Queued(e)
    BY DueIsNotGone
  <2> HIDE DEF gone
  <2> QED
    BY <1>1, <1>4, <1>6, <2>1, EndInv
<1>7. CASE job.ok # {} /\ End({}, job.ok, {}) /\ MayFail /\ UNCHANGED <<graph, swept>>
  BY <1>1, <1>4, <1>7, EndInv
<1> QED
  BY <1>1, <1>5, <1>6, <1>7

LEMMA CloseBatchInv == ASSUME IInv, CloseBatch PROVE IInv'
<1> DEFINE gone == {e \in job.ok : Gone(e)}
<1>1. /\ job.kind = "batch" /\ job.stage = "each" /\ job.todo = {}
      /\ \/ End(job.ok, job.bad, {}) /\ UNCHANGED <<graph, swept, failures>>
         \/ /\ job' = [job EXCEPT !.stage = "shared", !.removed = gone]
            /\ UNCHANGED <<state, registered, hassRunning, changes, pending, timer, accepted, queue,
                           failed, sweep, events, graph, swept, failures>>
  BY DEF CloseBatch, haVars, bounceVars, graphVars
<1>2. job \in Progress /\ job # NoJob /\ ProgressFits
  BY <1>1, JobHeld DEF IInv, Kinds, FullSyncs
<1>3. CASE End(job.ok, job.bad, {}) /\ UNCHANGED <<graph, swept, failures>>
  BY <1>1, <1>3, EndInv
<1>4. CASE /\ job' = [job EXCEPT !.stage = "shared", !.removed = gone]
           /\ UNCHANGED <<state, registered, hassRunning, changes, pending, timer, accepted, queue,
                          failed, sweep, events, graph, swept, failures>>
  <2>1. gone \subseteq Entities /\ \A e \in gone : ~ Due(e)
    BY <1>2, DueIsNotGone DEF Progress
  <2> HIDE DEF gone
  <2>2. /\ job' \in Progress
        /\ job'.kind = job.kind /\ job'.ctx = job.ctx /\ job'.stage = "shared"
        /\ job'.todo = job.todo /\ job'.written = job.written /\ job'.ok = job.ok
        /\ job'.bad = job.bad /\ job'.removed = gone
    BY <1>2, <1>4, <2>1 DEF Progress
  <2>3. ProgressFits'
    BY <1>1, <1>2, <1>4, <2>2 DEF ProgressFits
  <2>4. Typed'
    BY <1>4, <2>2, <2>3, WorkTyped DEF IInv, Typed, TypeOK
  <2>5. ASSUME NEW e \in Entities, Due(e)' PROVE IsPaid(e)'
    <3>1. Due(e) /\ IsPaid(e) /\ e \notin gone
      BY <1>4, <2>1, <2>5, QueueFrame DEF IInv
    <3>2. WritesOld(e)' => WritesOld(e)
      BY <1>2, <1>4, <2>2 DEF WritesOld
    <3> QED
      BY <1>4, <2>2, <3>1, <3>2, QueueFrame DEF IsPaid, UpToDate, Owed, Passed, Incremental
  <2> QED
    BY <2>4, <2>5 DEF IInv
<1> QED
  BY <1>1, <1>3, <1>4

LEMMA FinishBatchInv == ASSUME IInv, FinishBatch PROVE IInv'
<1>1. /\ job.kind = "batch" /\ job.stage = "shared"
      /\ \/ End(job.ok, job.bad, job.removed) /\ UNCHANGED <<graph, swept, failures>>
         \/ End({}, job.ok \cup job.bad, {}) /\ MayFail /\ UNCHANGED <<graph, swept>>
  BY DEF FinishBatch, graphVars
<1>2. job.todo = {} /\ job # NoJob
  BY <1>1, JobHeld DEF ProgressFits, IInv, Kinds, FullSyncs
<1>3. CASE End(job.ok, job.bad, job.removed) /\ UNCHANGED <<graph, swept, failures>>
  <2>1. \A e \in job.removed \cap Entities : Due(e) => Queued(e)
    BY <1>2 DEF IInv, IsPaid
  <2> QED
    BY <1>1, <1>2, <1>3, <2>1, EndInv
<1>4. CASE End({}, job.ok \cup job.bad, {}) /\ MayFail /\ UNCHANGED <<graph, swept>>
  BY <1>1, <1>2, <1>4, EndInv
<1> QED
  BY <1>1, <1>3, <1>4

\* A rebuild takes nodes, and what it takes stands in swept; where it ends, nothing
\* is owed that was not.
LEMMA ClearGraphInv == ASSUME IInv, ClearGraph PROVE IInv'
<1>1. /\ UNCHANGED <<state, registered, hassRunning, changes, pending, timer, accepted, queue, sweep,
                     failed, events>>
      /\ job.kind = "rebuild" /\ job.stage = "clear"
      /\ job' = [job EXCEPT !.stage = "collect"] \/ job' = NoJob
      /\ MayFail \/ UNCHANGED failures
      /\ Cleared \/ UNCHANGED <<graph, swept>>
  BY DEF ClearGraph, haVars, bounceVars
<1>2. job \in Progress /\ job # NoJob /\ ProgressFits
  BY <1>1, JobHeld DEF IInv, Kinds, FullSyncs
<1>3. \/ job' = NoJob
      \/ /\ job' \in Progress
         /\ job'.kind = "rebuild" /\ job'.ctx = job.ctx /\ job'.stage = "collect"
         /\ job'.todo = job.todo /\ job'.written = job.written /\ job'.ok = job.ok
         /\ job'.bad = job.bad /\ job'.removed = job.removed
  BY <1>1, <1>2 DEF Progress
<1>4. /\ graph' \in [Entities -> Version \cup {NoNode}]
      /\ swept' \subseteq Entities
      /\ \A e \in Entities : UpToDate(e) => UpToDate(e)'
  <2>1. graph \in [Entities -> Version \cup {NoNode}] /\ swept \subseteq Entities
    BY DEF IInv, Typed, TypeOK
  <2>2. CASE Cleared
    BY <1>1, <2>1, <2>2 DEF Cleared, UpToDate
  <2>3. CASE UNCHANGED <<graph, swept>>
    BY <1>1, <2>1, <2>3 DEF UpToDate
  <2> QED
    BY <1>1, <2>2, <2>3
<1>5. Typed'
  <2>1. job' # NoJob => ProgressFits'
    BY <1>1, <1>2, <1>3 DEF ProgressFits, FullSyncs
  <2> QED
    BY <1>1, <1>3, <1>4, <2>1, WorkTyped DEF IInv, Typed, TypeOK
<1>6. ASSUME NEW e \in Entities, Due(e)' PROVE IsPaid(e)'
  <2>1. Due(e) /\ IsPaid(e) /\ (Queued(e)' <=> Queued(e)) /\ OldStateIsFollowed(e)'
    BY <1>1, <1>6, QueueFrame DEF IInv, IsPaid
  <2>2. /\ ~ Incremental /\ ~ Passed(e) /\ ~ Incremental' /\ ~ Passed(e)'
    BY <1>1, <1>3 DEF Incremental, Passed, NoJob
  <2>3. WritesOld(e)' => WritesOld(e)
    BY <1>1, <1>2, <1>3 DEF WritesOld
  <2>4. job' # NoJob => job'.removed = job.removed
    BY <1>3
  <2> QED
    BY <1>1, <1>2, <1>4, <2>1, <2>2, <2>3, <2>4 DEF IsPaid, Owed
<1> QED
  BY <1>5, <1>6 DEF IInv

\* What a full sync reads is no old state of anybody.
LEMMA CollectEntitiesInv == ASSUME IInv, CollectEntities PROVE IInv'
<1>1. /\ UNCHANGED <<state, registered, hassRunning, changes, pending, timer, accepted, queue, sweep,
                     failed, events, graph, swept, failures>>
      /\ job.kind \in FullSyncs /\ job.stage = "collect"
      /\ job' = [job EXCEPT !.stage = "write", !.todo = registered, !.ctx = state]
  BY DEF CollectEntities, haVars, bounceVars, graphVars
<1>2. job \in Progress /\ job # NoJob /\ ProgressFits
  BY <1>1, JobHeld DEF IInv, Kinds, FullSyncs
<1>3. registered \subseteq Entities /\ state \in [Entities -> Version]
  BY DEF IInv, Typed, TypeOK
<1>4. /\ job' \in Progress
      /\ job'.kind = job.kind /\ job'.ctx = state /\ job'.stage = "write" /\ job'.todo = registered
      /\ job'.written = job.written /\ job'.ok = job.ok /\ job'.bad = job.bad
      /\ job'.removed = job.removed
  BY <1>1, <1>2, <1>3 DEF Progress
<1>5. Typed'
  <2>1. ProgressFits'
    BY <1>1, <1>2, <1>4 DEF ProgressFits, FullSyncs
  <2> QED
    BY <1>1, <1>4, <2>1, WorkTyped DEF IInv, Typed, TypeOK
<1>6. ASSUME NEW e \in Entities PROVE Due(e)' => IsPaid(e)'
  <2>1. ~ WritesOld(e)'
    BY <1>1, <1>4 DEF WritesOld
  <2>2. /\ ~ Incremental /\ ~ Incremental' /\ ~ Passed(e) /\ ~ Passed(e)'
        /\ job'.removed = {}
    BY <1>1, <1>2, <1>4 DEF Incremental, Passed, ProgressFits, FullSyncs
  <2> QED
    BY <1>1, <2>1, <2>2, QueueFrame DEF IsPaid, UpToDate, Owed, IInv
<1> QED
  BY <1>5, <1>6 DEF IInv

\* It writes what it read: the last state of e, or the last one is queued.
LEMMA WriteFullSyncInv == ASSUME IInv, WriteFullSync PROVE IInv'
<1> DEFINE Wrote(S) == [e \in Entities |-> IF e \in S THEN Merged(e, job.ctx[e]) ELSE graph[e]]
<1>1. /\ UNCHANGED <<state, registered, hassRunning, changes, pending, timer, accepted, queue, sweep,
                     failed>>
      /\ job.kind \in FullSyncs /\ job.stage = "write" /\ job' = NoJob
      /\ events' = [e \in Entities |-> "reconcile"] \/ UNCHANGED events
      /\ MayFail \/ UNCHANGED failures
      /\ \E S \in SUBSET job.todo : graph' = Wrote(S)
      /\ swept' = {e \in swept : graph'[e] = NoNode}
  BY DEF WriteFullSync, Leaves, haVars, bounceVars
<1>2. job \in Progress /\ job # NoJob /\ ProgressFits
  BY <1>1, JobHeld DEF IInv, Kinds, FullSyncs
<1>3. PICK S \in SUBSET job.todo : graph' = Wrote(S)
  BY <1>1
<1>4. ASSUME NEW e \in Entities
      PROVE  /\ graph[e] \in Version \cup {NoNode} /\ job.ctx[e] \in Version
             /\ Merged(e, job.ctx[e]) \in Version \cup {NoNode}
  <2>1. graph[e] \in Version \cup {NoNode} /\ job.ctx[e] \in Version
    BY <1>2 DEF Progress, IInv, Typed, TypeOK
  <2> QED
    BY <2>1, BoundsAssumption DEF Merged, Version
<1>5. graph' \in [Entities -> Version \cup {NoNode}]
  BY <1>3, <1>4
<1>6. Typed'
  <2>1. events' \in [Entities -> {"none", "upsert", "remove", "reconcile"}]
    BY <1>1 DEF IInv, Typed, TypeOK
  <2> QED
    BY <1>1, <1>5, <2>1, WorkTyped DEF IInv, Typed, TypeOK
<1>7. ASSUME NEW e \in Entities, Due(e)' PROVE IsPaid(e)'
  <2>1. Due(e) /\ IsPaid(e) /\ (Queued(e)' <=> Queued(e)) /\ OldStateIsFollowed(e)'
    BY <1>1, <1>7, QueueFrame DEF IInv, IsPaid
  <2>2. /\ ~ Incremental /\ ~ Passed(e)
        /\ ~ Incremental' /\ ~ Passed(e)' /\ ~ WritesOld(e)'
    BY <1>1 DEF Incremental, Passed, WritesOld, NoJob, FullSyncs
  <2>3. Owed(e) <=> Owed(e)'
    BY <1>1, <2>1, <2>2 DEF Owed
  <2>4. ~ UpToDate(e)' => Owed(e)'
    <3>1. CASE e \notin S
      <4>1. UpToDate(e)' <=> UpToDate(e)
        BY <1>1, <1>3, <3>1, SweptFrame
      <4> QED
        BY <2>1, <2>3, <4>1 DEF IsPaid
    <3>2. CASE e \in S /\ job.ctx[e] = state[e]
      BY <1>1, <1>3, <2>1, <3>2 DEF Merged, Due, UpToDate
    <3>3. CASE job.ctx[e] # state[e]
      BY <1>1, <1>2, <2>1, <3>3 DEF IsPaid, WritesOld, Owed
    <3> QED
      BY <3>1, <3>2, <3>3
  <2>5. events'[e] \notin {"upsert", "reconcile"} => Owed(e)'
    BY <1>1, <2>1, <2>2, <2>3 DEF IsPaid
  <2> QED
    BY <1>1, <2>1, <2>2, <2>4, <2>5 DEF IsPaid
<1> QED
  BY <1>6, <1>7 DEF IInv

-----------------------------------------------------------------------------
LEMMA NextInv == IInv /\ [Next]_vars => IInv'
<1> SUFFICES ASSUME IInv, [Next]_vars PROVE IInv'
  OBVIOUS
<1>1. ASSUME NEW e \in Entities, StateChange(e) PROVE IInv'
  BY <1>1, StateChangeInv
<1>2. ASSUME NEW e \in Entities, StateRemove(e) PROVE IInv'
  BY <1>2, StateRemoveInv
<1>3. CASE HassStarted
  BY <1>3, HassStartedInv
<1>4. CASE TimerFires
  BY <1>4, TimerFiresInv
<1>5. CASE StartSweep
  BY <1>5, StartSweepInv
<1>6. ASSUME NEW e \in Entities, RegistryUpdated(e) \/ SweepNext(e) \/ CallSyncEntity(e) PROVE IInv'
  BY <1>6, RequestInv
<1>7. CASE CallResync \/ CallRebuild
  BY <1>7, CallFullSyncInv
<1>8. CASE TakeLock
  BY <1>8, TakeLockInv
<1>9. CASE JobStep
  BY <1>9, BulkWriteInv, SyncOneInv, FinishEntityInv, CloseBatchInv, FinishBatchInv,
     ClearGraphInv, CollectEntitiesInv, WriteFullSyncInv DEF JobStep
<1>10. CASE UNCHANGED vars
  <2>1. UNCHANGED <<state, registered, hassRunning, changes, pending, timer, accepted, queue, job,
                    failed, sweep, events, graph, swept, failures>>
    BY <1>10 DEF vars, haVars, bounceVars, jobVars, graphVars
  <2>2. Typed'
    <3>1. TypeOK'
      BY <2>1 DEF IInv, Typed, TypeOK
    <3> QED
      BY <2>1, <3>1, TypedFrame DEF IInv, Typed
  <2>3. \A e \in Entities : Due(e)' => IsPaid(e)'
    BY <2>1, PointFrame DEF IInv
  <2> QED
    BY <2>2, <2>3 DEF IInv
<1> QED
  BY <1>1, <1>2, <1>3, <1>4, <1>5, <1>6, <1>7, <1>8, <1>9, <1>10 DEF Next, HomeAssistant

\* The inductive invariant of the pipeline: whatever is accepted is owed until it
\* is in the graph or taken from it by a rebuild, and whoever is about to write an older state has the newer
\* one behind it in the queue.
THEOREM PipelineInvariant == Spec => []IInv
<1> QED
  BY InitInv, NextInv, PTL DEF Spec

\* Types, for every set of entities and every bound.
THEOREM PipelineTyped == Spec => []TypeOK
<1>1. IInv => TypeOK
  BY DEF IInv, Typed
<1> QED
  BY <1>1, PipelineInvariant, PTL

\* What is owed to an entity is what the properties call in flight, or failed.
LEMMA OwedIsInFlight == ASSUME NEW e \in Entities, Owed(e) \/ Passed(e)
                        PROVE  InFlight(e) \/ e \in failed
  BY DEF Owed, Passed, Queued, Incremental, InFlight

\* FR-020, for every number of entities, changes and failures: an accepted change
\* that is not in the graph is in the window, in an operation that waits or runs,
\* or in failed_updates, unless a rebuild has deleted the node since.
THEOREM NothingAcceptedIsLost == Spec => []AcceptedChangeNotLost
<1>1. IInv => AcceptedChangeNotLost
  BY OwedIsInFlight DEF IInv, IsPaid, Due, AcceptedChangeNotLost
<1> QED
  BY <1>1, PipelineInvariant, PTL

\* 005 spec.md FR-014: a settled change was announced last as an upsert or by a
\* reconcile, however late the removal was decided.
THEOREM SettledIsAnnounced == Spec => []SyncIsAnnounced
<1>1. IInv => SyncIsAnnounced
  <2> SUFFICES ASSUME IInv, NEW e \in Entities, Due(e), ~ InFlight(e), e \notin failed
               PROVE  events[e] \in {"upsert", "reconcile"}
    BY DEF SyncIsAnnounced, Due
  <2>1. ~ Owed(e) /\ ~ Passed(e)
    BY OwedIsInFlight
  <2> QED
    BY <2>1 DEF IInv, IsPaid
<1> QED
  BY <1>1, PipelineInvariant, PTL
=============================================================================
