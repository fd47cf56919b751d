----------------------------- MODULE EntitySync -----------------------------
(***************************************************************************)
(* How a Home Assistant state change reaches the graph: the listener, the  *)
(* shared debounce window, the FIFO lock (OpLock, taken here by its        *)
(* abstract behaviour SerialOps), the batch and single-entity sync with    *)
(* their failures, the failed_updates list and its retry sweep, the full   *)
(* syncs with and without a clear before them, and the change events       *)
(* published to live clients.                                              *)
(*                                                                         *)
(* A state, with the attributes the listener tracks, is a version number;  *)
(* 0 is "no state".  Between two suspension points of a handler only one   *)
(* step is taken; the Home Assistant side moves in between.  Entities of   *)
(* the integration itself and excluded ones, which never enter the         *)
(* pipeline, are left out.                                                 *)
(***************************************************************************)
EXTENDS Integers, Sequences, FiniteSets

CONSTANTS Entities,
          MaxChanges,    \* bound: changes Home Assistant makes, and rebuilds asked for
          MaxFailures,   \* bound: graph calls that fail
          MaxQueue       \* bound: operations waiting for the lock

ASSUME BoundsAssumption == MaxChanges \in Nat \ {0} /\ MaxFailures \in Nat /\ MaxQueue \in Nat

NoNode == -1

Version == 0..MaxChanges
NoJob == [kind |-> "none"]
NoContext == [e \in Entities |-> 0]

VARIABLES
    \* Home Assistant
    state,        \* state machine: the version of each entity's state, 0 if none
    registered,   \* entity registry
    hassRunning,  \* hass.state is CoreState.running
    changes,      \* versions handed out and rebuilds asked for (bound)
    \* StateChangeDebouncer
    pending,      \* _pending: the captured version, 0 if not pending
    timer,        \* _timer is armed
    accepted,     \* history: the last version the debouncer accepted
    \* OntologyCoordinator
    queue,        \* operations waiting for the lock, oldest first
    job,          \* the operation holding the lock, with its progress
    failed,       \* state.failed_updates, as the set of its entity ids
    sweep,        \* ids the running retry sweep has still to await
    events,       \* the last change event that named each entity
    \* Memgraph
    graph,        \* version stored in each Entity node, 0 without state, or NoNode
    swept,        \* history: entities whose node a rebuild has deleted and nobody
                  \* has written since, nor accepted a change of
    failures      \* graph calls that failed (bound)

haVars    == <<state, registered, hassRunning, changes>>
bounceVars == <<pending, timer, accepted>>
jobVars   == <<queue, job, failed, sweep, events>>
graphVars == <<graph, swept, failures>>
vars      == <<haVars, bounceVars, jobVars, graphVars>>

-----------------------------------------------------------------------------
(* Operations waiting for the coordinator's lock *)

Batch(ctx)     == [kind |-> "batch", ids |-> {e \in Entities : ctx[e] > 0}, ctx |-> ctx]
EntityJob(e)   == [kind |-> "entity", ids |-> {e}, ctx |-> NoContext]
RetryJob(e)    == [kind |-> "retry", ids |-> {e}, ctx |-> NoContext]
ServiceJob(e)  == [kind |-> "service", ids |-> {e}, ctx |-> NoContext]
FullSync(kind) == [kind |-> kind, ids |-> {}, ctx |-> NoContext]

FullSyncs == {"resync", "rebuild"}

\* What an operation still has to do once it holds the lock.
Begun(j) == [kind |-> j.kind, ctx |-> j.ctx,
             stage |-> CASE j.kind = "batch"   -> "bulk"
                         [] j.kind = "resync"  -> "collect"
                         [] j.kind = "rebuild" -> "clear"
                         [] OTHER              -> "each",
             todo |-> j.ids, written |-> {}, ok |-> {}, bad |-> {}, removed |-> {}]

Enqueue(j) == queue' = Append(queue, j)

HasRoom == Len(queue) < MaxQueue

\* Neither in the registry nor in the state machine.
Gone(e) == e \notin registered /\ state[e] = 0

Init ==
    /\ state \in [Entities -> {0, 1}]
    /\ registered \in SUBSET Entities
    /\ hassRunning \in BOOLEAN
    /\ changes = 1
    /\ pending = NoContext
    /\ timer = FALSE
    /\ accepted = NoContext
    /\ queue = <<FullSync("resync")>>    \* the background initial sync of async_setup_entry
    /\ job = NoJob
    /\ failed = {}
    /\ sweep = {}
    /\ events = [e \in Entities |-> "none"]
    /\ graph = [e \in Entities |-> NoNode]
    /\ swept = {}
    /\ failures = 0

-----------------------------------------------------------------------------
(* Home Assistant and the listeners, which run inside the event *)

\* Seeded fault: the first snapshot of the window is kept, not the latest.
AcceptFirst(e, v) ==
    /\ pending' = [pending EXCEPT ![e] = IF @ = 0 THEN v ELSE @]
    /\ timer' = TRUE
    /\ accepted' = [accepted EXCEPT ![e] = v]
    /\ swept' = swept \ {e}

\* async_handle_state_changed: the latest snapshot wins; the timer is armed
\* only when the window opens.
Accept(e, v) ==
    /\ pending' = [pending EXCEPT ![e] = v]
    /\ timer' = (timer \/ pending = NoContext)
    /\ accepted' = [accepted EXCEPT ![e] = v]
    /\ swept' = swept \ {e}

StateChange(e) ==
    /\ changes < MaxChanges
    /\ changes' = changes + 1
    /\ state' = [state EXCEPT ![e] = changes + 1]
    /\ IF hassRunning THEN Accept(e, changes + 1) ELSE UNCHANGED <<bounceVars, swept>>
    /\ UNCHANGED <<registered, hassRunning, jobVars, graph, failures>>

\* The event of a removed state has no new_state: the listener returns.
StateRemove(e) ==
    /\ state[e] > 0
    /\ changes < MaxChanges
    /\ changes' = changes + 1
    /\ state' = [state EXCEPT ![e] = 0]
    /\ UNCHANGED <<registered, hassRunning, bounceVars, jobVars, graphVars>>

\* An entity registry entry is created, updated or removed.
RegistryUpdated(e) ==
    /\ changes < MaxChanges
    /\ HasRoom
    /\ changes' = changes + 1
    /\ \/ registered' = registered \cup {e}
       \/ registered' = registered \ {e}
    /\ IF hassRunning THEN Enqueue(EntityJob(e)) ELSE UNCHANGED queue
    /\ UNCHANGED <<state, hassRunning, bounceVars, job, failed, sweep, events, graphVars>>

HassStarted ==
    /\ ~ hassRunning
    /\ hassRunning' = TRUE
    /\ UNCHANGED <<state, registered, changes, bounceVars, jobVars, graphVars>>

-----------------------------------------------------------------------------
(* Operations are requested *)

\* StateChangeDebouncer._fire: the window closes and becomes one batch.
TimerFires ==
    /\ timer
    /\ HasRoom
    /\ timer' = FALSE
    /\ pending' = NoContext
    /\ Enqueue(Batch(pending))
    /\ UNCHANGED <<haVars, accepted, job, failed, sweep, events, graphVars>>

\* The periodic timer of __init__.py, skipped when nothing is tracked.  One
\* sweep at a time (bound).
StartSweep ==
    /\ failed # {}
    /\ sweep = {}
    /\ sweep' = failed
    /\ UNCHANGED <<haVars, bounceVars, queue, job, failed, events, graphVars>>

RetryOutstanding ==
    \/ job.kind = "retry"
    \/ \E i \in 1..Len(queue) : queue[i].kind = "retry"

\* async_retry_failed_updates awaits its items one by one.
SweepNext(e) ==
    /\ e \in sweep
    /\ ~ RetryOutstanding
    /\ HasRoom
    /\ Enqueue(RetryJob(e))
    /\ sweep' = sweep \ {e}
    /\ UNCHANGED <<haVars, bounceVars, job, failed, events, graphVars>>

\* ontology.resync, ontology.rebuild, ontology.sync_entity (refused for an unknown
\* entity).  One explicit request waits at a time; OpLock has the slot itself.
SlotFree == \A i \in 1..Len(queue) : queue[i].kind \notin {"service"} \cup FullSyncs

CallResync ==
    /\ SlotFree
    /\ HasRoom
    /\ Enqueue(FullSync("resync"))
    /\ UNCHANGED <<haVars, bounceVars, job, failed, sweep, events, graphVars>>

CallRebuild ==
    /\ changes < MaxChanges
    /\ changes' = changes + 1
    /\ SlotFree
    /\ HasRoom
    /\ Enqueue(FullSync("rebuild"))
    /\ UNCHANGED <<state, registered, hassRunning, bounceVars, job, failed, sweep, events,
                   graphVars>>

CallSyncEntity(e) ==
    /\ ~ Gone(e)
    /\ SlotFree
    /\ HasRoom
    /\ Enqueue(ServiceJob(e))
    /\ UNCHANGED <<haVars, bounceVars, job, failed, sweep, events, graphVars>>

-----------------------------------------------------------------------------
(* The operation that holds the lock *)

TakeLock ==
    /\ job = NoJob
    /\ queue # <<>>
    /\ job' = Begun(Head(queue))
    /\ queue' = Tail(queue)
    /\ UNCHANGED <<haVars, bounceVars, failed, sweep, events, graphVars>>

\* What merging the Entity node of e with version v leaves: `SET n +=` keeps the
\* old state property when there is none to write.
Merged(e, v) ==
    IF v > 0 THEN v ELSE IF graph[e] = NoNode THEN 0 ELSE graph[e]

\* graph_builder.update_entity, as it leaves the Entity node of e.  Without a
\* captured context the current state is read.
Updated(e, ctx) ==
    IF Gone(e) THEN NoNode ELSE Merged(e, IF ctx > 0 THEN ctx ELSE state[e])

MayFail == failures < MaxFailures /\ failures' = failures + 1

\* What a write leaves in the graph: a node that is there is not missed any more.
Leaves(g) ==
    /\ graph' = g
    /\ swept' = {e \in swept : g[e] = NoNode}

\* update_entity_states_bulk: the nodes of S get what their contexts hold.
BulkUpdated(S) == [e \in Entities |-> IF e \in S THEN job.ctx[e] ELSE graph[e]]

\* _write_state_only_updates: one MATCH query over the entities with a state.
\* Those that have a node are written.  On any error none counts as written,
\* although some may have been.
BulkWrite ==
    LET present == {e \in job.todo : state[e] > 0 /\ graph[e] # NoNode}
    IN  /\ job.kind = "batch"
        /\ job.stage = "bulk"
        /\ \/ /\ Leaves(BulkUpdated(present))
              /\ job' = [job EXCEPT !.stage = "each", !.written = present]
              /\ UNCHANGED failures
           \/ /\ \E e \in job.todo : state[e] > 0    \* else nothing is asked of the graph
              /\ MayFail
              /\ \E S \in SUBSET present : Leaves(BulkUpdated(S))
              /\ job' = [job EXCEPT !.stage = "each"]
        /\ UNCHANGED <<haVars, bounceVars, queue, failed, sweep, events>>

\* One entity: its node, then its inferred energy role.  A failure anywhere may
\* leave the node written or not.
SyncOne(e) ==
    LET after == IF e \in job.written THEN graph[e] ELSE Updated(e, job.ctx[e])
    IN  /\ job.kind \in {"batch", "entity", "retry", "service"}
        /\ job.stage = "each"
        /\ e \in job.todo
        /\ \/ /\ Leaves([graph EXCEPT ![e] = after])
              /\ job' = [job EXCEPT !.todo = @ \ {e}, !.ok = @ \cup {e}]
              /\ UNCHANGED failures
           \/ /\ MayFail
              /\ \E g \in {graph[e], after} : Leaves([graph EXCEPT ![e] = g])
              /\ job' = [job EXCEPT !.todo = @ \ {e}, !.bad = @ \cup {e}]
        /\ UNCHANGED <<haVars, bounceVars, queue, failed, sweep, events>>

\* What every incremental handler does with its outcome right after the lock is
\* released: failed ids are tracked, the others cleared.  A single-entity
\* service call only raises to its caller.
Outcome(good, bad) ==
    IF job.kind = "service" THEN failed ELSE (failed \ good) \cup bad

\* Seeded fault: only removals are announced.
PublishRemovals(up, down) ==
    events' = [e \in Entities |-> IF e \in down THEN "remove" ELSE events[e]]

Publish(up, down) ==
    events' = [e \in Entities |-> IF e \in down THEN "remove"
                                  ELSE IF e \in up THEN "upsert"
                                  ELSE events[e]]

\* Seeded fault: a batch in which something succeeded forgets its failures.
EndGoodOnly(good, bad, down) ==
    /\ job' = NoJob
    /\ failed' = IF good # {} THEN failed \ good ELSE Outcome(good, bad)
    /\ Publish(good \ down, down)
    /\ UNCHANGED <<haVars, bounceVars, queue, sweep>>

End(good, bad, down) ==
    /\ job' = NoJob
    /\ failed' = Outcome(good, bad)
    /\ Publish(good \ down, down)
    /\ UNCHANGED <<haVars, bounceVars, queue, sweep>>

\* _execute_entity_sync: counts are refreshed, then what is published is
\* decided by what Home Assistant holds by now.
FinishEntity ==
    /\ job.kind \in {"entity", "retry", "service"}
    /\ job.stage = "each"
    /\ job.todo = {}
    /\ \/ job.bad # {} /\ End({}, job.bad, {}) /\ UNCHANGED graphVars
       \/ job.ok # {} /\ End(job.ok, {}, {e \in job.ok : Gone(e)}) /\ UNCHANGED graphVars
       \/ job.ok # {} /\ End({}, job.ok, {}) /\ MayFail /\ UNCHANGED <<graph, swept>>

\* The per-entity loop of a batch is over: who is gone is decided here.
CloseBatch ==
    LET gone == {e \in job.ok : Gone(e)}
    IN  /\ job.kind = "batch"
        /\ job.stage = "each"
        /\ job.todo = {}
        /\ \/ /\ gone = {}        \* no removal and no role: nothing to await
              /\ End(job.ok, job.bad, {})
              /\ UNCHANGED graphVars
           \/ /\ job.ok # {}      \* a removal or an assigned role
              /\ job' = [job EXCEPT !.stage = "shared", !.removed = gone]
              /\ UNCHANGED <<haVars, bounceVars, queue, failed, sweep, events, graphVars>>

\* The counts refresh and the binding repair shared by the batch: a failure is
\* held against every entity that had succeeded.
FinishBatch ==
    /\ job.kind = "batch"
    /\ job.stage = "shared"
    /\ \/ End(job.ok, job.bad, job.removed) /\ UNCHANGED graphVars
       \/ End({}, job.ok \cup job.bad, {}) /\ MayFail /\ UNCHANGED <<graph, swept>>

\* The clear of a rebuild deletes every Entity node.
Cleared ==
    /\ graph' = [e \in Entities |-> NoNode]
    /\ swept' = swept \cup {e \in Entities : graph[e] # NoNode}

\* A rebuild exports the overrides and clears.  It may fail before, or with the
\* clear committed: it raises to its caller, and puts nothing on a list.
ClearGraph ==
    /\ job.kind = "rebuild"
    /\ job.stage = "clear"
    /\ \/ Cleared /\ job' = [job EXCEPT !.stage = "collect"] /\ UNCHANGED failures
       \/ Cleared /\ job' = NoJob /\ MayFail
       \/ job' = NoJob /\ MayFail /\ UNCHANGED <<graph, swept>>
    /\ UNCHANGED <<haVars, bounceVars, queue, failed, sweep, events>>

\* A full sync reads every registered entity; state-only ones are not collected.
CollectEntities ==
    /\ job.kind \in FullSyncs
    /\ job.stage = "collect"
    /\ job' = [job EXCEPT !.stage = "write", !.todo = registered, !.ctx = state]
    /\ UNCHANGED <<haVars, bounceVars, queue, failed, sweep, events, graphVars>>

\* It writes what it read, and publishes one reconcile event.
WriteFullSync ==
    LET Wrote(S) == [e \in Entities |-> IF e \in S THEN Merged(e, job.ctx[e]) ELSE graph[e]]
    IN  /\ job.kind \in FullSyncs
        /\ job.stage = "write"
        /\ \/ /\ Leaves(Wrote(job.todo))
              /\ events' = [e \in Entities |-> "reconcile"]
              /\ UNCHANGED failures
           \/ /\ MayFail
              /\ \E S \in SUBSET job.todo : Leaves(Wrote(S))
              /\ UNCHANGED events
        /\ job' = NoJob
        /\ UNCHANGED <<haVars, bounceVars, queue, failed, sweep>>

-----------------------------------------------------------------------------
JobStep ==
    \/ BulkWrite
    \/ \E e \in Entities : SyncOne(e)
    \/ FinishEntity
    \/ CloseBatch
    \/ FinishBatch
    \/ ClearGraph
    \/ CollectEntities
    \/ WriteFullSync

HomeAssistant ==
    \/ \E e \in Entities : StateChange(e) \/ StateRemove(e) \/ RegistryUpdated(e)
    \/ HassStarted

Next ==
    \/ HomeAssistant
    \/ TimerFires
    \/ StartSweep
    \/ \E e \in Entities : SweepNext(e)
    \/ CallResync
    \/ CallRebuild
    \/ \E e \in Entities : CallSyncEntity(e)
    \/ TakeLock
    \/ JobStep

\* Timers fire and tasks run.  Nothing obliges Home Assistant or a user to act,
\* but the core does finish starting.
Fairness ==
    /\ WF_vars(HassStarted)
    /\ WF_vars(TimerFires)
    /\ WF_vars(StartSweep)
    /\ WF_vars(\E e \in Entities : SweepNext(e))
    /\ WF_vars(TakeLock)
    /\ WF_vars(JobStep)

Spec == Init /\ [][Next]_vars

FairSpec == Spec /\ Fairness

-----------------------------------------------------------------------------
TypeOK ==
    /\ state \in [Entities -> Version]
    /\ registered \subseteq Entities
    /\ hassRunning \in BOOLEAN
    /\ changes \in 1..MaxChanges
    /\ pending \in [Entities -> Version]
    /\ timer \in BOOLEAN
    /\ accepted \in [Entities -> Version]
    /\ \A i \in 1..Len(queue) : queue[i].ids \subseteq Entities
    /\ failed \subseteq Entities
    /\ sweep \subseteq Entities
    /\ events \in [Entities -> {"none", "upsert", "remove", "reconcile"}]
    /\ graph \in [Entities -> Version \cup {NoNode}]
    /\ swept \subseteq Entities
    /\ failures \in 0..MaxFailures

\* An incremental operation that still has e to write or to account for.
Carries(j, e) ==
    /\ j.kind \in {"batch", "entity", "retry"}
    /\ e \in j.ids

InFlight(e) ==
    \/ pending[e] > 0
    \/ \E i \in 1..Len(queue) : Carries(queue[i], e)
    \/ job.kind \in {"batch", "entity", "retry"} /\ e \in job.todo \cup job.ok \cup job.bad

\* The node holds the state, or a rebuild has deleted it since the last change was
\* accepted.  A rebuild writes back what the entity registry has, if nothing fails;
\* a state-only entity waits for its next change.
UpToDate(e) == graph[e] = state[e] \/ (e \in swept /\ graph[e] = NoNode)

\* FR-020: an accepted change is in the graph, still on its way, or tracked as
\* failed, whatever fails and in whatever order operations run.  Only a rebuild
\* takes it out of the graph, and then leaves no node: never an older state.
AcceptedChangeNotLost ==
    \A e \in Entities :
        accepted[e] > 0 /\ accepted[e] = state[e] /\ ~ UpToDate(e)
            => InFlight(e) \/ e \in failed

\* Once Home Assistant and its users fall quiet, nothing stays on the failed list
\* and the graph holds the latest accepted state of every entity, but for those
\* whose node a rebuild has deleted and did not write back.
EventuallySynced ==
    <>[](/\ failed = {}
         /\ \A e \in Entities :
                accepted[e] > 0 /\ accepted[e] = state[e] => UpToDate(e))

\* 005 spec.md FR-014: once an accepted change is settled, the last event live
\* panels were sent about the entity is an upsert or a reconcile, never a
\* removal, although which one it is gets decided after the write, from what
\* Home Assistant holds by then.
SyncIsAnnounced ==
    \A e \in Entities :
        accepted[e] > 0 /\ accepted[e] = state[e] /\ ~ InFlight(e) /\ e \notin failed =>
            events[e] \in {"upsert", "reconcile"}
=============================================================================
