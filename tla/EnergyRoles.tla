----------------------------- MODULE EnergyRoles -----------------------------
(***************************************************************************)
(* Energy-role assignments of power sensors: durable statements a user      *)
(* makes, statements inferred from Home Assistant metadata, and the binding *)
(* of each statement to its Entity node, which queries follow.              *)
(*                                                                         *)
(* A binding goes with its node.  A full sync and a single-entity sync      *)
(* recreate all bindings, a batch only if it has a reason to; operations    *)
(* hold the coordinator's lock (OpLock), Home Assistant changes under them, *)
(* and any of their graph calls may fail.                                   *)
(***************************************************************************)
EXTENDS Integers, FiniteSets

CONSTANTS Entities,    \* power sensors
          StateOnly,   \* those that are not in the entity registry
          Roles,
          None,        \* no role
          MaxChanges,  \* bound: changes Home Assistant makes
          MaxCommands, \* bound: service calls and full syncs
          MaxFailures  \* bound: graph calls that fail

ASSUME KindsAssumption == StateOnly \subseteq Entities /\ None \notin Roles

ASSUME BoundsAssumption == MaxChanges \in Nat /\ MaxCommands \in Nat /\ MaxFailures \in Nat

Sources == {"user", "inferred"}

VARIABLES live,      \* entities Home Assistant has
          hint,      \* the role their metadata suggests, None without one
          node,      \* Entity nodes in the graph
          role,      \* role[s][e]: the assignment of source s for e
          bound,     \* assignments with a binding: pairs <<s, e>>
          changed,   \* state changes the debouncer has accepted
          touched,   \* registry events and failed updates to be synced one by one
          op,        \* the operation that holds the lock
          unrepaired, \* did a full sync fail since bindings were last repaired?
          missed,    \* entities a failed full sync did not reconcile, nothing has since
          changes, commands, failures

home == <<live, hint>>
roles == <<role, bound>>
due == <<changed, touched>>
counters == <<changes, commands, failures>>
broken == <<unrepaired, missed>>
vars == <<home, node, roles, due, op, broken, counters>>

\* stage: what the operation does next; todo: entities it has yet to take; at:
\* the entity it has written and not reconciled; fast: those the bulk write of
\* a batch took; done: those synced; any: has one of them an inferred role?
Op == [kind : {"full", "entity", "batch"}, stage : {"build", "sync", "check", "repair"},
       todo : SUBSET Entities, at : SUBSET Entities, fast : SUBSET Entities,
       done : SUBSET Entities, any : BOOLEAN]

Idle == [kind |-> "idle"]

Begun(kind, stage, todo) ==
    [kind |-> kind, stage |-> stage, todo |-> todo, at |-> {}, fast |-> {}, done |-> {},
     any |-> FALSE]

Busy(stage) == op # Idle /\ op.stage = stage

\* Metadata that tell nothing read as a role of its own.
HintOrUnknown(e) == IF e \in live THEN hint[e] ELSE "unknown"

\* infer_energy_role: from the state and registry entry of this moment.
Hint(e) == IF e \in live THEN hint[e] ELSE None

Init ==
    /\ live \in SUBSET Entities
    /\ hint \in [Entities -> Roles \union {None}]
    /\ node = {}
    /\ role = [s \in Sources |-> [e \in Entities |-> None]]
    /\ bound = {}
    /\ changed = {}
    /\ touched = {}
    /\ op = Begun("full", "build", {})
    /\ unrepaired = FALSE
    /\ missed = {}
    /\ changes = 0 /\ commands = 0 /\ failures = 0

-----------------------------------------------------------------------------
(* Home Assistant. *)

Registered(e) == e \notin StateOnly

\* A state or metadata change, or an entity that comes (back).
Appear(e) ==
    /\ changes < MaxChanges
    /\ live' = live \union {e}
    /\ \E r \in Roles \union {None} : hint' = [hint EXCEPT ![e] = r]
    /\ changed' = changed \union {e}
    /\ touched' = IF Registered(e) /\ e \notin live THEN touched \union {e} ELSE touched
    /\ changes' = changes + 1
    /\ UNCHANGED <<node, roles, op, broken, commands, failures>>

\* Only the registry announces a removal: the debouncer ignores a state that is gone.
Vanish(e) ==
    /\ changes < MaxChanges
    /\ e \in live
    /\ live' = live \ {e}
    /\ touched' = IF Registered(e) THEN touched \union {e} ELSE touched
    /\ changes' = changes + 1
    /\ UNCHANGED <<hint, node, roles, changed, op, broken, commands, failures>>

-----------------------------------------------------------------------------
(* The queries. *)

\* DETACH DELETE of nodes takes their bindings along.
Unbound(gone) == {b \in bound : b[2] \notin gone}

\* An inferred assignment that is only ever added.
ReconciledAddOnly(e) ==
    IF Hint(e) # None /\ e \in node
    THEN /\ role' = [role EXCEPT !["inferred"][e] = Hint(e)]
         /\ bound' = bound \union {<<"inferred", e>>}
    ELSE UNCHANGED roles

\* async_reconcile_energy_role_for_entity: from the metadata of this moment.
Reconciled(e) ==
    IF Hint(e) = None
    THEN /\ role' = [role EXCEPT !["inferred"][e] = None]
         /\ bound' = bound \ {<<"inferred", e>>}
    ELSE IF e \in node
         THEN /\ role' = [role EXCEPT !["inferred"][e] = Hint(e)]
              /\ bound' = bound \union {<<"inferred", e>>}
         ELSE UNCHANGED roles

\* async_repair_energy_role_bindings: all of them, in one query.
AllBindings == {b \in Sources \X node : role[b[1]][b[2]] # None}

-----------------------------------------------------------------------------
(* A batch of debounced changes, and a single-entity sync. *)

BatchBegin ==
    /\ op = Idle
    /\ changed # {}
    \* a bulk write that fails is made up for one by one
    /\ \E fast \in {{e \in changed : e \in live /\ e \in node}, {}} :
           op' = [Begun("batch", "sync", changed) EXCEPT !.fast = fast]
    /\ changed' = {}
    /\ UNCHANGED <<home, node, roles, touched, broken, counters>>

EntityBegin ==
    /\ op = Idle
    /\ \E e \in touched :
           /\ op' = Begun("entity", "sync", {e})
           /\ touched' = touched \ {e}
    /\ UNCHANGED <<home, node, roles, changed, broken, counters>>

\* update_entity: writes or deletes, by what Home Assistant has now.
Write(e) ==
    /\ Busy("sync")
    /\ op.kind # "full"
    /\ op.at = {}
    /\ e \in op.todo
    /\ IF e \in op.fast
       THEN UNCHANGED <<node, bound>>
       ELSE IF e \in live
            THEN node' = node \union {e} /\ UNCHANGED bound
            ELSE node' = node \ {e} /\ bound' = Unbound({e})
    /\ op' = [op EXCEPT !.at = {e}]
    /\ UNCHANGED <<home, role, due, broken, counters>>

\* The stage after the last entity.
AfterSync == IF op.kind = "batch" THEN "check" ELSE "repair"

Reconcile(e) ==
    /\ Busy("sync")
    /\ e \in op.todo
    /\ op.kind = "full" \/ op.at = {e}
    /\ Reconciled(e)
    /\ missed' = missed \ {e}
    /\ op' = [op EXCEPT !.at = {}, !.todo = @ \ {e}, !.done = @ \union {e},
                        !.any = @ \/ Hint(e) # None]
    /\ UNCHANGED <<home, node, due, unrepaired, counters>>

SyncDone ==
    /\ Busy("sync")
    /\ op.todo = {}
    /\ op' = [op EXCEPT !.stage = AfterSync]
    /\ UNCHANGED <<home, node, roles, due, broken, counters>>

\* The batch looks for entities that have gone by now.
Gone == {e \in op.done : e \notin live}

\* A batch that repairs only when something was removed.
NeedsRepairIfGone == Gone # {}

NeedsRepair == op.any \/ Gone # {}

Check ==
    /\ Busy("check")
    /\ op' = IF NeedsRepair THEN [op EXCEPT !.stage = "repair"] ELSE Idle
    /\ UNCHANGED <<home, node, roles, due, broken, counters>>

Repair ==
    /\ Busy("repair")
    /\ bound' = AllBindings
    /\ unrepaired' = FALSE
    /\ op' = Idle
    /\ UNCHANGED <<home, node, role, due, missed, counters>>

-----------------------------------------------------------------------------
(* Resync and rebuild. *)

\* A rebuild clears nodes that came from Home Assistant; assignments stay.
FullBegin ==
    /\ op = Idle
    /\ commands < MaxCommands
    /\ \/ UNCHANGED <<node, bound>>
       \/ node' = {} /\ bound' = {}
    /\ op' = Begun("full", "build", {})
    /\ commands' = commands + 1
    /\ UNCHANGED <<home, role, due, broken, changes, failures>>

\* The build writes the registered entities, the reconciliation takes those
\* that have a state.
Build ==
    /\ Busy("build")
    /\ node' = node \union {e \in live : Registered(e)}
    /\ op' = [op EXCEPT !.stage = "sync", !.todo = live]
    /\ UNCHANGED <<home, roles, due, broken, counters>>

-----------------------------------------------------------------------------
(* A graph call fails.  A batch goes on with the other entities; the failed   *)
(* ones, all of them if the repair fails, are retried one by one.  A full     *)
(* sync that fails is not retried.                                            *)

EntityFails ==
    /\ Busy("sync")
    /\ op.kind # "full"
    /\ failures < MaxFailures
    /\ \E e \in op.todo :
           /\ op.at \in {{}, {e}}
           /\ touched' = touched \union {e}
           /\ op' = IF op.kind = "batch"
                    THEN [op EXCEPT !.todo = @ \ {e}, !.at = {}]
                    ELSE Idle
    /\ failures' = failures + 1
    /\ UNCHANGED <<home, node, roles, changed, broken, changes, commands>>

RepairFails ==
    /\ Busy("repair")
    /\ op.kind # "full"
    /\ failures < MaxFailures
    /\ touched' = touched \union op.done
    /\ op' = Idle
    /\ failures' = failures + 1
    /\ UNCHANGED <<home, node, roles, changed, broken, changes, commands>>

FullFails ==
    /\ op # Idle
    /\ op.kind = "full"
    /\ failures < MaxFailures
    /\ IF op.stage = "build"
       THEN /\ \E written \in SUBSET {e \in live : Registered(e)} : node' = node \union written
            /\ missed' = missed \union live
       ELSE missed' = missed \union op.todo /\ UNCHANGED node
    /\ op' = Idle
    /\ unrepaired' = TRUE
    /\ failures' = failures + 1
    /\ UNCHANGED <<home, roles, due, changes, commands>>

-----------------------------------------------------------------------------
(* The two services.  The entity is resolved in the graph, so there must be a *)
(* node.                                                                      *)

SetRole(e, r) ==
    /\ op = Idle
    /\ commands < MaxCommands
    /\ e \in node
    /\ role' = [role EXCEPT !["user"][e] = r]
    /\ bound' = bound \union {<<"user", e>>}
    /\ commands' = commands + 1
    /\ UNCHANGED <<home, node, due, op, broken, changes, failures>>

DeleteRole(e) ==
    /\ op = Idle
    /\ commands < MaxCommands
    /\ e \in node
    /\ role' = [role EXCEPT !["user"][e] = None]
    /\ bound' = bound \ {<<"user", e>>}
    /\ commands' = commands + 1
    /\ UNCHANGED <<home, node, due, op, broken, changes, failures>>

SyncStep ==
    \/ BatchBegin \/ EntityBegin \/ Build \/ SyncDone \/ Check \/ Repair
    \/ \E e \in Entities : Write(e) \/ Reconcile(e)

Failure == EntityFails \/ RepairFails \/ FullFails

Service(e) == (\E r \in Roles : SetRole(e, r)) \/ DeleteRole(e)

Next ==
    \/ SyncStep \/ Failure \/ FullBegin
    \/ \E e \in Entities : Appear(e) \/ Vanish(e) \/ Service(e)

Spec == Init /\ [][Next]_vars

-----------------------------------------------------------------------------
TypeOK ==
    /\ live \subseteq Entities
    /\ hint \in [Entities -> Roles \union {None}]
    /\ node \subseteq Entities
    /\ role \in [Sources -> [Entities -> Roles \union {None}]]
    /\ bound \subseteq Sources \X Entities
    /\ changed \subseteq Entities
    /\ touched \subseteq Entities
    /\ op \in Op \union {Idle}
    /\ unrepaired \in BOOLEAN
    /\ missed \subseteq Entities
    /\ changes \in 0..MaxChanges
    /\ commands \in 0..MaxCommands
    /\ failures \in 0..MaxFailures

\* No operation is under way and no work for e is left.
Settled(e) == op = Idle /\ e \notin changed \union touched

\* A settled entity never shows its inferred role in place of the user's: a
\* batch that binds an inferred role to a recreated node also binds the
\* user's again.
UserRoleTakesPrecedence ==
    \A e \in Entities :
        Settled(e) /\ ~unrepaired /\ <<"inferred", e>> \in bound /\ role["user"][e] # None =>
            <<"user", e>> \in bound

\* The inferred role of a settled entity that has a node is the one its
\* metadata suggests, though it is read between graph calls while Home
\* Assistant goes on.
InferredRoleIsCurrent ==
    \A e \in live \intersect node :
        Settled(e) /\ e \notin missed => role["inferred"][e] = hint[e]

\* What the graph says of the role of an entity is what the user, or else its
\* metadata, says of it.
RolesAreRight == TypeOK /\ UserRoleTakesPrecedence /\ InferredRoleIsCurrent
=============================================================================
