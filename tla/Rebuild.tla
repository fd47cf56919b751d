------------------------------ MODULE Rebuild ------------------------------
(***************************************************************************)
(* Full synchronization and who owns what in the graph: rebuild (export    *)
(* the user's overrides, clear, build, classify, import them back), resync *)
(* (build and classify in place), semantic refresh, and the single-entity  *)
(* writes that create or delete an Entity node.  Operations are serialized *)
(* (OpLock), so one runs at a time; each graph call of it may fail after   *)
(* its retries with part of its writes done, and the process may stop      *)
(* between any two calls.  The exported overrides live only in memory.     *)
(***************************************************************************)
EXTENDS Naturals, FiniteSets

CONSTANTS Entities,
          Types,          \* semantic type labels
          Matches,        \* entity/type pairs the classification rules match
          AutoClassify,   \* option: classify as part of a full sync
          MaxFailures     \* bound: failures and restarts

Pairs == Entities \X Types

ASSUME RebuildAssumption ==
    /\ Matches \subseteq Pairs
    /\ AutoClassify \in BOOLEAN
    /\ MaxFailures \in Nat

VARIABLES
    known,        \* entity registry; the other entities are, and stay, state-only
    nodes,        \* Entity nodes in the graph
    typeSource,   \* `source` of each SemanticType node, "none" if there is none
    overrides,    \* OVERRIDE_OF relationships, source = "user"
    classified,   \* CLASSIFIED_AS relationships, source = "inferred"
    wanted,       \* history: overrides the user made and has not removed
    kind,         \* operation that holds the lock, or "none"
    phase,        \* its next graph call
    payload,      \* the exported overrides, in memory
    healthy,      \* the last full sync was recorded as a success
    interrupted,  \* history: a rebuild ended between its clear and its import
    failures      \* failures and restarts so far (bound)

haVars    == <<known, wanted>>
graphVars == <<nodes, typeSource, overrides, classified>>
opVars    == <<kind, phase, payload, healthy, interrupted>>
vars      == <<haVars, graphVars, opVars, failures>>

Kinds == {"none", "rebuild", "resync", "refresh"}

Phases == {"idle", "export", "clear", "build", "classify", "import", "finish"}

Init ==
    /\ known \in SUBSET Entities
    /\ nodes = {}
    /\ typeSource = [t \in Types |-> "none"]
    /\ overrides = {}
    /\ classified = {}
    /\ wanted = {}
    /\ kind = "none"
    /\ phase = "idle"
    /\ payload = {}
    /\ healthy = FALSE
    /\ interrupted = FALSE
    /\ failures = 0

Idle == phase = "idle"

Begin(k, p) ==
    /\ Idle
    /\ kind' = k
    /\ phase' = p
    /\ payload' = {}
    /\ UNCHANGED <<haVars, graphVars, healthy, interrupted, failures>>

StartRebuild == Begin("rebuild", "export")

StartResync == Begin("resync", "build")

StartRefresh == Begin("refresh", "classify")

-----------------------------------------------------------------------------
(* Calls and their failures *)

Goto(p) ==
    /\ phase' = p
    /\ UNCHANGED <<kind, payload, healthy, interrupted, failures>>

\* The payload still holds overrides the graph has not got back.
AtRisk == kind = "rebuild" /\ phase \in {"build", "classify", "import"}

\* The exception ends the operation: the payload goes with the stack frame.
GiveUp(risk) ==
    /\ failures < MaxFailures
    /\ failures' = failures + 1
    /\ kind' = "none"
    /\ phase' = "idle"
    /\ payload' = {}
    /\ healthy' = (healthy /\ kind = "refresh")
    /\ interrupted' = (interrupted \/ risk)

Abort == GiveUp(AtRisk)

\* async_export_overrides
Export ==
    /\ phase = "export"
    /\ payload' = overrides
    /\ phase' = "clear"
    /\ UNCHANGED <<haVars, graphVars, kind, healthy, interrupted, failures>>

\* clear_generated_graph: one DETACH DELETE of every node the integration owns,
\* and with it of every relationship those nodes end.  Its answer may be lost
\* after the server committed.
Clear ==
    /\ phase = "clear"
    /\ nodes' = {}
    /\ typeSource' = [t \in Types |-> IF typeSource[t] = "generated" THEN "none"
                                      ELSE typeSource[t]]
    /\ overrides' = {}
    /\ classified' = {}
    /\ Goto("build") \/ GiveUp(TRUE)
    /\ UNCHANGED haVars

\* build_full_graph merges the registered entities in chunks.
Built(S) == nodes' = nodes \cup S /\ UNCHANGED <<haVars, typeSource, overrides, classified>>

AfterBuild == IF AutoClassify THEN "classify"
              ELSE IF kind = "rebuild" THEN "import" ELSE "finish"

Build ==
    /\ phase = "build"
    /\ \/ Built(known) /\ Goto(AfterBuild)
       \/ \E S \in SUBSET known : Built(S) /\ Abort

\* _classify_entity over the registry: a pair with a user override in the graph
\* is skipped; the others get their SemanticType node and CLASSIFIED_AS edge.
\* Merging the type node writes its source again, whoever created it.
Classified(S) ==
    LET done == {p \in S : p \in Matches /\ p[1] \in known /\ p \notin overrides}
    IN  /\ classified' = classified \cup {p \in done : p[1] \in nodes}
        /\ typeSource' = [t \in Types |-> IF \E p \in done : p[2] = t THEN "generated"
                                          ELSE typeSource[t]]
        /\ UNCHANGED <<haVars, nodes, overrides>>

Classify ==
    /\ phase = "classify"
    /\ \/ Classified(Pairs) /\ Goto(IF kind = "rebuild" THEN "import" ELSE "finish")
       \/ \E S \in SUBSET Matches : Classified(S) /\ Abort

\* async_create_override for each exported entry: the relationship needs its
\* Entity node, a missing one is skipped without an error.
Imported(S) ==
    /\ typeSource' = [t \in Types |-> IF \E p \in S : p[2] = t THEN "user" ELSE typeSource[t]]
    /\ overrides' = overrides \cup {p \in S : p[1] \in nodes}
    /\ UNCHANGED <<haVars, nodes, classified>>

\* Seeded fault: overrides whose type is already classified are not restored.
ImportUnclassified ==
    /\ phase = "import"
    /\ Imported(payload \ classified)
    /\ Goto("finish")

Import ==
    /\ phase = "import"
    /\ \/ Imported(payload) /\ Goto("finish")
       \/ \E S \in SUBSET payload : Imported(S) /\ Abort

\* Energy roles (see EnergyRoles), schema version and counts; then success.
Finish ==
    /\ phase = "finish"
    /\ UNCHANGED <<haVars, graphVars>>
    /\ \/ /\ kind' = "none"
          /\ phase' = "idle"
          /\ payload' = {}
          /\ healthy' = (healthy \/ kind \in {"rebuild", "resync"})
          /\ UNCHANGED <<interrupted, failures>>
       \/ Abort

\* A call fails before it wrote anything, or Home Assistant stops.  The next
\* setup starts with a resync.
CallFails ==
    /\ phase \in {"export", "clear"}
    /\ Abort
    /\ UNCHANGED <<haVars, graphVars>>

Stop ==
    /\ ~ Idle
    /\ Abort
    /\ UNCHANGED <<haVars, graphVars>>

-----------------------------------------------------------------------------
(* Single-entity operations and the user, all between full syncs *)

\* update_entity for an entity that has a state or a registry entry.
EntityAppears(e) ==
    /\ Idle
    /\ nodes' = nodes \cup {e}
    /\ UNCHANGED <<haVars, typeSource, overrides, classified, opVars, failures>>

\* The entity leaves Home Assistant and update_entity deletes its node; the
\* user's overrides of it go with the entity they were about.
EntityRemoved(e) ==
    /\ Idle
    /\ known' = known \ {e}
    /\ nodes' = nodes \ {e}
    /\ overrides' = {p \in overrides : p[1] # e}
    /\ classified' = {p \in classified : p[1] # e}
    /\ wanted' = {p \in wanted : p[1] # e}
    /\ UNCHANGED <<typeSource, opVars, failures>>

\* async_create_override through async_import_overrides.
UserOverrides(p) ==
    /\ Idle
    /\ p[1] \in nodes
    /\ typeSource' = [typeSource EXCEPT ![p[2]] = "user"]
    /\ overrides' = overrides \cup {p}
    /\ wanted' = wanted \cup {p}
    /\ UNCHANGED <<known, nodes, classified, opVars, failures>>

\* async_delete_override
UserWithdraws(p) ==
    /\ Idle
    /\ p \in overrides
    /\ overrides' = overrides \ {p}
    /\ wanted' = wanted \ {p}
    /\ UNCHANGED <<known, nodes, typeSource, classified, opVars, failures>>

Next ==
    \/ StartRebuild
    \/ StartResync
    \/ StartRefresh
    \/ Export
    \/ Clear
    \/ Build
    \/ Classify
    \/ Import
    \/ Finish
    \/ CallFails
    \/ Stop
    \/ \E e \in Entities : EntityAppears(e) \/ EntityRemoved(e)
    \/ \E p \in Pairs : UserOverrides(p) \/ UserWithdraws(p)

Spec == Init /\ [][Next]_vars

-----------------------------------------------------------------------------
TypeOK ==
    /\ known \subseteq Entities
    /\ nodes \subseteq Entities
    /\ typeSource \in [Types -> {"none", "user", "generated"}]
    /\ overrides \subseteq Pairs
    /\ classified \subseteq Pairs
    /\ wanted \subseteq Pairs
    /\ kind \in Kinds
    /\ phase \in Phases
    /\ payload \subseteq Pairs
    /\ healthy \in BOOLEAN
    /\ interrupted \in BOOLEAN
    /\ failures \in 0..MaxFailures

\* FR-025, FR-009 as far as the code goes: between operations every override of
\* a registered entity is in the graph, through any sequence of rebuilds,
\* resyncs and refreshes none of which was cut off between clear and import.
OverridesKept ==
    Idle /\ ~ interrupted => \A p \in wanted : p[1] \in known => p \in overrides

\* While a rebuild runs, no override is both out of the graph and out of the
\* payload that will restore it.
PayloadCoversOverrides ==
    kind = "rebuild" /\ phase # "export" /\ ~ interrupted
        => \A p \in wanted : p[1] \in known => p \in overrides \cup payload

\* A full sync recorded as a success left a node for every registered entity.
SuccessIsComplete == Idle /\ healthy => known \subseteq nodes

\* Nothing in the graph hangs in the air: overrides and classifications end in
\* an Entity node and a SemanticType node that exist.
EdgesHaveEnds ==
    \A p \in overrides \cup classified : p[1] \in nodes /\ typeSource[p[2]] # "none"

\* 002 spec.md FR-009: preserving user-managed relationships "is unconditional
\* (always-on) behavior of ontology.rebuild".
OverridesAlwaysKept == Idle => \A p \in wanted : p[1] \in known => p \in overrides
=============================================================================
