--------------------------- MODULE ImpactAnalysis ---------------------------
(***************************************************************************)
(* What depends on an entity, a device or an area, as the analysis finds   *)
(* it: one query to resolve the target, then lists and one query of        *)
(* dependents per entity, many of them at once (asyncio.gather), while the *)
(* graph goes on changing under them, for no lock is taken.  Every list is *)
(* cut at a limit, and a cut is to be said in a warning.                   *)
(*                                                                         *)
(* Automations, scripts, scenes, dashboards and semantic types are all     *)
(* Dependents: each is cut and merged as the others are.                   *)
(***************************************************************************)
EXTENDS Integers, FiniteSetsExt

CONSTANTS Area,           \* the area that is asked for, or around the device that is
          OtherAreas,     \* areas a device was in before: it keeps their edges
          Devices, Entities, Dependents,
          Limit,          \* DEFAULT_QUERY_LIMIT
          MaxWrites      \* bound: changes of the graph during an analysis

AllAreas == {Area} \cup OtherAreas

AllNodes == AllAreas \cup Devices \cup Entities \cup Dependents

\* HAS_DEVICE, HAS_ENTITY, HAS_AREA (turned round) and REFERENCES or CONTROLS.
Pairs == ({Area} \X Entities) \cup (AllAreas \X Devices) \cup (Devices \X Entities)
            \cup (Dependents \X Entities)

\* What is assumed of the constants.
ASSUME ImpactAssumption ==
    /\ Limit \in Nat \ {0} /\ MaxWrites \in Nat
    /\ IsFiniteSet(OtherAreas)
    /\ IsFiniteSet(Devices) /\ IsFiniteSet(Entities) /\ IsFiniteSet(Dependents)
    /\ Area \notin Devices \cup Entities /\ Devices \cap Entities = {}

VARIABLES
    nodes, links,   \* the graph
    changes,        \* changes so far (bound)
    scope, named,   \* what is asked: the scope, and the nodes its identifier may mean
    stage,          \* waiting, devices, gather, direct, gatherDirect, answered
    root,           \* the node the target resolved to
    tasks,          \* the queries under way, <<query, node>>
    devices, affected, found, \* collected: devices, entities, dependents
    said,           \* has a warning of a cut been kept?
    answer,         \* none, not_found, error, or the dependents that are reported
    ever, always,   \* history: links seen at some time, and all the time, of the analysis
    cut             \* history: was any list cut?

graphVars == <<nodes, links, changes>>
history   == <<ever, always>>
callVars  == <<scope, named, stage, root, tasks, devices, affected, found, said, answer, cut>>
analysisVars == <<graphVars, callVars, history>>

Scopes == {"entity", "device", "area"}

OfScope(s) == IF s = "entity" THEN Entities ELSE IF s = "device" THEN Devices ELSE {Area}

AnalysisTypeOK ==
    /\ nodes \subseteq AllNodes /\ changes \in 0..MaxWrites
    /\ links \in SUBSET {l \in Pairs : l[1] \in nodes /\ l[2] \in nodes}
    /\ scope \in Scopes /\ named \subseteq OfScope(scope)
    /\ stage \in {"waiting", "devices", "gather", "direct", "gatherDirect", "answered"}
    /\ tasks \subseteq {"resolve", "list", "dependents"} \X AllNodes
    /\ devices \subseteq Devices /\ affected \subseteq Entities /\ found \subseteq Dependents
    /\ said \in BOOLEAN /\ cut \in BOOLEAN
    /\ Cardinality(devices) <= Limit
    /\ answer.outcome \in {"none", "ok", "not_found", "error"}
    /\ answer.dependents \subseteq Dependents /\ Cardinality(answer.dependents) <= Limit

NoAnswer == [outcome |-> "none", dependents |-> {}]

AnalysisInit ==
    /\ nodes \in {N \in SUBSET AllNodes : AllNodes \ (Devices \cup {Area}) \subseteq N}
    /\ links \in {L \in SUBSET Pairs : \A l \in L : l[1] \in nodes /\ l[2] \in nodes}
    /\ \A e \in Entities : Cardinality({d \in Devices : <<d, e>> \in links}) <= 1
    /\ changes = 0
    /\ scope \in Scopes
    /\ named \in (SUBSET OfScope(scope)) \ {{}}
    /\ stage = "waiting"
    /\ root = Area
    /\ tasks = {}
    /\ devices = {} /\ affected = {} /\ found = {}
    /\ said = FALSE
    /\ answer = NoAnswer
    /\ ever = links /\ always = links
    /\ cut = FALSE

-----------------------------------------------------------------------------

\* Seeded fault: the query is not tied to the node it was made for.
UnderAny(x, kind) == {y \in kind : \E z \in OfScope("device") \cup {x} : <<z, y>> \in links}

\* What a query finds below or above a node.
Under(x, kind) == {y \in kind : <<x, y>> \in links}

\* _analyze_device asks for its entities with OPTIONAL MATCH of its areas: a row for
\* each entity and each area the device has an edge from.
DeviceRows(d) ==
    LET places == {a \in AllAreas : <<a, d>> \in links}
    IN  Under(d, Entities) \X (IF places = {} THEN {"none"} ELSE places)

Using(e) == {d \in Dependents : <<d, e>> \in links}

\* At most Limit of what was found, whichever come first.
Kept(S) == IF Cardinality(S) <= Limit THEN {S} ELSE kSubset(Limit, S)

TooMany(S) == Cardinality(S) > Limit

\* _resolve_node: one node that the identifier names, or none.
Resolve ==
    /\ stage = "waiting"
    /\ \/ /\ named \cap nodes = {}
          /\ stage' = "answered"
          /\ answer' = [NoAnswer EXCEPT !.outcome = "not_found"]
          /\ UNCHANGED <<root, tasks>>
       \/ \E n \in named \cap nodes :
             /\ root' = n
             /\ stage' = IF scope = "area" THEN "devices" ELSE "gather"
             /\ tasks' = CASE scope = "entity" -> {<<"dependents", n>>}
                           [] scope = "device" -> {<<"list", n>>}
                           [] OTHER -> {}
             /\ UNCHANGED answer
    /\ UNCHANGED <<graphVars, history, scope, named, devices, affected, found, said, cut>>

\* _analyze_area: its devices, each to be analysed as if it were asked for.
ListDevices ==
    /\ stage = "devices"
    /\ LET rows == Under(root, Devices)
       IN /\ devices' \in Kept(rows)
          /\ tasks' = {"resolve"} \X devices'
          /\ said' = TooMany(rows)
          /\ cut' = TooMany(rows)
    /\ stage' = "gather"
    /\ UNCHANGED <<graphVars, history, scope, named, root, affected, found, answer>>

\* _analyze_device within an area: the device may be gone by now.
ResolveDevice(d) ==
    /\ <<"resolve", d>> \in tasks
    /\ tasks' = (tasks \ {<<"resolve", d>>}) \cup (IF d \in nodes THEN {<<"list", d>>} ELSE {})
    /\ UNCHANGED <<graphVars, history, scope, named, stage, root, devices, affected, found,
                   said, answer, cut>>

\* The entities of a device, as many rows as the limit has room for; the warning of
\* an inner analysis is dropped.
ListEntities(d) ==
    /\ <<"list", d>> \in tasks
    /\ \E kept \in Kept(DeviceRows(d)) :
          LET listed == {row[1] : row \in kept}
          IN  /\ affected' = affected \cup listed
              /\ tasks' = (tasks \ {<<"list", d>>}) \cup ({"dependents"} \X listed)
    /\ said' = (said \/ (TooMany(DeviceRows(d)) /\ scope = "device"))
    /\ cut' = (cut \/ TooMany(DeviceRows(d)))
    /\ UNCHANGED <<graphVars, history, scope, named, stage, root, devices, found, answer>>

\* _entity_dependencies.  An entity that was listed in several rows is asked for in
\* each: its query may be made again.
ListDependents(e) ==
    /\ <<"dependents", e>> \in tasks
    /\ \E kept \in Kept(Using(e)) : found' = found \cup kept
    /\ \/ tasks' = tasks \ {<<"dependents", e>>}
       \/ stage = "gather" /\ scope # "entity" /\ tasks' = tasks
    /\ said' = (said \/ (TooMany(Using(e)) /\ (scope # "area" \/ stage = "gatherDirect")))
    /\ cut' = (cut \/ TooMany(Using(e)))
    /\ UNCHANGED <<graphVars, history, scope, named, stage, root, devices, affected, answer>>

\* Seeded fault: the entities of the area itself are taken for those of its
\* devices, and not asked for.
SkipDirect ==
    /\ stage = "gather" /\ tasks = {} /\ scope = "area"
    /\ stage' = "gatherDirect"
    /\ UNCHANGED <<graphVars, history, scope, named, root, tasks, devices, affected, found,
                   said, answer, cut>>

\* The entities of the area itself, once its devices are done.
ListDirect ==
    /\ stage = "gather" /\ tasks = {} /\ scope = "area"
    /\ LET rows == Under(root, Entities)
       IN /\ \E kept \in Kept(rows) :
                affected' = affected \cup kept /\ tasks' = {"dependents"} \X kept
          /\ said' = (said \/ TooMany(rows))
          /\ cut' = (cut \/ TooMany(rows))
    /\ stage' = "gatherDirect"
    /\ UNCHANGED <<graphVars, history, scope, named, root, devices, found, answer>>

\* Seeded fault: each list is cut, and the list they are merged into is not.
ReplyAll ==
    /\ tasks = {}
    /\ stage = (IF scope = "area" THEN "gatherDirect" ELSE "gather")
    /\ answer' = [outcome |-> "ok", dependents |-> found]
    /\ cut' = cut
    /\ stage' = "answered"
    /\ UNCHANGED <<graphVars, history, scope, named, root, tasks, devices, affected, found, said>>

\* _merge_dependencies and the answer: the merged lists are cut in silence.
Reply ==
    /\ tasks = {}
    /\ stage = (IF scope = "area" THEN "gatherDirect" ELSE "gather")
    /\ \E kept \in Kept(found) : answer' = [outcome |-> "ok", dependents |-> kept]
    /\ cut' = (cut \/ TooMany(found))
    /\ stage' = "answered"
    /\ UNCHANGED <<graphVars, history, scope, named, root, tasks, devices, affected, found, said>>

\* Any query may fail: gather gives up the others and analyze raises.
AnalysisFails ==
    /\ stage # "answered"
    /\ stage' = "answered"
    /\ answer' = [NoAnswer EXCEPT !.outcome = "error"]
    /\ tasks' = {}
    /\ UNCHANGED <<graphVars, history, scope, named, root, devices, affected, found, said, cut>>

\* Operations of the coordinator write links and nodes meanwhile.
GraphChanges ==
    /\ stage \notin {"waiting", "answered"}
    /\ changes < MaxWrites
    /\ changes' = changes + 1
    /\ \/ \E l \in Pairs :
             /\ l[1] \in nodes /\ l[2] \in nodes
             /\ links' = (IF l \in links THEN links \ {l} ELSE links \cup {l})
             /\ UNCHANGED nodes
       \/ \E n \in nodes :
             /\ nodes' = nodes \ {n}
             /\ links' = {l \in links : l[1] # n /\ l[2] # n}
    /\ ever' = ever \cup links'
    /\ always' = always \cap links'
    /\ UNCHANGED callVars

AnalysisNext ==
    \/ Resolve \/ ListDevices \/ ListDirect \/ Reply \/ AnalysisFails \/ GraphChanges
    \/ \E d \in Devices : ResolveDevice(d) \/ ListEntities(d)
    \/ \E e \in Entities : ListDependents(e)

AnalysisSpec == AnalysisInit /\ [][AnalysisNext]_analysisVars

-----------------------------------------------------------------------------

\* The entities a node stands for, and what depends on them, in a graph.
Reach(L) ==
    CASE scope = "entity" -> {root}
      [] scope = "device" -> {e \in Entities : <<root, e>> \in L}
      [] OTHER -> {e \in Entities : <<root, e>> \in L
                      \/ \E d \in Devices : <<root, d>> \in L /\ <<d, e>> \in L}

Impact(L) == {d \in Dependents : \E e \in Reach(L) : <<d, e>> \in L}

Answered == answer.outcome = "ok"

\* However the queries of an analysis and the changes of the graph interleave,
\* nothing is reported that did not, link by link, depend on the target at
\* some time of the analysis (analyze, all scopes).
NothingInvented ==
    Answered => /\ answer.dependents \subseteq Impact(ever)
                /\ scope # "entity" => affected \subseteq Reach(ever)

\* What depended on the target all the time is reported: all of it, or as
\* much as the limit leaves room for, however its parts were gathered; "no
\* known dependencies" is never said of a target that always had one, unless
\* a list on the way was cut (_merge_dependencies, _warnings_for).
NothingStableMissed ==
    Answered =>
        /\ ~cut => /\ Impact(always) \subseteq answer.dependents
                   /\ Reach(always) \ {root} \subseteq affected
        /\ cut /\ Cardinality(affected) <= Limit /\ Reach(always) \subseteq affected \cup {root}
              => Cardinality(answer.dependents) >= Min({Limit, Cardinality(Impact(always))})

\* An analysis is as exact as it can be beside a graph that changes, and warns of a
\* cut only where the rows of a query were cut.  They are not always as few as what
\* they list: an entity has one for each area its device has an edge from.
ImpactIsExact == AnalysisTypeOK /\ NothingInvented /\ NothingStableMissed /\ (said => cut)
=============================================================================
