----------------------------- MODULE MeshHealth -----------------------------
(***************************************************************************)
(* What is asked of the mesh snapshots that MeshScan writes: the links     *)
(* with the walls between their ends, and the health of the mesh, which    *)
(* takes three queries of its own and then asks for the links.  Readers do *)
(* not take the lock: a scan, its clean-up or a rebuild runs beside them.  *)
(* The floor plan does not change meanwhile; what it makes of a link is a  *)
(* constant here, and MeshGeometry computes it.                            *)
(***************************************************************************)
EXTENDS MeshScan, FiniteSetsExt

CONSTANTS Stations,     \* names of the devices of the mesh
          Coordinator,  \* one of them
          From, To,     \* of each link
          Lqi,          \* its quality; 0 is "not measured", NoValue is no number
          Relationship, \* 0 parent, 1 child, 2 sibling, ..., NoValue
          Loss,         \* by the floor plan: "light", "heavy", "slab", "unknown"
          WeakLqi,      \* weak_lqi
          WallLimits,   \* limits for the links; MAX_QUERY_LIMIT for the health
          MaxLimit

NoValue == -1

\* Those a clean-up takes are those that do not belong to the tree
\* (_TREE_RELATIONSHIPS), which a question may leave out as well.
ASSUME HealthAssumption ==
    /\ From \in [Links -> Stations] /\ To \in [Links -> Stations] /\ Coordinator \in Stations
    /\ Siblings = {l \in Links : Relationship[l] \notin {NoValue, 0, 1}}
    /\ Lqi \in [Links -> Nat \cup {NoValue}] /\ Relationship \in [Links -> Nat \cup {NoValue}]
    /\ Loss \in [Links -> {"light", "heavy", "slab", "unknown"}]
    /\ WeakLqi \in Nat /\ WallLimits \subseteq Nat \ {0} /\ MaxLimit \in Nat \ {0}

VARIABLES tool,      \* none, health, walls
          asking,    \* the next query
          maxLqi, withSiblings, limit, \* of the question about links
          named,     \* the snapshot the health is of; 0 is none
          used,      \* the snapshot its links are of
          parents,   \* [device, children, unmeasured]
          weak,      \* weak devices
          heard,     \* links to the coordinator, and how many are weak
          listed,    \* links
          truncated,
          calm,      \* history: has the graph not changed since?
          scanned    \* history: what Zigbee2MQTT had told of the snapshot used

askVars == <<tool, asking, maxLqi, withSiblings, limit, named, used, parents, weak, heard, listed, truncated>>
healthVars == <<vars, askVars, calm, scanned>>

-----------------------------------------------------------------------------

\* The newest snapshot, whether or not its links are written.
Latest == IF snapshots = {} THEN 0 ELSE Max(snapshots)

LinksOf(s) == IF s = 0 THEN {} ELSE links[s]

ParentsIn(L) ==
    LET Children(p) == {l \in L : Relationship[l] = 0 /\ From[l] = p}
    IN {[device |-> p, children |-> Cardinality(Children(p)),
         unmeasured |-> Cardinality({l \in Children(p) : Lqi[l] \in {0, NoValue}})] :
           p \in {From[l] : l \in {l \in L : Relationship[l] = 0}}}

\* Seeded fault: only the links that start at a device are its own.
WeakFrom(L) ==
    LET Measured(d) == {Lqi[l] : l \in {l \in L : d = From[l] /\ Lqi[l] > 0}}
    IN {d \in Stations : Measured(d) # {} /\ Max(Measured(d)) <= WeakLqi}

\* Devices none of whose measured links, in either direction, is better.
WeakIn(L) ==
    LET Measured(d) == {Lqi[l] : l \in {l \in L : d \in {From[l], To[l]} /\ Lqi[l] > 0}}
    IN {d \in Stations : Measured(d) # {} /\ Max(Measured(d)) <= WeakLqi}

HeardIn(L) ==
    LET ends == {l \in L : To[l] = Coordinator /\ Lqi[l] > 0}
    IN [links |-> Cardinality(ends), weak |-> Cardinality({l \in ends : Lqi[l] <= WeakLqi})]

\* Seeded fault: a link without a relationship is no link of the tree.
ShownIfTree(l) == Lqi[l] \in 0..maxLqi /\ (withSiblings \/ Relationship[l] \in {0, 1})

\* Links with a quality; siblings only if they are asked for.
Shown(l) == Lqi[l] \in 0..maxLqi /\ (withSiblings \/ Relationship[l] \in {NoValue, 0, 1})

\* Weakest first, and so the unmeasured before all others.
Weakest(L, n) ==
    IF Cardinality(L) <= n THEN {L}
    ELSE {K \in kSubset(n, L) : \A k \in K, l \in L \ K : Lqi[k] <= Lqi[l]}

-----------------------------------------------------------------------------

NothingKnown ==
    /\ parents = {} /\ weak = {} /\ heard = [links |-> 0, weak |-> 0]
    /\ listed = {} /\ truncated = FALSE

HealthInit ==
    /\ Init
    /\ tool = "none" /\ asking = "nothing"
    /\ maxLqi = 0 /\ withSiblings = FALSE /\ limit = MaxLimit
    /\ named = 0 /\ used = 0
    /\ NothingKnown
    /\ calm = TRUE
    /\ scanned = Incomplete

Ask(t, lqi, siblings, n) ==
    /\ tool = "none"
    /\ tool' = t
    /\ maxLqi' = lqi /\ withSiblings' = siblings /\ limit' = n

AskHealth ==
    /\ Ask("health", WeakLqi, TRUE, MaxLimit)
    /\ named' = Latest
    /\ asking' = IF Latest = 0 THEN "answered" ELSE "parents"
    /\ UNCHANGED <<vars, used, parents, weak, heard, listed, truncated, calm, scanned>>

AskWalls ==
    /\ \E lqi \in {WeakLqi, 255}, siblings \in BOOLEAN, n \in WallLimits : Ask("walls", lqi, siblings, n)
    /\ asking' = "snapshot"
    /\ UNCHANGED <<vars, named, used, parents, weak, heard, listed, truncated, calm, scanned>>

ListParents ==
    /\ asking = "parents"
    /\ parents' = ParentsIn(LinksOf(named))
    /\ asking' = "weak"
    /\ UNCHANGED <<vars, tool, maxLqi, withSiblings, limit, named, used, weak, heard, listed, truncated, calm, scanned>>

ListWeak ==
    /\ asking = "weak"
    /\ weak' = WeakIn(LinksOf(named))
    /\ asking' = "coordinator"
    /\ UNCHANGED <<vars, tool, maxLqi, withSiblings, limit, named, used, parents, heard, listed, truncated, calm, scanned>>

ListCoordinator ==
    /\ asking = "coordinator"
    /\ heard' = HeardIn(LinksOf(named))
    /\ asking' = "snapshot"
    /\ UNCHANGED <<vars, tool, maxLqi, withSiblings, limit, named, used, parents, weak, listed, truncated, calm, scanned>>

\* mesh_link_walls looks for the newest snapshot itself, for the health too.
FindSnapshot ==
    /\ asking = "snapshot"
    /\ used' = Latest
    /\ named' = IF tool = "walls" THEN Latest ELSE named
    /\ scanned' = IF Latest = 0 THEN Incomplete ELSE carried[Latest]
    /\ asking' = IF Latest = 0 THEN "answered" ELSE "links"
    /\ UNCHANGED <<vars, tool, maxLqi, withSiblings, limit, parents, weak, heard, listed, truncated, calm>>

ListLinks ==
    /\ asking = "links"
    /\ LET all == {l \in LinksOf(used) : Shown(l)} IN
          /\ listed' \in Weakest(all, limit)
          /\ truncated' = (Cardinality(all) > limit)
    /\ asking' = "answered"
    /\ UNCHANGED <<vars, tool, maxLqi, withSiblings, limit, named, used, parents, weak, heard, calm, scanned>>

Query == \/ AskHealth \/ AskWalls \/ ListParents \/ ListWeak
        \/ ListCoordinator \/ FindSnapshot \/ ListLinks

\* Until the answer is there.
Meanwhile ==
    /\ asking # "answered"
    /\ Next
    /\ calm' = (calm /\ (tool = "none" \/ graphVars' = graphVars))
    /\ UNCHANGED <<askVars, scanned>>

HealthNext == Query \/ Meanwhile

HealthSpec == HealthInit /\ [][HealthNext]_healthVars

-----------------------------------------------------------------------------
(* The answer *)

Suspects == {p.device : p \in {p \in parents : p.children = p.unmeasured}}

WeakLinks == {l \in listed : Lqi[l] > 0}

CrossFloor == {l \in WeakLinks : Loss[l] = "slab"}

Unexplained == {l \in WeakLinks : Loss[l] = "light"}

Answered(t) == tool = t /\ asking = "answered"

\* The links are of a snapshot that was written completely.  A scan of the
\* same second writes into the same snapshot, and may fail.
OfCompleteScan ==
    /\ used # 0 /\ scanned # Incomplete /\ carried[used] = scanned
    /\ links[used] \subseteq scanned

\* A health check that no write came between tells of the scan as Zigbee2MQTT
\* answered it: routers whose every child is unmeasured, devices without one
\* good link, and measured weak links that the floor plan does not explain,
\* siblings included, unless there are more than fit (mesh_health).
HealthIsOfTheScan ==
    Answered("health") /\ calm /\ OfCompleteScan /\ ~truncated =>
        LET ChildrenOf(d) == {l \in scanned : From[l] = d /\ Relationship[l] = 0}
            MeasuredOf(d) == {l \in scanned : Lqi[l] > 0 /\ d \in {From[l], To[l]}}
        IN /\ Suspects = {d \in Stations : ChildrenOf(d) # {} /\ \A l \in ChildrenOf(d) : Lqi[l] <= 0}
           /\ weak = {d \in Stations : MeasuredOf(d) # {} /\ \A l \in MeasuredOf(d) : Lqi[l] <= WeakLqi}
           /\ CrossFloor \cup Unexplained =
                 {l \in scanned : Lqi[l] \in 1..WeakLqi /\ Loss[l] \in {"light", "slab"}}

\* The links that are shown unless siblings are asked for are those that the
\* history keeps: an answer from a complete snapshot has them all, although a
\* scan that ends meanwhile makes it an older one and thins it out.
TreeSurvivesThinning ==
    Answered("walls") /\ OfCompleteScan /\ ~withSiblings /\ ~truncated =>
        listed = {l \in scanned \ Siblings : Lqi[l] \in 0..maxLqi}

\* What is said of the mesh is what the scan found, whatever runs beside it.
MeshAnswersAreOfTheScan == TypeOK /\ HealthIsOfTheScan /\ TreeSurvivesThinning
=============================================================================
