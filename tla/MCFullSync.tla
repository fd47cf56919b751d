----------------------------- MODULE MCFullSync -----------------------------
(***************************************************************************)
(* What a full synchronization writes: the overrides and classifications   *)
(* it keeps, the floor plan it copies, and the dashboards.  They are parts *)
(* of the graph of their own, so a behaviour is about one of them, which   *)
(* `part` says, and the others stand still.                                *)
(***************************************************************************)
EXTENDS Rebuild, SpatialSync, DashboardSync

CONSTANTS e1, e2, t1, t2,             \* two entities, two types
          f1, f2, w1, s1, s2, door,   \* two floors, a wall that may have a door, two spots
          b1, b2                      \* two dashboards

VARIABLE part

-----------------------------------------------------------------------------
(* A rule matches one pair of each type. *)

MCEntities == {e1, e2}
MCTypes == {t1, t2}
MCMatches == {<<e1, t1>>, <<e1, t2>>, <<e2, t1>>}

MCFloors == {f1, f2}
MCWalls == {w1}
MCSpots == {s1, s2}
MCOpenings == {door}
MCHome == (e1 :> f1) @@ (e2 :> f2)

\* The second entity is where its device is.
MCByDevice == {e2}

\* A view with one card, with cards and a section of its own, and two views,
\* one of which has sections only.
ViewOf(own, parts) == [cards |-> own, sections |-> parts]

MCConfigs ==
    {<<ViewOf(<<{e1}>>, <<>>)>>,
     <<ViewOf(<<{e2}>>, <<<<{e1}, {e2}>>>>)>>,
     <<ViewOf(<<>>, <<<<{e1}>>, <<{}>>>>), ViewOf(<<{e1, e2}>>, <<>>)>>}

MCDashboards == {b1, b2}

-----------------------------------------------------------------------------
fullVars == <<part, vars, planVars, dashboardVars>>

FullInit ==
    /\ part \in {"overrides", "plan", "dashboards"}
    /\ Init /\ (part # "overrides" => known = {})
    /\ PlanInit /\ (part # "plan" => inGraph = {})
    /\ DashboardsInit
    /\ (part # "dashboards" => present = {} /\ config = [d \in Dashboards |-> Absent])

FullNext ==
    /\ \/ part = "overrides" /\ Next /\ UNCHANGED <<planVars, dashboardVars>>
       \/ part = "plan" /\ PlanNext /\ UNCHANGED <<vars, dashboardVars>>
       \/ part = "dashboards" /\ DashboardsNext /\ UNCHANGED <<vars, planVars>>
    /\ UNCHANGED part

FullSpec == FullInit /\ [][FullNext]_fullVars
=============================================================================
