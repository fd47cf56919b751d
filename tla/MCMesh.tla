------------------------------- MODULE MCMesh -------------------------------
(***************************************************************************)
(* The Zigbee mesh: the scans that put it into the graph, what is answered *)
(* about its health, and what its links have to cross in the floor plan.   *)
(* A behaviour is about one of them, which `part` says, and the others     *)
(* stand still: MeshScan has failures, and MeshHealth scans without them   *)
(* while a question is answered.                                           *)
(***************************************************************************)
EXTENDS MeshHealth, MeshGeometry

CONSTANTS up, down, side, odd, other,  \* links between
          router, lamp, plug, hub      \* the stations of a mesh

VARIABLE part

-----------------------------------------------------------------------------
(* A router with a measured and an unmeasured child, links of two kinds that *)
(* are not of the tree, and one of a kind nobody knows.                      *)

MCLinks == {up, down, side, odd, other}
MCSiblings == {side, other}
MCStations == {router, lamp, plug, hub}

Per(a, b, c, d, e) ==
    [l \in MCLinks |->
        CASE l = up -> a [] l = down -> b [] l = side -> c [] l = odd -> d [] l = other -> e]

MCFrom == Per(router, router, lamp, plug, plug)
MCTo == Per(lamp, plug, plug, hub, router)
MCLqi == Per(30, 0, 20, 90, 50)
MCRelationship == Per(0, 0, 2, NoValue, 3)
MCLoss == Per("light", "heavy", "slab", "unknown", "light")
MCWallLimits == {2}

\* Scans that may fail find two links a clean-up takes; while a question is
\* asked nothing fails, and a scan finds all but one of four links at least.
Scanning == answers' \subseteq SUBSET {up, side, other}

Asking ==
    /\ \A S \in answers' : S \subseteq {up, down, side, odd} /\ Cardinality(S) >= 3
    /\ scans' <= 2 /\ failures' = 0

-----------------------------------------------------------------------------
(* Every path on a grid of nine points, and every wall of two parts on it,   *)
(* with a door somewhere.                                                    *)

Grid == (0..2) \X (0..2)

Door(x, w) == <<[at |-> x, width |-> w, kind |-> "door"]>>
Others == <<[at |-> <<1, 1>>, width |-> 1, kind |-> "passage"],
            [at |-> <<1, 1>>, width |-> -1, kind |-> "window"]>>
Wall(pts, os) == [points |-> pts, openings |-> os, attenuation |-> 10]

MCPlans == {{Wall(<<a, b, c>>, os)} : a \in Grid, b \in Grid, c \in {<<0, 1>>, <<2, 1>>, <<1, 2>>},
                os \in {Others, Door(<<1, 1>>, 1)}}
             \cup {{Wall(<<<<0, 1>>, <<2, 1>>>>, <<>>), Wall(<<<<1, 0>>, <<1, 2>>>>, Door(<<1, 1>>, 1))}}

At(f, l) == [floor |-> f, level |-> l]
MCPairs == {<<At("ground", 0), At("ground", 0)>>, <<At("ground", 0), At("loft", 2)>>,
            <<At("ground", 0), At("shed", 0)>>, <<At("ground", 0), At("attic", NoLevel)>>}

-----------------------------------------------------------------------------
meshVars == <<part, healthVars, pathVars>>

\* The question about a path that stands still: nothing is priced yet.
NoPath ==
    /\ near = <<0, 0>> /\ far = <<0, 0>> /\ plan = {} /\ price = Unknown
    /\ levels = <<At("ground", 0), At("ground", 0)>>

MeshInit ==
    /\ part \in {"scan", "health", "paths"}
    /\ HealthInit
    /\ IF part = "paths" THEN PathInit ELSE NoPath

MeshNext ==
    /\ \/ part = "scan" /\ Next /\ Scanning /\ UNCHANGED <<askVars, calm, scanned, pathVars>>
       \/ part = "health" /\ HealthNext /\ Asking /\ UNCHANGED pathVars
       \/ part = "paths" /\ Price /\ UNCHANGED healthVars
    /\ UNCHANGED part

\* The fairness of MeshScan!FairSpec.
MeshSpec == MeshInit /\ [][MeshNext]_meshVars /\ WF_vars(ScanStep)
=============================================================================
