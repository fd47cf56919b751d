--------------------------- MODULE MCGraphReaders ---------------------------
(***************************************************************************)
(* What is read of the graph: the slices of the panel, and the impact of a *)
(* change.  They do not take notice of each other, so a behaviour is one   *)
(* of them alone, which `part` says, and the other stands still.           *)
(***************************************************************************)
EXTENDS GraphSlice, ImpactAnalysis

VARIABLE part

readerVars == <<part, sliceVars, analysisVars>>

-----------------------------------------------------------------------------
(* Slices: two areas, and an entity whose domain, integration and semantic *)
(* type are in the graph, the first two under one name.                    *)

Hall    == [label |-> "Area", haId |-> "hall"]
Kitchen == [label |-> "Area", haId |-> "kitchen"]
Domain  == [label |-> "Domain", haId |-> "sun"]
Light   == [label |-> "SemanticType", haId |-> "light"]
Plug    == [label |-> "Integration", haId |-> "sun"]
Sun     == [label |-> "Entity", haId |-> "sun.sun"]

MCNodes == {Hall, Kitchen, Light, Plug, Domain, Sun}

MCOrders == {<<Hall, Kitchen, Light, Plug, Domain, Sun>>,
             <<Hall, Kitchen, Light, Domain, Plug, Sun>>}

MCLinks == {[type |-> 1, from |-> Sun, to |-> Light],
            [type |-> 2, from |-> Sun, to |-> Light],
            [type |-> 3, from |-> Sun, to |-> Domain],
            [type |-> 4, from |-> Sun, to |-> Plug],
            [type |-> 5, from |-> Sun, to |-> Kitchen]}

MCTyped == {"Area", "Entity", "SemanticType"}

MCUnknown == <<"Area", "attic">>

MCTerms == {{}, {Domain, Plug, Sun}, MCNodes}

-----------------------------------------------------------------------------
(* Impact: two devices, two entities and three dependents around one area, *)
(* with room for two of each in a list, and another area that one device   *)
(* may have come from: then its two entities are four rows.               *)

Alike == Permutations(Devices) \cup Permutations(Entities) \cup Permutations(Dependents)

OneHasMoved ==
    \A o \in OtherAreas : LET moved == {d \in Devices : <<o, d>> \in links}
                          IN  Cardinality(moved) <= 1 /\ \A d \in moved : <<Area, d>> \in links

NoAnalysis == nodes = AllNodes /\ links = {} /\ scope = "area" /\ named = {Area} /\ AnalysisInit

ReaderInit ==
    \/ part = "slices" /\ SliceInit /\ NoAnalysis
    \/ /\ part = "impact" /\ AnalysisInit /\ OneHasMoved
       /\ SliceInit /\ backend = "direct" /\ order = CHOOSE o \in Orders : TRUE

ReaderNext ==
    /\ \/ part = "slices" /\ SliceNext /\ UNCHANGED analysisVars
       \/ part = "impact" /\ AnalysisNext /\ UNCHANGED sliceVars
    /\ UNCHANGED part

ReaderSpec == ReaderInit /\ [][ReaderNext]_readerVars
=============================================================================
