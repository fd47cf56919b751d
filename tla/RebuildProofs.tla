---------------------------- MODULE RebuildProofs ----------------------------
(***************************************************************************)
(* For every set of entities, types and rules, and any number of failures: *)
(* a rebuild that is not cut off between its clear and its import gives    *)
(* the user's overrides back, a recorded success is complete, and no       *)
(* relationship is left without its ends.  And of the floor plan that a    *)
(* full sync copies: for every building and every answer, a copy that      *)
(* counts as a success has what the answer says of it, although writes may *)
(* be lost on the way; the invariant is that this is so, at every moment,  *)
(* of the part that is done.                                               *)
(* And of dashboards of any number, with views, sections and cards of any  *)
(* length: each card that could be written has a place, and so a node, of  *)
(* its own.                                                                *)
(***************************************************************************)
EXTENDS Rebuild, SpatialSync, DashboardSync, FiniteSetTheorems, TLAPS

\* Overrides the graph has to hold: those of registered entities.
Due == {p \in wanted : p[1] \in known}

\* Only a rebuild exports, clears and imports; only it can have the overrides
\* out of the graph.
PhaseFitsKind ==
    /\ Idle <=> kind = "none"
    /\ phase \in {"export", "clear", "import"} => kind = "rebuild"
    /\ phase = "build" => kind \in {"rebuild", "resync"}

\* Outside clear..import the overrides are in the graph, from the export to the
\* import they are in the payload.
DueIsSomewhere ==
    ~ interrupted =>
        /\ ~ AtRisk => Due \subseteq overrides
        /\ kind = "rebuild" /\ phase \in {"clear", "build", "classify", "import"}
               => Due \subseteq payload

\* Once a full sync has built, the registered entities have their nodes.
BuiltIsThere ==
    /\ kind \in {"rebuild", "resync"} /\ phase \in {"classify", "import", "finish"}
           => known \subseteq nodes
    /\ healthy /\ (Idle \/ kind = "refresh") => known \subseteq nodes

IInv ==
    /\ TypeOK
    /\ PhaseFitsKind
    /\ DueIsSomewhere
    /\ BuiltIsThere
    /\ EdgesHaveEnds

USE DEF Idle, Kinds, Phases

-----------------------------------------------------------------------------
\* The members of Pairs are what they look like.
LEMMA PairParts == ASSUME NEW p \in Pairs PROVE p[1] \in Entities /\ p[2] \in Types
  BY DEF Pairs

\* A fresh graph satisfies the invariant.
LEMMA InitIInv == Init => IInv
<1> SUFFICES ASSUME Init PROVE IInv
  OBVIOUS
<1> USE DEF Init
<1>1. TypeOK
  <2>1. failures \in 0..MaxFailures
    BY RebuildAssumption
  <2>2. typeSource \in [Types -> {"none", "user", "generated"}]
    OBVIOUS
  <2> QED
    BY <2>1, <2>2 DEF TypeOK
<1>2. PhaseFitsKind /\ BuiltIsThere
  BY DEF PhaseFitsKind, BuiltIsThere
<1>3. DueIsSomewhere
  BY DEF DueIsSomewhere, AtRisk, Due
<1>4. EdgesHaveEnds
  BY DEF EdgesHaveEnds
<1> QED
  BY <1>1, <1>2, <1>3, <1>4 DEF IInv

\* Starting an operation moves nothing but the operation.
LEMMA BeginKeeps ==
    ASSUME IInv, \/ Begin("rebuild", "export")
                 \/ Begin("resync", "build")
                 \/ Begin("refresh", "classify")
    PROVE  IInv'
<1> USE DEF IInv, Begin, haVars, graphVars
<1>1. TypeOK' /\ PhaseFitsKind'
  BY DEF TypeOK, PhaseFitsKind
<1>2. DueIsSomewhere' /\ BuiltIsThere'
  BY DEF DueIsSomewhere, BuiltIsThere, PhaseFitsKind, AtRisk, Due
<1>3. EdgesHaveEnds'
  BY DEF EdgesHaveEnds
<1> QED
  BY <1>1, <1>2, <1>3

\* What ends an operation keeps what the graph allows.  A failure in the middle
\* of a rebuild is remembered in `interrupted`.
LEMMA AbortKeeps ==
    ASSUME IInv, Abort, ~ Idle, UNCHANGED haVars,
           nodes \subseteq nodes', nodes' \subseteq Entities,
           overrides \subseteq overrides', TypeOK', EdgesHaveEnds'
    PROVE  IInv'
<1> USE DEF IInv, Abort, GiveUp, haVars
<1>1. PhaseFitsKind'
  BY DEF PhaseFitsKind
<1>2. DueIsSomewhere'
  BY DEF DueIsSomewhere, AtRisk, Due
<1>3. BuiltIsThere'
  BY DEF BuiltIsThere, PhaseFitsKind
<1> QED
  BY <1>1, <1>2, <1>3

\* Aborting keeps the types of what it assigns.
LEMMA AbortTyped ==
    ASSUME IInv, Abort
    PROVE  /\ kind' \in Kinds /\ phase' \in Phases /\ payload' \subseteq Pairs
           /\ healthy' \in BOOLEAN /\ interrupted' \in BOOLEAN
           /\ failures' \in 0..MaxFailures
  BY RebuildAssumption DEF IInv, TypeOK, Abort, GiveUp, AtRisk

\* The export reads the overrides into the payload.
LEMMA ExportKeeps == ASSUME IInv, Export PROVE IInv'
<1> USE DEF IInv, Export, haVars, graphVars
<1>1. TypeOK' /\ PhaseFitsKind'
  BY DEF TypeOK, PhaseFitsKind
<1>2. DueIsSomewhere' /\ BuiltIsThere'
  BY DEF DueIsSomewhere, BuiltIsThere, PhaseFitsKind, AtRisk, Due
<1>3. EdgesHaveEnds'
  BY DEF EdgesHaveEnds
<1> QED
  BY <1>1, <1>2, <1>3

\* The clear leaves the overrides to the payload; when its answer is lost they
\* are gone, and `interrupted` says so.
LEMMA ClearKeeps == ASSUME IInv, Clear PROVE IInv'
<1> USE DEF IInv, haVars
<1>1. /\ nodes' = {} /\ overrides' = {} /\ classified' = {} /\ UNCHANGED <<known, wanted>>
      /\ typeSource' \in [Types -> {"none", "user", "generated"}]
  BY DEF Clear, TypeOK
<1>2. EdgesHaveEnds'
  BY <1>1 DEF EdgesHaveEnds
<1>3. CASE Goto("build")
  <2>1. TypeOK'
    BY <1>1, <1>3 DEF Goto, TypeOK
  <2>2. PhaseFitsKind' /\ DueIsSomewhere' /\ BuiltIsThere'
    BY <1>3 DEF Clear, Goto, DueIsSomewhere, BuiltIsThere, PhaseFitsKind, AtRisk, Due
  <2> QED
    BY <1>2, <2>1, <2>2
<1>4. CASE GiveUp(TRUE)
  <2>1. TypeOK'
    <3>1. failures' \in 0..MaxFailures
      BY <1>4, RebuildAssumption DEF GiveUp, TypeOK
    <3> QED
      BY <1>1, <1>4, <3>1 DEF GiveUp, TypeOK
  <2>2. PhaseFitsKind' /\ DueIsSomewhere' /\ BuiltIsThere'
    BY <1>4 DEF Clear, GiveUp, DueIsSomewhere, BuiltIsThere, PhaseFitsKind
  <2> QED
    BY <1>2, <2>1, <2>2
<1> QED
  BY <1>3, <1>4 DEF Clear

\* The build creates every registered entity or aborts.
LEMMA BuildKeeps == ASSUME IInv, Build PROVE IInv'
<1> USE DEF IInv, haVars
<1>1. ASSUME Built(known), Goto(AfterBuild), phase = "build" PROVE IInv'
  <2> USE <1>1 DEF Built, Goto, AfterBuild
  <2>1. TypeOK' /\ PhaseFitsKind'
    BY DEF TypeOK, PhaseFitsKind
  <2>2. DueIsSomewhere' /\ BuiltIsThere'
    BY DEF DueIsSomewhere, BuiltIsThere, PhaseFitsKind, AtRisk, Due
  <2>3. EdgesHaveEnds'
    BY DEF EdgesHaveEnds
  <2> QED
    BY <2>1, <2>2, <2>3
<1>2. ASSUME NEW S \in SUBSET known, Built(S), Abort, phase = "build" PROVE IInv'
  <2>1. TypeOK' /\ nodes \subseteq nodes' /\ nodes' \subseteq Entities
    BY <1>2, AbortTyped DEF TypeOK, Built
  <2>2. EdgesHaveEnds'
    BY <1>2 DEF EdgesHaveEnds, Built
  <2> QED
    BY <1>2, <2>1, <2>2, AbortKeeps DEF Built
<1> QED
  BY <1>1, <1>2 DEF Build

\* What a (partial) classification pass leaves behind.
LEMMA ClassifiedFacts ==
    ASSUME IInv, NEW S \in SUBSET Pairs, Classified(S)
    PROVE  /\ classified' \subseteq Pairs
           /\ typeSource' \in [Types -> {"none", "user", "generated"}]
           /\ EdgesHaveEnds'
           /\ UNCHANGED <<known, wanted, nodes, overrides>>
<1> DEFINE done == {p \in S : p \in Matches /\ p[1] \in known /\ p \notin overrides}
<1> USE DEF IInv, TypeOK
<1>1. /\ classified' = classified \cup {p \in done : p[1] \in nodes}
      /\ typeSource' = [t \in Types |-> IF \E p \in done : p[2] = t THEN "generated"
                                        ELSE typeSource[t]]
      /\ UNCHANGED <<known, wanted, nodes, overrides>>
  BY DEF Classified, haVars
<1>2. done \subseteq Pairs
  OBVIOUS
<1> HIDE DEF done
<1>3. classified' \subseteq Pairs /\ typeSource' \in [Types -> {"none", "user", "generated"}]
  BY <1>1, <1>2
<1>4. ASSUME NEW p \in overrides' \cup classified'
      PROVE  p[1] \in nodes' /\ typeSource'[p[2]] # "none"
  <2>1. p \in Pairs /\ p[2] \in Types
    BY <1>1, <1>3, PairParts
  <2>2. CASE p \in overrides \cup classified
    BY <1>1, <2>1, <2>2 DEF EdgesHaveEnds
  <2>3. CASE p \in done /\ p[1] \in nodes
    BY <1>1, <2>1, <2>3
  <2> QED
    BY <1>1, <2>2, <2>3
<1> QED
  BY <1>1, <1>3, <1>4 DEF EdgesHaveEnds

\* Classification touches neither overrides nor entities.
LEMMA ClassifyKeeps == ASSUME IInv, Classify PROVE IInv'
<1>1. ASSUME Classified(Pairs), Goto(IF kind = "rebuild" THEN "import" ELSE "finish"),
             phase = "classify"
      PROVE  IInv'
  <2>1. /\ classified' \subseteq Pairs
        /\ typeSource' \in [Types -> {"none", "user", "generated"}]
        /\ EdgesHaveEnds'
        /\ UNCHANGED <<known, wanted, nodes, overrides>>
    BY <1>1, ClassifiedFacts
  <2> USE <1>1, <2>1 DEF IInv, Goto
  <2>2. TypeOK' /\ PhaseFitsKind'
    BY DEF TypeOK, PhaseFitsKind
  <2>3. DueIsSomewhere' /\ BuiltIsThere'
    BY DEF DueIsSomewhere, BuiltIsThere, PhaseFitsKind, AtRisk, Due
  <2> QED
    BY <2>2, <2>3
<1>2. ASSUME NEW S \in SUBSET Matches, Classified(S), Abort, phase = "classify" PROVE IInv'
  <2>1. /\ classified' \subseteq Pairs
        /\ typeSource' \in [Types -> {"none", "user", "generated"}]
        /\ EdgesHaveEnds'
        /\ UNCHANGED <<known, wanted, nodes, overrides>>
    BY <1>2, ClassifiedFacts, RebuildAssumption
  <2>2. TypeOK'
    BY <1>2, <2>1, AbortTyped DEF IInv, TypeOK
  <2> QED
    BY <1>2, <2>1, <2>2, AbortKeeps DEF IInv, TypeOK, haVars
<1> QED
  BY <1>1, <1>2 DEF Classify

\* What a (partial) import leaves behind.
LEMMA ImportedFacts ==
    ASSUME IInv, NEW S \in SUBSET Pairs, Imported(S)
    PROVE  /\ overrides' = overrides \cup {p \in S : p[1] \in nodes}
           /\ overrides' \subseteq Pairs
           /\ typeSource' \in [Types -> {"none", "user", "generated"}]
           /\ EdgesHaveEnds'
           /\ UNCHANGED <<known, wanted, nodes, classified>>
<1> USE DEF IInv, TypeOK
<1>1. /\ overrides' = overrides \cup {p \in S : p[1] \in nodes}
      /\ typeSource' = [t \in Types |-> IF \E p \in S : p[2] = t THEN "user" ELSE typeSource[t]]
      /\ UNCHANGED <<known, wanted, nodes, classified>>
  BY DEF Imported, haVars
<1>2. overrides' \subseteq Pairs /\ typeSource' \in [Types -> {"none", "user", "generated"}]
  BY <1>1
<1>3. ASSUME NEW p \in overrides' \cup classified'
      PROVE  p[1] \in nodes' /\ typeSource'[p[2]] # "none"
  <2>1. p \in Pairs /\ p[2] \in Types
    BY <1>1, <1>2, PairParts
  <2>2. CASE p \in overrides \cup classified
    BY <1>1, <2>1, <2>2 DEF EdgesHaveEnds
  <2>3. CASE p \in S /\ p[1] \in nodes
    BY <1>1, <2>1, <2>3
  <2> QED
    BY <1>1, <2>2, <2>3
<1> QED
  BY <1>1, <1>2, <1>3 DEF EdgesHaveEnds

\* The import finds every registered entity and gives its overrides back.
LEMMA ImportKeeps == ASSUME IInv, Import PROVE IInv'
<1>1. ASSUME Imported(payload), Goto("finish"), phase = "import" PROVE IInv'
  <2>1. /\ overrides' = overrides \cup {p \in payload : p[1] \in nodes}
        /\ overrides' \subseteq Pairs
        /\ typeSource' \in [Types -> {"none", "user", "generated"}]
        /\ EdgesHaveEnds'
        /\ UNCHANGED <<known, wanted, nodes, classified>>
    BY <1>1, ImportedFacts DEF IInv, TypeOK
  <2> USE <1>1, <2>1 DEF IInv, Goto
  <2>2. TypeOK' /\ PhaseFitsKind'
    BY DEF TypeOK, PhaseFitsKind
  <2>3. known \subseteq nodes /\ (~ interrupted => Due \subseteq payload)
    BY DEF DueIsSomewhere, BuiltIsThere, PhaseFitsKind
  <2>4. DueIsSomewhere' /\ BuiltIsThere'
    BY <2>3 DEF DueIsSomewhere, BuiltIsThere, PhaseFitsKind, AtRisk, Due
  <2> QED
    BY <2>2, <2>4
<1>2. ASSUME NEW S \in SUBSET payload, Imported(S), Abort, phase = "import" PROVE IInv'
  <2>1. /\ overrides' = overrides \cup {p \in S : p[1] \in nodes}
        /\ overrides' \subseteq Pairs
        /\ typeSource' \in [Types -> {"none", "user", "generated"}]
        /\ EdgesHaveEnds'
        /\ UNCHANGED <<known, wanted, nodes, classified>>
    BY <1>2, ImportedFacts DEF IInv, TypeOK
  <2>2. TypeOK'
    BY <1>2, <2>1, AbortTyped DEF IInv, TypeOK
  <2> QED
    BY <1>2, <2>1, <2>2, AbortKeeps DEF IInv, TypeOK, haVars
<1> QED
  BY <1>1, <1>2 DEF Import

\* An operation that succeeds, fails or is stopped at a call without effects.
LEMMA EndKeeps ==
    ASSUME IInv, Finish \/ CallFails \/ Stop
    PROVE  IInv'
<1> USE DEF IInv
<1>1. ASSUME Abort, ~ Idle, UNCHANGED <<haVars, graphVars>> PROVE IInv'
  <2>1. TypeOK' /\ EdgesHaveEnds'
    BY <1>1, AbortTyped DEF TypeOK, EdgesHaveEnds, haVars, graphVars
  <2> QED
    BY <1>1, <2>1, AbortKeeps DEF TypeOK, haVars, graphVars
<1>2. ASSUME phase = "finish", UNCHANGED <<haVars, graphVars>>, kind' = "none", phase' = "idle",
             payload' = {}, healthy' = (healthy \/ kind \in {"rebuild", "resync"}),
             UNCHANGED <<interrupted, failures>>
      PROVE  IInv'
  <2> USE <1>2 DEF haVars, graphVars
  <2>1. TypeOK' /\ PhaseFitsKind'
    BY DEF TypeOK, PhaseFitsKind
  <2>2. DueIsSomewhere'
    BY DEF DueIsSomewhere, AtRisk, Due
  <2>3. BuiltIsThere'
    BY DEF BuiltIsThere, PhaseFitsKind, TypeOK
  <2>4. EdgesHaveEnds'
    BY DEF EdgesHaveEnds
  <2> QED
    BY <2>1, <2>2, <2>3, <2>4
<1> QED
  BY <1>1, <1>2 DEF Finish, CallFails, Stop

\* Single-entity writes and the user's own changes, between operations.
LEMMA UserKeeps ==
    ASSUME IInv,
           \/ \E e \in Entities : EntityAppears(e) \/ EntityRemoved(e)
           \/ \E p \in Pairs : UserOverrides(p) \/ UserWithdraws(p)
    PROVE  IInv'
<1> USE DEF IInv, haVars, opVars
<1>1. ASSUME NEW e \in Entities, EntityAppears(e) PROVE IInv'
  BY <1>1 DEF EntityAppears, TypeOK, PhaseFitsKind, DueIsSomewhere, BuiltIsThere,
              EdgesHaveEnds, AtRisk, Due
<1>2. ASSUME NEW e \in Entities, EntityRemoved(e) PROVE IInv'
  BY <1>2 DEF EntityRemoved, TypeOK, PhaseFitsKind, DueIsSomewhere, BuiltIsThere,
              EdgesHaveEnds, AtRisk, Due
<1>3. ASSUME NEW p \in Pairs, UserOverrides(p) PROVE IInv'
  <2> USE <1>3 DEF UserOverrides
  <2>1. TypeOK' /\ PhaseFitsKind' /\ DueIsSomewhere' /\ BuiltIsThere'
    BY PairParts DEF TypeOK, PhaseFitsKind, DueIsSomewhere, BuiltIsThere, AtRisk, Due
  <2>2. ASSUME NEW q \in overrides' \cup classified'
        PROVE  q[1] \in nodes' /\ typeSource'[q[2]] # "none"
    <3>1. q \in Pairs /\ q[2] \in Types
      BY PairParts DEF TypeOK
    <3> QED
      BY <3>1 DEF EdgesHaveEnds, TypeOK
  <2> QED
    BY <2>1, <2>2 DEF EdgesHaveEnds
<1>4. ASSUME NEW p \in Pairs, UserWithdraws(p) PROVE IInv'
  BY <1>4 DEF UserWithdraws, TypeOK, PhaseFitsKind, DueIsSomewhere, BuiltIsThere,
              EdgesHaveEnds, AtRisk, Due
<1> QED
  BY <1>1, <1>2, <1>3, <1>4

\* Every step keeps the invariant.
LEMMA StepIInv == IInv /\ [Next]_vars => IInv'
<1> SUFFICES ASSUME IInv, [Next]_vars PROVE IInv'
  OBVIOUS
<1>1. ASSUME UNCHANGED vars PROVE IInv'
  BY <1>1 DEF vars, haVars, graphVars, opVars, IInv, TypeOK, PhaseFitsKind, DueIsSomewhere,
              BuiltIsThere, EdgesHaveEnds, AtRisk, Due
<1> QED
  BY <1>1, BeginKeeps, ExportKeeps, ClearKeeps, BuildKeeps, ClassifyKeeps, ImportKeeps,
     EndKeeps, UserKeeps
  DEF Next, StartRebuild, StartResync, StartRefresh

-----------------------------------------------------------------------------
\* The invariant holds in every reachable state.
THEOREM Invariant == Spec => []IInv
  BY InitIInv, StepIInv, PTL DEF Spec

\* Every variable keeps its type.
THEOREM TypeCorrect == Spec => []TypeOK
<1>1. IInv => TypeOK
  BY DEF IInv
<1> QED
  BY <1>1, Invariant, PTL

\* FR-025, FR-009 as far as the code goes: between operations the overrides of
\* registered entities are in the graph, unless a rebuild was cut off.
THEOREM OverridesSurvive == Spec => []OverridesKept
<1>1. IInv => OverridesKept
  BY DEF IInv, OverridesKept, DueIsSomewhere, PhaseFitsKind, AtRisk, Due
<1> QED
  BY <1>1, Invariant, PTL

\* During a rebuild no override is out of both the graph and the payload.
THEOREM PayloadCovers == Spec => []PayloadCoversOverrides
<1>1. IInv => PayloadCoversOverrides
  BY DEF IInv, TypeOK, PayloadCoversOverrides, DueIsSomewhere, PhaseFitsKind, AtRisk, Due
<1> QED
  BY <1>1, Invariant, PTL

\* A recorded success left a node for every registered entity.
THEOREM SuccessComplete == Spec => []SuccessIsComplete
<1>1. IInv => SuccessIsComplete
  BY DEF IInv, SuccessIsComplete, BuiltIsThere
<1> QED
  BY <1>1, Invariant, PTL

\* Overrides and classifications always end in nodes that exist.
THEOREM NoDanglingEdges == Spec => []EdgesHaveEnds
<1>1. IInv => EdgesHaveEnds
  BY DEF IInv
<1> QED
  BY <1>1, Invariant, PTL

(***************************************************************************)
(* The floor plan                                                          *)
(***************************************************************************)

\* The pins of the answer that the sync at hand is done with.
PinsDone ==
    {e \in Drawable : OnKnownFloor(response.pins[e]) /\ response.pins[e][1] \notin left.floors
                      /\ e \notin left.pins}

WallsDone ==
    {w \in Walls : OnKnownFloor(response.walls[w]) /\ response.walls[w][1] \notin left.floors
                   /\ w \notin left.walls}

\* What is left of a floor is on the one that is written, and the sync has come
\* to it.
LeftIsOfFloor ==
    /\ left.pins # {} \/ left.walls # {} => floor \in Floors \ left.floors
    /\ stage # "writing" => left = NothingLeft

\* While it writes, the graph has what it is done with.
DoneIsThere ==
    /\ \A e \in PinsDone : e \in inGraph => pins[e][response.pins[e][1]] = response.pins[e][2]
    /\ \A w \in WallsDone : walls[w] = response.walls[w][2] /\ <<w, response.walls[w][1]>> \in onFloor

WritingIsCounted ==
    stage = "writing" =>
        /\ DoneIsThere
        /\ counts.pins = Cardinality(PinsDone) /\ counts.walls = Cardinality(WallsDone)

\* A sync that went through left nothing, and the graph has the answer.
CopiedIsDone == copied = TRUE => stage = "idle" /\ DoneIsThere

PlanInv ==
    /\ PlanTypeOK
    /\ LeftIsOfFloor
    /\ WritingIsCounted
    /\ CopiedIsDone

LEMMA NoneIsNoElse ==
    /\ None \notin Floors /\ None \notin Spots
    /\ None # TRUE /\ None # FALSE
<1>1. None \notin BOOLEAN
  BY SpatialAssumption
<1>. QED  BY <1>1, SpatialAssumption

\* A drawing has of an entity nothing, or a floor and a spot.
LEMMA PlanFacts ==
  ASSUME NEW r \in Plans
  PROVE  /\ \A e \in Drawable : r.pins[e] # None =>
               /\ r.pins[e][1] \in Floors \union {None}
               /\ r.pins[e][2] \in Spots
         /\ \A w \in Walls : r.walls[w] # None =>
               /\ r.walls[w][1] \in Floors \union {None}
               /\ r.walls[w][2] \in SUBSET Openings
<1>1. ASSUME NEW e \in Drawable, r.pins[e] # None
      PROVE  r.pins[e][1] \in Floors \union {None} /\ r.pins[e][2] \in Spots
  <2>1. r.pins[e] \in PinPlaces
    BY <1>1 DEF Plans
  <2>. QED  BY <2>1 DEF PinPlaces
<1>2. ASSUME NEW w \in Walls, r.walls[w] # None
      PROVE  r.walls[w][1] \in Floors \union {None} /\ r.walls[w][2] \in SUBSET Openings
  <2>1. r.walls[w] \in WallPlaces
    BY <1>2 DEF Plans
  <2>. QED  BY <2>1 DEF WallPlaces
<1>. QED  BY <1>1, <1>2

LEMMA DoneCount ==
    /\ IsFiniteSet(PinsDone) /\ Cardinality(PinsDone) \in 0..Cardinality(Drawable)
    /\ IsFiniteSet(WallsDone) /\ Cardinality(WallsDone) \in 0..Cardinality(Walls)
<1>1. IsFiniteSet(Drawable) /\ IsFiniteSet(Walls) /\ PinsDone \subseteq Drawable /\ WallsDone \subseteq Walls
  BY SpatialAssumption DEF PinsDone, WallsDone
<1>2. /\ Cardinality(Drawable) \in Nat /\ Cardinality(Walls) \in Nat
      /\ IsFiniteSet(PinsDone) /\ Cardinality(PinsDone) <= Cardinality(Drawable)
      /\ IsFiniteSet(WallsDone) /\ Cardinality(WallsDone) <= Cardinality(Walls)
  BY <1>1, FS_Subset, FS_CardinalityType
<1>3. Cardinality(PinsDone) \in Nat /\ Cardinality(WallsDone) \in Nat
  BY <1>2, FS_CardinalityType
<1>. QED  BY <1>2, <1>3

LEMMA PlanStarts == PlanInit => PlanInv
<1>. SUFFICES ASSUME PlanInit PROVE PlanInv
  OBVIOUS
<1>1. IsFiniteSet(Drawable) /\ IsFiniteSet(Walls)
  BY SpatialAssumption
<1>2. 0 \in 0..Cardinality(Drawable) /\ 0 \in 0..Cardinality(Walls)
  BY <1>1, FS_CardinalityType
<1>3. NoPlan \in Plans
  BY DEF NoPlan, Plans
<1>4. NothingLeft \in [floors : SUBSET Floors, pins : SUBSET Drawable, walls : SUBSET Walls]
      /\ NothingLeft.pins = {} /\ NothingLeft.walls = {}
  BY DEF NothingLeft
<1>5. PlanTypeOK
  BY <1>2, <1>3, <1>4 DEF PlanInit, PlanTypeOK
<1>6. LeftIsOfFloor
  BY <1>4 DEF PlanInit, LeftIsOfFloor
<1>7. WritingIsCounted /\ CopiedIsDone
  BY NoneIsNoElse DEF PlanInit, WritingIsCounted, CopiedIsDone
<1>. QED  BY <1>5, <1>6, <1>7 DEF PlanInv

\* What the invariant gives.
LEMMA PlanInvSuffices == PlanInv => PlanIsKept
<1>. SUFFICES ASSUME PlanInv PROVE PlanIsKept
  OBVIOUS
<1>1. PlanTypeOK /\ response \in Plans
  BY DEF PlanInv, PlanTypeOK
<1>2. ASSUME copied = TRUE
      PROVE  /\ \A e \in inGraph : OnKnownFloor(response.pins[e]) =>
                   pins[e][response.pins[e][1]] = response.pins[e][2]
             /\ \A w \in Walls : OnKnownFloor(response.walls[w]) =>
                   walls[w] = response.walls[w][2] /\ <<w, response.walls[w][1]>> \in onFloor
  <2>1. DoneIsThere /\ left = NothingLeft
    BY <1>2 DEF PlanInv, CopiedIsDone, LeftIsOfFloor
  <2>2. left.floors = {} /\ left.pins = {} /\ left.walls = {}
    BY <2>1 DEF NothingLeft
  <2>. QED  BY <1>1, <2>1, <2>2 DEF DoneIsThere, PinsDone, WallsDone, PlanTypeOK
<1>3. LayoutIsCopied
  BY <1>2 DEF LayoutIsCopied
<1>4. ReportedIfNotDrawn
  <2>. SUFFICES ASSUME copied = TRUE, NEW e \in inGraph \ ByDevice
                PROVE  /\ OnKnownFloor(response.pins[e]) /\ response.pins[e][1] = Home[e] =>
                             e \notin MissingPin
                       /\ ~IsPinned(e, Home[e]) => e \in MissingPin \/ Home[e] \in MissingCoverage
    BY DEF ReportedIfNotDrawn
  <2>1. e \in Drawable /\ Home[e] \in Floors
    BY <1>1, SpatialAssumption DEF PlanTypeOK
  <2>2. ASSUME OnKnownFloor(response.pins[e]), response.pins[e][1] = Home[e]
        PROVE  e \notin MissingPin
    <3>1. pins[e][Home[e]] \in Spots
      BY <1>1, <1>2, <2>1, <2>2, PlanFacts DEF OnKnownFloor
    <3>. QED  BY <3>1, NoneIsNoElse DEF MissingPin, IsPinned
  <2>3. ~IsPinned(e, Home[e]) => e \in MissingPin \/ Home[e] \in MissingCoverage
    BY <2>1 DEF MissingPin, MissingCoverage
  <2>. QED  BY <2>2, <2>3
<1>. QED  BY <1>1, <1>3, <1>4 DEF PlanIsKept

-----------------------------------------------------------------------------
(* The steps *)

\* With no sync that writes and none that went through, there is nothing to
\* have done.
LEMMA QuietKeeps ==
  ASSUME PlanTypeOK', stage' # "writing", left' = NothingLeft, copied' # TRUE
  PROVE  PlanInv'
<1>1. left'.pins = {} /\ left'.walls = {}
  BY DEF NothingLeft
<1>. QED  BY <1>1 DEF PlanInv, LeftIsOfFloor, WritingIsCounted, CopiedIsDone

LEMMA DrawKeeps ==
  ASSUME PlanInv, Draw
  PROVE  PlanInv'
<1>1. plan' \in Plans
  <2>1. /\ plan \in Plans /\ plan.pins \in [Drawable -> PinPlaces \union {None}]
        /\ plan.walls \in [Walls -> WallPlaces \union {None}]
    BY DEF PlanInv, PlanTypeOK, Plans
  <2>2. CASE \E e \in Drawable, at \in PinPlaces \union {None} : plan' = [plan EXCEPT !.pins[e] = at]
    BY <2>1, <2>2 DEF Plans
  <2>3. CASE \E w \in Walls, at \in WallPlaces \union {None} : plan' = [plan EXCEPT !.walls[w] = at]
    BY <2>1, <2>3 DEF Plans
  <2>. QED  BY <2>2, <2>3 DEF Draw
<1>2. UNCHANGED <<graph, sync, counts, copied>>
  BY DEF Draw
<1>3. PlanTypeOK'
  BY <1>1, <1>2 DEF PlanInv, PlanTypeOK, graph, sync
<1>. QED
  BY <1>2, <1>3 DEF PlanInv, LeftIsOfFloor, WritingIsCounted, CopiedIsDone, DoneIsThere, PinsDone, WallsDone,
                    graph, sync

LEMMA IdleStepsKeep ==
  ASSUME PlanInv, Rebuild \/ Unavailable \/ Ask \/ \E e \in Drawable : EntityChanges(e)
  PROVE  PlanInv'
<1>1. PlanTypeOK /\ stage = "idle" /\ left = NothingLeft
  BY DEF PlanInv, LeftIsOfFloor, Rebuild, Unavailable, Ask, EntityChanges
<1>2. /\ stage' \in {"idle", "asking"} /\ left' = left /\ floor' = floor /\ response' = response
      /\ plan' = plan /\ copied' = None
  BY <1>1 DEF Rebuild, Unavailable, Ask, EntityChanges, sync
<1>3. counts'.pins \in 0..Cardinality(Drawable) /\ counts'.walls \in 0..Cardinality(Walls)
  <2>1. IsFiniteSet(Drawable) /\ IsFiniteSet(Walls)
    BY SpatialAssumption
  <2>2. 0 \in 0..Cardinality(Drawable) /\ 0 \in 0..Cardinality(Walls)
    BY <2>1, FS_CardinalityType
  <2>. QED  BY <1>1, <2>2 DEF Rebuild, Unavailable, Ask, EntityChanges, PlanTypeOK
<1>4. /\ inGraph' \subseteq Drawable
      /\ pins' \in [Drawable -> [Floors -> Spots \union {None}]]
      /\ walls' \in [Walls -> (SUBSET Openings) \union {None}]
      /\ onFloor' \subseteq Walls \X Floors
  BY <1>1 DEF Rebuild, Unavailable, Ask, EntityChanges, PlanTypeOK, graph
<1>5. PlanTypeOK'
  BY <1>1, <1>2, <1>3, <1>4 DEF PlanTypeOK
<1>. QED  BY <1>1, <1>2, <1>5, NoneIsNoElse, QuietKeeps

\* Every floor is still to be written, and nothing is done.
LEMMA AnsweredKeeps ==
  ASSUME PlanInv, Answered
  PROVE  PlanInv'
<1>1. PlanTypeOK /\ stage = "asking" /\ copied # TRUE
  BY DEF PlanInv, CopiedIsDone, Answered
<1>2. /\ response' = plan /\ plan' = plan /\ stage' = "writing" /\ copied' = copied
      /\ left'.floors = Floors /\ left'.pins = {} /\ left'.walls = {}
      /\ left' \in [floors : SUBSET Floors, pins : SUBSET Drawable, walls : SUBSET Walls]
      /\ counts'.pins = 0 /\ counts'.walls = 0
      /\ inGraph' = inGraph /\ pins' = pins /\ walls' = walls /\ onFloor' = onFloor
  BY DEF Answered, NothingLeft, graph
<1>3. IsFiniteSet(Drawable) /\ IsFiniteSet(Walls)
  BY SpatialAssumption
<1>4. 0 \in 0..Cardinality(Drawable) /\ 0 \in 0..Cardinality(Walls)
  BY <1>3, FS_CardinalityType
<1>5. PlanTypeOK'
  BY <1>1, <1>2, <1>4 DEF PlanTypeOK
<1>6. PinsDone' = {} /\ WallsDone' = {}
  <2>1. /\ \A e \in Drawable : plan.pins[e] # None => plan.pins[e][1] \in Floors \union {None}
        /\ \A w \in Walls : plan.walls[w] # None => plan.walls[w][1] \in Floors \union {None}
    BY <1>1, PlanFacts DEF PlanTypeOK
  <2>. QED  BY <1>2, <2>1 DEF PinsDone, WallsDone, OnKnownFloor
<1>7. Cardinality({}) = 0
  BY FS_EmptySet
<1>. QED
  BY <1>1, <1>2, <1>5, <1>6, <1>7 DEF PlanInv, LeftIsOfFloor, WritingIsCounted, CopiedIsDone, DoneIsThere

\* What of the floor was still to be written now is left of it.
LEMMA NextFloorKeeps ==
  ASSUME PlanInv, NextFloor
  PROVE  PlanInv'
<1>1. PlanTypeOK /\ stage = "writing" /\ copied # TRUE /\ left.pins = {} /\ left.walls = {}
  BY DEF PlanInv, CopiedIsDone, NextFloor
<1>2. PICK f \in left.floors :
         floor' = f /\ left' = [floors |-> left.floors \ {f}, pins |-> PinsOn(f), walls |-> WallsOn(f)]
  BY DEF NextFloor
<1>3. /\ UNCHANGED <<plan, graph, stage, response, counts, copied>>
      /\ inGraph' = inGraph /\ pins' = pins /\ walls' = walls /\ onFloor' = onFloor
  BY DEF NextFloor, graph
<1>4. f \in Floors /\ f # None
  BY <1>1, NoneIsNoElse DEF PlanTypeOK
<1>5. PlanTypeOK'
  <2>1. left' \in [floors : SUBSET Floors, pins : SUBSET Drawable, walls : SUBSET Walls]
    BY <1>1, <1>2 DEF PlanTypeOK, PinsOn, WallsOn
  <2>. QED  BY <1>1, <1>2, <1>3, <2>1 DEF PlanTypeOK, PinsOn, WallsOn
<1>6. PinsDone' = PinsDone /\ WallsDone' = WallsDone
  BY <1>1, <1>2, <1>3, <1>4 DEF PinsDone, WallsDone, PinsOn, WallsOn, OnKnownFloor
<1>7. floor' \in Floors \ left'.floors
  BY <1>2, <1>4
<1>. QED
  BY <1>1, <1>3, <1>5, <1>6, <1>7 DEF PlanInv, LeftIsOfFloor, WritingIsCounted, CopiedIsDone, DoneIsThere

LEMMA WritePinKeeps ==
  ASSUME PlanInv, NEW e \in Drawable, WritePin(e)
  PROVE  PlanInv'
<1>1. PlanTypeOK /\ stage = "writing" /\ copied # TRUE /\ e \in left.pins
  BY DEF PlanInv, CopiedIsDone, WritePin
<1>2. /\ pins' = Pinned(e, floor, response.pins[e][2])
      /\ left'.floors = left.floors /\ left'.pins = left.pins \ {e} /\ left'.walls = left.walls
      /\ left' \in [floors : SUBSET Floors, pins : SUBSET Drawable, walls : SUBSET Walls]
      /\ counts'.pins = counts.pins + 1 /\ counts'.walls = counts.walls
      /\ UNCHANGED <<plan, inGraph, walls, onFloor, stage, response, floor, copied>>
  BY <1>1 DEF WritePin, PlanTypeOK
<1>3. /\ response.pins[e] # None /\ response.pins[e][1] = floor /\ floor \in Floors \ left.floors
      /\ floor # None /\ response.pins[e][2] \in Spots
  BY <1>1, PlanFacts, NoneIsNoElse DEF PlanInv, PlanTypeOK, LeftIsOfFloor
<1>4. /\ pins' \in [Drawable -> [Floors -> Spots \union {None}]]
      /\ e \in inGraph => pins'[e][floor] = response.pins[e][2]
      /\ \A d \in Drawable \ {e} : pins'[d] = pins[d]
  BY <1>1, <1>2, <1>3 DEF PlanTypeOK, Pinned
<1>5. PinsDone' = PinsDone \union {e} /\ e \notin PinsDone /\ WallsDone' = WallsDone
  BY <1>1, <1>2, <1>3 DEF PinsDone, WallsDone, OnKnownFloor
<1>6. Cardinality(PinsDone') = Cardinality(PinsDone) + 1
  BY <1>5, DoneCount, FS_AddElement
<1>7. counts'.pins = Cardinality(PinsDone') /\ counts'.walls = Cardinality(WallsDone')
  BY <1>1, <1>2, <1>5, <1>6 DEF PlanInv, WritingIsCounted
<1>8. counts'.pins \in 0..Cardinality(Drawable) /\ counts'.walls \in 0..Cardinality(Walls)
  <2>1. PinsDone' \subseteq Drawable /\ IsFiniteSet(Drawable)
    BY <1>5, SpatialAssumption DEF PinsDone
  <2>2. Cardinality(PinsDone') \in 0..Cardinality(Drawable)
    <3>1. /\ IsFiniteSet(PinsDone') /\ Cardinality(PinsDone') <= Cardinality(Drawable)
          /\ Cardinality(Drawable) \in Nat
      BY <2>1, FS_Subset, FS_CardinalityType
    <3>2. Cardinality(PinsDone') \in Nat
      BY <3>1, FS_CardinalityType
    <3>. QED  BY <3>1, <3>2
  <2>. QED  BY <1>1, <1>2, <1>7, <2>2 DEF PlanTypeOK
<1>9. PlanTypeOK'
  BY <1>1, <1>2, <1>4, <1>8 DEF PlanTypeOK
<1>10. LeftIsOfFloor'
  BY <1>1, <1>2, <1>3 DEF LeftIsOfFloor
<1>11. DoneIsThere'
  <2>1. DoneIsThere
    BY <1>1 DEF PlanInv, WritingIsCounted
  <2>2. ASSUME NEW d \in PinsDone', d \in inGraph
        PROVE  pins'[d][response.pins[d][1]] = response.pins[d][2]
    <3>1. CASE d = e
      BY <1>3, <1>4, <2>2, <3>1
    <3>2. CASE d # e
      <4>1. d \in PinsDone /\ d \in Drawable \ {e}
        BY <1>5, <3>2 DEF PinsDone
      <4>. QED  BY <1>4, <2>1, <2>2, <4>1 DEF DoneIsThere
    <3>. QED  BY <3>1, <3>2
  <2>. QED  BY <1>2, <1>5, <2>1, <2>2 DEF DoneIsThere
<1>. QED
  BY <1>1, <1>2, <1>7, <1>9, <1>10, <1>11 DEF PlanInv, WritingIsCounted, CopiedIsDone

\* The end of a sync, and what it may have written before a failure.
LEMMA FailedKeeps ==
  ASSUME PlanInv, EndSync(FALSE), plan' = plan, response' = response, counts' = counts, inGraph' = inGraph,
         pins' = pins, walls' \in [Walls -> (SUBSET Openings) \union {None}], onFloor' = onFloor
  PROVE  PlanInv'
<1>1. /\ left' = NothingLeft /\ stage' = "idle" /\ copied' = FALSE
      /\ left'.pins = {} /\ left'.walls = {}
      /\ left' \in [floors : SUBSET Floors, pins : SUBSET Drawable, walls : SUBSET Walls]
  BY DEF EndSync, NothingLeft
<1>2. PlanTypeOK'
  BY <1>1 DEF PlanInv, PlanTypeOK
<1>. QED  BY <1>1, <1>2, QuietKeeps

LEMMA FailKeeps ==
  ASSUME PlanInv, Fail
  PROVE  PlanInv'
<1>1. walls \in [Walls -> (SUBSET Openings) \union {None}]
  BY DEF PlanInv, PlanTypeOK
<1>. QED  BY <1>1, FailedKeeps DEF Fail, graph

LEMMA WritingEndsKeeps ==
  ASSUME PlanInv, WritingEnds
  PROVE  PlanInv'
<1>1. PlanTypeOK /\ stage = "writing" /\ left = NothingLeft
  BY DEF PlanInv, WritingEnds
<1>2. /\ UNCHANGED <<plan, graph, response, counts>>
      /\ inGraph' = inGraph /\ pins' = pins /\ walls' = walls /\ onFloor' = onFloor
      /\ left' = left /\ stage' = "idle" /\ copied' = TRUE
  BY <1>1 DEF WritingEnds, EndSync, graph
<1>3. left.pins = {} /\ left.walls = {}
  BY <1>1 DEF NothingLeft
<1>4. PlanTypeOK'
  BY <1>1, <1>2, <1>3 DEF PlanTypeOK
<1>5. PinsDone' = PinsDone /\ WallsDone' = WallsDone /\ DoneIsThere
  BY <1>1, <1>2 DEF PlanInv, WritingIsCounted, PinsDone, WallsDone
<1>. QED
  BY <1>1, <1>2, <1>3, <1>4, <1>5 DEF PlanInv, LeftIsOfFloor, WritingIsCounted, CopiedIsDone, DoneIsThere

LEMMA WriteWallKeeps ==
  ASSUME PlanInv, NEW w \in Walls, WriteWall(w)
  PROVE  PlanInv'
<1>1. PlanTypeOK /\ stage = "writing" /\ copied # TRUE /\ w \in left.walls
      /\ UNCHANGED <<plan, inGraph, pins, response>>
  BY DEF PlanInv, CopiedIsDone, WriteWall
<1>2. /\ response.walls[w] # None /\ response.walls[w][1] = floor /\ floor \in Floors \ left.floors
      /\ floor # None /\ response.walls[w][2] \in SUBSET Openings
  BY <1>1, PlanFacts, NoneIsNoElse DEF PlanInv, PlanTypeOK, LeftIsOfFloor
<1>3. /\ walls' = [walls EXCEPT ![w] = response.walls[w][2]]
      /\ walls' \in [Walls -> (SUBSET Openings) \union {None}]
      /\ walls'[w] = response.walls[w][2] /\ \A x \in Walls \ {w} : walls'[x] = walls[x]
  BY <1>1, <1>2 DEF WriteWall, OpeningArrays, PlanTypeOK
<1>4. CASE EndSync(FALSE) /\ UNCHANGED <<onFloor, counts>>
  BY <1>1, <1>3, <1>4, FailedKeeps
<1>5. CASE /\ onFloor' = onFloor \union {<<w, floor>>}
           /\ left' = [left EXCEPT !.walls = @ \ {w}]
           /\ counts' = [counts EXCEPT !.walls = @ + 1]
           /\ UNCHANGED <<stage, floor, copied>>
  <2>1. /\ left'.floors = left.floors /\ left'.pins = left.pins /\ left'.walls = left.walls \ {w}
        /\ left' \in [floors : SUBSET Floors, pins : SUBSET Drawable, walls : SUBSET Walls]
        /\ counts'.walls = counts.walls + 1 /\ counts'.pins = counts.pins
    BY <1>1, <1>5 DEF PlanTypeOK
  <2>2. WallsDone' = WallsDone \union {w} /\ w \notin WallsDone /\ PinsDone' = PinsDone
    BY <1>1, <1>2, <2>1 DEF PinsDone, WallsDone, OnKnownFloor
  <2>3. Cardinality(WallsDone') = Cardinality(WallsDone) + 1
    BY <2>2, DoneCount, FS_AddElement
  <2>4. counts'.walls = Cardinality(WallsDone') /\ counts'.pins = Cardinality(PinsDone')
    BY <1>1, <2>1, <2>2, <2>3 DEF PlanInv, WritingIsCounted
  <2>5. Cardinality(WallsDone') \in 0..Cardinality(Walls)
    <3>1. WallsDone' \subseteq Walls /\ IsFiniteSet(Walls)
      BY <2>2, SpatialAssumption DEF WallsDone
    <3>2. /\ IsFiniteSet(WallsDone') /\ Cardinality(WallsDone') <= Cardinality(Walls)
          /\ Cardinality(Walls) \in Nat
      BY <3>1, FS_Subset, FS_CardinalityType
    <3>3. Cardinality(WallsDone') \in Nat
      BY <3>2, FS_CardinalityType
    <3>. QED  BY <3>2, <3>3
  <2>6. PlanTypeOK'
    <3>1. onFloor' \subseteq Walls \X Floors
      <4>1. <<w, floor>> \in Walls \X Floors
        BY <1>2
      <4>. QED  BY <1>1, <1>5, <4>1 DEF PlanTypeOK
    <3>2. counts'.pins \in 0..Cardinality(Drawable) /\ counts'.walls \in 0..Cardinality(Walls)
      BY <1>1, <2>1, <2>4, <2>5 DEF PlanTypeOK
    <3>3. /\ \A d \in left'.pins : response'.pins[d] # None /\ response'.pins[d][1] = floor'
          /\ \A x \in left'.walls : response'.walls[x] # None /\ response'.walls[x][1] = floor'
      BY <1>1, <1>5, <2>1 DEF PlanTypeOK
    <3>. QED  BY <1>1, <1>3, <1>5, <2>1, <3>1, <3>2, <3>3 DEF PlanTypeOK
  <2>7. LeftIsOfFloor'
    BY <1>1, <1>2, <1>5, <2>1 DEF LeftIsOfFloor
  <2>8. DoneIsThere'
    <3>1. DoneIsThere
      BY <1>1 DEF PlanInv, WritingIsCounted
    <3>2. ASSUME NEW x \in WallsDone'
          PROVE  walls'[x] = response.walls[x][2] /\ <<x, response.walls[x][1]>> \in onFloor'
      <4>1. CASE x = w
        BY <1>2, <1>3, <1>5, <4>1
      <4>2. CASE x # w
        <5>1. x \in WallsDone /\ x \in Walls \ {w}
          BY <2>2, <4>2 DEF WallsDone
        <5>. QED  BY <1>3, <1>5, <3>1, <5>1 DEF DoneIsThere
      <4>. QED  BY <4>1, <4>2
    <3>. QED  BY <1>1, <2>2, <3>1, <3>2 DEF DoneIsThere
  <2>. QED  BY <1>1, <1>5, <2>4, <2>6, <2>7, <2>8 DEF PlanInv, WritingIsCounted, CopiedIsDone
<1>. QED  BY <1>4, <1>5 DEF WriteWall

\* For any floors, walls and entities, while the user draws on and writes fail:
\* after a sync that succeeded the graph holds the drawing it was answered, and
\* validation reports exactly what of it an entity lacks.
THEOREM PlanIsAlwaysKept == PlanSpec => []PlanIsKept
<1>1. PlanInit => PlanInv
  BY PlanStarts
<1>2. PlanInv /\ [PlanNext]_planVars => PlanInv'
  <2>. SUFFICES ASSUME PlanInv, [PlanNext]_planVars PROVE PlanInv'
    OBVIOUS
  <2>1. CASE UNCHANGED planVars
    BY <2>1 DEF planVars, graph, sync, PlanInv, PlanTypeOK, LeftIsOfFloor, WritingIsCounted, CopiedIsDone,
                DoneIsThere, PinsDone, WallsDone
  <2>2. CASE PlanNext
    BY <2>2, DrawKeeps, IdleStepsKeep, AnsweredKeeps, NextFloorKeeps, WritePinKeeps, WriteWallKeeps,
       WritingEndsKeeps, FailKeeps DEF PlanNext
  <2>. QED  BY <2>1, <2>2
<1>3. PlanInv => PlanIsKept
  BY PlanInvSuffices
<1>. QED  BY <1>1, <1>2, <1>3, PTL DEF PlanSpec

(***************************************************************************)
(* Dashboards                                                              *)
(***************************************************************************)

LEMMA PositionsAre ==
    ASSUME NEW view \in View
    PROVE  /\ Lists(view) \in Seq(Seq(SUBSET Displayable))
           /\ \A p : p \in Positions(view) <=>
                  \E l \in 1..Len(Lists(view)) : \E i \in 1..Len(Lists(view)[l]) : p = <<l, i>>
           /\ \A p \in Positions(view) :
                  /\ p = <<p[1], p[2]>> /\ p[1] \in Nat /\ p[2] \in Nat
                  /\ CardAt(view, p) \subseteq Displayable
<1>1. view.cards \in Seq(SUBSET Displayable) /\ view.sections \in Seq(Seq(SUBSET Displayable))
  BY DEF View
<1>2. <<view.cards>> \in Seq(Seq(SUBSET Displayable))
  BY <1>1
<1>3. Lists(view) \in Seq(Seq(SUBSET Displayable))
  BY <1>1, <1>2 DEF Lists
<1>4. ASSUME NEW l \in 1..Len(Lists(view))
      PROVE  Lists(view)[l] \in Seq(SUBSET Displayable)
  BY <1>3
<1>5. ASSUME NEW l \in 1..Len(Lists(view))
      PROVE  DOMAIN Lists(view)[l] = 1..Len(Lists(view)[l])
  BY <1>4
<1>6. DOMAIN Lists(view) = 1..Len(Lists(view))
  BY <1>3
<1>7. \A p : p \in Positions(view) <=>
          \E l \in 1..Len(Lists(view)) : \E i \in 1..Len(Lists(view)[l]) : p = <<l, i>>
  BY <1>5, <1>6 DEF Positions
<1>8. ASSUME NEW p \in Positions(view)
      PROVE  /\ p = <<p[1], p[2]>> /\ p[1] \in Nat /\ p[2] \in Nat
             /\ CardAt(view, p) \subseteq Displayable
  <2>1. PICK l \in 1..Len(Lists(view)) : \E i \in 1..Len(Lists(view)[l]) : p = <<l, i>>
    BY <1>7
  <2>2. PICK i \in 1..Len(Lists(view)[l]) : p = <<l, i>>
    BY <2>1
  <2>3. l \in Nat /\ i \in Nat
    BY <1>3, <1>4
  <2>4. Lists(view)[l][i] \in SUBSET Displayable
    BY <1>4
  <2> QED  BY <2>2, <2>3, <2>4 DEF CardAt
<1> QED  BY <1>3, <1>7, <1>8

LEMMA PositionsFinite == ASSUME NEW view \in View PROVE IsFiniteSet(Positions(view))
<1> DEFINE Row(l) == {l} \X DOMAIN Lists(view)[l]
           Rows == {Row(l) : l \in DOMAIN Lists(view)}
           f == [l \in DOMAIN Lists(view) |-> Row(l)]
<1>1. Lists(view) \in Seq(Seq(SUBSET Displayable))
  BY PositionsAre
<1>2. DOMAIN Lists(view) = 1..Len(Lists(view)) /\ Len(Lists(view)) \in Nat
  BY <1>1
<1>3. IsFiniteSet(DOMAIN Lists(view))
  BY <1>2, FS_Interval
<1>4. f \in Surjection(DOMAIN Lists(view), Rows)
  BY DEF Surjection
<1>5. IsFiniteSet(Rows)
  <2> HIDE DEF f, Rows
  <2> QED  BY <1>3, <1>4, FS_Surjection
<1>6. ASSUME NEW T \in Rows PROVE IsFiniteSet(T)
  <2>1. PICK l \in DOMAIN Lists(view) : T = Row(l)
    OBVIOUS
  <2>2. Lists(view)[l] \in Seq(SUBSET Displayable)
    BY <1>1, <1>2
  <2>3. DOMAIN Lists(view)[l] = 1..Len(Lists(view)[l]) /\ Len(Lists(view)[l]) \in Nat
    BY <2>2
  <2>4. IsFiniteSet(DOMAIN Lists(view)[l])
    BY <2>3, FS_Interval
  <2>5. IsFiniteSet({l})
    BY FS_Singleton
  <2> QED  BY <2>1, <2>4, <2>5, FS_Product
<1>7. IsFiniteSet(UNION Rows)
  <2> HIDE DEF Rows
  <2> QED  BY <1>5, <1>6, FS_UNION
<1> QED  BY <1>7 DEF Positions

\* The place of a card in the numbering.
PlaceOf(view, p) == Cardinality(UpTo(view, p))

LEMMA PlacesGrow ==
    ASSUME NEW view \in View, NEW p \in Positions(view), NEW q \in Positions(view),
           p[1] < q[1] \/ (p[1] = q[1] /\ p[2] < q[2])
    PROVE  PlaceOf(view, p) # PlaceOf(view, q)
<1>1. /\ p[1] \in Nat /\ p[2] \in Nat /\ q[1] \in Nat /\ q[2] \in Nat
      /\ \A r \in Positions(view) : r[1] \in Nat /\ r[2] \in Nat
  BY PositionsAre
<1>2. UpTo(view, p) \subseteq UpTo(view, q)
  BY <1>1 DEF UpTo
<1>3. q \in UpTo(view, q) /\ q \notin UpTo(view, p)
  BY <1>1 DEF UpTo
<1>4. IsFiniteSet(UpTo(view, q))
  BY PositionsFinite, FS_Subset DEF UpTo
<1>5. UpTo(view, p) \in SUBSET UpTo(view, q) /\ UpTo(view, p) # UpTo(view, q)
  BY <1>2, <1>3
<1> HIDE DEF UpTo
<1>6. Cardinality(UpTo(view, q)) = Cardinality(UpTo(view, p)) => UpTo(view, q) = UpTo(view, p)
  BY <1>4, <1>5, FS_Subset
<1> QED  BY <1>5, <1>6 DEF PlaceOf

\* No two cards of a view have one place.
LEMMA PlacesDiffer ==
    ASSUME NEW view \in View, NEW p \in Positions(view), NEW q \in Positions(view),
           PlaceOf(view, p) = PlaceOf(view, q)
    PROVE  p = q
<1>1. p = <<p[1], p[2]>> /\ q = <<q[1], q[2]>> /\ p[1] \in Nat /\ p[2] \in Nat /\ q[1] \in Nat /\ q[2] \in Nat
  BY PositionsAre
<1>2. ~(p[1] < q[1] \/ (p[1] = q[1] /\ p[2] < q[2]))
  BY PlacesGrow
<1>3. ~(q[1] < p[1] \/ (q[1] = p[1] /\ q[2] < p[2]))
  BY PlacesGrow
<1>4. p[1] = q[1] /\ p[2] = q[2]
  BY <1>1, <1>2, <1>3
<1> QED  BY <1>1, <1>4

LEMMA CardsAre ==
    ASSUME NEW c \in Configs
    PROVE  /\ c \in Seq(View) /\ \A v \in DOMAIN c : c[v] \in View
           /\ \A x : x \in Cards(c) <=>
                  \E v \in DOMAIN c : \E p \in Positions(c[v]) :
                      x = <<v, PlaceOf(c[v], p), CardAt(c[v], p)>>
<1>1. c \in Seq(View) /\ \A v \in DOMAIN c : c[v] \in View
  BY DashboardsAssumption
<1> DEFINE OfView(v) == {<<v, q[1], q[2]>> : q \in Places(c[v])}
<1>2. ASSUME NEW v, NEW x
      PROVE  x \in OfView(v) <=>
                 \E p \in Positions(c[v]) : x = <<v, PlaceOf(c[v], p), CardAt(c[v], p)>>
  <2>1. \A q : q \in Places(c[v]) <=> \E p \in Positions(c[v]) : q = <<PlaceOf(c[v], p), CardAt(c[v], p)>>
    BY DEF Places, PlaceOf
  <2>2. x \in OfView(v) <=> \E q \in Places(c[v]) : x = <<v, q[1], q[2]>>
    OBVIOUS
  <2>3. x \in OfView(v) <=>
            \E p \in Positions(c[v]) :
                LET q == <<PlaceOf(c[v], p), CardAt(c[v], p)>> IN x = <<v, q[1], q[2]>>
    BY <2>1, <2>2, Zenon
  <2> QED  BY <2>3
<1>3. \A x : x \in Cards(c) <=> \E v \in DOMAIN c : x \in OfView(v)
  BY DEF Cards
<1> HIDE DEF OfView
<1>4. \A x : x \in Cards(c) <=>
          \E v \in DOMAIN c : \E p \in Positions(c[v]) :
              x = <<v, PlaceOf(c[v], p), CardAt(c[v], p)>>
  BY <1>2, <1>3
<1> QED  BY <1>1, <1>4

\* What a dashboard shows stands on a card.
LEMMA ShownIsOnCard ==
    ASSUME NEW c \in Configs, NEW e \in Shown(c)
    PROVE  \E v \in DOMAIN c : \E p \in Positions(c[v]) : e \in CardAt(c[v], p)
<1>1. ASSUME NEW v \in DOMAIN c, NEW l \in 1..Len(Lists(c[v])), NEW i \in 1..Len(Lists(c[v])[l]),
             e \in Lists(c[v])[l][i]
      PROVE  \E p \in Positions(c[v]) : e \in CardAt(c[v], p)
  <2>1. c[v] \in View
    BY CardsAre
  <2>2. <<l, i>> \in Positions(c[v])
    BY <2>1, PositionsAre
  <2> QED  BY <1>1, <2>2 DEF CardAt
<1>2. ASSUME NEW v \in DOMAIN c
      PROVE  /\ c[v].cards \in Seq(SUBSET Displayable) /\ c[v].sections \in Seq(Seq(SUBSET Displayable))
             /\ Len(Lists(c[v])) = 1 + Len(c[v].sections)
             /\ Lists(c[v])[1] = c[v].cards
             /\ \A k \in 1..Len(c[v].sections) : Lists(c[v])[k + 1] = c[v].sections[k]
  <2>1. c[v].cards \in Seq(SUBSET Displayable) /\ c[v].sections \in Seq(Seq(SUBSET Displayable))
    BY CardsAre DEF View
  <2>2. /\ Len(Lists(c[v])) = 1 + Len(c[v].sections)
        /\ Lists(c[v])[1] = c[v].cards
        /\ \A k \in 1..Len(c[v].sections) : Lists(c[v])[k + 1] = c[v].sections[k]
    BY <2>1 DEF Lists
  <2> QED  BY <2>1, <2>2
<1>3. CASE \E v \in DOMAIN c : e \in UNION ToSet(c[v].cards)
  <2>1. PICK v \in DOMAIN c : e \in UNION ToSet(c[v].cards)
    BY <1>3
  <2>2. PICK i \in DOMAIN c[v].cards : e \in c[v].cards[i]
    BY <2>1 DEF ToSet
  <2>3. i \in 1..Len(Lists(c[v])[1]) /\ 1 \in 1..Len(Lists(c[v])) /\ e \in Lists(c[v])[1][i]
    BY <1>2, <2>2
  <2> QED  BY <1>1, <2>3
<1>4. CASE \E v \in DOMAIN c : e \in UNION {UNION ToSet(section) : section \in ToSet(c[v].sections)}
  <2>1. PICK v \in DOMAIN c : e \in UNION {UNION ToSet(section) : section \in ToSet(c[v].sections)}
    BY <1>4
  <2>2. PICK k \in DOMAIN c[v].sections : e \in UNION ToSet(c[v].sections[k])
    BY <2>1 DEF ToSet
  <2>3. PICK i \in DOMAIN c[v].sections[k] : e \in c[v].sections[k][i]
    BY <2>2 DEF ToSet
  <2>4. k \in 1..Len(c[v].sections) /\ c[v].sections[k] \in Seq(SUBSET Displayable)
    BY <1>2
  <2>5. k + 1 \in 1..Len(Lists(c[v])) /\ Lists(c[v])[k + 1] = c[v].sections[k]
    <3>1. Lists(c[v])[k + 1] = c[v].sections[k] /\ Len(Lists(c[v])) = 1 + Len(c[v].sections)
      BY <1>2, <2>4
    <3>2. Len(c[v].sections) \in Nat
      BY <1>2
    <3> QED  BY <2>4, <3>1, <3>2
  <2>6. i \in 1..Len(Lists(c[v])[k + 1]) /\ e \in Lists(c[v])[k + 1][i]
    BY <2>3, <2>4, <2>5
  <2> QED  BY <1>1, <2>5, <2>6
<1> DEFINE Own(v) == UNION ToSet(c[v].cards)
           InSections(v) == UNION {UNION ToSet(section) : section \in ToSet(c[v].sections)}
<1>5. e \in UNION {Own(v) : v \in DOMAIN c} \/ e \in UNION {InSections(v) : v \in DOMAIN c}
  BY DEF Shown
<1> HIDE DEF Own, InSections
<1>6. ASSUME e \in UNION {Own(v) : v \in DOMAIN c} PROVE \E v \in DOMAIN c : e \in Own(v)
  BY <1>6
<1>7. ASSUME e \in UNION {InSections(v) : v \in DOMAIN c} PROVE \E v \in DOMAIN c : e \in InSections(v)
  BY <1>7
<1> USE DEF Own, InSections
<1> QED  BY <1>3, <1>4, <1>5, <1>6, <1>7

\* The cards of a dashboard that the last sync, or the one at hand, is done
\* with; the node of one.
DoneOf(d) == Cards(loaded[d]) \ (IF current.dashboard = d THEN current.cards ELSE {})
NodeOf(d, c) == <<d, c[1], c[2]>>

\* A sync is at hand, or nothing has changed since the last.
Recent == running # "none" \/ synced # "none"

\* Variables are of their kinds, and nothing is under way between syncs.
BoardsTyped ==
    /\ DashboardsTypeOK
    /\ config \in [Dashboards -> Configs \union {Absent}]
    /\ loaded \in [Dashboards -> Configs \union {Absent}]
    /\ present \subseteq Displayable
    /\ \A d \in waiting : loaded[d] = Absent
    /\ running # "none" => synced = "none"
    /\ running = "none" => waiting = {} /\ current = Nothing
    /\ \/ current = Nothing
       \/ /\ current = [dashboard |-> current.dashboard, cards |-> current.cards]
          /\ current.dashboard \in Dashboards /\ loaded[current.dashboard] # Absent
          /\ current.cards \subseteq Cards(loaded[current.dashboard])

\* A dashboard that is neither loaded nor still to be loaded has failed.
AllAreLoaded ==
    Recent => \A d \in Dashboards \ (failed \union waiting) : loaded[d] # Absent

\* Cards it is done with have nodes that display what is in the graph.
CardsAreThere ==
    Recent =>
        \A d \in Dashboards \ failed : loaded[d] # Absent =>
            \A c \in DoneOf(d) :
                /\ NodeOf(d, c) \in cards
                /\ \A e \in c[3] \intersect present : <<NodeOf(d, c), e>> \in displays

\* A rebuild makes no other nodes.
NoOthers ==
    "rebuild" \in {running, synced} =>
        /\ \A x \in cards : x[1] \notin failed =>
               loaded[x[1]] # Absent /\ \E c \in DoneOf(x[1]) : x = NodeOf(x[1], c)
        /\ \A r \in displays : r[1][1] \notin failed =>
               \E c \in DoneOf(r[1][1]) : r[1] = NodeOf(r[1][1], c) /\ r[2] \in c[3]

BoardsInv ==
    /\ BoardsTyped
    /\ AllAreLoaded
    /\ CardsAreThere
    /\ NoOthers

LEMMA BoardsStart == DashboardsInit => BoardsInv
<1> SUFFICES ASSUME DashboardsInit PROVE BoardsInv
  OBVIOUS
<1>1. BoardsTyped
  BY DEF DashboardsInit, BoardsTyped, DashboardsTypeOK, Nothing, Syncs
<1>2. AllAreLoaded /\ CardsAreThere /\ NoOthers
  BY DEF DashboardsInit, AllAreLoaded, CardsAreThere, NoOthers, Recent
<1> QED  BY <1>1, <1>2 DEF BoardsInv

LEMMA EditBoardKeeps == ASSUME BoardsInv, NEW d \in Dashboards, EditDashboard(d) PROVE BoardsInv'
<1>1. UNCHANGED <<present, cards, displays, running, waiting, current, loaded, failed, synced>>
  BY DEF EditDashboard, displayed, copying
<1>2. config' \in [Dashboards -> Configs \union {Absent}]
  BY DEF EditDashboard, BoardsInv, BoardsTyped
<1>3. BoardsTyped'
  BY <1>1, <1>2 DEF BoardsInv, BoardsTyped, DashboardsTypeOK, Nothing
<1>4. AllAreLoaded' /\ CardsAreThere' /\ NoOthers'
  BY <1>1 DEF BoardsInv, AllAreLoaded, CardsAreThere, NoOthers, Recent, DoneOf
<1> QED  BY <1>3, <1>4 DEF BoardsInv

LEMMA EntityBoardKeeps == ASSUME BoardsInv, NEW e \in Displayable, EntityComesOrGoes(e) PROVE BoardsInv'
<1>1. /\ running = "none" /\ synced' = "none" /\ displays' = {r \in displays : r[2] # e}
      /\ present' = IF e \in present THEN present \ {e} ELSE present \union {e}
      /\ UNCHANGED <<config, cards, running, waiting, current, loaded, failed>>
  BY DEF EntityComesOrGoes
<1>2. DashboardsTypeOK'
  <2>1. \A r \in displays' : r[1] \in cards' /\ r[2] \in present'
    BY <1>1 DEF BoardsInv, BoardsTyped, DashboardsTypeOK
  <2> QED  BY <1>1, <2>1 DEF BoardsInv, BoardsTyped, DashboardsTypeOK, Syncs
<1>3. BoardsTyped'
  BY <1>1, <1>2 DEF BoardsInv, BoardsTyped, Nothing
<1>4. ~Recent' /\ "rebuild" \notin {running', synced'}
  BY <1>1 DEF Recent
<1>5. AllAreLoaded' /\ CardsAreThere' /\ NoOthers'
  BY <1>4 DEF AllAreLoaded, CardsAreThere, NoOthers
<1> QED  BY <1>3, <1>5 DEF BoardsInv

LEMMA BeginBoardsKeeps == ASSUME BoardsInv, NEW syncKind \in Syncs, BeginDashboards(syncKind) PROVE BoardsInv'
<1>1. /\ running = "none" /\ running' = syncKind /\ waiting' = Dashboards
      /\ loaded' = [d \in Dashboards |-> Absent] /\ failed' = {} /\ synced' = "none"
      /\ UNCHANGED <<config, current>>
      /\ syncKind \in Syncs
  BY DEF BeginDashboards
<1>2. current' = Nothing
  BY <1>1 DEF BoardsInv, BoardsTyped
<1>3. /\ present' \subseteq Displayable
      /\ syncKind = "rebuild" => cards' = {} /\ displays' = {}
      /\ syncKind # "rebuild" => cards' = cards /\ displays' = displays /\ present \subseteq present'
  BY DEF BeginDashboards
<1>4. /\ \A r \in displays' : r[1] \in cards' /\ r[2] \in present'
      /\ \A c \in cards' : c[1] \in Dashboards
  BY <1>3 DEF BoardsInv, BoardsTyped, DashboardsTypeOK
<1>5. DashboardsTypeOK'
  BY <1>1, <1>2, <1>4 DEF DashboardsTypeOK, Nothing
<1>6. BoardsTyped'
  <2>1. config' \in [Dashboards -> Configs \union {Absent}]
    BY <1>1 DEF BoardsInv, BoardsTyped
  <2> QED  BY <1>1, <1>2, <1>3, <1>5, <2>1 DEF BoardsTyped, Nothing, Syncs
<1>7. AllAreLoaded' /\ CardsAreThere'
  BY <1>1 DEF AllAreLoaded, CardsAreThere
<1>8. NoOthers'
  BY <1>1, <1>3 DEF NoOthers
<1> QED  BY <1>6, <1>7, <1>8 DEF BoardsInv

LEMMA LoadBoardKeeps == ASSUME BoardsInv, NEW d \in Dashboards, LoadDashboard(d) PROVE BoardsInv'
<1>1. /\ running # "none" /\ current = Nothing /\ d \in waiting /\ waiting' = waiting \ {d}
      /\ UNCHANGED <<config, present, cards, displays, running, synced>>
  BY DEF LoadDashboard, displayed
<1>2. loaded[d] = Absent /\ synced = "none"
  BY <1>1 DEF BoardsInv, BoardsTyped
<1>3. Recent
  BY <1>1 DEF Recent
<1>4. "rebuild" \in {running, synced} => \A x \in cards : x[1] # d \/ d \in failed
  BY <1>2 DEF BoardsInv, NoOthers
<1>5. CASE config[d] = Absent
  <2>1. failed' = failed \union {d} /\ UNCHANGED <<current, loaded>>
    BY <1>5 DEF LoadDashboard
  <2>2. DashboardsTypeOK'
    BY <1>1, <2>1 DEF BoardsInv, BoardsTyped, DashboardsTypeOK
  <2>3. BoardsTyped'
    BY <1>1, <2>1, <2>2 DEF BoardsInv, BoardsTyped, Nothing
  <2>4. AllAreLoaded' /\ CardsAreThere' /\ NoOthers'
    BY <1>1, <1>3, <2>1 DEF BoardsInv, AllAreLoaded, CardsAreThere, NoOthers, Recent, DoneOf
  <2> QED  BY <2>3, <2>4 DEF BoardsInv
<1>6. CASE config[d] # Absent
  <2>1. /\ current' = [dashboard |-> d, cards |-> Cards(config[d])]
        /\ loaded' = [loaded EXCEPT ![d] = config[d]] /\ failed' = failed
    BY <1>6 DEF LoadDashboard
  <2>2. /\ current'.dashboard = d /\ current'.cards = Cards(config[d])
        /\ d # Absent
    BY <2>1, DashboardsAssumption
  <2>3. /\ loaded'[d] = config[d] /\ config[d] \in Configs
        /\ \A x \in Dashboards \ {d} : loaded'[x] = loaded[x]
        /\ loaded' \in [Dashboards -> Configs \union {Absent}]
    BY <1>6, <2>1 DEF BoardsInv, BoardsTyped
  <2>4. DashboardsTypeOK'
    <3>1. (current.dashboard # Absent => loaded[current.dashboard] # Absent)'
      BY <2>2, <2>3, <1>6
    <3>2. (current.dashboard = Absent => current.cards = {})'
      BY <2>2
    <3> QED  BY <1>1, <2>1, <3>1, <3>2 DEF BoardsInv, BoardsTyped, DashboardsTypeOK
  <2>5. BoardsTyped'
    <3>1. (\/ current = Nothing
           \/ /\ current = [dashboard |-> current.dashboard, cards |-> current.cards]
              /\ current.dashboard \in Dashboards /\ loaded[current.dashboard] # Absent
              /\ current.cards \subseteq Cards(loaded[current.dashboard]))'
      BY <1>6, <2>1, <2>2, <2>3
    <3>2. \A x \in waiting' : loaded'[x] = Absent
      BY <1>1, <2>3 DEF BoardsInv, BoardsTyped, DashboardsTypeOK
    <3> QED  BY <1>1, <1>2, <2>3, <2>4, <3>1, <3>2 DEF BoardsInv, BoardsTyped
  <2>6. DoneOf(d)' = {}
    BY <2>2, <2>3 DEF DoneOf
  <2>7. \A x \in Dashboards \ {d} : DoneOf(x)' = DoneOf(x)
    BY <1>1, <2>2, <2>3, DashboardsAssumption DEF DoneOf, Nothing
  <2>8. AllAreLoaded'
    BY <1>1, <1>3, <1>6, <2>1, <2>3 DEF BoardsInv, AllAreLoaded
  <2>9. CardsAreThere'
    <3> SUFFICES ASSUME NEW x \in Dashboards \ failed, loaded'[x] # Absent, NEW c \in DoneOf(x)'
                 PROVE  /\ NodeOf(x, c) \in cards
                        /\ \A e \in c[3] \intersect present : <<NodeOf(x, c), e>> \in displays
      BY <1>1, <2>1, Zenon DEF CardsAreThere, NodeOf
    <3>1. x # d /\ loaded[x] # Absent /\ c \in DoneOf(x)
      BY <2>3, <2>6, <2>7
    <3> QED  BY <1>3, <3>1 DEF BoardsInv, CardsAreThere
  <2>10. NoOthers'
    <3> SUFFICES ASSUME "rebuild" \in {running, synced}
                 PROVE  /\ \A x \in cards : x[1] \notin failed =>
                               loaded'[x[1]] # Absent /\ \E c \in DoneOf(x[1])' : x = NodeOf(x[1], c)
                        /\ \A r \in displays : r[1][1] \notin failed =>
                               \E c \in DoneOf(r[1][1])' : r[1] = NodeOf(r[1][1], c) /\ r[2] \in c[3]
      BY <1>1, <2>1, Zenon DEF NoOthers, NodeOf
    <3>1. \A x \in cards : x[1] \notin failed => x[1] \in Dashboards \ {d}
      BY <1>4 DEF BoardsInv, BoardsTyped, DashboardsTypeOK
    <3>2. \A r \in displays : r[1][1] \notin failed => r[1][1] \in Dashboards \ {d}
      BY <3>1 DEF BoardsInv, BoardsTyped, DashboardsTypeOK
    <3> QED  BY <3>1, <3>2, <2>3, <2>7 DEF BoardsInv, NoOthers
  <2> QED  BY <2>5, <2>8, <2>9, <2>10 DEF BoardsInv
<1> QED  BY <1>5, <1>6

\* A card that was written is done with, and nothing else is.
LEMMA WriteCardKeeps == ASSUME BoardsInv, NEW c \in current.cards, WriteCard(c) PROVE BoardsInv'
<1>0. PICK d : d = current.dashboard
  OBVIOUS
<1> DEFINE node == NodeOf(d, c)
<1>1. /\ current' = [current EXCEPT !.cards = @ \ {c}]
      /\ cards' = cards \union {node}
      /\ displays' = displays \union {<<node, e>> : e \in c[3] \intersect present}
      /\ UNCHANGED <<config, present, running, waiting, loaded, failed, synced>>
  BY <1>0 DEF WriteCard, Joined, NodeOf
<1>2. /\ current = [dashboard |-> d, cards |-> current.cards] /\ d \in Dashboards /\ d # Absent
      /\ loaded[d] # Absent /\ current.cards \subseteq Cards(loaded[d]) /\ current # Nothing
  BY <1>0, DashboardsAssumption DEF BoardsInv, BoardsTyped, Nothing
<1>3. /\ current' = [dashboard |-> d, cards |-> current.cards \ {c}]
      /\ current'.dashboard = d /\ current'.cards = current.cards \ {c}
  BY <1>1, <1>2
<1>4. /\ DoneOf(d)' = DoneOf(d) \union {c}
      /\ \A x : x # d => DoneOf(x)' = DoneOf(x)
      /\ node[1] = d
  BY <1>0, <1>1, <1>2, <1>3 DEF DoneOf, NodeOf
<1> HIDE DEF node
<1>5. BoardsTyped'
  <2>1. \A r \in displays' : r[1] \in cards' /\ r[2] \in present'
    BY <1>1 DEF BoardsInv, BoardsTyped, DashboardsTypeOK
  <2>2. \A x \in cards' : x[1] \in Dashboards
    BY <1>1, <1>2, <1>4 DEF BoardsInv, BoardsTyped, DashboardsTypeOK
  <2>3. DashboardsTypeOK'
    BY <1>1, <1>2, <1>3, <2>1, <2>2 DEF BoardsInv, BoardsTyped, DashboardsTypeOK
  <2>4. running # "none"
    BY <1>2 DEF BoardsInv, BoardsTyped
  <2> QED  BY <1>1, <1>2, <1>3, <2>3, <2>4 DEF BoardsInv, BoardsTyped
<1>6. AllAreLoaded'
  BY <1>1 DEF BoardsInv, AllAreLoaded, Recent
<1>7. CardsAreThere'
  <2> SUFFICES ASSUME Recent, NEW x \in Dashboards \ failed, loaded[x] # Absent, NEW z \in DoneOf(x)'
               PROVE  /\ NodeOf(x, z) \in cards'
                      /\ \A e \in z[3] \intersect present : <<NodeOf(x, z), e>> \in displays'
    BY <1>1, Zenon DEF CardsAreThere, NodeOf, Recent
  <2>1. CASE z \in DoneOf(x)
    BY <1>1, <2>1 DEF BoardsInv, CardsAreThere
  <2>2. CASE z \notin DoneOf(x)
    <3>1. x = d /\ z = c
      BY <1>4, <2>2
    <3> QED  BY <1>1, <3>1 DEF node
  <2> QED  BY <2>1, <2>2
<1>8. NoOthers'
  <2> SUFFICES ASSUME "rebuild" \in {running, synced}
               PROVE  /\ \A x \in cards' : x[1] \notin failed =>
                             loaded[x[1]] # Absent /\ \E z \in DoneOf(x[1])' : x = NodeOf(x[1], z)
                      /\ \A r \in displays' : r[1][1] \notin failed =>
                             \E z \in DoneOf(r[1][1])' : r[1] = NodeOf(r[1][1], z) /\ r[2] \in z[3]
    BY <1>1, Zenon DEF NoOthers, NodeOf
  <2>1. \A x : DoneOf(x) \subseteq DoneOf(x)'
    BY <1>4
  <2>2. c \in DoneOf(d)' /\ node = NodeOf(d, c) /\ node[1] = d /\ loaded[d] # Absent
    BY <1>2, <1>4 DEF node
  <2>3. ASSUME NEW x \in cards', x[1] \notin failed
        PROVE  loaded[x[1]] # Absent /\ \E z \in DoneOf(x[1])' : x = NodeOf(x[1], z)
    <3>1. CASE x \in cards
      BY <2>1, <2>3, <3>1 DEF BoardsInv, NoOthers
    <3>2. CASE x = node
      BY <2>2, <3>2
    <3> QED  BY <1>1, <2>3, <3>1, <3>2
  <2>4. ASSUME NEW r \in displays', r[1][1] \notin failed
        PROVE  \E z \in DoneOf(r[1][1])' : r[1] = NodeOf(r[1][1], z) /\ r[2] \in z[3]
    <3>1. CASE r \in displays
      BY <2>1, <2>4, <3>1 DEF BoardsInv, NoOthers
    <3>2. CASE r \notin displays
      <4>1. PICK e \in c[3] \intersect present : r = <<node, e>>
        BY <1>1, <2>4, <3>2
      <4> QED  BY <2>2, <4>1
    <3> QED  BY <3>1, <3>2
  <2> QED  BY <2>3, <2>4
<1> QED  BY <1>5, <1>6, <1>7, <1>8 DEF BoardsInv

\* After a failed write nothing more is claimed of the dashboard.
LEMMA LostCardKeeps == BoardsInv /\ WriteFails => BoardsInv'
<1> SUFFICES ASSUME BoardsInv, WriteFails PROVE BoardsInv'
  OBVIOUS
<1> DEFINE d == current.dashboard
           Effect ==
      /\ waiting' = waiting
      /\ \/ current' = Nothing
         \/ current' = [dashboard |-> d, cards |-> current'.cards] /\ current'.cards \subseteq current.cards
      /\ cards \subseteq cards' /\ \A x \in cards' \ cards : x[1] = d
      /\ displays \subseteq displays'
      /\ \A r \in displays' \ displays : r[1][1] = d /\ r[1] \in cards' /\ r[2] \in present
<1>1. /\ d # Absent /\ failed' = failed \union {d}
      /\ UNCHANGED <<config, present, running, loaded, synced>>
  BY DEF WriteFails
<1>2. /\ current = [dashboard |-> d, cards |-> current.cards] /\ d \in Dashboards
      /\ loaded[d] # Absent /\ current.cards \subseteq Cards(loaded[d])
  BY <1>1 DEF BoardsInv, BoardsTyped, Nothing
<1>3. Effect
  <2>1. ASSUME NEW c \in current.cards,
               current' = [current EXCEPT !.cards = @ \ {c}],
               cards' = cards \union {<<d, c[1], c[2]>>},
               NEW e \in Joined(c[3]),
               displays' = displays \union {<<<<d, c[1], c[2]>>, x>> : x \in Joined(c[3]) \ {e}},
               waiting' = waiting
        PROVE  Effect
    <3>1. current' = [dashboard |-> d, cards |-> current.cards \ {c}]
      BY <1>2, <2>1
    <3>2. current' = [dashboard |-> d, cards |-> current'.cards] /\ current'.cards \subseteq current.cards
      BY <3>1
    <3> QED  BY <2>1, <3>2 DEF Joined
  <2>2. ASSUME NEW c \in current.cards, cards' \in {cards, cards \union {<<d, c[1], c[2]>>}},
               SkipDashboard, displays' = displays
        PROVE  Effect
    BY <2>2 DEF SkipDashboard
  <2> QED  BY <2>1, <2>2 DEF WriteFails
<1>4. \A x : x # d => DoneOf(x)' = DoneOf(x)
  <2> SUFFICES ASSUME NEW x, x # d PROVE DoneOf(x)' = DoneOf(x)
    OBVIOUS
  <2>1. current'.dashboard = x => current'.cards = {}
    BY <1>3 DEF Nothing
  <2> QED  BY <1>1, <2>1 DEF DoneOf
<1> HIDE DEF d
<1>5. BoardsTyped'
  <2>1. \A r \in displays' : r[1] \in cards' /\ r[2] \in present'
    BY <1>1, <1>3 DEF BoardsInv, BoardsTyped, DashboardsTypeOK
  <2>2. \A x \in cards' : x[1] \in Dashboards
    BY <1>2, <1>3 DEF BoardsInv, BoardsTyped, DashboardsTypeOK
  <2>3. /\ current'.dashboard = Absent => current'.cards = {}
        /\ current'.dashboard # Absent => loaded'[current'.dashboard] # Absent
    BY <1>1, <1>2, <1>3 DEF Nothing
  <2>4. DashboardsTypeOK'
    BY <1>1, <1>2, <1>3, <2>1, <2>2, <2>3 DEF BoardsInv, BoardsTyped, DashboardsTypeOK
  <2>5. running # "none"
    BY <1>1, <1>2 DEF BoardsInv, BoardsTyped, Nothing
  <2>6. (\/ current = Nothing
         \/ /\ current = [dashboard |-> current.dashboard, cards |-> current.cards]
            /\ current.dashboard \in Dashboards /\ loaded[current.dashboard] # Absent
            /\ current.cards \subseteq Cards(loaded[current.dashboard]))'
    BY <1>1, <1>2, <1>3 DEF Nothing
  <2> QED  BY <1>1, <1>3, <2>4, <2>5, <2>6 DEF BoardsInv, BoardsTyped
<1>6. AllAreLoaded'
  BY <1>1, <1>3 DEF BoardsInv, AllAreLoaded, Recent
<1>7. CardsAreThere'
  <2> SUFFICES ASSUME Recent, NEW x \in Dashboards \ failed', loaded[x] # Absent, NEW z \in DoneOf(x)'
               PROVE  /\ NodeOf(x, z) \in cards'
                      /\ \A e \in z[3] \intersect present : <<NodeOf(x, z), e>> \in displays'
    BY <1>1, Zenon DEF CardsAreThere, NodeOf, Recent
  <2>1. x # d /\ x \in Dashboards \ failed /\ z \in DoneOf(x)
    BY <1>1, <1>4
  <2> QED  BY <1>3, <2>1 DEF BoardsInv, CardsAreThere
<1>8. NoOthers'
  <2> SUFFICES ASSUME "rebuild" \in {running, synced}
               PROVE  /\ \A x \in cards' : x[1] \notin failed' =>
                             loaded[x[1]] # Absent /\ \E z \in DoneOf(x[1])' : x = NodeOf(x[1], z)
                      /\ \A r \in displays' : r[1][1] \notin failed' =>
                             \E z \in DoneOf(r[1][1])' : r[1] = NodeOf(r[1][1], z) /\ r[2] \in z[3]
    BY <1>1, Zenon DEF NoOthers, NodeOf
  <2>1. \A x \in cards' : x[1] \notin failed' => x \in cards /\ x[1] # d /\ x[1] \notin failed
    BY <1>1, <1>3
  <2>2. \A r \in displays' : r[1][1] \notin failed' => r \in displays /\ r[1][1] # d /\ r[1][1] \notin failed
    BY <1>1, <1>3
  <2> QED  BY <1>4, <2>1, <2>2 DEF BoardsInv, NoOthers
<1> QED  BY <1>5, <1>6, <1>7, <1>8 DEF BoardsInv

LEMMA DoneBoardKeeps == BoardsInv /\ DashboardDone => BoardsInv'
<1> SUFFICES ASSUME BoardsInv, DashboardDone PROVE BoardsInv'
  OBVIOUS
<1>1. /\ current.dashboard # Absent /\ current.cards = {} /\ current' = Nothing
      /\ UNCHANGED <<config, present, cards, displays, running, waiting, loaded, failed, synced>>
  BY DEF DashboardDone, displayed
<1>2. \A x : DoneOf(x)' = DoneOf(x)
  BY <1>1 DEF DoneOf, Nothing
<1>3. running # "none"
  BY <1>1 DEF BoardsInv, BoardsTyped, Nothing
<1>4. BoardsTyped'
  BY <1>1, <1>3 DEF BoardsInv, BoardsTyped, DashboardsTypeOK, Nothing
<1>5. AllAreLoaded' /\ CardsAreThere' /\ NoOthers'
  BY <1>1, <1>2 DEF BoardsInv, AllAreLoaded, CardsAreThere, NoOthers, Recent
<1> QED  BY <1>4, <1>5 DEF BoardsInv

LEMMA EndBoardsKeeps == BoardsInv /\ EndDashboards => BoardsInv'
<1> SUFFICES ASSUME BoardsInv, EndDashboards PROVE BoardsInv'
  OBVIOUS
<1>1. /\ running # "none" /\ waiting = {} /\ current = Nothing /\ running' = "none" /\ synced' = running
      /\ UNCHANGED <<config, present, cards, displays, waiting, current, loaded, failed>>
  BY DEF EndDashboards, displayed
<1>2. \A x : DoneOf(x)' = DoneOf(x)
  BY <1>1 DEF DoneOf
<1>3. running \in Syncs /\ synced = "none"
  BY <1>1 DEF BoardsInv, BoardsTyped, DashboardsTypeOK
<1>4. BoardsTyped'
  BY <1>1, <1>3 DEF BoardsInv, BoardsTyped, DashboardsTypeOK, Nothing, Syncs
<1>5. Recent /\ Recent' /\ ("rebuild" \in {running', synced'} <=> "rebuild" \in {running, synced})
  BY <1>1, <1>3 DEF Recent
<1>6. AllAreLoaded' /\ CardsAreThere' /\ NoOthers'
  BY <1>1, <1>2, <1>5 DEF BoardsInv, AllAreLoaded, CardsAreThere, NoOthers
<1> QED  BY <1>4, <1>6 DEF BoardsInv

LEMMA BoardsStep == BoardsInv /\ [DashboardsNext]_dashboardVars => BoardsInv'
<1> SUFFICES ASSUME BoardsInv, [DashboardsNext]_dashboardVars PROVE BoardsInv'
  OBVIOUS
<1>1. CASE UNCHANGED dashboardVars
  <2>1. UNCHANGED <<config, present, cards, displays, running, waiting, current, loaded, failed, synced>>
    BY <1>1 DEF dashboardVars, displayed, copying
  <2>2. BoardsTyped'
    BY <2>1 DEF BoardsInv, BoardsTyped, DashboardsTypeOK, Nothing
  <2>3. AllAreLoaded' /\ CardsAreThere' /\ NoOthers'
    BY <2>1 DEF BoardsInv, AllAreLoaded, CardsAreThere, NoOthers, Recent, DoneOf
  <2> QED  BY <2>2, <2>3 DEF BoardsInv
<1>2. CASE DashboardsNext
  BY <1>2, EditBoardKeeps, LoadBoardKeeps, EntityBoardKeeps, BeginBoardsKeeps, WriteCardKeeps, LostCardKeeps, DoneBoardKeeps, EndBoardsKeeps
  DEF DashboardsNext
<1> QED  BY <1>1, <1>2

\* Of a dashboard that was written, all cards are done with.
LEMMA WrittenIsDone ==
    ASSUME BoardsInv, NEW d \in Written
    PROVE  /\ synced # "none" /\ d \in Dashboards \ failed
           /\ loaded[d] # Absent /\ loaded[d] \in Configs /\ DoneOf(d) = Cards(loaded[d])
<1>1. synced # "none" /\ d \in Dashboards \ failed
  BY DEF Written
<1>2. running = "none" /\ waiting = {} /\ current = Nothing /\ Recent
  BY <1>1 DEF BoardsInv, BoardsTyped, Recent
<1>3. loaded[d] # Absent /\ loaded[d] \in Configs
  BY <1>1, <1>2 DEF BoardsInv, BoardsTyped, AllAreLoaded
<1>4. current.dashboard # d
  BY <1>1, <1>2, DashboardsAssumption DEF Nothing
<1> QED  BY <1>1, <1>3, <1>4 DEF DoneOf

\* The node of a position, and what it displays after a rebuild.
LEMMA NodesAre ==
    ASSUME BoardsInv, synced = "rebuild", NEW d \in Written, NEW v \in DOMAIN loaded[d]
    PROVE  /\ \A p \in Positions(loaded[d][v]) :
                  /\ <<d, v, PlaceOf(loaded[d][v], p)>> \in cards
                  /\ DisplayedBy(<<d, v, PlaceOf(loaded[d][v], p)>>) = CardAt(loaded[d][v], p) \intersect present
           /\ \A x \in cards : x[1] = d /\ x[2] = v =>
                  \E p \in Positions(loaded[d][v]) : x = <<d, v, PlaceOf(loaded[d][v], p)>>
<1> DEFINE view == loaded[d][v]
           Node(p) == <<d, v, PlaceOf(view, p)>>
<1>1. /\ d \in Dashboards \ failed /\ loaded[d] # Absent /\ loaded[d] \in Configs
      /\ DoneOf(d) = Cards(loaded[d])
  BY WrittenIsDone
<1>2. view \in View
  BY <1>1, CardsAre
<1>3. \A x : x \in Cards(loaded[d]) <=>
          \E w \in DOMAIN loaded[d] : \E p \in Positions(loaded[d][w]) :
              x = <<w, PlaceOf(loaded[d][w], p), CardAt(loaded[d][w], p)>>
  BY <1>1, CardsAre
<1>4. Recent /\ "rebuild" \in {running, synced}
  BY DEF Recent
<1>5. ASSUME NEW p \in Positions(view)
      PROVE  /\ Node(p) \in cards
             /\ \A e \in CardAt(view, p) \intersect present : <<Node(p), e>> \in displays
  <2> DEFINE c == <<v, PlaceOf(view, p), CardAt(view, p)>>
  <2>1. c \in DoneOf(d)
    BY <1>1, <1>3
  <2>2. NodeOf(d, c) = Node(p) /\ c[3] = CardAt(view, p)
    BY DEF NodeOf
  <2> HIDE DEF c, Node
  <2> QED  BY <1>1, <1>4, <2>1, <2>2 DEF BoardsInv, CardsAreThere
<1>6. ASSUME NEW x, x[1] = d, x[2] = v, NEW c \in DoneOf(d), x = NodeOf(d, c)
      PROVE  \E p \in Positions(view) : x = Node(p) /\ c[3] = CardAt(view, p)
  <2>1. PICK w \in DOMAIN loaded[d] : \E p \in Positions(loaded[d][w]) :
            c = <<w, PlaceOf(loaded[d][w], p), CardAt(loaded[d][w], p)>>
    BY <1>1, <1>3, <1>6
  <2>2. PICK p \in Positions(loaded[d][w]) :
            c = <<w, PlaceOf(loaded[d][w], p), CardAt(loaded[d][w], p)>>
    BY <2>1
  <2>3. w = v
    BY <1>6, <2>2 DEF NodeOf
  <2>4. x = Node(p) /\ c[3] = CardAt(view, p)
    BY <1>6, <2>2, <2>3 DEF NodeOf
  <2> QED  BY <2>3, <2>4
<1>7. ASSUME NEW x \in cards, x[1] = d, x[2] = v
      PROVE  \E p \in Positions(view) : x = Node(p)
  <2>1. PICK c \in DoneOf(d) : x = NodeOf(d, c)
    BY <1>1, <1>4, <1>7 DEF BoardsInv, NoOthers
  <2> QED  BY <1>6, <1>7, <2>1
<1>8. ASSUME NEW p \in Positions(view), NEW r \in displays, r[1] = Node(p)
      PROVE  r[2] \in CardAt(view, p) \intersect present
  <2>1. Node(p)[1] = d /\ Node(p)[2] = v /\ Node(p)[3] = PlaceOf(view, p)
    OBVIOUS
  <2>4. r[2] \in present
    BY DEF BoardsInv, BoardsTyped, DashboardsTypeOK
  <2>5. PICK c \in DoneOf(d) : r[1] = NodeOf(d, c) /\ r[2] \in c[3]
    BY <1>1, <1>4, <1>8, <2>1 DEF BoardsInv, NoOthers
  <2>6. PICK q \in Positions(view) : Node(p) = Node(q) /\ c[3] = CardAt(view, q)
    BY <1>6, <1>8, <2>1, <2>5
  <2>7. q = p
    BY <1>2, <2>6, PlacesDiffer
  <2> QED  BY <2>4, <2>5, <2>6, <2>7
<1>9. ASSUME NEW p \in Positions(view)
      PROVE  DisplayedBy(Node(p)) = CardAt(view, p) \intersect present
  <2>1. ASSUME NEW e \in DisplayedBy(Node(p)) PROVE e \in CardAt(view, p) \intersect present
    <3>1. PICK r \in displays : r[1] = Node(p) /\ e = r[2]
      BY <2>1 DEF DisplayedBy
    <3> QED  BY <1>8, <3>1
  <2>2. ASSUME NEW e \in CardAt(view, p) \intersect present PROVE e \in DisplayedBy(Node(p))
    <3>1. <<Node(p), e>> \in displays
      BY <1>5
    <3> QED  BY <3>1 DEF DisplayedBy
  <2> QED  BY <2>1, <2>2
<1> QED  BY <1>5, <1>7, <1>9

LEMMA CardsHaveNodes == BoardsInv => EveryCardHasItsNode
<1> SUFFICES ASSUME BoardsInv, synced = "rebuild",
                    NEW d \in Written, NEW v \in UNION {DOMAIN c : c \in Configs},
                    NEW entities \in SUBSET present
             PROVE  Cardinality({c \in cards : c[1] = d /\ c[2] = v /\ DisplayedBy(c) = entities}) =
                        (IF v \in DOMAIN loaded[d] THEN Cardinality(ShownWith(loaded[d][v], entities)) ELSE 0)
  BY DEF EveryCardHasItsNode
<1> DEFINE Those == {c \in cards : c[1] = d /\ c[2] = v /\ DisplayedBy(c) = entities}
<1>1. /\ d \in Dashboards \ failed /\ loaded[d] # Absent /\ loaded[d] \in Configs
      /\ DoneOf(d) = Cards(loaded[d])
  BY WrittenIsDone
<1>2. CASE v \notin DOMAIN loaded[d]
  <2>0. \A c \in Cards(loaded[d]) : \E w \in DOMAIN loaded[d] : \E p \in Positions(loaded[d][w]) :
            c = <<w, PlaceOf(loaded[d][w], p), CardAt(loaded[d][w], p)>>
    BY <1>1, CardsAre
  <2>1. ASSUME NEW x \in Those PROVE FALSE
    <3>1. PICK c \in Cards(loaded[d]) : x = NodeOf(d, c)
      BY <1>1 DEF BoardsInv, NoOthers
    <3>2. PICK w \in DOMAIN loaded[d] : \E p \in Positions(loaded[d][w]) :
              c = <<w, PlaceOf(loaded[d][w], p), CardAt(loaded[d][w], p)>>
      BY <2>0
    <3> QED  BY <1>2, <3>1, <3>2 DEF NodeOf
  <2>2. Those = {}
    BY <2>1
  <2> QED  BY <1>2, <2>2, FS_EmptySet
<1>3. CASE v \in DOMAIN loaded[d]
  <2> DEFINE view == loaded[d][v]
             S == ShownWith(view, entities)
             f == [p \in S |-> <<d, v, PlaceOf(view, p)>>]
  <2>1. view \in View
    BY <1>1, <1>3, CardsAre
  <2>2. IsFiniteSet(S)
    BY <2>1, PositionsFinite, FS_Subset DEF ShownWith
  <2>3. /\ \A p \in Positions(view) :
               /\ <<d, v, PlaceOf(view, p)>> \in cards
               /\ DisplayedBy(<<d, v, PlaceOf(view, p)>>) = CardAt(view, p) \intersect present
        /\ \A x \in cards : x[1] = d /\ x[2] = v =>
               \E p \in Positions(view) : x = <<d, v, PlaceOf(view, p)>>
    BY <1>3, NodesAre
  <2> HIDE DEF view
  <2>4. ASSUME NEW p \in S PROVE <<d, v, PlaceOf(view, p)>> \in Those
    BY <2>3 DEF ShownWith
  <2>5. ASSUME NEW x \in Those PROVE \E p \in S : x = <<d, v, PlaceOf(view, p)>>
    <3>1. PICK p \in Positions(view) : x = <<d, v, PlaceOf(view, p)>>
      BY <2>3
    <3> QED  BY <2>3, <3>1 DEF ShownWith
  <2>6. ASSUME NEW p \in S, NEW q \in S, PlaceOf(view, p) = PlaceOf(view, q) PROVE p = q
    BY <2>1, <2>6, PlacesDiffer DEF ShownWith
  <2> HIDE DEF S, Those
  <2>7. f \in [S -> Those]
    BY <2>4
  <2>8. \A p, q \in S : f[p] = f[q] => p = q
    BY <2>6
  <2>9. \A x \in Those : \E p \in S : f[p] = x
    BY <2>5
  <2> HIDE DEF f
  <2>10. ExistsBijection(S, Those)
    BY <2>7, <2>8, <2>9 DEF ExistsBijection, Bijection, Injection, Surjection, IsInjective
  <2>11. Cardinality(Those) = Cardinality(S)
    BY <2>2, <2>10, FS_Bijection
  <2> QED  BY <1>3, <2>11 DEF S, Those, view
<1> QED  BY <1>2, <1>3

LEMMA ShownIsDisplayed == BoardsInv => ShownIsFound
<1> SUFFICES ASSUME BoardsInv, NEW d \in Written, NEW e \in Shown(loaded[d]) \intersect present
             PROVE  \E c \in cards : c[1] = d /\ e \in DisplayedBy(c)
  BY DEF ShownIsFound
<1>1. /\ synced # "none" /\ d \in Dashboards \ failed /\ loaded[d] # Absent /\ loaded[d] \in Configs
      /\ DoneOf(d) = Cards(loaded[d])
  BY WrittenIsDone
<1>2. PICK v \in DOMAIN loaded[d] : \E q \in Positions(loaded[d][v]) : e \in CardAt(loaded[d][v], q)
  BY <1>1, ShownIsOnCard
<1> PICK p \in Positions(loaded[d][v]) : e \in CardAt(loaded[d][v], p)
  BY <1>2
<1> DEFINE c == <<v, PlaceOf(loaded[d][v], p), CardAt(loaded[d][v], p)>>
<1>3. c \in DoneOf(d)
  BY <1>1, CardsAre
<1>4. e \in c[3]
  OBVIOUS
<1> HIDE DEF c
<1>5. Recent
  BY <1>1 DEF Recent
<1>6. NodeOf(d, c) \in cards /\ <<NodeOf(d, c), e>> \in displays
  BY <1>1, <1>3, <1>4, <1>5 DEF BoardsInv, CardsAreThere
<1>7. NodeOf(d, c)[1] = d /\ e \in DisplayedBy(NodeOf(d, c))
  BY <1>6 DEF NodeOf, DisplayedBy
<1> QED  BY <1>6, <1>7

LEMMA WrittenIsLoaded == BoardsInv => OthersStillSynced
  BY WrittenIsDone DEF OthersStillSynced

\* Whatever users edit, whatever fails and whatever comes and goes: after a
\* sync every dashboard that could be loaded and written is in the graph, and
\* after a rebuild each of its cards has one node, with what it mentions.
THEOREM CardsAreAlwaysKept == DashboardsSpec => []CardsAreKept
<1>1. BoardsInv => CardsAreKept
  BY CardsHaveNodes, ShownIsDisplayed, WrittenIsLoaded DEF CardsAreKept, BoardsInv, BoardsTyped
<1> QED  BY <1>1, BoardsStart, BoardsStep, PTL DEF DashboardsSpec
=============================================================================
