---------------------------- MODULE RecordsProofs ----------------------------
(***************************************************************************)
(* What is kept for a time, of any length.                                 *)
(*                                                                         *)
(* Findings, for any targets and categories, any number of runs, failures  *)
(* and rebuilds: they expire with their issue, none is deleted before it   *)
(* was resolved for a run, and the reported counts are those in the graph. *)
(*                                                                         *)
(* Counters, for every window and every length of the run: the ring holds  *)
(* of each of the last minutes what was recorded under it, and never what  *)
(* an older minute left there.  The argument is arithmetic: two minutes    *)
(* less than a window apart have different buckets, and the minutes of a   *)
(* window have all the buckets there are.                                  *)
(*                                                                         *)
(* The log of agents, for any number of calls: the appends and the sweep   *)
(* replace the whole store under no lock, so the invariant says of every   *)
(* list on its way to the store what it says of the store: whose records   *)
(* it has, that they are true, and that what is due is in it, unless the   *)
(* call is marked as overlapped.                                           *)
(***************************************************************************)
EXTENDS Validation, SyncActivity, AgentAudit, FiniteSetTheorems, TLAPS

(***************************************************************************)
(* Findings                                                                *)
(***************************************************************************)

Reconciling == phase \in {"merge", "delete", "resolve"}

\* A stamp names a run that began, and the run at hand has not stamped the
\* categories it has yet to resolve.
StampsInOrder ==
    /\ \A c \in Categories, t \in Targets :
          /\ resolvedAt[c][t] <= run
          /\ status[c][t] = "resolved" => resolvedAt[c][t] > 0
    /\ phase # "idle" =>
          /\ run > 0
          /\ \A i \in DOMAIN Checks, t \in Targets :
                (phase = "detect" \/ i >= at) => resolvedAt[Checks[i]][t] < run

\* A run detects each category once.  When it is over, what it detected has
\* not been quiet.
DetectedOnce ==
    /\ phase = "detect" => \A i \in DOMAIN Checks : i >= at => detections[Checks[i]] = {}
    /\ phase = "idle" => \A c \in Categories, t \in Targets :
                            t \in detections[c] => quiet[c][t] = 0

\* Between merging and resolving a category: what was merged is open and
\* counted, and after the deletion nothing else is resolved.
CategoryAtHand ==
    /\ phase \in {"delete", "resolve"} =>
          /\ detectedIds \subseteq detections[Here]
          /\ \A t \in detectedIds : status[Here][t] = "open"
          /\ counts[Here] = Cardinality(detectedIds)
          /\ ~ current
    /\ phase = "resolve" =>
          \A t \in Targets : t \notin detectedIds => status[Here][t] # "resolved"

\* The categories the run is done with are in line with what it detected.
DoneInLine ==
    Reconciling =>
        \A i \in DOMAIN Checks : i < at =>
            /\ counts[Checks[i]] = Cardinality(OpenOnes(Checks[i]))
            /\ \A t \in Targets : t \notin detections[Checks[i]] =>
                  /\ status[Checks[i]][t] # "open"
                  /\ quiet[Checks[i]][t] > 0 => status[Checks[i]][t] = "none"

IInv ==
    /\ TypeOK
    /\ StampsInOrder
    /\ DetectedOnce
    /\ CategoryAtHand
    /\ DoneInLine
    /\ FindingsExpire
    /\ CountsMatchOpen

-----------------------------------------------------------------------------
(* The categories *)

\* The index of the category at hand is one of the checks, and tells it apart.
LEMMA ChecksFacts ==
    /\ Len(Checks) \in Nat \ {0}
    /\ DOMAIN Checks = 1..Len(Checks)
    /\ \A i \in DOMAIN Checks : Checks[i] \in Categories
    /\ \A c \in Categories : \E i \in DOMAIN Checks : Checks[i] = c
    /\ \A i, j \in DOMAIN Checks : Checks[i] = Checks[j] => i = j
<1>1. Checks \in Seq(Categories) /\ Checks # <<>>
  BY ValidationAssumption
<1>2. Len(Checks) \in Nat /\ DOMAIN Checks = 1..Len(Checks)
  BY <1>1
<1>3. Len(Checks) # 0
  BY <1>1
<1> QED
  BY <1>2, <1>3, ValidationAssumption DEF Categories

\* Sets of targets can be counted.
LEMMA TargetsCount == ASSUME NEW S \in SUBSET Targets PROVE Cardinality(S) \in Nat
<1>1. IsFiniteSet(S)
  BY ValidationAssumption, FS_Subset
<1> QED
  BY <1>1, FS_CardinalityType

\* A fresh installation satisfies the invariant.
LEMMA InitIInv == Init => IInv
<1> SUFFICES ASSUME Init PROVE IInv
  OBVIOUS
<1> USE ChecksFacts DEF Init, Nothing, Zero
<1>1. TypeOK
  BY DEF TypeOK
<1>2. StampsInOrder /\ DetectedOnce /\ CategoryAtHand /\ DoneInLine /\ FindingsExpire
  BY DEF StampsInOrder, DetectedOnce, CategoryAtHand, DoneInLine, Reconciling,
         FindingsExpire
<1>3. CountsMatchOpen
  <2>1. \A c \in Categories : OpenOnes(c) = {}
    BY DEF OpenOnes
  <2> QED
    BY <2>1, FS_EmptySet DEF CountsMatchOpen
<1> QED
  BY <1>1, <1>2, <1>3 DEF IInv

-----------------------------------------------------------------------------
(* One lemma for each way a step can end *)

\* A run begins with nothing detected.
LEMMA BeginKeeps == ASSUME IInv, Begin PROVE IInv'
<1> USE ChecksFacts DEF IInv, Begin, findingVars, Nothing, Zero
<1>1. TypeOK'
  BY DEF TypeOK
<1>2. StampsInOrder'
  BY DEF StampsInOrder, TypeOK
<1>3. DetectedOnce' /\ CategoryAtHand' /\ DoneInLine'
  BY DEF DetectedOnce, CategoryAtHand, DoneInLine, Reconciling
<1>4. FindingsExpire'
  BY DEF FindingsExpire, DetectedOnce, TypeOK
<1>5. CountsMatchOpen'
  BY DEF CountsMatchOpen, OpenOnes
<1> QED
  BY <1>1, <1>2, <1>3, <1>4, <1>5

\* What ends a run early: the findings are as they should be for the targets
\* that were not detected, and the others are no longer quiet.
LEMMA StopKeeps ==
    ASSUME IInv, Stop, UNCHANGED <<detections>>,
           TypeOK',
           \A c \in Categories, t \in Targets :
              /\ resolvedAt'[c][t] <= run
              /\ status'[c][t] = "resolved" => resolvedAt'[c][t] > 0
              /\ t \notin detections[c] =>
                    /\ status'[c][t] = "open" => status[c][t] = "open"
                    /\ status[c][t] = "none" => status'[c][t] = "none",
           CountsMatchOpen'
    PROVE  IInv'
<1> USE DEF IInv, Stop
<1>1. StampsInOrder'
  BY DEF StampsInOrder
<1>2. DetectedOnce'
  BY DEF DetectedOnce, TypeOK
<1>3. CategoryAtHand' /\ DoneInLine'
  BY DEF CategoryAtHand, DoneInLine, Reconciling
<1>4. FindingsExpire'
  BY DEF FindingsExpire, TypeOK
<1> QED
  BY <1>1, <1>2, <1>3, <1>4

\* Stopping keeps the types of what it assigns.
LEMMA StopTyped ==
    ASSUME IInv, Stop
    PROVE  /\ failures' \in Nat /\ phase' = "idle" /\ at' \in DOMAIN Checks /\ run' = run
           /\ quiet' \in [Categories -> [Targets -> 0..2]]
  BY ChecksFacts DEF IInv, TypeOK, Stop

\* A detection reads; a failure leaves the findings alone.
LEMMA DetectKeeps == ASSUME IInv, Detect PROVE IInv'
<1> USE ChecksFacts DEF IInv, findingVars, Here
<1>0. phase = "detect" /\ UNCHANGED <<issue, status, resolvedAt, detectedIds, counts, current, changes>>
  BY DEF Detect
<1>a. CASE Abort /\ UNCHANGED detections
  <2>1. TypeOK'
    BY <1>0, <1>a, StopTyped DEF TypeOK, Abort
  <2>2. CountsMatchOpen'
    BY <1>0, <1>a DEF CountsMatchOpen, OpenOnes, Abort
  <2> QED
    BY <1>0, <1>a, <2>1, <2>2, StopKeeps DEF Abort, StampsInOrder
<1>b. CASE /\ detections' = [detections EXCEPT ![Here] = issue[Here]]
           /\ IF at < Len(Checks) THEN Goto("detect", at + 1) ELSE Goto("merge", 1)
  <2> USE <1>0, <1>b DEF Goto
  <2>1. TypeOK'
    <3>1. detections' \in [Categories -> SUBSET Targets]
      BY DEF TypeOK
    <3>2. at' \in DOMAIN Checks /\ phase' \in {"detect", "merge"}
      BY DEF TypeOK
    <3>3. UNCHANGED <<issue, status, resolvedAt, run, detectedIds, counts, reported, current, quiet,
                      failures, changes>>
      BY ONLY <1>0, <1>b DEF Goto
    <3> QED
      BY ONLY <3>1, <3>2, <3>3, IInv DEF IInv, TypeOK
  <2>2. StampsInOrder'
    <3>1. UNCHANGED <<run, status, resolvedAt>>
      BY ONLY <1>0, <1>b DEF Goto
    <3>2. \A i \in DOMAIN Checks, t \in Targets : resolvedAt[Checks[i]][t] < run
      BY DEF StampsInOrder
    <3> QED
      BY <3>1, <3>2 DEF StampsInOrder
  <2>3. DetectedOnce'
    <3>1. ASSUME phase' = "detect", NEW i \in DOMAIN Checks, i >= at'
          PROVE  detections'[Checks[i]] = {}
      <4>1. at' = at + 1 /\ i >= at /\ i # at
        BY <3>1 DEF TypeOK
      <4>2. Checks[i] # Checks[at] /\ detections[Checks[i]] = {}
        BY <4>1 DEF TypeOK, DetectedOnce
      <4> QED
        BY <4>2 DEF TypeOK
    <3> QED
      BY <3>1 DEF DetectedOnce
  <2>4. CategoryAtHand' /\ DoneInLine'
    BY DEF CategoryAtHand, DoneInLine, Reconciling
  <2>5. FindingsExpire'
    BY DEF FindingsExpire, DetectedOnce, TypeOK
  <2>6. CountsMatchOpen'
    <3>1. \A c \in Categories : OpenOnes(c)' = OpenOnes(c)
      BY DEF OpenOnes
    <3> QED
      BY <3>1 DEF CountsMatchOpen
  <2> QED
    BY <2>1, <2>2, <2>3, <2>4, <2>5, <2>6
<1> QED
  BY <1>a, <1>b DEF Detect

\* Only detected targets are merged, so that what expires is not touched.
LEMMA MergeKeeps == ASSUME IInv, Merge PROVE IInv'
<1> USE ChecksFacts DEF IInv, Here
<1>0. /\ phase = "merge" /\ phase' = "delete" /\ current' = FALSE
      /\ UNCHANGED <<issue, run, at, detections, reported, quiet, changes>>
  BY DEF Merge
<1>1. PICK ids \in SUBSET detections[Here], written \in SUBSET detections[Here] :
         /\ ids \subseteq written
         /\ Opened(written)
         /\ detectedIds' = ids
         /\ counts' = [counts EXCEPT ![Here] = Cardinality(ids)]
         /\ IF ids = detections[Here]
            THEN failures' = failures
            ELSE failures < MaxFailures /\ failures' = failures + 1
  BY DEF Merge
<1>2. Here \in Categories /\ ids \subseteq Targets /\ written \subseteq Targets
  BY <1>1 DEF TypeOK
<1>3. Cardinality(ids) \in Nat
  BY <1>2, TargetsCount
<1> USE <1>0, <1>1, <1>2, <1>3 DEF Opened
<1>4. TypeOK'
  <2>1. failures' \in Nat
    BY DEF TypeOK
  <2>2. status' \in [Categories -> [Targets -> {"none", "open", "resolved"}]]
    BY DEF TypeOK
  <2>3. resolvedAt' \in [Categories -> [Targets -> Nat]]
    BY DEF TypeOK
  <2> QED
    BY <2>1, <2>2, <2>3 DEF TypeOK
<1>5. StampsInOrder'
  BY DEF StampsInOrder, TypeOK
<1>6. DetectedOnce'
  BY DEF DetectedOnce
<1>7. CategoryAtHand'
  BY DEF CategoryAtHand, TypeOK
<1>8. DoneInLine'
  <2>1. ASSUME NEW i \in DOMAIN Checks, i < at
        PROVE  /\ Checks[i] # Checks[at] /\ status'[Checks[i]] = status[Checks[i]]
               /\ counts'[Checks[i]] = counts[Checks[i]]
    BY <2>1 DEF TypeOK
  <2>2. ASSUME NEW i \in DOMAIN Checks, i < at
        PROVE  OpenOnes(Checks[i])' = OpenOnes(Checks[i])
    BY <2>1, <2>2 DEF OpenOnes
  <2> QED
    BY <2>1, <2>2 DEF DoneInLine, Reconciling
<1>9. FindingsExpire'
  BY DEF FindingsExpire, TypeOK
<1> QED
  BY <1>4, <1>5, <1>6, <1>7, <1>8, <1>9 DEF CountsMatchOpen

\* The deletion takes resolved findings that were not merged.
LEMMA DeleteKeeps == ASSUME IInv, Delete PROVE IInv'
<1> USE ChecksFacts DEF IInv, Here
<1>0. /\ phase = "delete"
      /\ UNCHANGED <<issue, detections, detectedIds, counts, current, changes>>
  BY DEF Delete
<1>1. at \in DOMAIN Checks /\ Checks[at] \in Categories /\ at \in Nat
  BY DEF TypeOK
<1>2. Deleted \/ UNCHANGED findingVars
  BY DEF Delete
<1>3. status' \in [Categories -> [Targets -> {"none", "open", "resolved"}]]
  <2>1. CASE Deleted
    BY <1>1, <2>1 DEF TypeOK, Deleted
  <2> QED
    BY <1>2, <2>1 DEF TypeOK, findingVars
<1>4. resolvedAt' \in [Categories -> [Targets -> Nat]]
  <2>1. CASE Deleted
    BY <1>1, <2>1 DEF TypeOK, Deleted
  <2> QED
    BY <1>2, <2>1 DEF TypeOK, findingVars
<1>5. ASSUME NEW c \in Categories, NEW t \in Targets
      PROVE  \/ status'[c][t] = status[c][t] /\ resolvedAt'[c][t] = resolvedAt[c][t]
             \/ /\ status[c][t] = "resolved" /\ status'[c][t] = "none"
                /\ resolvedAt'[c][t] = 0
  <2>1. CASE c = Here /\ Deleted
    BY <1>1, <2>1 DEF TypeOK, Deleted, Expired
  <2>2. CASE c # Here /\ Deleted
    BY <1>1, <2>2 DEF TypeOK, Deleted
  <2> QED
    BY <1>2, <2>1, <2>2 DEF findingVars
<1>6. ASSUME NEW c \in Categories PROVE OpenOnes(c)' = OpenOnes(c)
  BY <1>5 DEF OpenOnes
<1>a. CASE Abort
  <2>1. TypeOK'
    BY <1>0, <1>3, <1>4, <1>a, StopTyped DEF TypeOK, Abort
  <2>2. CountsMatchOpen'
    BY <1>0, <1>6, <1>a DEF CountsMatchOpen, Abort
  <2> QED
    <3>1. ASSUME NEW c \in Categories, NEW t \in Targets
          PROVE  /\ resolvedAt'[c][t] <= run
                 /\ status'[c][t] = "resolved" => resolvedAt'[c][t] > 0
                 /\ status'[c][t] = "open" => status[c][t] = "open"
                 /\ status[c][t] = "none" => status'[c][t] = "none"
      BY <1>5 DEF StampsInOrder, TypeOK
    <3> QED
      BY <1>0, <1>a, <2>1, <2>2, <3>1, StopKeeps DEF Abort
<1>b. CASE ~ Abort
  <2>0. /\ Goto("resolve", at)
        /\ Deleted
    BY <1>b DEF Delete
  <2> USE <1>0, <2>0 DEF Goto
  <2>1. TypeOK'
    BY <1>3, <1>4 DEF TypeOK
  <2>2. StampsInOrder'
    <3>1. ASSUME NEW c \in Categories, NEW t \in Targets
          PROVE  /\ resolvedAt'[c][t] <= resolvedAt[c][t]
                 /\ resolvedAt'[c][t] \in Nat /\ resolvedAt[c][t] \in Nat
                 /\ status'[c][t] = "resolved" =>
                       status[c][t] = "resolved" /\ resolvedAt'[c][t] = resolvedAt[c][t]
      BY <1>5 DEF TypeOK
    <3>2. run \in Nat /\ run' = run /\ phase' = "resolve" /\ at' = at
      BY DEF TypeOK
    <3>3. ASSUME NEW c \in Categories, NEW t \in Targets
          PROVE  /\ resolvedAt'[c][t] <= run
                 /\ status'[c][t] = "resolved" => resolvedAt'[c][t] > 0
      BY <3>1, <3>2 DEF StampsInOrder
    <3>4. ASSUME NEW i \in DOMAIN Checks, NEW t \in Targets, i >= at
          PROVE  resolvedAt'[Checks[i]][t] < run
      BY <3>1, <3>2, <3>4 DEF StampsInOrder
    <3> QED
      BY <3>2, <3>3, <3>4 DEF StampsInOrder
  <2>3. DetectedOnce'
    BY DEF DetectedOnce
  <2>4. CategoryAtHand'
    <3>1. ASSUME NEW t \in Targets PROVE resolvedAt[Here][t] # run
      <4>1. resolvedAt[Checks[at]][t] < run
        BY <1>1 DEF StampsInOrder
      <4> QED
        BY <1>1, <4>1 DEF TypeOK
    <3>2. \A t \in Targets : t \notin detectedIds => status'[Here][t] # "resolved"
      BY <1>1, <3>1 DEF Deleted, Expired, TypeOK
    <3>3. \A t \in detectedIds : status'[Here][t] = "open"
      BY <1>1, <1>5 DEF CategoryAtHand, TypeOK
    <3> QED
      BY <3>2, <3>3 DEF CategoryAtHand
  <2>5. DoneInLine'
    BY <1>5, <1>6 DEF DoneInLine, Reconciling
  <2>6. FindingsExpire'
    BY <1>5 DEF FindingsExpire
  <2>7. CountsMatchOpen'
    BY <1>6 DEF CountsMatchOpen
  <2> QED
    BY <2>1, <2>2, <2>3, <2>4, <2>5, <2>6, <2>7
<1> QED
  BY <1>a, <1>b

\* The resolution takes what is open and was not merged, so that exactly the
\* merged findings of the category stay open.
LEMMA ResolveKeeps == ASSUME IInv, Resolve PROVE IInv'
<1> USE ChecksFacts DEF IInv, Here
<1>0. /\ phase = "resolve" /\ ~ current
      /\ UNCHANGED <<issue, detections, detectedIds, counts, changes>>
  BY DEF Resolve, CategoryAtHand
<1>1. at \in DOMAIN Checks /\ Checks[at] \in Categories /\ at \in Nat
  BY DEF TypeOK
<1>2. Resolved \/ UNCHANGED findingVars
  BY DEF Resolve
<1>3. /\ status' \in [Categories -> [Targets -> {"none", "open", "resolved"}]]
      /\ resolvedAt' \in [Categories -> [Targets -> Nat]]
  <2>1. CASE UNCHANGED findingVars
    BY <2>1 DEF TypeOK, findingVars
  <2>2. CASE Resolved
    BY <1>1, <2>2 DEF TypeOK, Resolved
  <2> QED
    BY <1>2, <2>1, <2>2
<1>4. ASSUME NEW c \in Categories, NEW t \in Targets
      PROVE  \/ status'[c][t] = status[c][t] /\ resolvedAt'[c][t] = resolvedAt[c][t]
             \/ /\ status[c][t] = "open" /\ status'[c][t] = "resolved"
                /\ resolvedAt'[c][t] = run
  <2>1. CASE c = Here /\ Resolved
    BY <1>1, <2>1 DEF TypeOK, Resolved, Lapsed
  <2>2. CASE c # Here /\ Resolved
    BY <1>1, <2>2 DEF TypeOK, Resolved
  <2> QED
    BY <1>2, <2>1, <2>2 DEF findingVars
<1>5. run > 0
  BY <1>0, <1>1 DEF StampsInOrder, TypeOK
<1>a. CASE Abort
  <2>0. current' = FALSE /\ current' \in BOOLEAN
    BY <1>0, <1>a DEF Resolve, Abort, Stop, Finish, Goto, TypeOK
  <2>1. TypeOK'
    BY <1>0, <1>3, <1>a, <2>0, StopTyped DEF TypeOK, Abort
  <2>2. CountsMatchOpen'
    BY <2>0 DEF CountsMatchOpen
  <2> QED
    <3>1. ASSUME NEW c \in Categories, NEW t \in Targets
          PROVE  /\ resolvedAt'[c][t] <= run
                 /\ status'[c][t] = "resolved" => resolvedAt'[c][t] > 0
                 /\ status'[c][t] = "open" => status[c][t] = "open"
                 /\ status[c][t] = "none" => status'[c][t] = "none"
      BY <1>4, <1>5 DEF StampsInOrder, TypeOK
    <3> QED
      BY <1>0, <1>a, <2>1, <2>2, <3>1, StopKeeps DEF Abort
<1>6. ASSUME NEW i \in DOMAIN Checks, i # at
      PROVE  /\ status'[Checks[i]] = status[Checks[i]]
             /\ resolvedAt'[Checks[i]] = resolvedAt[Checks[i]]
             /\ OpenOnes(Checks[i])' = OpenOnes(Checks[i])
  <2>1. Checks[i] # Checks[at] /\ Checks[i] \in Categories
    BY <1>1, <1>6
  <2>2. /\ status'[Checks[i]] = status[Checks[i]]
        /\ resolvedAt'[Checks[i]] = resolvedAt[Checks[i]]
    BY <1>1, <1>2, <2>1 DEF TypeOK, Resolved, findingVars
  <2> QED
    BY <2>2 DEF OpenOnes
<1>b. CASE Resolved /\ ~ Abort
  <2>1. ASSUME NEW t \in Targets
        PROVE  status'[Here][t] = "open" <=> t \in detectedIds
    BY <1>0, <1>1, <1>b DEF Resolved, Lapsed, CategoryAtHand, TypeOK
  <2>2. ASSUME NEW c \in Categories, c = Here PROVE OpenOnes(c)' = detectedIds
    BY <2>1, <2>2 DEF OpenOnes, TypeOK
  <2>3. ASSUME NEW i \in DOMAIN Checks, i <= at
        PROVE  /\ counts[Checks[i]] = Cardinality(OpenOnes(Checks[i])')
               /\ \A t \in Targets : t \notin detections[Checks[i]] =>
                     /\ status'[Checks[i]][t] # "open"
                     /\ quiet[Checks[i]][t] > 0 => status'[Checks[i]][t] = "none"
    <3>1. CASE i < at
      BY <1>0, <1>1, <1>6, <3>1 DEF DoneInLine, Reconciling
    <3>2. CASE i = at
      <4>1. OpenOnes(Checks[i])' = detectedIds /\ counts[Here] = Cardinality(detectedIds)
        BY <1>0, <1>1, <2>2, <3>2 DEF CategoryAtHand
      <4>2. ASSUME NEW t \in Targets, t \notin detections[Here]
            PROVE  /\ status'[Here][t] # "open"
                   /\ quiet[Here][t] > 0 => status'[Here][t] = "none"
        <5>1. t \notin detectedIds
          BY <1>0, <4>2 DEF CategoryAtHand
        <5>2. status[Here][t] # "resolved"
          BY <1>0, <5>1 DEF CategoryAtHand
        <5>3. quiet[Here][t] > 0 => status[Here][t] # "open"
          BY <1>1, <4>2 DEF FindingsExpire
        <5>4. status[Here][t] \in {"none", "open", "resolved"}
          BY <1>1 DEF TypeOK
        <5> QED
          BY <1>1, <1>4, <2>1, <5>1, <5>2, <5>3, <5>4
      <4> QED
        BY <3>2, <4>1, <4>2
    <3> QED
      BY <1>1, <2>3, <3>1, <3>2
  <2>4. ASSUME NEW c \in Categories, NEW t \in Targets
        PROVE  /\ resolvedAt'[c][t] <= run
               /\ status'[c][t] = "resolved" => resolvedAt'[c][t] > 0
    <3>1. run \in Nat /\ resolvedAt[c][t] <= run
      BY DEF StampsInOrder, TypeOK
    <3>2. status[c][t] = "resolved" => resolvedAt[c][t] > 0
      BY DEF StampsInOrder
    <3> QED
      BY <1>4, <1>5, <3>1, <3>2
  <2>5. ASSUME NEW c \in Categories, NEW t \in Targets, t \notin detections[c]
        PROVE  /\ quiet[c][t] > 0 => status'[c][t] # "open"
               /\ quiet[c][t] = 2 => status'[c][t] = "none"
    BY <1>4, <2>5 DEF FindingsExpire
  <2>a. CASE at < Len(Checks) /\ Goto("merge", at + 1) /\ UNCHANGED current
    <3> USE <1>0, <2>a DEF Goto
    <3>1. TypeOK'
      BY <1>1, <1>3 DEF TypeOK
    <3>2. StampsInOrder'
      <4>1. ASSUME NEW i \in DOMAIN Checks, NEW t \in Targets, i >= at + 1
            PROVE  resolvedAt'[Checks[i]][t] < run
        BY <1>1, <1>6, <4>1 DEF StampsInOrder
      <4> QED
        BY <1>5, <2>4, <4>1 DEF StampsInOrder
    <3>3. DetectedOnce' /\ CategoryAtHand'
      BY DEF DetectedOnce, CategoryAtHand
    <3>4. DoneInLine'
      BY <1>1, <2>3 DEF DoneInLine, Reconciling
    <3>5. FindingsExpire' /\ CountsMatchOpen'
      BY <2>5 DEF FindingsExpire, CountsMatchOpen
    <3> QED
      BY <3>1, <3>2, <3>3, <3>4, <3>5
  <2>b. CASE at = Len(Checks) /\ Finish
    <3> USE <1>0, <2>b DEF Finish
    <3>1. \A i \in DOMAIN Checks : i <= at
      BY DEF TypeOK
    <3>2. ASSUME NEW c \in Categories
          PROVE  /\ counts[c] = Cardinality(OpenOnes(c)')
                 /\ \A t \in Targets : t \notin detections[c] =>
                       /\ status'[c][t] # "open"
                       /\ quiet[c][t] > 0 => status'[c][t] = "none"
      BY <2>3, <3>1
    <3>3. TypeOK'
      BY <1>1, <1>3 DEF TypeOK
    <3>4. StampsInOrder'
      BY <2>4 DEF StampsInOrder
    <3>5. DetectedOnce' /\ CategoryAtHand' /\ DoneInLine'
      BY DEF DetectedOnce, CategoryAtHand, DoneInLine, Reconciling, TypeOK
    <3>6. FindingsExpire'
      <4>1. ASSUME NEW c \in Categories, NEW t \in Targets, t \notin detections[c]
            PROVE  quiet'[c][t] = IF quiet[c][t] = 0 THEN 1 ELSE 2
        BY <4>1
      <4>2. \A c \in Categories, t \in Targets : quiet[c][t] \in 0..2
        BY DEF TypeOK
      <4> QED
        BY <3>2, <4>1, <4>2 DEF FindingsExpire
    <3>7. CountsMatchOpen'
      BY <3>2 DEF CountsMatchOpen
    <3> QED
      BY <3>3, <3>4, <3>5, <3>6, <3>7
  <2> QED
    BY <1>b, <2>a, <2>b DEF Resolve
<1> QED
  BY <1>2, <1>a, <1>b DEF Resolve, findingVars

\* A rebuild leaves no finding at all.
LEMMA RebuildKeeps == ASSUME IInv, Rebuild PROVE IInv'
<1> USE ChecksFacts DEF IInv, Rebuild, runVars
<1>1. TypeOK'
  <2>1. changes' \in Nat
    BY DEF TypeOK
  <2>2. status' \in [Categories -> [Targets -> {"none", "open", "resolved"}]]
    OBVIOUS
  <2>3. resolvedAt' \in [Categories -> [Targets -> Nat]]
    OBVIOUS
  <2> QED
    BY <2>1, <2>2, <2>3 DEF TypeOK
<1>2. StampsInOrder' /\ DetectedOnce' /\ CategoryAtHand' /\ DoneInLine'
  BY DEF StampsInOrder, DetectedOnce, CategoryAtHand, DoneInLine, Reconciling, TypeOK
<1>3. FindingsExpire' /\ CountsMatchOpen'
  BY DEF FindingsExpire, CountsMatchOpen
<1> QED
  BY <1>1, <1>2, <1>3

\* What the checks would see is nothing the findings depend on.
LEMMA ChangeKeeps == ASSUME IInv, Change PROVE IInv'
<1> USE DEF IInv, Change, findingVars, runVars
<1>1. TypeOK'
  BY DEF TypeOK
<1>2. StampsInOrder' /\ DetectedOnce' /\ FindingsExpire'
  BY DEF StampsInOrder, DetectedOnce, FindingsExpire
<1>3. \A c \in Categories : OpenOnes(c)' = OpenOnes(c)
  BY DEF OpenOnes
<1>4. CategoryAtHand' /\ CountsMatchOpen'
  BY <1>3 DEF CategoryAtHand, CountsMatchOpen, Here
<1>5. DoneInLine'
  BY <1>3, ChecksFacts DEF DoneInLine, Reconciling
<1> QED
  BY <1>1, <1>2, <1>4, <1>5

\* A restart ends the run, if there is one, and forgets the counts.
LEMMA RestartKeeps == ASSUME IInv, Restart PROVE IInv'
<1> USE DEF IInv, Restart, findingVars
<1>1. reported' \in [Categories -> Nat] /\ current' = FALSE
  BY DEF Zero
<1>a. CASE phase = "idle"
  <2> USE <1>a
  <2>1. TypeOK'
    <3>1. failures' \in Nat
      BY DEF TypeOK
    <3> QED
      BY <1>1, <3>1 DEF TypeOK
  <2>2. StampsInOrder' /\ DetectedOnce' /\ FindingsExpire' /\ CountsMatchOpen'
    BY DEF StampsInOrder, DetectedOnce, FindingsExpire, CountsMatchOpen
  <2>3. CategoryAtHand' /\ DoneInLine'
    BY DEF CategoryAtHand, DoneInLine, Reconciling
  <2> QED
    BY <2>1, <2>2, <2>3
<1>b. CASE Stop
  <2>1. TypeOK'
    BY <1>1, <1>b, StopTyped DEF TypeOK
  <2>2. CountsMatchOpen'
    BY <1>1 DEF CountsMatchOpen
  <2> QED
    BY <1>b, <2>1, <2>2, StopKeeps DEF StampsInOrder
<1> QED
  BY <1>a, <1>b

-----------------------------------------------------------------------------
(* Theorems *)

\* The inductive invariant holds in every reachable state.
THEOREM Invariant == Spec => []IInv
<1>1. IInv /\ [Next]_vars => IInv'
  <2> SUFFICES ASSUME IInv, [Next]_vars PROVE IInv'
    OBVIOUS
  <2>1. CASE UNCHANGED vars
    <3> USE <2>1 DEF vars, findingVars, runVars
    <3>1. TypeOK' /\ StampsInOrder' /\ DetectedOnce' /\ FindingsExpire'
      BY DEF IInv, TypeOK, StampsInOrder, DetectedOnce, FindingsExpire
    <3>2. \A c \in Categories : OpenOnes(c)' = OpenOnes(c)
      BY DEF OpenOnes
    <3>3. CategoryAtHand' /\ DoneInLine' /\ CountsMatchOpen'
      BY <3>2, ChecksFacts DEF IInv, CategoryAtHand, Here, DoneInLine, Reconciling,
         CountsMatchOpen
    <3> QED
      BY <3>1, <3>3 DEF IInv
  <2> QED
    BY <2>1, BeginKeeps, DetectKeeps, MergeKeeps, DeleteKeeps, ResolveKeeps,
       RebuildKeeps, ChangeKeeps, RestartKeeps DEF Next
<1> QED
  BY <1>1, InitIInv, PTL DEF Spec

\* Every variable keeps its type.
THEOREM TypeCorrect == Spec => []TypeOK
<1>1. IInv => TypeOK
  BY DEF IInv
<1> QED
  BY <1>1, Invariant, PTL

\* Findings expire: not open after one complete run without a detection, gone
\* after two, for any number of categories, runs, failures and rebuilds.
THEOREM Expiry == Spec => []FindingsExpire
<1>1. IInv => FindingsExpire
  BY DEF IInv
<1> QED
  BY <1>1, Invariant, PTL

\* The counts reported after a run are those of the open findings.
THEOREM CountsCorrect == Spec => []CountsMatchOpen
<1>1. IInv => CountsMatchOpen
  BY DEF IInv
<1> QED
  BY <1>1, Invariant, PTL

\* No run deletes a finding that it, or no run, has resolved.
THEOREM RetentionKept == Spec => ResolvedForARun
<1> DEFINE Kept ==
      \A c \in Categories, t \in Targets :
         (phase # "idle" /\ status[c][t] # "none" /\ status'[c][t] = "none")
             => status[c][t] = "resolved" /\ resolvedAt[c][t] \in 1..(run - 1)
<1>1. IInv /\ [Next]_vars => [Kept]_vars
  <2> SUFFICES ASSUME IInv, Next,
                      NEW c \in Categories, NEW t \in Targets,
                      phase # "idle", status[c][t] # "none", status'[c][t] = "none"
               PROVE  status[c][t] = "resolved" /\ resolvedAt[c][t] \in 1..(run - 1)
    OBVIOUS
  <2>0. at \in DOMAIN Checks /\ Here \in Categories /\ status \in [Categories -> [Targets -> {"none", "open", "resolved"}]]
    BY ChecksFacts DEF IInv, TypeOK, Here
  <2>1. CASE Delete /\ Deleted
    <3>1. c = Here /\ Expired(t)
      BY <2>0, <2>1 DEF Deleted
    <3>2. /\ status[c][t] = "resolved" /\ resolvedAt[c][t] # run
          /\ resolvedAt[c][t] > 0 /\ resolvedAt[c][t] <= run
      BY <3>1 DEF IInv, StampsInOrder, Expired
    <3>3. resolvedAt[c][t] \in Nat /\ run \in Nat
      BY DEF IInv, TypeOK
    <3> QED
      BY <3>2, <3>3
  <2>2. CASE Merge
    BY <2>0, <2>2 DEF Merge, Opened
  <2>3. CASE Resolve
    BY <2>0, <2>3 DEF Resolve, Resolved, findingVars
  <2>4. CASE UNCHANGED status
    BY <2>4
  <2> QED
    BY <2>1, <2>2, <2>3, <2>4
       DEF Next, Begin, Detect, Delete, Rebuild, Change, Restart, findingVars
<1> QED
  BY <1>1, Invariant, PTL DEF Spec, ResolvedForARun

(***************************************************************************)
(* Counters                                                                *)
(***************************************************************************)

\* Before the first roll nothing is in the ring; and while the clock is behind
\* the ring it was set back, from no earlier than the ring is at.
RingInv ==
    /\ ActivityTypeOK
    /\ last = -1 => buckets = Empty
    /\ last > now => last <= peak
    /\ RingIsRecent

-----------------------------------------------------------------------------
\* Quotient and remainder make up the number.
LEMMA Division ==
    ASSUME NEW w \in Nat \ {0}, NEW a \in Nat
    PROVE  /\ a \div w \in Nat
           /\ a % w \in Nat
           /\ a % w < w
           /\ a = w * (a \div w) + (a % w)
  BY SMTT(30)

\* No multiple of a number lies between zero and it.
LEMMA NoMultipleBelow ==
    ASSUME NEW w \in Nat \ {0}, NEW k \in Int, 0 < w * k, w * k < w
    PROVE  FALSE
  BY SMTT(30)

\* Numbers of one remainder are not less than the divisor apart.
LEMMA SameRemainder ==
    ASSUME NEW w \in Nat \ {0}, NEW p \in Nat, NEW q \in Nat, NEW r \in Nat, NEW a, NEW b,
           a = w * p + r, b = w * q + r, a < b, b - a < w
    PROVE  FALSE
<1>1. w * (q - p) = w * q - w * p
  OBVIOUS
<1>2. w * p \in Nat /\ w * q \in Nat
  OBVIOUS
<1>3. 0 < w * (q - p) /\ w * (q - p) < w
  BY <1>1, <1>2
<1> QED
  BY <1>3, NoMultipleBelow

\* Minutes less than a window apart have buckets of their own.
LEMMA BucketsApart ==
    ASSUME NEW a \in Nat, NEW b \in Nat, a < b, b - a < Window
    PROVE  Slot(a) # Slot(b)
<1> SUFFICES ASSUME a % Window = b % Window PROVE FALSE
  BY DEF Slot
<1>1. Window \in Nat \ {0}
  BY ActivityAssumption
<1>2. /\ a \div Window \in Nat
      /\ a % Window \in Nat
      /\ a = Window * (a \div Window) + (a % Window)
  BY <1>1, Division
<1>3. /\ b \div Window \in Nat
      /\ b = Window * (b \div Window) + (a % Window)
  BY <1>1, Division
<1> QED
  BY <1>1, <1>2, <1>3, SameRemainder

\* Any window of minutes goes through every bucket.
LEMMA WindowCovers ==
    ASSUME NEW a \in Nat, NEW s \in Slots
    PROVE  \E step \in 1..Window : Slot(a + step) = s
<1> DEFINE r == a % Window
           q == a \div Window
<1>1. Window \in Nat \ {0} /\ s \in 0..Window - 1
  BY ActivityAssumption DEF Slots
<1>2. q \in Nat /\ r \in Nat /\ r < Window /\ a = Window * q + r
  BY <1>1, Division
<1>3. ASSUME NEW n \in Nat PROVE (Window * n + s) % Window = s
  BY <1>1, SMTT(30)
<1>4. Window * (q + 1) = Window * q + Window /\ Window * q \in Nat
  BY <1>1, <1>2
<1> HIDE DEF r, q
<1>5. CASE s > r
  <2>1. a + (s - r) = Window * q + s
    BY <1>1, <1>2, <1>4
  <2>2. s - r \in 1..Window
    BY <1>1, <1>2, <1>5
  <2> QED
    BY <1>2, <1>3, <2>1, <2>2 DEF Slot
<1>6. CASE s <= r
  <2>1. a + (s - r + Window) = Window * (q + 1) + s
    BY <1>1, <1>2, <1>4
  <2>2. s - r + Window \in 1..Window /\ q + 1 \in Nat
    BY <1>1, <1>2, <1>6
  <2> QED
    BY <1>3, <2>1, <2>2 DEF Slot
<1> QED
  BY <1>1, <1>2, <1>5, <1>6

\* Every minute has a bucket.
LEMMA SlotsOfMinutes == ASSUME NEW m \in Nat PROVE Slot(m) \in Slots
<1>1. Window \in Nat \ {0}
  BY ActivityAssumption
<1>2. m % Window \in Nat /\ m % Window < Window
  BY <1>1, Division
<1> QED
  BY <1>1, <1>2 DEF Slot, Slots

-----------------------------------------------------------------------------
\* The later of two minutes.
LEMMA GreaterOfTwo ==
    ASSUME NEW a \in Int, NEW b \in Int
    PROVE  /\ Greater(a, b) \in {a, b}
           /\ Greater(a, b) >= a
           /\ Greater(a, b) >= b
  BY DEF Greater

\* What is rolled is a ring.
LEMMA RolledType ==
    ASSUME RingInv
    PROVE  /\ Rolled(last, now) \in [Kinds -> [Slots -> Nat]]
           /\ RolledTo(last, now) \in Clock
           /\ RolledTo(last, now) >= now
           /\ RolledTo(last, now) >= last
<1>1. now \in Clock /\ now \in Int /\ last \in Clock \cup {-1} /\ last \in Int /\ now > -1
  BY DEF RingInv, ActivityTypeOK, Clock, Minutes
<1>2. buckets \in [Kinds -> [Slots -> Nat]]
  BY DEF RingInv, ActivityTypeOK
<1>3. Rolled(last, now) \in [Kinds -> [Slots -> Nat]]
  BY <1>2 DEF Rolled
<1>4. RolledTo(last, now) \in Clock
  BY <1>1 DEF RolledTo, Greater
<1> QED
  BY <1>1, <1>3, <1>4, GreaterOfTwo DEF RolledTo

\* Under minutes to come nothing is recorded.
LEMMA FutureIsEmpty ==
    ASSUME RingInv, NEW k \in Kinds, NEW m \in Minutes, m > last
    PROVE  recorded[k][m] = 0
<1>1. \A j \in Kinds : \A i \in Minutes : i > last => recorded[j][i] = 0
  BY DEF RingInv, ActivityTypeOK
<1> QED
  BY <1>1

\* After a roll the ring is right for the minute rolled to.
LEMMA RolledIsRecent ==
    ASSUME RingInv, NEW k \in Kinds, NEW m \in Minutes,
           m > RolledTo(last, now) - Window, m <= RolledTo(last, now), m > peak
    PROVE  Rolled(last, now)[k][Slot(m)] = recorded[k][m]
<1>1. /\ m \in Nat /\ now \in Nat /\ last \in Nat \cup {-1} /\ peak \in Nat \cup {-1}
      /\ Window \in Nat \ {0}
      /\ Slot(m) \in Slots
  <2>1. m \in Nat /\ Window \in Nat \ {0}
    BY ActivityAssumption DEF Minutes
  <2>2. now \in Nat /\ last \in Nat \cup {-1} /\ peak \in Nat \cup {-1}
    BY DEF RingInv, ActivityTypeOK, Clock, Minutes
  <2> QED
    BY <2>1, <2>2, SlotsOfMinutes
<1>2. Rolled(last, now)[k][Slot(m)] =
          IF last >= 0 /\ now > last /\ Slot(m) \in Passed(last, now) THEN 0 ELSE buckets[k][Slot(m)]
  BY <1>1 DEF Rolled
<1>3. CASE last = -1
  <2>1. buckets[k][Slot(m)] = 0
    BY <1>1, <1>3 DEF RingInv, Empty
  <2>2. recorded[k][m] = 0
    BY <1>1, <1>3, FutureIsEmpty
  <2> QED
    BY <1>1, <1>2, <1>3, <2>1, <2>2
<1>4. CASE last >= 0 /\ now > last /\ m > last
  <2>1. Slot(m) \in Passed(last, now)
    <3>1. RolledTo(last, now) = now
      BY <1>1, <1>4 DEF RolledTo, Greater
    <3>2. CASE now - last <= Window
      <4>1. m - last \in 1..(now - last) /\ last + (m - last) = m
        BY <1>1, <1>4, <3>1
      <4>2. Lesser(now - last, Window) = now - last
        BY <1>1, <1>4, <3>2 DEF Lesser
      <4> QED
        BY <4>1, <4>2 DEF Passed
    <3>3. CASE now - last > Window
      <4>1. Lesser(now - last, Window) = Window
        BY <1>1, <1>4, <3>3 DEF Lesser
      <4>2. \E step \in 1..Window : Slot(last + step) = Slot(m)
        <5>1. last \in Nat /\ Slot(m) \in Slots
          BY <1>1, <1>4
        <5> QED
          BY <5>1, WindowCovers
      <4> QED
        BY <4>1, <4>2 DEF Passed
    <3> QED
      BY <1>1, <1>4, <3>2, <3>3
  <2> QED
    BY <1>1, <1>2, <1>4, <2>1, FutureIsEmpty
<1>5. CASE last >= 0 /\ now > last /\ m <= last
  <2>1. RolledTo(last, now) = now
    BY <1>1, <1>5 DEF RolledTo, Greater
  <2>2. Slot(m) \notin Passed(last, now)
    <3> SUFFICES ASSUME NEW step \in 1..Lesser(now - last, Window) PROVE Slot(m) # Slot(last + step)
      BY DEF Passed
    <3>1. step \in Nat /\ step >= 1 /\ step <= now - last
      BY <1>1, <1>5 DEF Lesser
    <3>2. last + step \in Nat /\ m < last + step /\ last + step - m < Window
      BY <1>1, <1>5, <2>1, <3>1
    <3> QED
      BY <1>1, <3>2, BucketsApart
  <2>3. m > last - Window
    BY <1>1, <1>5, <2>1
  <2> QED
    BY <1>2, <1>5, <2>2, <2>3 DEF RingInv, RingIsRecent
<1>6. CASE last >= 0 /\ now <= last
  <2>1. RolledTo(last, now) = last
    BY <1>1, <1>6 DEF RolledTo, Greater
  <2> QED
    BY <1>1, <1>2, <1>6, <2>1 DEF RingInv, RingIsRecent
<1> QED
  BY <1>1, <1>3, <1>4, <1>5, <1>6

\* At the start there is nothing to hold.
LEMMA RingStarts == ActivityInit => RingInv
<1> SUFFICES ASSUME ActivityInit PROVE RingInv
  OBVIOUS
<1>1. ActivityTypeOK
  BY ActivityAssumption DEF ActivityInit, ActivityTypeOK, Empty, Kinds, Clock, Minutes
<1>2. now \in Nat /\ last = -1
  BY DEF ActivityInit, Clock, Minutes
<1>3. RingIsRecent
  BY <1>2 DEF ActivityInit, RingIsRecent, Minutes
<1> QED
  BY <1>1, <1>2, <1>3 DEF RingInv, ActivityInit

\* What is recorded goes to the ring and to the history alike, under the minute
\* of the clock; if that is behind, its bucket is of no minute that counts.
LEMMA RecordKeeps ==
    ASSUME RingInv, NEW added \in [Kinds -> Nat], Record(added)
    PROVE  RingInv'
<1>1. /\ now' = now /\ peak' = peak /\ snapshot' = snapshot /\ setBacks' = setBacks
      /\ last' = RolledTo(last, now)
      /\ records < MaxRecords /\ records' = records + 1
  BY DEF Record
<1>2. /\ now \in Clock /\ now \in Nat /\ last \in Int /\ peak \in Int
      /\ Slot(now) \in Slots
      /\ last' \in Clock /\ last' \in Nat /\ last' >= now /\ last' >= last
  BY <1>1, RolledType, SlotsOfMinutes DEF RingInv, ActivityTypeOK, Clock, Minutes
<1>3. ASSUME NEW k \in Kinds, NEW s \in Slots
      PROVE  buckets'[k][s] = Rolled(last, now)[k][s] + (IF s = Slot(now) THEN added[k] ELSE 0)
  BY DEF Record
<1>4. ASSUME NEW k \in Kinds, NEW m \in Minutes
      PROVE  recorded'[k][m] = recorded[k][m] + (IF m = now THEN added[k] ELSE 0)
  BY DEF Record
<1>5. /\ Rolled(last, now) \in [Kinds -> [Slots -> Nat]]
      /\ recorded \in [Kinds -> [Minutes -> Nat]]
  BY RolledType DEF RingInv, ActivityTypeOK
<1>6. buckets' \in [Kinds -> [Slots -> Nat]]
  BY <1>5 DEF Record
<1>7. recorded' \in [Kinds -> [Minutes -> Nat]]
  BY <1>5 DEF Record
<1>8. ASSUME NEW k \in Kinds, NEW m \in Minutes, m > last' PROVE recorded'[k][m] = 0
  <2>1. m \in Int /\ m > last /\ m # now
    BY <1>2, <1>8 DEF Minutes
  <2>2. recorded[k][m] = 0
    BY <2>1, FutureIsEmpty
  <2> QED
    BY <1>4, <2>1, <2>2
<1>9. ActivityTypeOK'
  <2>1. records' \in 0..MaxRecords
    BY <1>1, ActivityAssumption DEF RingInv, ActivityTypeOK
  <2>2. /\ now' \in Clock /\ last' \in Clock \cup {-1} /\ peak' \in Clock \cup {-1}
        /\ DOMAIN snapshot' = Kinds /\ setBacks' \in 0..MaxSetBacks
    BY <1>1, <1>2 DEF RingInv, ActivityTypeOK
  <2> QED
    BY <1>6, <1>7, <1>8, <2>1, <2>2 DEF ActivityTypeOK
<1>10. last' > now' => last' <= peak'
  BY <1>1, <1>2 DEF RingInv, RolledTo, Greater
<1>11. RingIsRecent'
  <2> SUFFICES ASSUME NEW k \in Kinds, NEW m \in Minutes,
                      m > last' - Window, m <= last', m > peak'
               PROVE  buckets'[k][Slot(m)] = recorded'[k][m]
    BY DEF RingIsRecent
  <2>1. m \in Nat /\ Slot(m) \in Slots /\ Window \in Nat
    BY SlotsOfMinutes, ActivityAssumption DEF Minutes
  <2>2. Rolled(last, now)[k][Slot(m)] = recorded[k][m]
    BY <1>1, RolledIsRecent
  <2>3. last' = now
    BY <1>1, <1>2, <1>10, <2>1
  <2>4. Slot(m) = Slot(now) <=> m = now
    BY <1>2, <2>1, <2>3, BucketsApart
  <2> QED
    BY <1>3, <1>4, <2>1, <2>2, <2>4
<1> QED
  BY <1>2, <1>9, <1>10, <1>11 DEF RingInv

\* Publishing rolls, and adds nothing.
LEMMA PublishKeeps == ASSUME RingInv, Publish PROVE RingInv'
<1>1. /\ now' = now /\ peak' = peak /\ recorded' = recorded
      /\ records' = records /\ setBacks' = setBacks
      /\ last' = RolledTo(last, now) /\ buckets' = Rolled(last, now)
      /\ DOMAIN snapshot' = Kinds
  BY DEF Publish
<1>2. /\ now \in Nat /\ last \in Int /\ peak \in Int
      /\ last' \in Clock /\ last' \in Nat /\ last' >= last
      /\ buckets' \in [Kinds -> [Slots -> Nat]]
  BY <1>1, RolledType DEF RingInv, ActivityTypeOK, Clock, Minutes
<1>3. ASSUME NEW k \in Kinds, NEW m \in Minutes, m > last' PROVE recorded'[k][m] = 0
  <2>1. m \in Int /\ m > last
    BY <1>2, <1>3 DEF Minutes
  <2> QED
    BY <1>1, <2>1, FutureIsEmpty
<1>4. ActivityTypeOK'
  BY <1>1, <1>2, <1>3 DEF RingInv, ActivityTypeOK
<1>5. last' > now' => last' <= peak'
  BY <1>1, <1>2 DEF RingInv, RolledTo, Greater
<1>6. RingIsRecent'
  BY <1>1, RolledIsRecent DEF RingIsRecent
<1> QED
  BY <1>2, <1>4, <1>5, <1>6 DEF RingInv

\* The ring does not look at the clock.
LEMMA AdvanceKeeps == ASSUME RingInv, Advance PROVE RingInv'
<1>1. /\ now' \in Minutes /\ now' > now
      /\ last' = last /\ buckets' = buckets /\ peak' = peak /\ recorded' = recorded
      /\ records' = records /\ setBacks' = setBacks /\ snapshot' = snapshot
  BY DEF Advance
<1>2. now \in Nat /\ now' \in Nat /\ now' \in Clock /\ last \in Int
  BY <1>1, ActivityAssumption DEF RingInv, ActivityTypeOK, Clock, Minutes
<1>3. ActivityTypeOK'
  BY <1>1, <1>2 DEF RingInv, ActivityTypeOK
<1>4. last' > now' => last' <= peak'
  BY <1>1, <1>2 DEF RingInv
<1>5. RingIsRecent'
  BY <1>1 DEF RingInv, RingIsRecent
<1> QED
  BY <1>1, <1>3, <1>4, <1>5 DEF RingInv

\* What the ring holds when the clock is set back is excepted from then on.
LEMMA SetBackKeeps == ASSUME RingInv, SetBack PROVE RingInv'
<1>1. /\ now' \in Clock /\ now' < now
      /\ peak' = Greater(peak, last)
      /\ setBacks < MaxSetBacks /\ setBacks' = setBacks + 1
      /\ last' = last /\ buckets' = buckets /\ recorded' = recorded
      /\ records' = records /\ snapshot' = snapshot
  BY DEF SetBack
<1>2. /\ last \in Int /\ peak \in Int /\ peak' \in Clock \cup {-1}
      /\ peak' \in Int /\ peak' >= peak /\ peak' >= last
  BY <1>1, GreaterOfTwo DEF RingInv, ActivityTypeOK, Clock, Minutes
<1>3. setBacks' \in 0..MaxSetBacks
  BY <1>1, ActivityAssumption DEF RingInv, ActivityTypeOK
<1>4. ActivityTypeOK'
  BY <1>1, <1>2, <1>3 DEF RingInv, ActivityTypeOK
<1>5. RingIsRecent'
  BY <1>1, <1>2 DEF RingInv, RingIsRecent, Minutes
<1> QED
  BY <1>1, <1>2, <1>4, <1>5 DEF RingInv

\* The invariant holds in every state: in every state the ring is right.
LEMMA RingAlways == ActivitySpec => []RingInv
<1>1. RingInv /\ [ActivityNext]_activityVars => RingInv'
  <2> SUFFICES ASSUME RingInv, [ActivityNext]_activityVars PROVE RingInv'
    OBVIOUS
  <2>1. CASE Event
    <3>1. Added(1, 0, 0) \in [Kinds -> Nat]
      BY DEF Added, Kinds
    <3> QED
      BY <2>1, <3>1, RecordKeeps DEF Event
  <2>2. ASSUME NEW size \in 1..MaxBatch, Batch(size) PROVE RingInv'
    <3>1. Added(0, 1, size) \in [Kinds -> Nat]
      BY DEF Added, Kinds
    <3> QED
      BY <2>2, <3>1, RecordKeeps DEF Batch
  <2>3. CASE Publish
    BY <2>3, PublishKeeps
  <2>4. CASE Advance
    BY <2>4, AdvanceKeeps
  <2>5. CASE SetBack
    BY <2>5, SetBackKeeps
  <2>6. CASE UNCHANGED activityVars
    BY <2>6 DEF activityVars, RingInv, ActivityTypeOK, RingIsRecent
  <2> QED
    BY <2>1, <2>2, <2>3, <2>4, <2>5, <2>6 DEF ActivityNext
<1> QED
  BY <1>1, RingStarts, PTL DEF ActivitySpec

-----------------------------------------------------------------------------
\* Clock, rings and history stay what they are, for every window.
THEOREM ActivityTyped == ActivitySpec => []ActivityTypeOK
<1>1. RingInv => ActivityTypeOK
  BY DEF RingInv
<1> QED
  BY <1>1, RingAlways, PTL

\* The buckets of the last minutes hold what was recorded under them, however
\* long the pauses were and whenever the clock was set back (_activity_roll).
THEOREM RingStaysRecent == ActivitySpec => []RingIsRecent
<1>1. RingInv => RingIsRecent
  BY DEF RingInv
<1> QED
  BY <1>1, RingAlways, PTL

\* And there is no other bucket: each one is that of one of the last minutes,
\* so that nothing older is in any of them when they are added up.
THEOREM NoOtherBucket ==
    ASSUME NEW m \in Nat, m >= Window, NEW s \in Slots
    PROVE  \E i \in m - Window + 1..m : Slot(i) = s /\ \A j \in m - Window + 1..m : Slot(j) = s => j = i
<1>1. Window \in Nat \ {0} /\ m - Window \in Nat
  BY ActivityAssumption
<1>2. PICK step \in 1..Window : Slot(m - Window + step) = s
  BY <1>1, WindowCovers
<1> DEFINE i == m - Window + step
<1>3. i \in m - Window + 1..m /\ i \in Nat
  BY <1>1
<1>4. ASSUME NEW j \in m - Window + 1..m, Slot(j) = s PROVE j = i
  <2>1. j \in Nat /\ j - i < Window /\ i - j < Window
    BY <1>1, <1>3
  <2> QED
    BY <1>2, <1>3, <1>4, <2>1, BucketsApart
<1> QED
  BY <1>2, <1>3, <1>4

-----------------------------------------------------------------------------
\* The units of finitely many numbers are finitely many.
LEMMA UnitsFinite ==
    ASSUME NEW f, NEW S, IsFiniteSet(S), \A x \in S : f[x] \in Nat
    PROVE  IsFiniteSet(UNION {{x} \X (1..f[x]) : x \in S})
<1> DEFINE Row(x) == {x} \X (1..f[x])
           Rows == {Row(x) : x \in S}
           g == [x \in S |-> Row(x)]
<1>1. g \in Surjection(S, Rows)
  BY DEF Surjection
<1>2. IsFiniteSet(Rows)
  <2> HIDE DEF g, Rows
  <2> QED  BY <1>1, FS_Surjection
<1>3. ASSUME NEW T \in Rows PROVE IsFiniteSet(T)
  <2>1. PICK x \in S : T = Row(x)
    OBVIOUS
  <2>2. IsFiniteSet({x})
    BY FS_Singleton
  <2>3. f[x] \in Int
    OBVIOUS
  <2>4. IsFiniteSet(1..f[x])
    BY <2>3, FS_Interval
  <2> QED  BY <2>1, <2>2, <2>4, FS_Product
<1>4. IsFiniteSet(UNION Rows)
  <2> HIDE DEF Rows
  <2> QED  BY <1>2, <1>3, FS_UNION
<1> QED  BY <1>4

\* Numbers that are the same one by one have the same sum.
LEMMA SameTotal ==
    ASSUME NEW f, NEW S, IsFiniteSet(S), \A x \in S : f[x] \in Nat,
           NEW g, NEW T, NEW h \in Bijection(S, T), \A x \in S : g[h[x]] = f[x]
    PROVE  Total(g, T) = Total(f, S)
<1> DEFINE P == UNION {{x} \X (1..f[x]) : x \in S}
           Q == UNION {{y} \X (1..g[y]) : y \in T}
           b == [p \in P |-> <<h[p[1]], p[2]>>]
<1>1. \A p : p \in P <=> \E x \in S : \E i \in 1..f[x] : p = <<x, i>>
  OBVIOUS
<1>2. \A q : q \in Q <=> \E y \in T : \E i \in 1..g[y] : q = <<y, i>>
  OBVIOUS
<1>3. /\ \A x \in S : h[x] \in T
      /\ \A x, y \in S : h[x] = h[y] => x = y
      /\ \A y \in T : \E x \in S : h[x] = y
  BY DEF Bijection, Injection, Surjection, IsInjective
<1>4. IsFiniteSet(P)
  BY UnitsFinite
<1> HIDE DEF P, Q
<1>5. ASSUME NEW p \in P PROVE b[p] \in Q
  <2>1. PICK x \in S : \E i \in 1..f[x] : p = <<x, i>>
    BY <1>1
  <2>2. PICK i \in 1..f[x] : p = <<x, i>>
    BY <2>1
  <2>3. b[p] = <<h[x], i>> /\ h[x] \in T /\ i \in 1..g[h[x]]
    BY <1>3, <2>2
  <2> QED  BY <1>2, <2>3
<1>6. ASSUME NEW p \in P, NEW q \in P, b[p] = b[q] PROVE p = q
  <2>1. PICK x \in S : \E i \in 1..f[x] : p = <<x, i>>
    BY <1>1
  <2>2. PICK y \in S : \E j \in 1..f[y] : q = <<y, j>>
    BY <1>1
  <2>3. PICK i \in 1..f[x] : p = <<x, i>>
    BY <2>1
  <2>4. PICK j \in 1..f[y] : q = <<y, j>>
    BY <2>2
  <2>5. h[x] = h[y] /\ i = j
    BY <1>6, <2>3, <2>4
  <2> QED  BY <1>3, <2>3, <2>4, <2>5
<1>7. ASSUME NEW q \in Q PROVE \E p \in P : b[p] = q
  <2>1. PICK y \in T : \E i \in 1..g[y] : q = <<y, i>>
    BY <1>2
  <2>2. PICK x \in S : h[x] = y
    BY <1>3
  <2>3. PICK i \in 1..g[y] : q = <<y, i>>
    BY <2>1
  <2>4. i \in 1..f[x]
    BY <2>2
  <2>5. <<x, i>> \in P
    BY <1>1, <2>4
  <2>6. b[<<x, i>>] = q
    BY <2>2, <2>3, <2>5
  <2> QED  BY <2>5, <2>6
<1>8. ExistsBijection(P, Q)
  <2>1. b \in [P -> Q]
    BY <1>5
  <2> HIDE DEF b
  <2> QED  BY <1>6, <1>7, <2>1 DEF ExistsBijection, Bijection, Injection, Surjection, IsInjective
<1>9. Cardinality(Q) = Cardinality(P)
  BY <1>4, <1>8, FS_Bijection
<1> QED  BY <1>9 DEF Total, P, Q

\* The minutes of the window and the buckets are one to one.
LEMMA WindowIsRing ==
    ASSUME now \in Clock
    PROVE  /\ IsFiniteSet(InWindow)
           /\ [m \in InWindow |-> Slot(m)] \in Bijection(InWindow, Slots)
<1>1. now \in Nat /\ now >= Window /\ Window \in Nat \ {0} /\ now <= LastMinute /\ LastMinute \in Nat
  BY ActivityAssumption DEF Clock, Minutes
<1>2. InWindow = now - Window + 1..now
  BY <1>1 DEF InWindow, Minutes
<1>3. IsFiniteSet(InWindow)
  BY <1>1, <1>2, FS_Interval
<1>4. ASSUME NEW m \in InWindow PROVE m \in Nat /\ Slot(m) \in Slots
  BY <1>1, <1>2, SlotsOfMinutes
<1>5. ASSUME NEW s \in Slots
      PROVE  \E i \in InWindow : Slot(i) = s /\ \A j \in InWindow : Slot(j) = s => j = i
  BY <1>1, <1>2, NoOtherBucket
<1> DEFINE h == [m \in InWindow |-> Slot(m)]
<1>6. \A i \in InWindow : h[i] = Slot(i) /\ h[i] \in Slots
  BY <1>4
<1>7. h \in [InWindow -> Slots]
  BY <1>4
<1> HIDE DEF h
<1>8. \A i, j \in InWindow : h[i] = h[j] => i = j
  BY <1>5, <1>6
<1>9. \A s \in Slots : \E i \in InWindow : h[i] = s
  BY <1>5, <1>6
<1>10. h \in Bijection(InWindow, Slots)
  BY <1>7, <1>8, <1>9 DEF Bijection, Injection, Surjection, IsInjective
<1> QED  BY <1>3, <1>10 DEF h

\* The sum that the timer publishes is that of what was recorded in the last
\* minutes, once the clock is a window past any minute it was set back from,
\* and whatever the length of the pauses (async_publish_sync_activity).
THEOREM PublishedIsAlwaysExact == ActivitySpec => PublishedIsExact
<1>1. ASSUME RingInv, Publish, now - Window >= peak, NEW k \in Kinds
      PROVE  snapshot'[k] = Total(recorded[k], InWindow)
  <2>1. /\ now \in Clock /\ now \in Nat /\ last \in Int /\ peak \in Int
        /\ Window \in Nat \ {0}
        /\ recorded[k] \in [Minutes -> Nat]
    BY <1>1, ActivityAssumption DEF RingInv, ActivityTypeOK, Clock, Minutes
  <2>2. RolledTo(last, now) = now
    BY <1>1, <2>1 DEF RingInv, RolledTo, Greater
  <2>3. ASSUME NEW m \in InWindow
        PROVE  Rolled(last, now)[k][Slot(m)] = recorded[k][m] /\ recorded[k][m] \in Nat
    <3>1. m \in Minutes /\ m \in Nat /\ m > now - Window /\ m <= now
      BY DEF InWindow, Minutes
    <3>2. m > peak
      BY <1>1, <2>1, <3>1
    <3>3. Rolled(last, now)[k][Slot(m)] = recorded[k][m]
      BY <1>1, <2>2, <3>1, <3>2, RolledIsRecent
    <3> QED  BY <2>1, <3>1, <3>3
  <2> DEFINE h == [m \in InWindow |-> Slot(m)]
             ring == Rolled(last, now)[k]
  <2>4. IsFiniteSet(InWindow) /\ h \in Bijection(InWindow, Slots)
    BY <2>1, WindowIsRing
  <2>5. \A m \in InWindow : recorded[k][m] \in Nat /\ ring[h[m]] = recorded[k][m]
    BY <2>3
  <2>6. snapshot'[k] = Total(ring, Slots)
    BY <1>1 DEF Publish
  <2> HIDE DEF h, ring
  <2>7. Total(ring, Slots) = Total(recorded[k], InWindow)
    BY <2>4, <2>5, SameTotal
  <2> QED  BY <2>6, <2>7
<1>2. RingInv /\ [ActivityNext]_activityVars =>
          [Publish /\ now - Window >= peak =>
               \A k \in Kinds : snapshot'[k] = Total(recorded[k], InWindow)]_activityVars
  BY <1>1
<1> QED  BY <1>2, RingAlways, PTL DEF ActivitySpec, PublishedIsExact

(***************************************************************************)
(* The log of agents                                                       *)
(***************************************************************************)

\* A call has no stamp and no verdict before its record is filed, and has both
\* while it is.
FiledOnce ==
    \A c \in Calls :
        /\ pc[c] \in {"waiting", "checking", "working"} => stamp[c] = 0 /\ verdict[c] = "none"
        /\ pc[c] \in {"filing", "saving"} => stamp[c] > 0 /\ verdict[c] \in Statuses

\* In a bag that a call is about to save, of the sweep or of the store, there
\* is one record of a call, and it is the record of an answered call or of the
\* one that saves.
TellsOf(B, S) ==
    \A r \in DOMAIN B :
        B[r] = 1 /\ r = RecordOf(r.call) /\ (pc[r.call] = "answered" \/ r.call \in S)

BagsTellOfAnswers ==
    /\ TellsOf(log, {})
    /\ \A c \in Calls : pc[c] = "saving" => TellsOf(batch[c], {c})
    /\ TellsOf(sweep.records, {})

\* Who saves with another save under way is marked as overlapped.
OverlapIsMarked ==
    \A c \in Calls : pc[c] = "saving" =>
        /\ sweep.busy => c \in overlapped
        /\ \A d \in Calls : pc[d] = "saving" /\ d # c => c \in overlapped

\* A record that is due is in the store, and in every bag that is about to
\* take its place.
Due(c) == pc[c] = "answered" /\ stamp[c] > 0 /\ clock - stamp[c] <= Retention /\ c \notin overlapped

DueIsEverywhere ==
    \A c \in Calls : Due(c) =>
        /\ RecordOf(c) \in DOMAIN log
        /\ \A d \in Calls : pc[d] = "saving" => RecordOf(c) \in DOMAIN batch[d]
        /\ sweep.busy => RecordOf(c) \in DOMAIN sweep.records

\* A token that was replaced stays replaced.
RetiredStaysRetired ==
    \A c \in retired :
        /\ request[c].channel = "mcp" /\ request[c].token < token
        /\ pc[c] # "working"
        /\ verdict[c] \notin {"ok", "not_found", "error"}

AuditInv ==
    /\ AuditTypeOK
    /\ FiledOnce
    /\ BagsTellOfAnswers
    /\ OverlapIsMarked
    /\ DueIsEverywhere
    /\ RetiredStaysRetired

-----------------------------------------------------------------------------

LEMMA AuditStarts == AuditInit => AuditInv
<1>. SUFFICES ASSUME AuditInit PROVE AuditInv
  OBVIOUS
<1>1. IsLog(EmptyBag) /\ DOMAIN EmptyBag = {}
  BY DEF IsLog, IsABag, EmptyBag, SetToBag
<1>2. AuditTypeOK
  <2>1. clock \in 1..MaxTime /\ token \in 0..MaxToken
    BY AuditAssumption DEF AuditInit
  <2>e. enabled \in BOOLEAN
    BY Zenon DEF AuditInit
  <2>2. /\ request \in [Calls -> Requests]
        /\ pc \in [Calls -> {"waiting", "checking", "working", "filing", "saving", "answered"}]
        /\ verdict \in [Calls -> Statuses \cup {"none", "not_served"}]
        /\ stamp \in [Calls -> 0..clock]
        /\ DOMAIN batch = Calls
    BY <2>1 DEF AuditInit
  <2>3. \A c \in Calls : pc[c] = "waiting" /\ batch[c] = EmptyBag
    BY DEF AuditInit
  <2>4. sweep.busy \in BOOLEAN /\ sweep.records = EmptyBag
    BY DEF AuditInit, Idle
  <2>5. log = EmptyBag /\ overlapped \subseteq Calls /\ retired \subseteq Calls
    BY DEF AuditInit
  <2>. QED  BY <1>1, <2>1, <2>e, <2>2, <2>3, <2>4, <2>5 DEF AuditTypeOK
<1>3. FiledOnce /\ BagsTellOfAnswers /\ OverlapIsMarked /\ DueIsEverywhere /\ RetiredStaysRetired
  BY <1>1 DEF AuditInit, FiledOnce, BagsTellOfAnswers, TellsOf, OverlapIsMarked, DueIsEverywhere, Due,
              RetiredStaysRetired, Idle
<1>. QED  BY <1>2, <1>3 DEF AuditInv

\* What the invariant gives.
LEMMA AuditInvSuffices == AuditInv => CallsAreAccountedFor
<1>. SUFFICES ASSUME AuditInv PROVE CallsAreAccountedFor
  OBVIOUS
<1>1. OneRecordPerCall
  <2>. SUFFICES ASSUME NEW c \in Calls, NEW r \in Filed(c)
                PROVE  log[r] = 1 /\ pc[c] = "answered" /\ r = RecordOf(c)
    BY DEF OneRecordPerCall, RecordOf
  <2>. QED  BY DEF AuditInv, BagsTellOfAnswers, TellsOf, Filed
<1>2. LostOnlyToOverlap
  <2>. SUFFICES ASSUME NEW c \in Calls, Due(c) PROVE Filed(c) # {}
    BY DEF LostOnlyToOverlap, Due
  <2>1. RecordOf(c) \in DOMAIN log /\ RecordOf(c).call = c
    BY DEF AuditInv, DueIsEverywhere, RecordOf
  <2>. QED  BY <2>1 DEF Filed
<1>3. RetiredTokenRefused
  BY DEF AuditInv, RetiredStaysRetired, RetiredTokenRefused
<1>. QED  BY <1>1, <1>2, <1>3 DEF CallsAreAccountedFor, AuditInv

\* A bag without what is past the retention tells of what it told of before,
\* and has what is due.
LEMMA PrunedFacts ==
  ASSUME AuditTypeOK, NEW B, IsLog(B), NEW S, TellsOf(B, S)
  PROVE  /\ IsLog(Pruned(B)) /\ TellsOf(Pruned(B), S)
         /\ DOMAIN Pruned(B) \subseteq DOMAIN B
         /\ \A r \in DOMAIN B : clock - r.at <= Retention => r \in DOMAIN Pruned(B)
<1>1. /\ DOMAIN Pruned(B) = {x \in DOMAIN B : ~PastRetention(x)}
      /\ \A r \in DOMAIN Pruned(B) : Pruned(B)[r] = B[r]
  BY DEF Pruned
<1>2. \A r \in DOMAIN B : clock - r.at <= Retention => ~PastRetention(r)
  BY AuditAssumption DEF PastRetention, IsLog, Records, AuditTypeOK
<1>3. IsLog(Pruned(B))
  <2>1. Pruned(B) \in [DOMAIN Pruned(B) -> {n \in Nat : n > 0}]
    BY <1>1 DEF IsLog, IsABag, Pruned
  <2>. QED  BY <1>1, <2>1 DEF IsLog, IsABag
<1>. QED  BY <1>1, <1>2, <1>3 DEF TellsOf

\* A bag with the record of one more call.
LEMMA AddedFacts ==
  ASSUME NEW B, IsLog(B), NEW c, TellsOf(B, {}), pc[c] # "answered", RecordOf(c) \in Records
  PROVE  /\ IsLog(B (+) SetToBag({RecordOf(c)})) /\ TellsOf(B (+) SetToBag({RecordOf(c)}), {c})
         /\ DOMAIN (B (+) SetToBag({RecordOf(c)})) = DOMAIN B \cup {RecordOf(c)}
<1>1. RecordOf(c).call = c
  BY DEF RecordOf
<1>2. RecordOf(c) \notin DOMAIN B
  BY <1>1 DEF TellsOf
<1>3. B (+) SetToBag({RecordOf(c)}) =
        [r \in DOMAIN B \cup {RecordOf(c)} |-> IF r = RecordOf(c) THEN 1 ELSE B[r]]
  <2>1. DOMAIN SetToBag({RecordOf(c)}) = {RecordOf(c)} /\ SetToBag({RecordOf(c)})[RecordOf(c)] = 1
    BY DEF SetToBag
  <2>2. \A r \in DOMAIN B : B[r] + 0 = B[r]
    BY DEF IsLog, IsABag
  <2>. QED  BY <1>2, <2>1, <2>2 DEF (+)
<1>4. IsLog(B (+) SetToBag({RecordOf(c)}))
  BY <1>3 DEF IsLog, IsABag
<1>. QED  BY <1>1, <1>2, <1>3, <1>4 DEF TellsOf

-----------------------------------------------------------------------------
(* Before its record is filed, a call touches nothing but itself.            *)

Early(c) == pc[c] \in {"waiting", "checking", "working"}

Outcomes ==
    [stage : {"filing"}, status : Statuses, at : {clock}]
      \cup [stage : {"answered"}, status : Statuses \cup {"not_served"}, at : {0}]
      \cup [stage : {"checking", "working"}, status : {"none"}, at : {0}]

Becomes(c, o) ==
    /\ pc' = [pc EXCEPT ![c] = o.stage]
    /\ verdict' = [verdict EXCEPT ![c] = o.status]
    /\ stamp' = [stamp EXCEPT ![c] = o.at]
    /\ UNCHANGED <<clock, enabled, token, log, request, batch, sweep, overlapped>>

\* What becomes of a call that arrived with a token already replaced.
NotServed(c, o) ==
    /\ request[c].channel = "mcp" /\ request[c].token < token
    /\ o.stage # "working" /\ o.status \notin {"ok", "not_found", "error"}

EarlyStep(c) ==
    /\ Early(c)
    /\ \E o \in Outcomes : Becomes(c, o) /\ (c \in retired' => NotServed(c, o))
    /\ retired \subseteq retired' /\ retired' \subseteq retired \cup {c}

LEMMA EarlyStepKeeps ==
  ASSUME AuditInv, NEW c \in Calls, EarlyStep(c)
  PROVE  AuditInv'
<1>0. PICK o \in Outcomes : Becomes(c, o) /\ (c \in retired' => NotServed(c, o))
  BY DEF EarlyStep
<1>. Early(c) /\ Becomes(c, o) /\ AuditTypeOK
  BY <1>0 DEF EarlyStep, AuditInv
<1>a. pc \in [Calls -> {"waiting", "checking", "working", "filing", "saving", "answered"}]
      /\ verdict \in [Calls -> Statuses \cup {"none", "not_served"}] /\ stamp \in [Calls -> 0..clock]
  BY DEF AuditTypeOK
<1>1. /\ \A d \in Calls \ {c} : pc'[d] = pc[d] /\ verdict'[d] = verdict[d] /\ stamp'[d] = stamp[d]
      /\ pc'[c] = o.stage /\ verdict'[c] = o.status /\ stamp'[c] = o.at
  BY <1>a DEF Becomes
<1>2. \A d \in Calls \ {c} : RecordOf(d)' = RecordOf(d)
  BY <1>1 DEF RecordOf
<1>b. o.stage # "saving" /\ (o.stage = "answered" => o.at = 0)
  BY DEF Outcomes
<1>3. \A d \in Calls : pc'[d] = "saving" => d # c /\ pc[d] = "saving"
  BY <1>1, <1>b
<1>c. log' = log /\ batch' = batch /\ sweep' = sweep /\ clock' = clock /\ overlapped' = overlapped
      /\ enabled' = enabled /\ token' = token /\ request' = request
  BY DEF Becomes
<1>4. ASSUME NEW B, IsLog(B), NEW S, TellsOf(B, S), c \notin S, NEW r \in DOMAIN B
      PROVE  B[r] = 1 /\ r = RecordOf(r.call)' /\ (pc'[r.call] = "answered" \/ r.call \in S)
  <2>1. r.call \in Calls
    BY <1>4 DEF IsLog, Records
  <2>2. r.call # c
    BY <1>4 DEF TellsOf, Early
  <2>. QED  BY <1>1, <1>2, <1>4, <2>1, <2>2 DEF TellsOf
<1>5. AuditTypeOK'
  <2>1. /\ o.stage \in {"waiting", "checking", "working", "filing", "saving", "answered"}
        /\ o.at \in 0..clock
        /\ o.status \in Statuses \cup {"none", "not_served"}
    <3>1. clock \in Nat
      BY AuditAssumption DEF AuditTypeOK
    <3>. QED  BY <3>1 DEF Outcomes
  <2>2. pc' \in [Calls -> {"waiting", "checking", "working", "filing", "saving", "answered"}]
    BY <1>a, <2>1 DEF Becomes
  <2>3. verdict' \in [Calls -> Statuses \cup {"none", "not_served"}]
    BY <1>a, <2>1 DEF Becomes
  <2>4. stamp' \in [Calls -> 0..clock]
    BY <1>a, <2>1 DEF Becomes
  <2>5. \A d \in Calls : pc'[d] = "saving" => RecordOf(d)' \in DOMAIN batch[d]
    BY <1>2, <1>3 DEF AuditTypeOK
  <2>6. retired' \subseteq Calls
    BY DEF EarlyStep, AuditTypeOK
  <2>. QED  BY <1>c, <2>2, <2>3, <2>4, <2>5, <2>6 DEF AuditTypeOK, IsLog
<1>6. FiledOnce'
  <2>. SUFFICES ASSUME NEW d \in Calls
                PROVE  /\ pc'[d] \in {"waiting", "checking", "working"} => stamp'[d] = 0 /\ verdict'[d] = "none"
                       /\ pc'[d] \in {"filing", "saving"} => stamp'[d] > 0 /\ verdict'[d] \in Statuses
    BY DEF FiledOnce
  <2>1. CASE d # c
    BY <1>1, <2>1 DEF FiledOnce, AuditInv
  <2>2. CASE d = c
    <3>1. clock > 0
      BY AuditAssumption DEF AuditTypeOK
    <3>. QED  BY <1>1, <2>2, <3>1 DEF Outcomes
  <2>. QED  BY <2>1, <2>2
<1>7. BagsTellOfAnswers'
  <2>1. TellsOf(log, {})'
    <3>1. IsLog(log) /\ TellsOf(log, {})
      BY DEF BagsTellOfAnswers, AuditInv, AuditTypeOK
    <3>2. \A r \in DOMAIN log :
             log[r] = 1 /\ r = RecordOf(r.call)' /\ (pc'[r.call] = "answered" \/ r.call \in {})
      BY <1>4, <3>1
    <3>. QED  BY <1>c, <3>2 DEF TellsOf
  <2>2. TellsOf(sweep.records, {})'
    <3>1. IsLog(sweep.records) /\ TellsOf(sweep.records, {})
      BY DEF BagsTellOfAnswers, AuditInv, AuditTypeOK
    <3>2. \A r \in DOMAIN sweep.records :
             sweep.records[r] = 1 /\ r = RecordOf(r.call)' /\ (pc'[r.call] = "answered" \/ r.call \in {})
      BY <1>4, <3>1
    <3>. QED  BY <1>c, <3>2 DEF TellsOf
  <2>3. ASSUME NEW d \in Calls, pc'[d] = "saving" PROVE TellsOf(batch[d], {d})'
    <3>1. IsLog(batch[d]) /\ TellsOf(batch[d], {d}) /\ c \notin {d}
      BY <1>3, <2>3 DEF BagsTellOfAnswers, AuditInv, AuditTypeOK
    <3>2. \A r \in DOMAIN batch[d] :
             batch[d][r] = 1 /\ r = RecordOf(r.call)' /\ (pc'[r.call] = "answered" \/ r.call \in {d})
      BY <1>4, <3>1
    <3>. QED  BY <1>c, <3>2 DEF TellsOf
  <2>. QED  BY <2>1, <2>2, <2>3 DEF BagsTellOfAnswers
<1>8. OverlapIsMarked'
  BY <1>3, <1>c DEF OverlapIsMarked, AuditInv
<1>9. DueIsEverywhere'
  <2>. SUFFICES ASSUME NEW d \in Calls, Due(d)'
                PROVE  /\ RecordOf(d)' \in DOMAIN log
                       /\ \A e \in Calls : pc'[e] = "saving" => RecordOf(d)' \in DOMAIN batch[e]
                       /\ sweep.busy => RecordOf(d)' \in DOMAIN sweep.records
    BY <1>c DEF DueIsEverywhere
  <2>1. d # c
    BY <1>1, <1>b DEF Due
  <2>2. Due(d) /\ RecordOf(d)' = RecordOf(d)
    BY <1>1, <1>2, <1>c, <2>1 DEF Due
  <2>. QED  BY <1>3, <2>2 DEF DueIsEverywhere, AuditInv
<1>10. RetiredStaysRetired'
  <2>. SUFFICES ASSUME NEW d \in retired'
                PROVE  /\ request[d].channel = "mcp" /\ request[d].token < token
                       /\ pc'[d] # "working" /\ verdict'[d] \notin {"ok", "not_found", "error"}
    BY <1>c DEF RetiredStaysRetired
  <2>1. CASE d = c
    BY <1>0, <1>1, <2>1 DEF NotServed
  <2>2. CASE d # c
    <3>1. d \in retired /\ d \in Calls
      BY <2>2 DEF EarlyStep, AuditTypeOK
    <3>. QED  BY <1>1, <2>2, <3>1 DEF RetiredStaysRetired, AuditInv
  <2>. QED  BY <2>1, <2>2
<1>. QED  BY <1>5, <1>6, <1>7, <1>8, <1>9, <1>10 DEF AuditInv

LEMMA Filing ==
  ASSUME AuditInv, NEW c \in Calls, NEW s \in Statuses, File(c, s),
         UNCHANGED <<clock, enabled, token, log, sweep, overlapped>>
  PROVE  \E o \in Outcomes : Becomes(c, o) /\ o.stage = "filing" /\ o.status = s
<1> DEFINE o == [stage |-> "filing", status |-> s, at |-> clock]
<1>1. o \in Outcomes
  BY DEF Outcomes
<1>2. Becomes(c, o)
  BY DEF Becomes, File
<1>. QED  BY <1>1, <1>2

LEMMA Answering ==
  ASSUME AuditInv, NEW c \in Calls, Early(c), NEW s \in Statuses \cup {"not_served"}, Answer(c, s),
         UNCHANGED <<clock, enabled, token, log, sweep, overlapped>>
  PROVE  \E o \in Outcomes : Becomes(c, o) /\ o.stage = "answered" /\ o.status = s
<1> DEFINE o == [stage |-> "answered", status |-> s, at |-> 0]
<1>1. o \in Outcomes
  BY DEF Outcomes
<1>2. stamp \in [Calls -> 0..clock] /\ stamp[c] = 0
  BY DEF AuditInv, AuditTypeOK, FiledOnce, Early
<1>3. Becomes(c, o)
  BY <1>2 DEF Becomes, Answer
<1>. QED  BY <1>1, <1>3

LEMMA Proceeding ==
  ASSUME AuditInv, NEW c \in Calls, Early(c), NEW stage \in {"checking", "working"}, Proceed(c, stage),
         UNCHANGED <<clock, enabled, token, log, sweep, overlapped>>
  PROVE  \E o \in Outcomes : Becomes(c, o) /\ o.stage = stage /\ o.status = "none"
<1> DEFINE o == [stage |-> stage, status |-> "none", at |-> 0]
<1>1. o \in Outcomes
  BY DEF Outcomes
<1>2. stamp \in [Calls -> 0..clock] /\ stamp[c] = 0
  BY DEF AuditInv, AuditTypeOK, FiledOnce, Early
<1>3. verdict \in [Calls -> Statuses \cup {"none", "not_served"}] /\ verdict[c] = "none"
  BY DEF AuditInv, AuditTypeOK, FiledOnce, Early
<1>4. Becomes(c, o)
  BY <1>2, <1>3 DEF Becomes, Proceed
<1>. QED  BY <1>1, <1>4

\* Up to the record, whatever a call does is such a step; and a call with a
\* replaced token is never authorised.
LEMMA EarlyActions ==
  ASSUME AuditInv, NEW c \in Calls,
         \/ ReceiveMcp(c) \/ ReceiveLocal(c) \/ Check(c)
         \/ UseTool(c) \/ Analyze(c) \/ Export(c) \/ AnswerIntent(c) \/ RunQuery(c)
  PROVE  EarlyStep(c)
<1>1. /\ request[c] \in Requests /\ request[c].token \in 0..MaxToken /\ token \in 0..MaxToken
      /\ MaxToken \in Nat
  BY AuditAssumption DEF AuditInv, AuditTypeOK
<1>2. c \in retired => request[c].channel = "mcp" /\ request[c].token < token /\ pc[c] # "working"
  BY DEF AuditInv, RetiredStaysRetired
<1>3. /\ {"ok", "not_found", "error", "rejected", "network_not_allowed",
          "invalid_token", "parse_error", "unknown_method"} = Statuses
  BY DEF Statuses
<1>4. CASE ReceiveMcp(c)
  <2>1. Early(c) /\ retired \subseteq retired' /\ retired' \subseteq retired \cup {c}
        /\ UNCHANGED <<clock, enabled, token, log, sweep, overlapped>>
    BY <1>4 DEF ReceiveMcp, Early
  <2>2. c \in retired' => request[c].channel = "mcp" /\ request[c].token < token
    BY <1>1, <1>2, <1>4 DEF ReceiveMcp
  <2>3. \E o \in Outcomes : Becomes(c, o) /\ o.stage # "working" /\ o.status \notin {"ok", "not_found", "error"}
    <3>1. CASE Answer(c, "not_served")
      BY <2>1, <3>1, Answering
    <3>2. CASE File(c, "network_not_allowed")
      BY <1>3, <2>1, <3>2, Filing
    <3>3. CASE Proceed(c, "checking")
      BY <2>1, <3>3, Proceeding
    <3>. QED  BY <1>4, <3>1, <3>2, <3>3 DEF ReceiveMcp
  <2>. QED  BY <2>1, <2>2, <2>3 DEF EarlyStep, NotServed
<1>5. CASE ReceiveLocal(c)
  <2>1. Early(c) /\ retired' = retired /\ c \notin retired
        /\ UNCHANGED <<clock, enabled, token, log, sweep, overlapped>>
    BY <1>2, <1>5 DEF ReceiveLocal, Early, history
  <2>2. \E o \in Outcomes : Becomes(c, o)
    <3>1. CASE Proceed(c, "working")
      BY <2>1, <3>1, Proceeding
    <3>2. CASE Answer(c, "not_found")
      BY <1>3, <2>1, <3>2, Answering
    <3>. QED  BY <1>5, <3>1, <3>2 DEF ReceiveLocal
  <2>. QED  BY <2>1, <2>2 DEF EarlyStep
<1>6. CASE Check(c)
  <2>1. Early(c) /\ retired' = retired
        /\ UNCHANGED <<clock, enabled, token, log, sweep, overlapped>>
    BY <1>6 DEF Check, Early, history
  <2>2. CASE ~Authorised(c)
    <3>1. File(c, "invalid_token")
      BY <1>6, <2>2 DEF Check
    <3>2. \E o \in Outcomes : Becomes(c, o) /\ o.stage = "filing" /\ o.status = "invalid_token"
      BY <1>3, <2>1, <3>1, Filing
    <3>. QED  BY <1>2, <2>1, <3>2 DEF EarlyStep, NotServed
  <2>3. CASE Authorised(c)
    <3>1. c \notin retired
      BY <1>1, <1>2, <2>3 DEF Authorised
    <3>2. CASE \E s \in {"parse_error", "unknown_method"} : File(c, s)
      BY <1>3, <2>1, <3>1, <3>2, Filing DEF EarlyStep
    <3>3. CASE \E s \in {"ok", "error"} : Answer(c, s)
      BY <1>3, <2>1, <3>1, <3>3, Answering DEF EarlyStep
    <3>4. CASE Proceed(c, "working")
      BY <2>1, <3>1, <3>4, Proceeding DEF EarlyStep
    <3>. QED  BY <1>6, <2>3, <3>2, <3>3, <3>4 DEF Check
  <2>. QED  BY <2>2, <2>3
<1>7. CASE ToolEnds(c)
  <2>1. Early(c) /\ retired' = retired /\ c \notin retired
        /\ UNCHANGED <<clock, enabled, token, log, sweep, overlapped>>
    BY <1>2, <1>7 DEF ToolEnds, Early, history
  <2>2. PICK s \in Statuses : File(c, s)
    BY <1>3, <1>7 DEF ToolEnds
  <2>. QED  BY <2>1, <2>2, Filing DEF EarlyStep
<1>8. CASE RunQuery(c)
  <2>1. Early(c) /\ retired' = retired /\ c \notin retired
        /\ UNCHANGED <<clock, enabled, token, log, sweep, overlapped>>
    BY <1>2, <1>8 DEF RunQuery, Early, history
  <2>2. CASE \E s \in {"ok", "rejected"} : File(c, s)
    BY <1>3, <2>1, <2>2, Filing DEF EarlyStep
  <2>3. CASE Answer(c, "error")
    BY <1>3, <2>1, <2>3, Answering DEF EarlyStep
  <2>. QED  BY <1>8, <2>2, <2>3 DEF RunQuery
<1>. QED  BY <1>4, <1>5, <1>6, <1>7, <1>8 DEF UseTool, Analyze, Export, AnswerIntent

-----------------------------------------------------------------------------
(* The append and the sweep.                                                 *)

\* What a bag told of, it tells of after a step that changes no record and
\* takes no answer back.
LEMMA StillTold ==
  ASSUME NEW B, IsLog(B), NEW S, TellsOf(B, S), verdict' = verdict, stamp' = stamp, NEW U,
         \A d \in Calls : pc[d] = "answered" \/ d \in S => pc'[d] = "answered" \/ d \in U
  PROVE  \A r \in DOMAIN B :
            B[r] = 1 /\ r = RecordOf(r.call)' /\ (pc'[r.call] = "answered" \/ r.call \in U)
<1>. TAKE r \in DOMAIN B
<1>1. r.call \in Calls
  BY DEF IsLog, Records
<1>2. B[r] = 1 /\ r = RecordOf(r.call) /\ (pc[r.call] = "answered" \/ r.call \in S)
  BY DEF TellsOf
<1>. QED  BY <1>1, <1>2 DEF RecordOf

LEMMA LoadLogKeeps ==
  ASSUME AuditInv, NEW c \in Calls, LoadLog(c)
  PROVE  AuditInv'
<1>1. AuditTypeOK /\ FiledOnce /\ BagsTellOfAnswers /\ OverlapIsMarked /\ DueIsEverywhere /\ RetiredStaysRetired
  BY DEF AuditInv
<1>2. pc \in [Calls -> {"waiting", "checking", "working", "filing", "saving", "answered"}]
      /\ DOMAIN batch = Calls
  BY <1>1 DEF AuditTypeOK
<1>3. /\ pc[c] = "filing"
      /\ clock' = clock /\ enabled' = enabled /\ token' = token /\ log' = log /\ request' = request
      /\ verdict' = verdict /\ stamp' = stamp /\ sweep' = sweep /\ retired' = retired
  BY DEF LoadLog
<1>4. /\ pc' = [pc EXCEPT ![c] = "saving"] /\ pc'[c] = "saving" /\ \A d \in Calls \ {c} : pc'[d] = pc[d]
      /\ DOMAIN batch' = Calls
      /\ batch'[c] = (Pruned(log) (+) SetToBag({RecordOf(c)})) /\ \A d \in Calls \ {c} : batch'[d] = batch[d]
  BY <1>2 DEF LoadLog
<1>5. /\ overlapped \subseteq overlapped' /\ overlapped' \subseteq Calls
      /\ Saving # {} \/ sweep.busy => Saving \cup {c} \subseteq overlapped'
  BY <1>1 DEF LoadLog, AuditTypeOK, Saving
<1>6. \A d \in Calls : RecordOf(d)' = RecordOf(d)
  BY <1>3 DEF RecordOf
<1>7. RecordOf(c) \in Records
  <2>1. clock \in 1..MaxTime /\ stamp[c] \in 0..clock /\ MaxTime \in Nat
    BY <1>1, AuditAssumption DEF AuditTypeOK
  <2>2. verdict[c] \in Statuses
    BY <1>1, <1>3 DEF FiledOnce
  <2>3. stamp[c] \in 0..MaxTime
    BY <2>1
  <2>. QED  BY <2>2, <2>3 DEF RecordOf, Records
<1>8. /\ IsLog(Pruned(log)) /\ TellsOf(Pruned(log), {})
      /\ \A r \in DOMAIN log : clock - r.at <= Retention => r \in DOMAIN Pruned(log)
  <2>1. IsLog(log) /\ TellsOf(log, {})
    BY <1>1 DEF AuditTypeOK, BagsTellOfAnswers
  <2>. QED  BY <1>1, <2>1, PrunedFacts
<1>9. /\ IsLog(batch'[c]) /\ TellsOf(Pruned(log) (+) SetToBag({RecordOf(c)}), {c})
      /\ DOMAIN batch'[c] = DOMAIN Pruned(log) \cup {RecordOf(c)}
  <2>1. pc[c] # "answered"
    BY <1>3
  <2>. DEFINE B == Pruned(log)
  <2>2. IsLog(B) /\ TellsOf(B, {})
    BY <1>8
  <2>. HIDE DEF B
  <2>3. /\ IsLog(B (+) SetToBag({RecordOf(c)})) /\ TellsOf(B (+) SetToBag({RecordOf(c)}), {c})
        /\ DOMAIN (B (+) SetToBag({RecordOf(c)})) = DOMAIN B \cup {RecordOf(c)}
    BY <1>7, <2>1, <2>2, AddedFacts
  <2>. QED  BY <1>4, <2>3 DEF B
<1>10. AuditTypeOK'
  <2>1. pc' \in [Calls -> {"waiting", "checking", "working", "filing", "saving", "answered"}]
    BY <1>2, <1>4
  <2>2. \A d \in Calls : IsLog(batch'[d]) /\ (pc'[d] = "saving" => RecordOf(d)' \in DOMAIN batch'[d])
    BY <1>1, <1>4, <1>6, <1>9 DEF AuditTypeOK
  <2>. QED  BY <1>1, <1>3, <1>4, <1>5, <2>1, <2>2 DEF AuditTypeOK, IsLog
<1>11. FiledOnce'
  BY <1>1, <1>3, <1>4 DEF FiledOnce
<1>12. BagsTellOfAnswers'
  <2>1. \A d \in Calls : pc[d] = "answered" => pc'[d] = "answered"
    BY <1>3, <1>4
  <2>2. TellsOf(log, {})'
    <3>1. IsLog(log) /\ TellsOf(log, {})
      BY <1>1 DEF AuditTypeOK, BagsTellOfAnswers
    <3>2. \A r \in DOMAIN log :
             log[r] = 1 /\ r = RecordOf(r.call)' /\ (pc'[r.call] = "answered" \/ r.call \in {})
      BY <1>3, <2>1, <3>1, StillTold
    <3>. QED  BY <1>3, <3>2 DEF TellsOf
  <2>3. TellsOf(sweep.records, {})'
    <3>1. IsLog(sweep.records) /\ TellsOf(sweep.records, {})
      BY <1>1 DEF AuditTypeOK, BagsTellOfAnswers
    <3>2. \A r \in DOMAIN sweep.records :
             sweep.records[r] = 1 /\ r = RecordOf(r.call)' /\ (pc'[r.call] = "answered" \/ r.call \in {})
      BY <1>3, <2>1, <3>1, StillTold
    <3>. QED  BY <1>3, <3>2 DEF TellsOf
  <2>4. ASSUME NEW d \in Calls, pc'[d] = "saving" PROVE TellsOf(batch[d], {d})'
    <3>1. IsLog(batch'[d]) /\ TellsOf(batch'[d], {d})
      BY <1>1, <1>4, <1>9, <2>4 DEF AuditTypeOK, BagsTellOfAnswers
    <3>2. \A r \in DOMAIN batch'[d] :
             batch'[d][r] = 1 /\ r = RecordOf(r.call)' /\ (pc'[r.call] = "answered" \/ r.call \in {d})
      BY <1>3, <2>1, <3>1, StillTold
    <3>. QED  BY <3>2 DEF TellsOf
  <2>. QED  BY <2>2, <2>3, <2>4 DEF BagsTellOfAnswers
<1>13. OverlapIsMarked'
  <2>. SUFFICES ASSUME NEW d \in Calls, pc'[d] = "saving"
                PROVE  /\ sweep.busy => d \in overlapped'
                       /\ \A e \in Calls : pc'[e] = "saving" /\ e # d => d \in overlapped'
    BY <1>3 DEF OverlapIsMarked
  <2>1. CASE d = c
    <3>1. \A e \in Calls : pc'[e] = "saving" /\ e # d => Saving # {}
      BY <1>4, <2>1 DEF Saving
    <3>. QED  BY <1>5, <2>1, <3>1
  <2>2. CASE d # c
    BY <1>4, <1>5, <2>2 DEF Saving
  <2>. QED  BY <2>1, <2>2
<1>14. DueIsEverywhere'
  <2>. SUFFICES ASSUME NEW d \in Calls, Due(d)'
                PROVE  /\ RecordOf(d)' \in DOMAIN log
                       /\ \A e \in Calls : pc'[e] = "saving" => RecordOf(d)' \in DOMAIN batch'[e]
                       /\ sweep.busy => RecordOf(d)' \in DOMAIN sweep.records
    BY <1>3 DEF DueIsEverywhere
  <2>1. d # c /\ Due(d)
    BY <1>3, <1>4, <1>5 DEF Due
  <2>2. RecordOf(d) \in DOMAIN Pruned(log)
    BY <1>1, <1>8, <2>1 DEF DueIsEverywhere, Due, RecordOf
  <2>. QED  BY <1>1, <1>4, <1>6, <1>9, <2>1, <2>2 DEF DueIsEverywhere
<1>15. RetiredStaysRetired'
  BY <1>1, <1>3, <1>4 DEF RetiredStaysRetired, AuditTypeOK
<1>. QED  BY <1>10, <1>11, <1>12, <1>13, <1>14, <1>15 DEF AuditInv

LEMMA SaveLogKeeps ==
  ASSUME AuditInv, NEW c \in Calls, SaveLog(c)
  PROVE  AuditInv'
<1>1. AuditTypeOK /\ FiledOnce /\ BagsTellOfAnswers /\ OverlapIsMarked /\ DueIsEverywhere /\ RetiredStaysRetired
  BY DEF AuditInv
<1>2. pc \in [Calls -> {"waiting", "checking", "working", "filing", "saving", "answered"}]
      /\ DOMAIN batch = Calls
  BY <1>1 DEF AuditTypeOK
<1>3. /\ pc[c] = "saving"
      /\ clock' = clock /\ enabled' = enabled /\ token' = token /\ log' = batch[c] /\ request' = request
      /\ verdict' = verdict /\ stamp' = stamp /\ sweep' = sweep /\ overlapped' = overlapped
      /\ retired' = retired
  BY DEF SaveLog, history
<1>4. /\ pc' = [pc EXCEPT ![c] = "answered"] /\ pc'[c] = "answered" /\ \A d \in Calls \ {c} : pc'[d] = pc[d]
      /\ DOMAIN batch' = Calls
      /\ batch'[c] = EmptyBag /\ \A d \in Calls \ {c} : batch'[d] = batch[d]
  BY <1>2 DEF SaveLog
<1>5. \A d \in Calls : RecordOf(d)' = RecordOf(d)
  BY <1>3 DEF RecordOf
<1>6. IsLog(EmptyBag)
  BY DEF IsLog, IsABag, EmptyBag, SetToBag
<1>7. AuditTypeOK'
  <2>1. pc' \in [Calls -> {"waiting", "checking", "working", "filing", "saving", "answered"}]
    BY <1>2, <1>4
  <2>2. \A d \in Calls : IsLog(batch'[d]) /\ (pc'[d] = "saving" => RecordOf(d)' \in DOMAIN batch'[d])
    BY <1>1, <1>4, <1>5, <1>6 DEF AuditTypeOK
  <2>3. IsLog(log')
    BY <1>1, <1>3 DEF AuditTypeOK
  <2>. QED  BY <1>1, <1>3, <1>4, <2>1, <2>2, <2>3 DEF AuditTypeOK, IsLog
<1>8. FiledOnce'
  BY <1>1, <1>3, <1>4 DEF FiledOnce
<1>9. BagsTellOfAnswers'
  <2>1. \A d \in Calls : pc[d] = "answered" \/ d = c => pc'[d] = "answered"
    BY <1>4
  <2>2. TellsOf(log, {})'
    <3>1. IsLog(batch[c]) /\ TellsOf(batch[c], {c})
      BY <1>1, <1>3 DEF AuditTypeOK, BagsTellOfAnswers
    <3>2. \A r \in DOMAIN batch[c] :
             batch[c][r] = 1 /\ r = RecordOf(r.call)' /\ (pc'[r.call] = "answered" \/ r.call \in {})
      BY <1>3, <2>1, <3>1, StillTold
    <3>. QED  BY <1>3, <3>2 DEF TellsOf
  <2>3. TellsOf(sweep.records, {})'
    <3>1. IsLog(sweep.records) /\ TellsOf(sweep.records, {})
      BY <1>1 DEF AuditTypeOK, BagsTellOfAnswers
    <3>2. \A r \in DOMAIN sweep.records :
             sweep.records[r] = 1 /\ r = RecordOf(r.call)' /\ (pc'[r.call] = "answered" \/ r.call \in {})
      BY <1>3, <2>1, <3>1, StillTold
    <3>. QED  BY <1>3, <3>2 DEF TellsOf
  <2>4. ASSUME NEW d \in Calls, pc'[d] = "saving" PROVE TellsOf(batch[d], {d})'
    <3>1. IsLog(batch[d]) /\ TellsOf(batch[d], {d}) /\ batch'[d] = batch[d]
      BY <1>1, <1>4, <2>4 DEF AuditTypeOK, BagsTellOfAnswers
    <3>2. \A r \in DOMAIN batch[d] :
             batch[d][r] = 1 /\ r = RecordOf(r.call)' /\ (pc'[r.call] = "answered" \/ r.call \in {d})
      BY <1>3, <2>1, <3>1, StillTold
    <3>. QED  BY <3>1, <3>2 DEF TellsOf
  <2>. QED  BY <2>2, <2>3, <2>4 DEF BagsTellOfAnswers
<1>10. OverlapIsMarked'
  BY <1>1, <1>3, <1>4 DEF OverlapIsMarked
<1>11. DueIsEverywhere'
  <2>. SUFFICES ASSUME NEW d \in Calls, Due(d)'
                PROVE  /\ RecordOf(d) \in DOMAIN batch[c]
                       /\ \A e \in Calls : pc'[e] = "saving" => RecordOf(d) \in DOMAIN batch[e]
                       /\ sweep.busy => RecordOf(d) \in DOMAIN sweep.records
    BY <1>3, <1>4, <1>5 DEF DueIsEverywhere
  <2>1. CASE d = c
    <3>1. c \notin overlapped
      BY <1>3, <2>1 DEF Due
    <3>2. ~sweep.busy /\ \A e \in Calls : pc[e] = "saving" => e = c
      BY <1>1, <1>3, <3>1 DEF OverlapIsMarked
    <3>3. RecordOf(c) \in DOMAIN batch[c]
      BY <1>1, <1>3 DEF AuditTypeOK
    <3>. QED  BY <1>4, <2>1, <3>2, <3>3
  <2>2. CASE d # c
    <3>1. Due(d)
      BY <1>3, <1>4, <2>2 DEF Due
    <3>. QED  BY <1>1, <1>3, <1>4, <3>1 DEF DueIsEverywhere
  <2>. QED  BY <2>1, <2>2
<1>12. RetiredStaysRetired'
  BY <1>1, <1>3, <1>4 DEF RetiredStaysRetired, AuditTypeOK
<1>. QED  BY <1>7, <1>8, <1>9, <1>10, <1>11, <1>12 DEF AuditInv

LEMMA SweepLoadKeeps ==
  ASSUME AuditInv, SweepLoad
  PROVE  AuditInv'
<1>1. AuditTypeOK /\ FiledOnce /\ BagsTellOfAnswers /\ OverlapIsMarked /\ DueIsEverywhere /\ RetiredStaysRetired
  BY DEF AuditInv
<1>3. /\ clock' = clock /\ enabled' = enabled /\ token' = token /\ log' = log /\ request' = request
      /\ pc' = pc /\ verdict' = verdict /\ stamp' = stamp /\ batch' = batch /\ retired' = retired
      /\ sweep'.busy = TRUE /\ sweep'.records = Pruned(log)
      /\ overlapped' = overlapped \cup Saving
  BY DEF SweepLoad, callVars
<1>4. \A d \in Calls : RecordOf(d)' = RecordOf(d)
  BY <1>3 DEF RecordOf
<1>5. IsLog(log) /\ TellsOf(log, {})
  BY <1>1 DEF AuditTypeOK, BagsTellOfAnswers
<1>6. /\ IsLog(Pruned(log)) /\ TellsOf(Pruned(log), {})
      /\ \A r \in DOMAIN log : clock - r.at <= Retention => r \in DOMAIN Pruned(log)
  BY <1>1, <1>5, PrunedFacts
<1>7. AuditTypeOK'
  <2>1. overlapped' \subseteq Calls
    BY <1>1, <1>3 DEF AuditTypeOK, Saving
  <2>2. IsLog(sweep'.records) /\ sweep'.busy \in BOOLEAN
    BY <1>3, <1>6
  <2>3. \A d \in Calls : IsLog(batch[d]) /\ (pc[d] = "saving" => RecordOf(d)' \in DOMAIN batch[d])
    BY <1>1, <1>4 DEF AuditTypeOK
  <2>. QED  BY <1>1, <1>3, <2>1, <2>2, <2>3 DEF AuditTypeOK, IsLog
<1>8. FiledOnce' /\ RetiredStaysRetired'
  BY <1>1, <1>3 DEF FiledOnce, RetiredStaysRetired
<1>9. BagsTellOfAnswers'
  BY <1>1, <1>3, <1>4, <1>5, <1>6 DEF BagsTellOfAnswers, TellsOf, RecordOf
<1>10. OverlapIsMarked'
  BY <1>1, <1>3 DEF OverlapIsMarked, Saving
<1>11. DueIsEverywhere'
  <2>. SUFFICES ASSUME NEW d \in Calls, Due(d)'
                PROVE  /\ RecordOf(d) \in DOMAIN log
                       /\ \A e \in Calls : pc[e] = "saving" => RecordOf(d) \in DOMAIN batch[e]
                       /\ RecordOf(d) \in DOMAIN Pruned(log)
    BY <1>3, <1>4 DEF DueIsEverywhere
  <2>1. Due(d)
    BY <1>3 DEF Due
  <2>. QED  BY <1>1, <1>6, <2>1 DEF DueIsEverywhere, Due, RecordOf
<1>. QED  BY <1>7, <1>8, <1>9, <1>10, <1>11 DEF AuditInv

LEMMA SweepSaveKeeps ==
  ASSUME AuditInv, SweepSave
  PROVE  AuditInv'
<1>1. AuditTypeOK /\ FiledOnce /\ BagsTellOfAnswers /\ OverlapIsMarked /\ DueIsEverywhere /\ RetiredStaysRetired
  BY DEF AuditInv
<1>2. IsLog(EmptyBag) /\ DOMAIN EmptyBag = {}
  BY DEF IsLog, IsABag, EmptyBag, SetToBag
<1>3. /\ sweep.busy
      /\ clock' = clock /\ enabled' = enabled /\ token' = token /\ log' = sweep.records
      /\ request' = request /\ pc' = pc /\ verdict' = verdict /\ stamp' = stamp /\ batch' = batch
      /\ overlapped' = overlapped /\ retired' = retired
      /\ sweep'.busy = FALSE /\ sweep'.records = EmptyBag
  BY DEF SweepSave, callVars, history, Idle
<1>4. \A d \in Calls : RecordOf(d)' = RecordOf(d)
  BY <1>3 DEF RecordOf
<1>5. AuditTypeOK'
  <2>1. IsLog(log') /\ IsLog(sweep'.records) /\ sweep'.busy \in BOOLEAN
    BY <1>1, <1>2, <1>3 DEF AuditTypeOK
  <2>2. \A d \in Calls : IsLog(batch[d]) /\ (pc[d] = "saving" => RecordOf(d)' \in DOMAIN batch[d])
    BY <1>1, <1>4 DEF AuditTypeOK
  <2>. QED  BY <1>1, <1>3, <2>1, <2>2 DEF AuditTypeOK, IsLog
<1>6. FiledOnce' /\ RetiredStaysRetired' /\ OverlapIsMarked'
  BY <1>1, <1>3 DEF FiledOnce, RetiredStaysRetired, OverlapIsMarked
<1>7. BagsTellOfAnswers'
  BY <1>1, <1>2, <1>3, <1>4 DEF BagsTellOfAnswers, TellsOf, RecordOf
<1>8. DueIsEverywhere'
  BY <1>1, <1>3, <1>4 DEF DueIsEverywhere, Due
<1>. QED  BY <1>5, <1>6, <1>7, <1>8 DEF AuditInv

\* What happens around the calls: the token grows, the clock moves on.
LEMMA AroundCallsKeeps ==
  ASSUME AuditInv, RegenerateToken \/ SetEnabled \/ CreateToken \/ Tick \/ UNCHANGED auditVars
  PROVE  AuditInv'
<1>1. AuditTypeOK /\ FiledOnce /\ BagsTellOfAnswers /\ OverlapIsMarked /\ DueIsEverywhere /\ RetiredStaysRetired
  BY DEF AuditInv
<1>2. token \in 0..MaxToken /\ MaxToken \in Nat /\ clock \in 1..MaxTime /\ MaxTime \in Nat /\ Retention \in Nat
  BY <1>1, AuditAssumption DEF AuditTypeOK
<1>3. /\ log' = log /\ request' = request /\ pc' = pc /\ verdict' = verdict /\ stamp' = stamp
      /\ batch' = batch /\ sweep' = sweep /\ overlapped' = overlapped /\ retired' = retired
  BY DEF RegenerateToken, SetEnabled, CreateToken, Tick, auditVars, callVars, history
<1>4. clock' \in clock..MaxTime
  BY <1>2 DEF RegenerateToken, SetEnabled, CreateToken, Tick, auditVars
<1>5. token' \in token..MaxToken
  <2>1. CASE RegenerateToken
    BY <1>2, <2>1 DEF RegenerateToken
  <2>2. CASE CreateToken
    <3>1. token = 0 /\ token' = 1
      BY <2>2 DEF CreateToken
    <3>2. MaxToken \in Nat \ {0}
      BY AuditAssumption
    <3>. QED  BY <3>1, <3>2
  <2>3. CASE SetEnabled \/ Tick \/ UNCHANGED auditVars
    BY <1>2, <2>3 DEF SetEnabled, Tick, auditVars
  <2>. QED  BY <2>1, <2>2, <2>3
<1>6. enabled' \in BOOLEAN
  BY <1>1 DEF RegenerateToken, SetEnabled, CreateToken, Tick, auditVars, AuditTypeOK
<1>7. \A d \in Calls : RecordOf(d)' = RecordOf(d)
  BY <1>3 DEF RecordOf
<1>8. AuditTypeOK'
  <2>1. clock' \in 1..MaxTime /\ token' \in 0..MaxToken
    BY <1>2, <1>4, <1>5
  <2>2. stamp' \in [Calls -> 0..clock']
    <3>1. stamp \in [Calls -> 0..clock] /\ 0..clock \subseteq 0..clock'
      BY <1>1, <1>2, <1>4 DEF AuditTypeOK
    <3>. QED  BY <1>3, <3>1
  <2>3. \A d \in Calls : IsLog(batch[d]) /\ (pc[d] = "saving" => RecordOf(d)' \in DOMAIN batch[d])
    BY <1>1, <1>7 DEF AuditTypeOK
  <2>. QED  BY <1>1, <1>3, <1>6, <2>1, <2>2, <2>3 DEF AuditTypeOK, IsLog
<1>9. FiledOnce' /\ OverlapIsMarked'
  BY <1>1, <1>3 DEF FiledOnce, OverlapIsMarked
<1>10. BagsTellOfAnswers'
  BY <1>1, <1>3, <1>7 DEF BagsTellOfAnswers, TellsOf, RecordOf
<1>11. DueIsEverywhere'
  <2>. SUFFICES ASSUME NEW d \in Calls, Due(d)' PROVE Due(d)
    BY <1>1, <1>3, <1>7 DEF DueIsEverywhere
  <2>1. stamp[d] \in 0..clock
    BY <1>1 DEF AuditTypeOK
  <2>2. clock - stamp[d] <= Retention
    <3>1. clock' - stamp[d] <= Retention
      BY <1>3 DEF Due
    <3>. QED  BY <1>2, <1>4, <2>1, <3>1
  <2>. QED  BY <1>3, <2>2 DEF Due
<1>12. RetiredStaysRetired'
  <2>. SUFFICES ASSUME NEW d \in retired PROVE request[d].token < token'
    BY <1>1, <1>3 DEF RetiredStaysRetired
  <2>1. request[d].token < token /\ request[d].token \in 0..MaxToken
    BY <1>1, AuditAssumption DEF RetiredStaysRetired, AuditTypeOK
  <2>. QED  BY <1>2, <1>5, <2>1
<1>. QED  BY <1>8, <1>9, <1>10, <1>11, <1>12 DEF AuditInv

\* Whatever the clock, the tokens and the number of calls, and however the
\* appends and the sweep interleave under no lock: every call is served on a
\* token in force if it needs one, and leaves one record, true to its answer,
\* that only an overlapping save can drop.
THEOREM CallsAlwaysAccountedFor == AuditSpec => []CallsAreAccountedFor
<1>1. AuditInit => AuditInv
  BY AuditStarts
<1>2. AuditInv /\ [AuditNext]_auditVars => AuditInv'
  <2>. SUFFICES ASSUME AuditInv, [AuditNext]_auditVars PROVE AuditInv'
    OBVIOUS
  <2>1. ASSUME NEW c \in Calls, Handle(c) PROVE AuditInv'
    <3>1. CASE LoadLog(c)
      BY <3>1, LoadLogKeeps
    <3>2. CASE SaveLog(c)
      BY <3>2, SaveLogKeeps
    <3>3. CASE ~LoadLog(c) /\ ~SaveLog(c)
      BY <2>1, <3>3, EarlyActions, EarlyStepKeeps DEF Handle
    <3>. QED  BY <3>1, <3>2, <3>3
  <2>. QED  BY <2>1, SweepLoadKeeps, SweepSaveKeeps, AroundCallsKeeps DEF AuditNext
<1>3. AuditInv => CallsAreAccountedFor
  BY AuditInvSuffices
<1>. QED  BY <1>1, <1>2, <1>3, PTL DEF AuditSpec
=============================================================================
