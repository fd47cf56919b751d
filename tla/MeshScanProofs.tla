--------------------------- MODULE MeshScanProofs ---------------------------
(***************************************************************************)
(* For any network, batch size, limits, retention and number of failures:  *)
(* the last scan that was written completely stays whole, and a history    *)
(* that was thinned out is thin.                                           *)
(* What is answered beside a scan is read in several steps; the invariant  *)
(* is that a snapshot that was written completely keeps its tree as long   *)
(* as it is there, so that a later clean-up takes nothing from an answer.  *)
(* For any home: the tools that read it agree, which rests on no link      *)
(* leading to a node that is not there; and an export keeps to its area,   *)
(* and says that it was cut, as each of its queries leaves true.           *)
(* For any floor plan: however a link and a wall lie, what the code makes  *)
(* of products of coordinates is that they have a point in common, which   *)
(* does not depend on the end it is looked at from; nor does the price.    *)
(***************************************************************************)
EXTENDS MeshHealth, ContextExport, MeshGeometry, FiniteSetTheorems, WellFoundedInduction, TLAPS

Writing == phase \in {"node", "links", "expire", "thin"}

\* The scan at hand is younger than its retention, and the latest there is.
ScanIsLatest ==
    /\ stamp <= clock
    /\ Complete \subseteq 1..clock
    /\ Writing => clock - stamp <= Retention /\ \A t \in Complete : t <= stamp

\* How far the scan at hand has come.
ScanIsOnItsWay ==
    /\ phase \in {"links", "expire", "thin"} => stamp \in snapshots /\ ~ thin
    /\ phase \in {"expire", "thin"} => stamp \in Complete

EveryAnswerWasAskedFor == asked <= scans

IInv ==
    /\ TypeOK
    /\ EveryAnswerWasAskedFor
    /\ ScanIsLatest
    /\ ScanIsOnItsWay
    /\ LastScanIsWhole
    /\ HistoryIsThin

-----------------------------------------------------------------------------
LEMMA InitInv == Init => IInv
<1> SUFFICES ASSUME Init PROVE IInv
  OBVIOUS
<1>1. 1 \in Times
  BY MeshAssumption DEF Times
<1>2. TypeOK
  <2>1. links \in [Times -> SUBSET Links] /\ \A s \in Times : links[s] = {}
    BY DEF Init
  <2>2. carried \in [Times -> (SUBSET Links) \cup {Incomplete}]
    BY DEF Init
  <2>3. asked \in 0..MaxScans /\ scans \in 0..MaxScans /\ failures \in 0..MaxFailures
    BY MeshAssumption DEF Init
  <2>4. batches \in 0..(MaxBatches - 1)
    BY MeshAssumption DEF Init
  <2> QED
    BY <1>1, <2>1, <2>2, <2>3, <2>4 DEF Init, TypeOK
<1>3. Complete = {}
  BY DEF Init, Complete
<1>4. EveryAnswerWasAskedFor /\ ScanIsLatest /\ ScanIsOnItsWay
  BY <1>3 DEF Init, EveryAnswerWasAskedFor, ScanIsLatest, ScanIsOnItsWay, Writing
<1>5. LastScanIsWhole /\ HistoryIsThin
  BY <1>3 DEF Init, LastScanIsWhole, HistoryIsThin
<1> QED
  BY <1>2, <1>4, <1>5 DEF IInv

-----------------------------------------------------------------------------
(* Steps that write nothing to the graph *)

\* As long as the graph and the name of the newest snapshot stay, what is said
\* of the snapshots does.
LEMMA GraphFrame ==
    ASSUME IInv, UNCHANGED <<snapshots, links, carried>>
    PROVE  LastScanIsWhole' /\ Complete' = Complete
  BY DEF IInv, LastScanIsWhole, Complete

LEMMA TickInv == ASSUME IInv, Tick PROVE IInv'
<1> USE DEF IInv
<1>1. /\ clock \in Nat /\ stamp \in Nat /\ clock' = clock + 1 /\ clock' \in Times
      /\ Writing => clock - stamp < Retention
      /\ UNCHANGED <<asked, answers, snapshots, links, phase, stamp, todo, batches, carried, thin,
                     scans, failures>>
  BY MeshAssumption DEF Tick, TypeOK, Times, Writing, mqttVars, graphVars, scanVars, history
<1>2. LastScanIsWhole' /\ Complete' = Complete
  BY <1>1, GraphFrame
<1>3. TypeOK'
  BY <1>1 DEF TypeOK
<1>4. ScanIsLatest'
  <2>1. Complete' \subseteq 1..clock'
    BY <1>1, <1>2 DEF ScanIsLatest
  <2>2. stamp' <= clock'
    BY <1>1 DEF ScanIsLatest
  <2>3. Writing' => clock' - stamp' <= Retention /\ \A t \in Complete' : t <= stamp'
    BY <1>1, <1>2, MeshAssumption DEF ScanIsLatest, Writing
  <2> QED
    BY <2>1, <2>2, <2>3 DEF ScanIsLatest
<1>5. EveryAnswerWasAskedFor' /\ ScanIsOnItsWay' /\ HistoryIsThin'
  BY <1>1, <1>2 DEF EveryAnswerWasAskedFor, ScanIsOnItsWay, HistoryIsThin
<1> QED
  BY <1>2, <1>3, <1>4, <1>5

LEMMA AnswerInv == ASSUME IInv, NEW S \in SUBSET Links, Answer(S) \/ Lose(S) PROVE IInv'
<1> USE DEF IInv
<1>1. /\ UNCHANGED <<clock, snapshots, links, phase, stamp, todo, batches, carried, thin,
                     scans, failures>>
      /\ asked' \in Nat /\ asked' <= asked
      /\ answers' \subseteq SUBSET Links
  BY MeshAssumption DEF Answer, Lose, TypeOK, graphVars, scanVars, history
<1>2. LastScanIsWhole' /\ Complete' = Complete
  BY <1>1, GraphFrame
<1>3. TypeOK' /\ EveryAnswerWasAskedFor'
  BY <1>1, MeshAssumption DEF TypeOK, EveryAnswerWasAskedFor
<1>4. ScanIsLatest' /\ ScanIsOnItsWay' /\ HistoryIsThin'
  BY <1>1, <1>2 DEF ScanIsLatest, Writing, ScanIsOnItsWay, HistoryIsThin
<1> QED
  BY <1>2, <1>3, <1>4

LEMMA BeginInv == ASSUME IInv, Begin PROVE IInv'
<1> USE DEF IInv
<1>1. /\ UNCHANGED <<clock, answers, snapshots, links, stamp, todo, batches, carried, thin, failures>>
      /\ phase = "idle" /\ phase' = "waiting"
      /\ scans' = scans + 1 /\ scans < MaxScans /\ asked' = asked + 1
  BY DEF Begin, graphVars, history
<1>2. LastScanIsWhole' /\ Complete' = Complete
  BY <1>1, GraphFrame
<1>3. TypeOK' /\ EveryAnswerWasAskedFor'
  BY <1>1, MeshAssumption DEF TypeOK, EveryAnswerWasAskedFor
<1>4. ScanIsLatest' /\ ScanIsOnItsWay' /\ HistoryIsThin'
  BY <1>1, <1>2 DEF ScanIsLatest, Writing, ScanIsOnItsWay, HistoryIsThin
<1> QED
  BY <1>2, <1>3, <1>4

\* The wait ends without an answer.
LEMMA GiveUpInv == ASSUME IInv, Timeout \/ WaitFails PROVE IInv'
<1> USE DEF IInv
<1>1. /\ UNCHANGED <<clock, asked, answers, snapshots, links, stamp, carried, thin, scans>>
      /\ phase = "waiting" /\ phase' = "idle" /\ todo' = {} /\ batches' = 0
      /\ failures' \in 0..MaxFailures
  BY MeshAssumption
  DEF Timeout, WaitFails, Fails, EndScan, TypeOK, mqttVars, graphVars, history
<1>2. LastScanIsWhole' /\ Complete' = Complete
  BY <1>1, GraphFrame
<1>3. TypeOK' /\ EveryAnswerWasAskedFor'
  BY <1>1, MeshAssumption DEF TypeOK, EveryAnswerWasAskedFor
<1>4. ScanIsLatest' /\ ScanIsOnItsWay' /\ HistoryIsThin'
  BY <1>1, <1>2 DEF ScanIsLatest, Writing, ScanIsOnItsWay, HistoryIsThin
<1> QED
  BY <1>2, <1>3, <1>4

\* The answer dates the snapshot: none that is complete is later.
LEMMA ReceiveInv == ASSUME IInv, NEW S \in SUBSET Links, Receive(S) PROVE IInv'
<1> USE DEF IInv
<1>1. /\ UNCHANGED <<clock, asked, snapshots, links, batches, carried, thin, scans, failures>>
      /\ phase = "waiting" /\ phase' = "node" /\ todo' = S /\ stamp' = clock
      /\ answers' \subseteq answers
  BY DEF Receive, graphVars, history
<1>2. LastScanIsWhole' /\ Complete' = Complete
  BY <1>1, GraphFrame
<1>3. TypeOK' /\ EveryAnswerWasAskedFor'
  BY <1>1 DEF TypeOK, EveryAnswerWasAskedFor
<1>4. ScanIsLatest'
  <2>1. clock \in Nat /\ \A t \in 1..clock : t <= clock
    BY MeshAssumption DEF TypeOK, Times
  <2> QED
    BY <1>1, <1>2, <2>1, MeshAssumption DEF ScanIsLatest, Writing
<1>5. ScanIsOnItsWay' /\ HistoryIsThin'
  BY <1>1 DEF ScanIsOnItsWay, HistoryIsThin
<1> QED
  BY <1>2, <1>3, <1>4, <1>5

-----------------------------------------------------------------------------
(* Writing a snapshot *)

LEMMA WriteSnapshotInv == ASSUME IInv, WriteSnapshot PROVE IInv'
<1> USE DEF IInv
<1>1. /\ UNCHANGED <<clock, asked, answers, links, stamp, carried, scans>>
      /\ phase = "node" /\ thin' = FALSE
      /\ snapshots' = snapshots \/ snapshots' = snapshots \cup {stamp}
      /\ \/ /\ snapshots' = snapshots \cup {stamp} /\ phase' = "links"
            /\ UNCHANGED <<todo, batches, failures>>
         \/ /\ phase' = "idle" /\ todo' = {} /\ failures' \in 0..MaxFailures /\ batches' = batches
  BY MeshAssumption
  DEF WriteSnapshot, WriteNode, Leaves, Goto, Fails, EndScan, TypeOK, mqttVars, graphVars
<1>2. Complete' = Complete
  BY <1>1 DEF Complete
<1>3. TypeOK' /\ EveryAnswerWasAskedFor'
  BY <1>1 DEF TypeOK, EveryAnswerWasAskedFor
<1>4. ScanIsLatest' /\ ScanIsOnItsWay' /\ HistoryIsThin'
  BY <1>1, <1>2 DEF ScanIsLatest, Writing, ScanIsOnItsWay, HistoryIsThin
<1>5. LastScanIsWhole'
  BY <1>1, <1>2 DEF LastScanIsWhole
<1> QED
  BY <1>3, <1>4, <1>5

LEMMA BatchIsPart ==
    ASSUME NEW S, NEW B \in BatchesOf(S)
    PROVE  B \subseteq S
  BY DEF BatchesOf

\* The scan becomes the last complete one with its last batch, not before.
LEMMA WriteLinksInv == ASSUME IInv, WriteLinks PROVE IInv'
<1> USE DEF IInv
<1>1. PICK B \in BatchesOf(todo) :
          \/ /\ WriteBatch(B)
             /\ todo' = todo \ B
             /\ phase' = IF B = todo THEN "expire" ELSE "links"
             /\ carried' = IF B = todo THEN [carried EXCEPT ![stamp] = links'[stamp]] ELSE carried
             /\ UNCHANGED <<stamp, failures>>
          \/ Leaves(WriteBatch(B)) /\ Fails /\ UNCHANGED carried
  BY DEF WriteLinks
<1>2. /\ phase = "links" /\ UNCHANGED <<clock, asked, answers, batches, thin, scans>>
      /\ stamp \in snapshots /\ ~ thin /\ stamp \in Times
      /\ B \subseteq Links /\ todo \subseteq Links
  BY BatchIsPart DEF WriteLinks, mqttVars, ScanIsOnItsWay, TypeOK
<1>3. /\ UNCHANGED <<snapshots, stamp>>
      /\ links' \in [Times -> SUBSET Links]
      /\ \A s \in Times : links[s] \subseteq links'[s] /\ (s # stamp => links'[s] = links[s])
  BY <1>1, <1>2 DEF WriteBatch, Leaves, Fails, EndScan, graphVars, TypeOK
<1>4. todo' \subseteq Links /\ failures' \in 0..MaxFailures /\ phase' \in {"idle", "links", "expire"}
  BY <1>1, <1>2, MeshAssumption DEF Fails, EndScan, TypeOK
<1>5. CASE B = todo /\ carried' = [carried EXCEPT ![stamp] = links'[stamp]]
  <2>1. /\ carried' \in [Times -> (SUBSET Links) \cup {Incomplete}]
        /\ carried'[stamp] = links'[stamp]
        /\ \A s \in Times : s # stamp => carried'[s] = carried[s]
    BY <1>2, <1>3, <1>5 DEF TypeOK
  <2>2. links'[stamp] # Incomplete
    BY <1>2, <1>3, MeshAssumption DEF Incomplete
  <2>3. Complete' = Complete \cup {stamp}
    BY <1>2, <2>1, <2>2 DEF Complete
  <2>4. TypeOK' /\ EveryAnswerWasAskedFor'
    BY <1>2, <1>3, <1>4, <2>1 DEF TypeOK, EveryAnswerWasAskedFor
  <2>5. stamp \in 1..clock
    <3>1. stamp \in 1..MaxClock /\ clock \in 1..MaxClock
      BY DEF TypeOK, Times
    <3>2. stamp <= clock
      BY DEF ScanIsLatest
    <3> QED  BY <3>1, <3>2, MeshAssumption
  <2>6. ScanIsLatest'
    <3>1. stamp' = stamp /\ clock' = clock /\ Writing
      BY <1>2, <1>3 DEF Writing
    <3>2. Complete' \subseteq 1..clock /\ stamp <= clock
      BY <2>3, <2>5 DEF ScanIsLatest
    <3>3. clock - stamp <= Retention /\ \A t \in Complete' : t <= stamp
      <4>1. stamp <= stamp
        BY <2>5
      <4> QED  BY <2>3, <3>1, <4>1 DEF ScanIsLatest
    <3> QED  BY <3>1, <3>2, <3>3 DEF ScanIsLatest
  <2>7. ScanIsLatest' /\ ScanIsOnItsWay' /\ HistoryIsThin'
    BY <1>2, <1>3, <1>4, <2>3, <2>6 DEF Writing, ScanIsOnItsWay, HistoryIsThin
  <2>8. \A s \in Complete' : (\A t \in Complete' : t <= s) => s = stamp
    BY <1>2, <2>3, MeshAssumption DEF ScanIsLatest, Writing, Complete, Times
  <2>9. LastScanIsWhole'
    BY <1>2, <1>3, <2>1, <2>8 DEF LastScanIsWhole
  <2> QED
    BY <2>4, <2>7, <2>9
<1>6. CASE carried' = carried /\ phase' # "expire"
  <2>1. Complete' = Complete
    BY <1>6 DEF Complete
  <2>2. TypeOK' /\ EveryAnswerWasAskedFor'
    BY <1>2, <1>3, <1>4, <1>6 DEF TypeOK, EveryAnswerWasAskedFor
  <2>3. ScanIsLatest' /\ ScanIsOnItsWay' /\ HistoryIsThin'
    BY <1>2, <1>3, <1>4, <1>6, <2>1
    DEF ScanIsLatest, Writing, ScanIsOnItsWay, HistoryIsThin
  <2>4. LastScanIsWhole'
    BY <1>3, <1>6, <2>1 DEF LastScanIsWhole, Complete
  <2> QED
    BY <2>2, <2>3, <2>4
<1> QED
  BY <1>1, <1>5, <1>6 DEF Fails, EndScan

-----------------------------------------------------------------------------
(* Pruning *)

\* The snapshot just written has not expired, and is the last complete one.
LEMMA PruneSnapshotsInv == ASSUME IInv, PruneSnapshots PROVE IInv'
<1> USE DEF IInv
<1>1. /\ phase = "expire" /\ stamp \in snapshots /\ ~ thin /\ stamp \in Complete
      /\ \A t \in Complete : t <= stamp
      /\ clock - stamp <= Retention
      /\ clock \in Nat /\ stamp \in Nat /\ stamp \in Times
  BY MeshAssumption DEF PruneSnapshots, ScanIsOnItsWay, ScanIsLatest, Writing, TypeOK, Times
<1>2. /\ UNCHANGED <<clock, asked, answers, stamp, thin, scans>>
      /\ \/ Expire \/ UNCHANGED <<snapshots, links>>
      /\ \/ phase' = "thin" /\ UNCHANGED <<todo, failures>> /\ batches' = 0
         \/ phase' = "idle" /\ todo' = {} /\ batches' = 0 /\ failures' \in 0..MaxFailures
  BY MeshAssumption
  DEF PruneSnapshots, Leaves, Goto, Fails, EndScan, TypeOK, mqttVars, graphVars
<1>3. stamp \notin Expired
  BY <1>1, MeshAssumption DEF Expired
<1>4. /\ snapshots' \subseteq snapshots
      /\ links' \in [Times -> SUBSET Links]
      /\ \A s \in Times \ snapshots' : links'[s] = {}
      /\ \A s \in snapshots' : links'[s] = links[s]
      /\ stamp \in snapshots'
  <2>1. CASE Expire
    BY <1>1, <1>3, <2>1 DEF Expire, TypeOK
  <2>2. CASE UNCHANGED <<snapshots, links>>
    BY <1>1, <2>2 DEF TypeOK
  <2> QED
    BY <1>2, <2>1, <2>2
<1>5. /\ carried' \in [Times -> (SUBSET Links) \cup {Incomplete}]
      /\ \A s \in snapshots' : carried'[s] = carried[s]
      /\ Complete' = Complete \cap snapshots'
  BY <1>4 DEF PruneSnapshots, Forget, Complete, TypeOK
<1>6. TypeOK' /\ EveryAnswerWasAskedFor'
  BY <1>2, <1>4, <1>5, MeshAssumption DEF TypeOK, EveryAnswerWasAskedFor
<1>7. ScanIsLatest' /\ ScanIsOnItsWay' /\ HistoryIsThin'
  BY <1>1, <1>2, <1>4, <1>5 DEF ScanIsLatest, Writing, ScanIsOnItsWay, HistoryIsThin
<1>8. LastScanIsWhole'
  <2>1. \A s \in Complete' : (\A t \in Complete' : t <= s) => s = stamp
    BY <1>1, <1>4, <1>5, MeshAssumption DEF Complete, Times
  <2>2. carried[stamp] \subseteq links[stamp]
    BY <1>1 DEF LastScanIsWhole
  <2> QED
    BY <1>4, <1>5, <2>1, <2>2 DEF LastScanIsWhole
<1> QED
  BY <1>6, <1>7, <1>8

\* Deleting some of the surplus leaves the snapshot just written alone.
LEMMA ThinnedLinks ==
    ASSUME IInv, NEW B \in BatchesOf(Surplus), Thinned(B) \/ UNCHANGED graphVars
    PROVE  /\ snapshots' = snapshots
           /\ links' \in [Times -> SUBSET Links]
           /\ \A s \in Times : links'[s] \subseteq links[s]
           /\ links'[stamp] = links[stamp]
<1>1. B \subseteq Surplus
  BY BatchIsPart
<1>2. \A l \in Links : <<stamp, l>> \notin B
  BY <1>1 DEF Surplus
<1>3. links \in [Times -> SUBSET Links] /\ stamp \in Times
  BY DEF IInv, TypeOK
<1>4. CASE Thinned(B)
  <2>1. links' = [s \in Times |-> {l \in links[s] : <<s, l>> \notin B}]
    BY <1>4 DEF Thinned
  <2>2. links'[stamp] = links[stamp]
    BY <1>2, <1>3, <2>1
  <2>3. links' \in [Times -> SUBSET Links] /\ \A s \in Times : links'[s] \subseteq links[s]
    BY <1>3, <2>1
  <2> QED
    BY <1>4, <2>2, <2>3 DEF Thinned
<1>5. CASE UNCHANGED graphVars
  BY <1>3, <1>5 DEF graphVars
<1> QED
  BY <1>4, <1>5

\* A batch that is not full is all there is: nothing older keeps a sibling.
LEMMA LastBatchLeavesNone ==
    ASSUME IInv, NEW B \in BatchesOf(Surplus), Thinned(B), NothingLeft(B)
    PROVE  \A s \in snapshots \ {stamp} : links'[s] \cap Siblings = {}
<1>1. B = Surplus
  <2>1. CASE Cardinality(Surplus) <= BatchSize
    BY <2>1 DEF BatchesOf
  <2>2. CASE ~ (Cardinality(Surplus) <= BatchSize)
    <3>1. Cardinality(B) = BatchSize
      BY <2>2 DEF BatchesOf
    <3> QED
      BY <3>1, MeshAssumption DEF NothingLeft
  <2> QED
    BY <2>1, <2>2
<1>2. ASSUME NEW s \in snapshots \ {stamp}, NEW l \in links'[s] \cap Siblings PROVE FALSE
  <2>1. s \in Times /\ l \in links[s] /\ <<s, l>> \notin B
    BY <1>2 DEF Thinned, IInv, TypeOK
  <2>2. <<s, l>> \in Surplus
    BY <1>2, <2>1 DEF Surplus
  <2> QED
    BY <1>1, <2>1, <2>2
<1> QED
  BY <1>2

LEMMA ThinInv == ASSUME IInv, PruneLinks \/ Resend PROVE IInv'
<1> USE DEF IInv
<1>1. /\ phase = "thin" /\ stamp \in snapshots /\ ~ thin /\ stamp \in Complete
      /\ \A t \in Complete : t <= stamp
      /\ stamp \in Times
  BY DEF PruneLinks, Resend, ScanIsOnItsWay, ScanIsLatest, Writing, TypeOK
<1>2. UNCHANGED <<clock, asked, answers, carried, scans, stamp>>
  BY DEF PruneLinks, Resend, Goto, Fails, EndScan, mqttVars, scanVars, history
<1>3. PICK B \in BatchesOf(Surplus) :
          /\ Thinned(B) \/ UNCHANGED graphVars
          /\ \/ phase' = "thin" /\ thin' = thin /\ batches' \in 0..(MaxBatches - 1)
             \/ phase' = "idle" /\ thin' = thin /\ batches' = 0
             \/ phase' = "idle" /\ thin' = NothingLeft(B) /\ Thinned(B) /\ batches' = 0
          /\ todo' = todo \/ todo' = {}
          /\ failures' \in 0..MaxFailures
  BY MeshAssumption DEF PruneLinks, Resend, Leaves, Goto, Fails, EndScan, TypeOK, scanVars, history
<1>4. /\ snapshots' = snapshots
      /\ links' \in [Times -> SUBSET Links]
      /\ \A s \in Times : links'[s] \subseteq links[s]
      /\ links'[stamp] = links[stamp]
  BY <1>3, ThinnedLinks
<1>5. Complete' = Complete
  BY <1>2 DEF Complete
<1>6. TypeOK' /\ EveryAnswerWasAskedFor'
  <2>1. thin' \in BOOLEAN
    <3>1. thin \in BOOLEAN /\ NothingLeft(B) \in BOOLEAN
      BY DEF TypeOK, NothingLeft
    <3> QED
      BY <1>3, <3>1, Zenon
  <2>2. batches' \in 0..(MaxBatches - 1) /\ phase' \in {"idle", "thin"} /\ todo' \subseteq Links
    BY <1>3, MeshAssumption DEF TypeOK
  <2>3. \A s \in Times \ snapshots' : links'[s] = {}
    BY <1>4 DEF TypeOK
  <2> QED
    BY <1>2, <1>3, <1>4, <2>1, <2>2, <2>3 DEF TypeOK, EveryAnswerWasAskedFor
<1>7. ScanIsLatest' /\ ScanIsOnItsWay'
  BY <1>1, <1>2, <1>3, <1>4, <1>5 DEF ScanIsLatest, Writing, ScanIsOnItsWay
<1>8. LastScanIsWhole'
  <2>1. \A s \in Complete' : (\A t \in Complete' : t <= s) => s = stamp
    BY <1>1, <1>5, MeshAssumption DEF Complete, Times
  <2> QED
    BY <1>1, <1>2, <1>4, <1>5, <2>1 DEF LastScanIsWhole
<1>9. HistoryIsThin'
  <2> SUFFICES ASSUME thin', phase' \in {"idle", "waiting"}
               PROVE  \A s \in snapshots' \ {stamp'} : links'[s] \cap Siblings = {}
    BY DEF HistoryIsThin
  <2>1. Thinned(B) /\ NothingLeft(B)
    BY <1>1, <1>3
  <2> QED
    BY <1>2, <1>4, <2>1, LastBatchLeavesNone
<1> QED
  BY <1>6, <1>7, <1>8, <1>9

LEMMA RebuildInv == ASSUME IInv, Rebuild PROVE IInv'
<1> USE DEF IInv
<1>1. /\ UNCHANGED <<clock, asked, answers, phase, stamp, todo, batches, thin, scans, failures>>
      /\ phase = "idle" /\ snapshots' = {} /\ links' = [s \in Times |-> {}]
      /\ carried' = [s \in Times |-> Incomplete]
  BY DEF Rebuild, mqttVars, scanVars
<1>2. Complete' = {}
  BY <1>1 DEF Complete
<1>3. TypeOK' /\ EveryAnswerWasAskedFor'
  BY <1>1 DEF TypeOK, EveryAnswerWasAskedFor
<1>4. ScanIsLatest' /\ ScanIsOnItsWay' /\ HistoryIsThin' /\ LastScanIsWhole'
  BY <1>1, <1>2 DEF ScanIsLatest, Writing, ScanIsOnItsWay, HistoryIsThin, LastScanIsWhole
<1> QED
  BY <1>3, <1>4

-----------------------------------------------------------------------------
LEMMA NextInv == IInv /\ [Next]_vars => IInv'
<1> SUFFICES ASSUME IInv, [Next]_vars PROVE IInv'
  OBVIOUS
<1>1. CASE Tick \/ Begin \/ WaitFails \/ Resend \/ Rebuild
  BY <1>1, TickInv, BeginInv, GiveUpInv, ThinInv, RebuildInv
<1>2. CASE \E S \in SUBSET Links : Answer(S) \/ Lose(S) \/ Receive(S)
  BY <1>2, AnswerInv, ReceiveInv
<1>3. CASE ScanStep
  BY <1>3, GiveUpInv, WriteSnapshotInv, WriteLinksInv, PruneSnapshotsInv, ThinInv DEF ScanStep
<1>4. CASE UNCHANGED vars
  <2>1. UNCHANGED <<clock, asked, answers, snapshots, links, phase, stamp, todo, batches, carried,
                    thin, scans, failures>>
    BY <1>4 DEF vars, mqttVars, graphVars, scanVars, history
  <2>2. LastScanIsWhole' /\ Complete' = Complete
    BY <2>1, GraphFrame
  <2> QED
    BY <2>1, <2>2
    DEF IInv, TypeOK, EveryAnswerWasAskedFor, ScanIsLatest, Writing, ScanIsOnItsWay, HistoryIsThin
<1> QED
  BY <1>1, <1>2, <1>3, <1>4 DEF Next

\* A scan that writes is the latest there is and not too old to be kept.
THEOREM ScanInvariant == Spec => []IInv
  BY InitInv, NextInv, PTL DEF Spec

\* strings.json, mesh_history_keep_siblings: "the newest snapshot always keeps
\* everything", however many scans fail, expire or thin out what is older.
THEOREM NewestIsWhole == Spec => []LastScanIsWhole
<1>1. IInv => LastScanIsWhole
  BY DEF IInv
<1> QED
  BY <1>1, ScanInvariant, PTL

\* A loop of _async_prune_history_siblings that ended by itself has left no
\* sibling link in an older snapshot.
THEOREM OlderAreThin == Spec => []HistoryIsThin
<1>1. IInv => HistoryIsThin
  BY DEF IInv
<1> QED
  BY <1>1, ScanInvariant, PTL

(***************************************************************************)
(* Questions about the mesh                                                *)
(***************************************************************************)

\* What a scan found that no clean-up takes stays as long as its snapshot.
TreeIsWhole ==
    /\ Complete \subseteq snapshots
    /\ \A s \in Complete : carried[s] \ Siblings \subseteq links[s]

LEMMA TreeStaysWhole ==
    ASSUME IInv, TreeIsWhole, [Next]_vars
    PROVE  TreeIsWhole'
<1> USE DEF IInv
<1>1. CASE UNCHANGED <<snapshots, links, carried>>
  BY <1>1 DEF TreeIsWhole, Complete
<1>2. ASSUME WriteSnapshot PROVE TreeIsWhole'
  <2>1. snapshots \subseteq snapshots' /\ UNCHANGED <<links, carried>>
    BY <1>2 DEF WriteSnapshot, WriteNode, Leaves, graphVars
  <2> QED  BY <2>1 DEF TreeIsWhole, Complete
<1>3. ASSUME WriteLinks PROVE TreeIsWhole'
  <2>1. PICK B \in BatchesOf(todo) :
          \/ /\ WriteBatch(B)
             /\ carried' = IF B = todo THEN [carried EXCEPT ![stamp] = links'[stamp]] ELSE carried
          \/ Leaves(WriteBatch(B)) /\ UNCHANGED carried
    BY <1>3 DEF WriteLinks
  <2>2. stamp \in snapshots /\ stamp \in Times
    BY <1>3 DEF WriteLinks, ScanIsOnItsWay, TypeOK
  <2>3. snapshots' = snapshots /\ \A s \in Times : links[s] \subseteq links'[s]
    BY <2>1, <2>2 DEF WriteBatch, Leaves, graphVars, TypeOK
  <2>4. \A s \in Times : carried'[s] = carried[s] \/ (s = stamp /\ carried'[s] = links'[s])
    BY <2>1, <2>2 DEF TypeOK
  <2>5. ASSUME NEW s \in Complete' PROVE s \in snapshots' /\ carried'[s] \ Siblings \subseteq links'[s]
    <3>1. s \in Times /\ carried'[s] # Incomplete
      BY DEF Complete
    <3> QED  BY <2>2, <2>3, <2>4, <3>1 DEF TreeIsWhole, Complete
  <2> QED  BY <2>5 DEF TreeIsWhole
<1>4. ASSUME PruneSnapshots PROVE TreeIsWhole'
  <2>1. /\ \A s \in snapshots' : s \in Times => links'[s] = links[s]
        /\ snapshots' \subseteq snapshots
    BY <1>4 DEF PruneSnapshots, Leaves, Expire, graphVars
  <2>2. carried' = [s \in Times |-> IF s \in snapshots' THEN carried[s] ELSE Incomplete]
    BY <1>4 DEF PruneSnapshots, Forget
  <2> QED  BY <2>1, <2>2 DEF TreeIsWhole, Complete
<1>5. ASSUME PruneLinks \/ Resend PROVE TreeIsWhole'
  <2>1. PICK B \in BatchesOf(Surplus) : Thinned(B) \/ UNCHANGED graphVars
    BY <1>5 DEF PruneLinks, Resend, Leaves
  <2>2. B \subseteq Surplus
    BY BatchIsPart
  <2>3. UNCHANGED <<snapshots, carried>>
    BY <1>5, <2>1 DEF PruneLinks, Resend, Thinned, Leaves, graphVars, history
  <2>4. \A s \in Times : \A l : l \in links[s] \ Siblings => l \in links'[s]
    <3>1. \A s, l : <<s, l>> \in B => l \in Siblings
      BY <2>2 DEF Surplus
    <3> QED  BY <2>1, <3>1 DEF Thinned, graphVars
  <2> QED  BY <2>3, <2>4 DEF TreeIsWhole, Complete
<1>6. ASSUME Rebuild PROVE TreeIsWhole'
  BY <1>6 DEF Rebuild, TreeIsWhole, Complete
<1>7. ASSUME Tick \/ Begin \/ WaitFails \/ Timeout PROVE TreeIsWhole'
  BY <1>1, <1>7 DEF Tick, Begin, WaitFails, Timeout, graphVars, history
<1>8. ASSUME NEW S, Answer(S) \/ Lose(S) \/ Receive(S) PROVE TreeIsWhole'
  BY <1>1, <1>8 DEF Answer, Lose, Receive, graphVars, history
<1>9. CASE UNCHANGED vars
  BY <1>1, <1>9 DEF vars, graphVars, history
<1> QED
  BY <1>2, <1>3, <1>4, <1>5, <1>6, <1>7, <1>8, <1>9 DEF Next, ScanStep

-----------------------------------------------------------------------------
\* A finite set of integers that is not empty has a greatest element.
LEMMA MaxIsGreatest ==
    ASSUME NEW S, IsFiniteSet(S), S \subseteq Int, S # {}
    PROVE  Max(S) \in S /\ \A x \in S : x <= Max(S)
<1> DEFINE Above(x) == {y \in S : y > x}
           All == {Above(x) : x \in S}
<1>1. IsWellFoundedOn(StrictSubsetOrdering(S), FiniteSubsetsOf(S))
  BY FS_StrictSubsetOrderingWellFounded
<1>2. All \subseteq FiniteSubsetsOf(S) /\ All # {}
  <2>1. \A x \in S : Above(x) \in SUBSET S /\ IsFiniteSet(Above(x))
    BY FS_Subset
  <2> QED  BY <2>1 DEF FiniteSubsetsOf
<1>3. PICK A \in All : \A B \in All : ~ (<<B, A>> \in StrictSubsetOrdering(S))
  <2> HIDE DEF All
  <2> QED  BY <1>1, <1>2, WFMin
<1>4. PICK x \in S : A = Above(x)
  OBVIOUS
<1>5. \A y \in S : ~(y > x)
  <2>y. SUFFICES ASSUME NEW y \in S, y > x PROVE FALSE
    OBVIOUS
  <2>1. Above(y) \subseteq Above(x) /\ y \in Above(x) /\ y \notin Above(y)
    <3>1. x \in Int /\ y \in Int
      OBVIOUS
    <3>2. ASSUME NEW z \in S, z > y PROVE z > x
      <4>1. z \in Int
        OBVIOUS
      <4> QED  BY <2>y, <3>1, <3>2, <4>1
    <3>3. ~(y > y)
      BY <3>1
    <3> QED  BY <2>y, <3>2, <3>3
  <2>2. <<Above(y), Above(x)>> \in StrictSubsetOrdering(S)
    <3>1. Above(y) \in SUBSET S /\ Above(x) \in SUBSET S /\ Above(y) # Above(x)
      BY <2>1
    <3> HIDE DEF Above
    <3> QED  BY <2>1, <3>1 DEF StrictSubsetOrdering
  <2> QED  BY <1>3, <1>4, <2>2
<1>6. \E m \in S : \A y \in S : m >= y
  BY <1>5
<1>7. Max(S) \in S /\ \A y \in S : Max(S) >= y
  BY <1>6 DEF Max
<1> QED  BY <1>7

LEMMA LatestIs ==
    ASSUME TypeOK
    PROVE  /\ Latest \in Times \cup {0}
           /\ Latest = 0 <=> snapshots = {}
           /\ Latest # 0 => Latest \in snapshots /\ \A s \in snapshots : s <= Latest
<1>1. snapshots \in SUBSET Times /\ Times \subseteq Int /\ 0 \notin Times
  BY MeshAssumption DEF TypeOK, Times
<1>2. IsFiniteSet(snapshots)
  <2>1. IsFiniteSet(1..MaxClock)
    BY MeshAssumption, FS_Interval
  <2> QED  BY <1>1, <2>1, FS_Subset DEF Times
<1>3. snapshots # {} => Max(snapshots) \in snapshots /\ \A s \in snapshots : s <= Max(snapshots)
  BY <1>1, <1>2, MaxIsGreatest
<1> QED  BY <1>1, <1>3 DEF Latest

\* The links of a snapshot whose writing no other scan has mixed with.
LEMMA LatestCompleteIsWhole ==
    ASSUME IInv, TreeIsWhole, used = Latest, OfCompleteScan
    PROVE  links[used] = scanned
<1>1. used \in Times /\ \A s \in snapshots : s <= used
  BY LatestIs DEF OfCompleteScan, IInv
<1>2. used \in Complete
  BY <1>1 DEF OfCompleteScan, Complete
<1>3. \A t \in Complete : t <= used
  BY <1>1 DEF TreeIsWhole
<1> QED
  BY <1>2, <1>3 DEF IInv, LastScanIsWhole, OfCompleteScan

-----------------------------------------------------------------------------
(* Questions *)

AskedParents == asking \in {"weak", "coordinator", "snapshot", "links", "answered"}
AskedWeak == asking \in {"coordinator", "snapshot", "links", "answered"}

\* Until something is written, the parts of a health check are all of one
\* snapshot, as it is.
HealthSoFar ==
    tool = "health" =>
        /\ maxLqi = WeakLqi /\ withSiblings = TRUE
        /\ calm => /\ named = Latest
                   /\ used # 0 => used = named
                   /\ named # 0 /\ AskedParents => parents = ParentsIn(LinksOf(named))
                   /\ named # 0 /\ AskedWeak => weak = WeakIn(LinksOf(named))

AnswerIsListed ==
    asking = "answered" /\ used # 0 /\ ~truncated => listed = {l \in links[used] : Shown(l)}

HealthInv ==
    /\ IInv
    /\ TreeIsWhole
    /\ used \in Times \cup {0} /\ named \in Times \cup {0} /\ limit \in Nat
    /\ asking \notin {"links", "answered"} => used = 0
    /\ asking = "links" => used # 0
    /\ asking # "nothing" => tool # "none"
    /\ tool = "none" => asking = "nothing"
    /\ HealthSoFar
    /\ AnswerIsListed

LEMMA HealthInitInv == HealthInit => HealthInv
<1> SUFFICES ASSUME HealthInit PROVE HealthInv
  OBVIOUS
<1>1. IInv
  BY InitInv DEF HealthInit
<1>2. Complete = {}
  BY DEF HealthInit, Init, Complete
<1>3. TreeIsWhole
  BY <1>2 DEF TreeIsWhole
<1> QED
  BY <1>1, <1>3, HealthAssumption DEF HealthInit, HealthInv, HealthSoFar, AnswerIsListed

\* A question writes nothing.
LEMMA QueryFrame ==
    ASSUME HealthInv, UNCHANGED vars
    PROVE  IInv' /\ TreeIsWhole' /\ Latest' = Latest /\ links' = links
  BY NextInv, TreeStaysWhole DEF HealthInv, vars, graphVars, Latest

LEMMA MeanwhileInv == ASSUME HealthInv, Meanwhile PROVE HealthInv'
<1>1. /\ Next /\ asking # "answered" /\ UNCHANGED <<askVars, scanned>>
      /\ calm' = (calm /\ (tool = "none" \/ graphVars' = graphVars))
  BY DEF Meanwhile
<1>2. IInv' /\ TreeIsWhole'
  BY <1>1, NextInv, TreeStaysWhole DEF HealthInv
<1>3. UNCHANGED <<tool, asking, maxLqi, withSiblings, limit, named, used, parents, weak>>
  BY <1>1 DEF askVars
<1>4. HealthSoFar'
  <2>1. CASE tool = "health" /\ calm'
    <3>1. UNCHANGED <<snapshots, links>> /\ calm
      BY <1>1, <2>1 DEF graphVars
    <3>2. Latest' = Latest /\ LinksOf(named)' = LinksOf(named)
      BY <1>3, <3>1 DEF Latest, LinksOf
    <3> QED
      BY <1>3, <2>1, <3>1, <3>2 DEF HealthInv, HealthSoFar, AskedParents, AskedWeak, ParentsIn, WeakIn
  <2>2. CASE ~(tool = "health" /\ calm')
    BY <1>3, <2>2 DEF HealthInv, HealthSoFar
  <2> QED  BY <2>1, <2>2
<1>5. AnswerIsListed'
  BY <1>1, <1>3 DEF AnswerIsListed
<1> QED
  BY <1>2, <1>3, <1>4, <1>5 DEF HealthInv

LEMMA AskHealthInv == ASSUME HealthInv, AskHealth PROVE HealthInv'
<1>1. /\ UNCHANGED vars /\ UNCHANGED <<used, parents, weak, heard, listed, truncated, calm, scanned>>
      /\ tool = "none" /\ tool' = "health" /\ maxLqi' = WeakLqi /\ withSiblings' = TRUE
      /\ limit' = MaxLimit /\ named' = Latest /\ asking' = IF Latest = 0 THEN "answered" ELSE "parents"
  BY DEF AskHealth, Ask
<1>2. IInv' /\ TreeIsWhole' /\ Latest' = Latest /\ links' = links
  BY <1>1, QueryFrame
<1>3. used = 0 /\ used' = 0 /\ named' \in Times \cup {0} /\ limit' \in Nat
  BY <1>1, LatestIs, HealthAssumption DEF HealthInv, IInv
<1>4. HealthSoFar' /\ AnswerIsListed'
  BY <1>1, <1>2, <1>3 DEF HealthSoFar, AnswerIsListed, AskedParents, AskedWeak
<1> QED
  BY <1>1, <1>2, <1>3, <1>4 DEF HealthInv

LEMMA AskWallsInv == ASSUME HealthInv, AskWalls PROVE HealthInv'
<1>1. /\ UNCHANGED vars /\ UNCHANGED <<named, used, parents, weak, heard, listed, truncated, calm, scanned>>
      /\ tool = "none" /\ tool' = "walls" /\ asking' = "snapshot" /\ limit' \in Nat
  BY HealthAssumption DEF AskWalls, Ask
<1>2. IInv' /\ TreeIsWhole'
  BY <1>1, QueryFrame
<1> QED
  BY <1>1, <1>2 DEF HealthInv, HealthSoFar, AnswerIsListed

LEMMA ListParentsInv == ASSUME HealthInv, ListParents PROVE HealthInv'
<1>1. /\ UNCHANGED vars /\ UNCHANGED <<tool, maxLqi, withSiblings, limit, named, used, weak, calm>>
      /\ asking = "parents" /\ asking' = "weak" /\ parents' = ParentsIn(LinksOf(named))
  BY DEF ListParents
<1>2. IInv' /\ TreeIsWhole' /\ Latest' = Latest /\ links' = links
  BY <1>1, QueryFrame
<1>3. ParentsIn(LinksOf(named))' = ParentsIn(LinksOf(named))
  BY <1>1, <1>2 DEF ParentsIn, LinksOf
<1>4. HealthSoFar' /\ AnswerIsListed'
  BY <1>1, <1>2, <1>3 DEF HealthInv, HealthSoFar, AnswerIsListed, AskedParents, AskedWeak
<1> QED
  BY <1>1, <1>2, <1>4 DEF HealthInv

LEMMA ListWeakInv == ASSUME HealthInv, ListWeak PROVE HealthInv'
<1>1. /\ UNCHANGED vars /\ UNCHANGED <<tool, maxLqi, withSiblings, limit, named, used, parents, calm>>
      /\ asking = "weak" /\ asking' = "coordinator" /\ weak' = WeakIn(LinksOf(named))
  BY DEF ListWeak
<1>2. IInv' /\ TreeIsWhole' /\ Latest' = Latest /\ links' = links
  BY <1>1, QueryFrame
<1>3. /\ ParentsIn(LinksOf(named))' = ParentsIn(LinksOf(named))
      /\ WeakIn(LinksOf(named))' = WeakIn(LinksOf(named))
  BY <1>1, <1>2 DEF ParentsIn, WeakIn, LinksOf
<1>4. HealthSoFar' /\ AnswerIsListed'
  BY <1>1, <1>2, <1>3 DEF HealthInv, HealthSoFar, AnswerIsListed, AskedParents, AskedWeak
<1> QED
  BY <1>1, <1>2, <1>4 DEF HealthInv

LEMMA ListCoordinatorInv == ASSUME HealthInv, ListCoordinator PROVE HealthInv'
<1>1. /\ UNCHANGED vars /\ UNCHANGED <<tool, maxLqi, withSiblings, limit, named, used, parents, weak, calm>>
      /\ asking = "coordinator" /\ asking' = "snapshot"
  BY DEF ListCoordinator
<1>2. IInv' /\ TreeIsWhole' /\ Latest' = Latest /\ links' = links
  BY <1>1, QueryFrame
<1>3. /\ ParentsIn(LinksOf(named))' = ParentsIn(LinksOf(named))
      /\ WeakIn(LinksOf(named))' = WeakIn(LinksOf(named))
  BY <1>1, <1>2 DEF ParentsIn, WeakIn, LinksOf
<1>4. HealthSoFar' /\ AnswerIsListed'
  BY <1>1, <1>2, <1>3 DEF HealthInv, HealthSoFar, AnswerIsListed, AskedParents, AskedWeak
<1> QED
  BY <1>1, <1>2, <1>4 DEF HealthInv

LEMMA FindSnapshotInv == ASSUME HealthInv, FindSnapshot PROVE HealthInv'
<1>1. /\ UNCHANGED vars /\ UNCHANGED <<tool, maxLqi, withSiblings, limit, parents, weak, calm>>
      /\ asking = "snapshot" /\ asking' = IF Latest = 0 THEN "answered" ELSE "links"
      /\ used' = Latest /\ named' = IF tool = "walls" THEN Latest ELSE named
  BY DEF FindSnapshot
<1>2. IInv' /\ TreeIsWhole' /\ Latest' = Latest /\ links' = links
  BY <1>1, QueryFrame
<1>3. tool = "health" => named' = named
  BY <1>1
<1>4. tool = "health" => /\ ParentsIn(LinksOf(named))' = ParentsIn(LinksOf(named))
                         /\ WeakIn(LinksOf(named))' = WeakIn(LinksOf(named))
  BY <1>1, <1>2, <1>3 DEF ParentsIn, WeakIn, LinksOf
<1>5. HealthSoFar' /\ AnswerIsListed'
  BY <1>1, <1>2, <1>3, <1>4 DEF HealthInv, HealthSoFar, AnswerIsListed, AskedParents, AskedWeak
<1>6. Latest \in Times \cup {0}
  BY LatestIs DEF HealthInv, IInv
<1> QED
  BY <1>1, <1>2, <1>5, <1>6 DEF HealthInv

LEMMA ListLinksInv == ASSUME HealthInv, ListLinks PROVE HealthInv'
<1> DEFINE all == {l \in LinksOf(used) : Shown(l)}
<1>1. /\ UNCHANGED vars /\ UNCHANGED <<tool, maxLqi, withSiblings, limit, named, used, parents, weak, calm>>
      /\ asking = "links" /\ asking' = "answered" /\ used # 0
      /\ listed' \in Weakest(all, limit) /\ truncated' = (Cardinality(all) > limit)
  BY DEF ListLinks, HealthInv
<1>2. IInv' /\ TreeIsWhole' /\ Latest' = Latest /\ links' = links
  BY <1>1, QueryFrame
<1>3. /\ ParentsIn(LinksOf(named))' = ParentsIn(LinksOf(named))
      /\ WeakIn(LinksOf(named))' = WeakIn(LinksOf(named))
  BY <1>1, <1>2 DEF ParentsIn, WeakIn, LinksOf
<1>4. HealthSoFar'
  BY <1>1, <1>2, <1>3 DEF HealthInv, HealthSoFar, AskedParents, AskedWeak
<1>5. AnswerIsListed'
  <2>1. used \in Times /\ links[used] \in SUBSET Links /\ LinksOf(used) = links[used]
    BY <1>1 DEF HealthInv, IInv, TypeOK, LinksOf
  <2>2. all \in SUBSET Links
    BY <2>1
  <2>3. Cardinality(all) \in Nat
    <3> HIDE DEF all
    <3> QED  BY <2>2, MeshAssumption, FS_Subset, FS_CardinalityType
  <2>4. ~truncated' => listed' = all
    <3>1. limit \in Nat
      BY DEF HealthInv
    <3>2. listed' \in Weakest(all, limit) /\ truncated' = (Cardinality(all) > limit)
      BY <1>1
    <3> HIDE DEF all
    <3>3. Cardinality(all) <= limit => Weakest(all, limit) = {all}
      BY Zenon DEF Weakest
    <3>5. ~truncated' => ~(Cardinality(all) > limit)
      BY <3>2, Zenon
    <3>6. ~(Cardinality(all) > limit) => Cardinality(all) <= limit
      BY <2>3, <3>1
    <3>4. ~truncated' => Cardinality(all) <= limit
      BY <3>5, <3>6
    <3> QED  BY <3>2, <3>3, <3>4
  <2>5. {l \in links[used] : Shown(l)}' = all
    BY <1>1, <1>2, <2>1 DEF Shown
  <2> QED  BY <2>4, <2>5 DEF AnswerIsListed
<1> QED
  BY <1>1, <1>2, <1>4, <1>5 DEF HealthInv

LEMMA HealthNextInv == HealthInv /\ [HealthNext]_healthVars => HealthInv'
<1> SUFFICES ASSUME HealthInv, [HealthNext]_healthVars PROVE HealthInv'
  OBVIOUS
<1>1. ASSUME UNCHANGED healthVars PROVE HealthInv'
  <2>1. UNCHANGED vars
        /\ UNCHANGED <<tool, asking, maxLqi, withSiblings, limit, named, used, parents, weak, listed,
                       truncated, calm>>
    BY <1>1 DEF healthVars, askVars
  <2>2. IInv' /\ TreeIsWhole' /\ Latest' = Latest /\ links' = links
    BY <2>1, QueryFrame
  <2>3. /\ ParentsIn(LinksOf(named))' = ParentsIn(LinksOf(named))
        /\ WeakIn(LinksOf(named))' = WeakIn(LinksOf(named))
    BY <2>1, <2>2 DEF ParentsIn, WeakIn, LinksOf
  <2> QED
    BY <2>1, <2>2, <2>3
    DEF HealthInv, HealthSoFar, AnswerIsListed, AskedParents, AskedWeak, Shown
<1>2. ASSUME Query PROVE HealthInv'
  BY <1>2, AskHealthInv, AskWallsInv, ListParentsInv, ListWeakInv, ListCoordinatorInv,
     FindSnapshotInv, ListLinksInv
  DEF Query
<1> QED  BY <1>1, <1>2, MeanwhileInv DEF HealthNext

-----------------------------------------------------------------------------
(* The answer *)

LEMMA QualityIs == \A l \in Links : Lqi[l] \in Int /\ (Lqi[l] \in {0, NoValue} <=> Lqi[l] <= 0)
  BY HealthAssumption DEF NoValue

\* Counting the children that are not measured tells whether any is.
LEMMA ParentsTell ==
    ASSUME NEW L \in SUBSET Links
    PROVE  {p.device : p \in {p \in ParentsIn(L) : p.children = p.unmeasured}} =
               {d \in Stations : LET C == {l \in L : From[l] = d /\ Relationship[l] = 0}
                                IN C # {} /\ \A l \in C : Lqi[l] <= 0}
<1> DEFINE Children(d) == {l \in L : Relationship[l] = 0 /\ From[l] = d}
           Unmeasured(d) == {l \in Children(d) : Lqi[l] \in {0, NoValue}}
           Row(d) == [device |-> d, children |-> Cardinality(Children(d)),
                      unmeasured |-> Cardinality(Unmeasured(d))]
           Heads == {From[l] : l \in {l \in L : Relationship[l] = 0}}
<1>1. ParentsIn(L) = {Row(d) : d \in Heads}
  BY DEF ParentsIn
<1>2. ASSUME NEW d PROVE Cardinality(Children(d)) = Cardinality(Unmeasured(d))
                           <=> \A l \in Children(d) : Lqi[l] <= 0
  <2>1. Children(d) \in SUBSET Links /\ Unmeasured(d) \in SUBSET Children(d)
    OBVIOUS
  <2>2. IsFiniteSet(Children(d))
    <3> HIDE DEF Children
    <3> QED  BY <2>1, MeshAssumption, FS_Subset
  <2>3. Cardinality(Children(d)) = Cardinality(Unmeasured(d)) => Children(d) = Unmeasured(d)
    <3> HIDE DEF Children, Unmeasured
    <3> QED  BY <2>1, <2>2, FS_Subset
  <2>4. Children(d) = Unmeasured(d) <=> \A l \in Children(d) : Lqi[l] <= 0
    BY QualityIs
  <2> QED  BY <2>3, <2>4
<1>3. \A d : d \in Heads <=> Children(d) # {}
  OBVIOUS
<1>4. Heads \subseteq Stations
  BY HealthAssumption
<1>5. {p.device : p \in {p \in ParentsIn(L) : p.children = p.unmeasured}} =
        {d \in Heads : Cardinality(Children(d)) = Cardinality(Unmeasured(d))}
  <2>1. \A d : /\ Row(d).device = d
               /\ Row(d).children = Cardinality(Children(d))
               /\ Row(d).unmeasured = Cardinality(Unmeasured(d))
    OBVIOUS
  <2> HIDE DEF Heads, Children, Unmeasured, Row
  <2>2. ASSUME NEW d PROVE d \in {p.device : p \in {p \in {Row(h) : h \in Heads} : p.children = p.unmeasured}}
                           <=> d \in Heads /\ Cardinality(Children(d)) = Cardinality(Unmeasured(d))
    BY <2>1
  <2> QED  BY <1>1, <2>2
<1>6. \A d : {l \in L : From[l] = d /\ Relationship[l] = 0} = Children(d)
  OBVIOUS
<1> HIDE DEF Heads, Children, Unmeasured
<1> QED  BY <1>2, <1>3, <1>4, <1>5, <1>6

LEMMA WeakTell ==
    ASSUME NEW L \in SUBSET Links
    PROVE  WeakIn(L) =
               {d \in Stations : LET M == {l \in L : Lqi[l] > 0 /\ d \in {From[l], To[l]}}
                                IN M # {} /\ \A l \in M : Lqi[l] <= WeakLqi}
<1> SUFFICES ASSUME NEW d \in Stations
             PROVE  LET Q == {Lqi[l] : l \in {l \in L : d \in {From[l], To[l]} /\ Lqi[l] > 0}}
                        M == {l \in L : Lqi[l] > 0 /\ d \in {From[l], To[l]}}
                    IN  Q # {} /\ Max(Q) <= WeakLqi <=> M # {} /\ \A l \in M : Lqi[l] <= WeakLqi
  BY DEF WeakIn
<1> DEFINE M == {l \in L : Lqi[l] > 0 /\ d \in {From[l], To[l]}}
           Q == {Lqi[l] : l \in M}
           f == [l \in M |-> Lqi[l]]
<1>1. {l \in L : d \in {From[l], To[l]} /\ Lqi[l] > 0} = M
  OBVIOUS
<1>2. IsFiniteSet(M) /\ Q \subseteq Int
  <2>1. M \in SUBSET Links
    OBVIOUS
  <2>2. IsFiniteSet(M)
    <3> HIDE DEF M
    <3> QED  BY <2>1, MeshAssumption, FS_Subset
  <2> QED  BY <2>1, <2>2, QualityIs
<1>3. IsFiniteSet(Q)
  <2>1. f \in Surjection(M, Q)
    BY DEF Surjection
  <2> HIDE DEF f, M, Q
  <2> QED  BY <1>2, <2>1, FS_Surjection
<1>4. Q # {} => Max(Q) \in Q /\ \A x \in Q : x <= Max(Q)
  <2> HIDE DEF Q
  <2> QED  BY <1>2, <1>3, MaxIsGreatest
<1>5. Q # {} /\ Max(Q) <= WeakLqi <=> Q # {} /\ \A x \in Q : x <= WeakLqi
  <2>1. WeakLqi \in Int
    BY HealthAssumption
  <2> DEFINE m == Max(Q)
  <2>2. Q # {} => m \in Q /\ \A x \in Q : x <= m
    BY <1>4
  <2> HIDE DEF Q, m
  <2>3. Q # {} => (m <= WeakLqi <=> \A x \in Q : x <= WeakLqi)
    <3> SUFFICES ASSUME Q # {} PROVE m <= WeakLqi <=> \A x \in Q : x <= WeakLqi
      OBVIOUS
    <3>1. m \in Q /\ m \in Int /\ \A x \in Q : x \in Int /\ x <= m
      BY <1>2, <2>2
    <3>2. ASSUME m <= WeakLqi, NEW x \in Q PROVE x <= WeakLqi
      <4>1. x \in Int /\ x <= m
        BY <3>1
      <4> QED  BY <2>1, <3>1, <3>2, <4>1
    <3> QED  BY <3>1, <3>2
  <2>4. Q # {} => (Max(Q) <= WeakLqi <=> \A x \in Q : x <= WeakLqi)
    BY <2>3 DEF m
  <2> QED  BY <2>4
<1>6. Q # {} /\ (\A x \in Q : x <= WeakLqi) <=> M # {} /\ \A l \in M : Lqi[l] <= WeakLqi
  <2> HIDE DEF M
  <2> QED  OBVIOUS
<1> QED  BY <1>1, <1>5, <1>6

LEMMA HealthInvSays == HealthInv => MeshAnswersAreOfTheScan
<1> SUFFICES ASSUME HealthInv PROVE MeshAnswersAreOfTheScan
  OBVIOUS
<1>1. ASSUME OfCompleteScan PROVE used \in Times /\ links[used] \in SUBSET Links
  BY <1>1 DEF OfCompleteScan, HealthInv, IInv, TypeOK
<1>2. TreeSurvivesThinning
  <2> SUFFICES ASSUME Answered("walls"), OfCompleteScan, ~withSiblings, ~truncated
               PROVE  listed = {l \in scanned \ Siblings : Lqi[l] \in 0..maxLqi}
    BY DEF TreeSurvivesThinning
  <2>1. listed = {l \in links[used] : Shown(l)}
    BY DEF HealthInv, AnswerIsListed, Answered, OfCompleteScan
  <2>2. used \in Complete
    BY <1>1 DEF Complete, OfCompleteScan
  <2>3. scanned \ Siblings \subseteq links[used] /\ links[used] \subseteq scanned
    BY <2>2 DEF HealthInv, TreeIsWhole, OfCompleteScan
  <2>4. \A l \in Links : Shown(l) <=> Lqi[l] \in 0..maxLqi /\ l \notin Siblings
    BY HealthAssumption DEF Shown
  <2> QED  BY <1>1, <2>1, <2>3, <2>4
<1>3. HealthIsOfTheScan
  <2> SUFFICES ASSUME Answered("health"), calm, OfCompleteScan, ~truncated PROVE HealthIsOfTheScan
    BY DEF HealthIsOfTheScan
  <2>1. /\ used # 0 /\ used = Latest /\ named = used /\ maxLqi = WeakLqi /\ withSiblings
        /\ parents = ParentsIn(LinksOf(named)) /\ weak = WeakIn(LinksOf(named))
    BY DEF HealthInv, HealthSoFar, Answered, OfCompleteScan, AskedParents, AskedWeak
  <2>2. links[used] = scanned
    BY <2>1, LatestCompleteIsWhole DEF HealthInv
  <2>3. LinksOf(named) = scanned /\ scanned \in SUBSET Links
    BY <1>1, <2>1, <2>2 DEF LinksOf
  <2>4. Suspects = {d \in Stations : LET C == {l \in scanned : From[l] = d /\ Relationship[l] = 0}
                                    IN C # {} /\ \A l \in C : Lqi[l] <= 0}
    BY <2>1, <2>3, ParentsTell DEF Suspects
  <2>5. weak = {d \in Stations : LET M == {l \in scanned : Lqi[l] > 0 /\ d \in {From[l], To[l]}}
                                IN M # {} /\ \A l \in M : Lqi[l] <= WeakLqi}
    BY <2>1, <2>3, WeakTell
  <2>6. listed = {l \in scanned : Shown(l)}
    BY <2>2 DEF HealthInv, AnswerIsListed, Answered, OfCompleteScan
  <2>7. \A l \in Links : Shown(l) /\ Lqi[l] > 0 <=> Lqi[l] \in 1..WeakLqi
    BY <2>1, QualityIs, HealthAssumption DEF Shown
  <2>8. CrossFloor \cup Unexplained =
            {l \in scanned : Lqi[l] \in 1..WeakLqi /\ Loss[l] \in {"light", "slab"}}
    BY <2>3, <2>6, <2>7 DEF CrossFloor, Unexplained, WeakLinks
  <2> QED  BY <2>4, <2>5, <2>8 DEF HealthIsOfTheScan
<1> QED
  BY <1>2, <1>3 DEF HealthInv, IInv, MeshAnswersAreOfTheScan

\* A health check beside which nothing is written tells of the mesh what
\* Zigbee2MQTT said of it, and a question about walls has every tree link of
\* the snapshot it names, although scans, failures and clean-ups run beside it
\* (mesh_health, mesh_link_walls).
THEOREM AnswersAreAlwaysOfTheScan == HealthSpec => []MeshAnswersAreOfTheScan
<1>1. HealthSpec => []HealthInv
  BY HealthInitInv, HealthNextInv, PTL DEF HealthSpec
<1> QED  BY <1>1, HealthInvSays, PTL

(***************************************************************************)
(* The tools and the exports that read a home that changes.                *)
(***************************************************************************)

\* The graph holds no link that leads to a node it does not have.
LinksAreWithin ==
    /\ nodes \subseteq Nodes
    /\ edges \subseteq {l \in Linkable : l[1] \in nodes /\ l[2] \in nodes}

LEMMA HomeInitWithin == HomeInit => LinksAreWithin
  BY DEF HomeInit, LinksAreWithin

LEMMA HomeNextWithin == LinksAreWithin /\ HomeNext => LinksAreWithin'
<1> SUFFICES ASSUME LinksAreWithin, HomeNext PROVE LinksAreWithin'
  OBVIOUS
<1>1. CASE LinkChanges
  BY <1>1 DEF LinkChanges, LinksAreWithin
<1>2. CASE NodeChanges
  BY <1>2, ContextAssumption DEF NodeChanges, LinksAreWithin
<1> QED  BY <1>1, <1>2 DEF HomeNext

\* A link has ends that the graph has.
LEMMA LinkedAreThere ==
    ASSUME LinksAreWithin, NEW x, NEW y, <<x, y>> \in edges PROVE x \in nodes /\ y \in nodes
  BY DEF LinksAreWithin

\* What the rows of an area list.
LEMMA ListedAre ==
    ASSUME NEW a, NEW n
    PROVE  n \in Listed(AreaRows(a)) <=>
               /\ n \in Entities
               /\ (\E d \in DevicesOf(n) : a \in AreasOf(d)) \/ a \in OwnAreas(n)
<1> DEFINE Own == {e \in Entities : a \in OwnAreas(e)}
           ByDevice == {e \in Entities : \E d \in DevicesOf(e) : a \in AreasOf(d)}
<1>1. AreaRows(a) = ({"device"} \X ByDevice) \cup ({"own"} \X Own)
  BY DEF AreaRows
<1>2. ASSUME n \in Own \cup ByDevice PROVE n \in Listed(AreaRows(a))
  <2>1. <<"device", n>> \in AreaRows(a) \/ <<"own", n>> \in AreaRows(a)
    BY <1>1, <1>2
  <2> QED  BY <2>1 DEF Listed
<1>3. ASSUME n \in Listed(AreaRows(a)) PROVE n \in Own \cup ByDevice
  BY <1>1, <1>3 DEF Listed
<1> QED  BY <1>2, <1>3

LEMMA ContextsAreOneStory == LinksAreWithin => ContextsAgree
<1> SUFFICES ASSUME LinksAreWithin PROVE ContextsAgree
  OBVIOUS
<1>1. ASSUME NEW a \in Areas PROVE PanelArea(a) = AreaContext(a)
  <2>1. ASSUME NEW n
        PROVE n \in {e \in Entities : a \in OwnAreas(e) \cup UNION {AreasOf(d) : d \in DevicesOf(e)}}
                 <=> n \in Listed(AreaRows(a))
    BY ListedAre
  <2> QED  BY <2>1 DEF PanelArea, AreaContext
<1>2. ASSUME NEW e \in Entities
      PROVE  /\ \A d \in Devices : d \in EntityContext(e).devices <=> e \in DeviceContext(d).entities
             /\ PanelEntity(e).areas \subseteq EntityContext(e).areas
  BY DEF EntityContext, DeviceContext, PanelEntity
<1>3. ASSUME NEW e \in Entities PROVE AutomationDependencies(e) = EntityContext(e).dependents
  <2>1. e \in nodes => e \in Matches(e, Entities)
    BY DEF Matches, Of
  <2>2. \A n \in Matches(e, Entities) : n = e
    BY ContextAssumption DEF Matches, Of, Nodes
  <2>3. \A x \in Automations : <<x, e>> \in edges => e \in nodes
    BY LinkedAreThere
  <2>4. EntityContext(e).dependents = {x \in Automations : <<x, e>> \in edges}
    BY DEF EntityContext
  <2> QED  BY <2>1, <2>2, <2>3, <2>4 DEF AutomationDependencies
<1>4. ASSUME NEW e \in Entities, NEW d \in Devices
      PROVE <<"HAS_ENTITY", e>> \in DeviceRelationships(d) <=> <<"HAS_ENTITY", d>> \in EntityRelationships(e)
  <2>1. <<"HAS_ENTITY", e>> \in DeviceRelationships(d) <=> d \in DevicesOf(e)
    BY DEF DeviceRelationships, DeviceContext
  <2>2. <<"HAS_ENTITY", d>> \in EntityRelationships(e) <=> d \in DevicesOf(e)
    BY DEF EntityRelationships
  <2> QED  BY <2>1, <2>2
<1>5. ASSUME NEW e \in Entities, NEW x \in Automations
      PROVE <<"REFERENCES", e>> \in AutomationRelationships(x)
               <=> <<"REFERENCES", x>> \in EntityRelationships(e)
  BY DEF AutomationRelationships, EntityRelationships, EntityContext
<1>6. ASSUME NEW e \in Entities, NEW a \in Areas
      PROVE  /\ a \in EntityContext(e).areas => e \in AreaContext(a).entities
             /\ \A d \in DevicesOf(e) : d \in AreaContext(a).devices => a \in EntityContext(e).areas
  <2>1. AreaContext(a).entities = Listed(AreaRows(a))
    BY DEF AreaContext
  <2> QED  BY <2>1, ListedAre DEF AreaContext, EntityContext
<1> QED  BY <1>1, <1>2, <1>3, <1>4, <1>5, <1>6 DEF ContextsAgree

LEMMA UnassignedIsExact == UnassignedAreNowhere
<1> SUFFICES ASSUME NEW n \in Of(Devices) \cup Of(Sensors)
             PROVE  n \in Unassigned <=>
                       \A a \in Areas : n \notin AreaContext(a).devices \cup AreaContext(a).entities
  BY DEF UnassignedAreNowhere
<1>1. \A a \in Areas : /\ AreaContext(a).entities = Listed(AreaRows(a))
                       /\ AreaContext(a).devices = {d \in Devices : a \in AreasOf(d)}
  BY DEF AreaContext
<1>2. CASE n \in Of(Devices)
  <2>1. n \in Devices /\ n \notin Entities /\ n \notin Sensors
    BY <1>2, ContextAssumption DEF Of
  <2>2. n \in Unassigned <=> AreasOf(n) = {}
    BY <1>2, <2>1 DEF Unassigned, Of
  <2>3. \A a \in Areas : n \in AreaContext(a).devices \cup AreaContext(a).entities <=> a \in AreasOf(n)
    BY <1>1, <2>1, ListedAre
  <2>4. AreasOf(n) \subseteq Areas
    BY DEF AreasOf
  <2> QED  BY <2>2, <2>3, <2>4
<1>3. CASE n \in Of(Sensors)
  <2>1. n \in Entities /\ n \notin Devices
    BY <1>3, ContextAssumption DEF Of
  <2>2. n \in Unassigned <=> OwnAreas(n) = {} /\ \A d \in DevicesOf(n) : AreasOf(d) = {}
    BY <1>3, <2>1 DEF Unassigned, Of
  <2>3. \A a \in Areas : n \in AreaContext(a).devices \cup AreaContext(a).entities <=>
                           (\E d \in DevicesOf(n) : a \in AreasOf(d)) \/ a \in OwnAreas(n)
    BY <1>1, <2>1, ListedAre
  <2>4. OwnAreas(n) \subseteq Areas /\ \A d \in DevicesOf(n) : AreasOf(d) \subseteq Areas
    BY DEF AreasOf, OwnAreas
  <2> QED  BY <2>2, <2>3, <2>4
<1> QED  BY <1>2, <1>3

LEMMA LeastOf == ASSUME NEW a \in Nat, NEW b \in Nat PROVE Min({a, b}) = IF a <= b THEN a ELSE b
<1> DEFINE Least(m) == m \in {a, b} /\ \A y \in {a, b} : m <= y
<1>1. Min({a, b}) = CHOOSE m : Least(m)
  BY Zenon DEF Min
<1>2. \E m : Least(m)
  <2>1. CASE a <= b
    BY <2>1
  <2>2. CASE b <= a
    BY <2>2
  <2> QED  BY <2>1, <2>2
<1>3. Least(Min({a, b}))
  <2> HIDE DEF Least
  <2> QED  BY <1>1, <1>2
<1> QED  BY <1>3

\* One branch of a resolution has all there is, or more than the limit.
LEMMA BranchIsEnough ==
    ASSUME NEW i, NEW kind, IsFiniteSet(kind), NEW most \in Nat, NEW rows \in Branch(i, kind, most)
    PROVE  /\ rows \subseteq Matches(i, kind) /\ IsFiniteSet(rows)
           /\ i \in Matches(i, kind) => i \in rows
           /\ rows = Matches(i, kind) \/ Cardinality(rows) > most
<1> DEFINE all == Matches(i, kind)
<1>1. IsFiniteSet(all)
  <2>1. all \subseteq kind
    BY DEF Matches, Of
  <2> QED  BY <2>1, FS_Subset
<1>2. rows \subseteq all /\ Cardinality(rows) = Min({most + 1, Cardinality(all)}) /\ (i \in all => i \in rows)
  BY DEF Branch
<1> HIDE DEF all
<1>3. IsFiniteSet(rows)
  BY <1>1, <1>2, FS_Subset
<1>4. Cardinality(all) \in Nat /\ Cardinality(rows) \in Nat
  BY <1>1, <1>3, FS_CardinalityType
<1>5. Cardinality(rows) = IF most + 1 <= Cardinality(all) THEN most + 1 ELSE Cardinality(all)
  BY <1>2, <1>4, LeastOf
<1>6. CASE most + 1 <= Cardinality(all)
  BY <1>5, <1>6, <1>2, <1>3 DEF all
<1>7. CASE ~(most + 1 <= Cardinality(all))
  <2>1. Cardinality(rows) = Cardinality(all)
    BY <1>5, <1>7
  <2>2. rows = all
    BY <2>1, <1>1, <1>2, FS_Subset
  <2> QED  BY <2>2, <1>2, <1>3 DEF all
<1> QED  BY <1>6, <1>7

\* What an identifier may mean, and the rows three branches give for it.
Meant(i) == Matches(i, Areas \cup Devices \cup Entities)

LEMMA RowsAreEnough ==
    ASSUME NEW i, NEW most \in Nat,
           NEW a \in Branch(i, Areas, most), NEW d \in Branch(i, Devices, most),
           NEW e \in Branch(i, Entities, most),
           NEW rows, rows = a \cup d \cup e
    PROVE  /\ rows \subseteq Meant(i) /\ (i \in Meant(i) => i \in rows)
           /\ Cardinality(rows) \in Nat /\ Cardinality(Meant(i)) \in Nat
           /\ rows = Meant(i) \/ (Cardinality(rows) > most /\ Cardinality(Meant(i)) > most)
<1>1. Meant(i) = Matches(i, Areas) \cup Matches(i, Devices) \cup Matches(i, Entities)
  BY DEF Matches, Of, Meant
<1>2. \A kind \in {Areas, Devices, Entities} : \A x \in Branch(i, kind, most) :
         /\ x \subseteq Matches(i, kind) /\ IsFiniteSet(x)
         /\ i \in Matches(i, kind) => i \in x
         /\ x = Matches(i, kind) \/ Cardinality(x) > most
  BY BranchIsEnough, ContextAssumption
<1>3. /\ a \subseteq Matches(i, Areas) /\ IsFiniteSet(a) /\ (i \in Matches(i, Areas) => i \in a)
      /\ a = Matches(i, Areas) \/ Cardinality(a) > most
  BY <1>2
<1>4. /\ d \subseteq Matches(i, Devices) /\ IsFiniteSet(d) /\ (i \in Matches(i, Devices) => i \in d)
      /\ d = Matches(i, Devices) \/ Cardinality(d) > most
  BY <1>2
<1>5. /\ e \subseteq Matches(i, Entities) /\ IsFiniteSet(e) /\ (i \in Matches(i, Entities) => i \in e)
      /\ e = Matches(i, Entities) \/ Cardinality(e) > most
  BY <1>2
<1>6. rows \subseteq Meant(i) /\ (i \in Meant(i) => i \in rows)
  BY <1>1, <1>3, <1>4, <1>5
<1>7. IsFiniteSet(Meant(i)) /\ IsFiniteSet(rows)
  <2>1. IsFiniteSet(Areas \cup Devices \cup Entities)
    BY FS_Union, ContextAssumption
  <2>2. Meant(i) \subseteq Areas \cup Devices \cup Entities
    BY DEF Matches, Of, Meant
  <2>3. IsFiniteSet(Meant(i))
    BY <2>1, <2>2, FS_Subset
  <2> QED  BY <1>6, <2>3, FS_Subset
<1>8. Cardinality(rows) \in Nat /\ Cardinality(Meant(i)) \in Nat /\ Cardinality(rows) <= Cardinality(Meant(i))
  BY <1>6, <1>7, FS_Subset, FS_CardinalityType
<1>9. CASE rows # Meant(i)
  <2>1. PICK x \in {a, d, e} : Cardinality(x) > most
    BY <1>1, <1>3, <1>4, <1>5, <1>9
  <2>2. x \subseteq rows /\ IsFiniteSet(x)
    BY <1>3, <1>4, <1>5
  <2>3. Cardinality(x) <= Cardinality(rows) /\ Cardinality(x) \in Nat
    BY <1>7, <2>2, FS_Subset, FS_CardinalityType
  <2> QED  BY <1>6, <1>8, <2>1, <2>3
<1> QED  BY <1>6, <1>8, <1>9

\* The answer that is made of such rows.
Resolution(i, rows, most) ==
    LET exact == IF i \in rows THEN {i} ELSE rows
    IN [outcome |-> IF rows = {} THEN "not_found"
                    ELSE IF Cardinality(exact) = 1 THEN "ok" ELSE "ambiguous",
        candidates |-> exact,
        truncated |-> Cardinality(exact) > most]

\* Whatever the limit, what is said of the candidates is true.
LEMMA ResolvedIsExact ==
    ASSUME NEW i, NEW most \in Nat \ {0}, NEW r \in Resolved(i, most)
    PROVE  /\ i \in Meant(i) => r.outcome = "ok" /\ r.candidates = {i}
           /\ i \notin Meant(i) =>
                 /\ r.outcome = (IF Meant(i) = {} THEN "not_found"
                                 ELSE IF Cardinality(Meant(i)) = 1 THEN "ok" ELSE "ambiguous")
                 /\ r.truncated <=> Cardinality(Meant(i)) > most
<1> DEFINE Rows == {a \cup d \cup e : a \in Branch(i, Areas, most),
                       d \in Branch(i, Devices, most), e \in Branch(i, Entities, most)}
<1>1. PICK rows \in Rows : r = Resolution(i, rows, most)
  <2>1. Resolved(i, most) = {Resolution(i, rows, most) : rows \in Rows}
    BY DEF Resolved, Resolution
  <2> HIDE DEF Rows
  <2> QED  BY <2>1
<1>2. PICK a \in Branch(i, Areas, most), d \in Branch(i, Devices, most), e \in Branch(i, Entities, most) :
          rows = a \cup d \cup e
  OBVIOUS
<1>3. /\ rows \subseteq Meant(i) /\ (i \in Meant(i) => i \in rows)
      /\ Cardinality(rows) \in Nat /\ Cardinality(Meant(i)) \in Nat
      /\ rows = Meant(i) \/ (Cardinality(rows) > most /\ Cardinality(Meant(i)) > most)
  BY <1>2, RowsAreEnough
<1> HIDE DEF Rows
<1>4. CASE i \in Meant(i)
  <2>1. i \in rows /\ Cardinality({i}) = 1
    BY <1>3, <1>4, FS_Singleton
  <2> QED  BY <1>1, <1>4, <2>1 DEF Resolution
<1>5. CASE i \notin Meant(i)
  <2>1. i \notin rows
    BY <1>3, <1>5
  <2>2. /\ r.outcome = (IF rows = {} THEN "not_found"
                        ELSE IF Cardinality(rows) = 1 THEN "ok" ELSE "ambiguous")
        /\ r.truncated = (Cardinality(rows) > most)
    BY <1>1, <2>1 DEF Resolution
  <2>3. CASE rows = Meant(i)
    BY <1>5, <2>2, <2>3
  <2>4. CASE Cardinality(rows) > most /\ Cardinality(Meant(i)) > most
    <3>1. Cardinality(rows) # 1 /\ Cardinality(Meant(i)) # 1 /\ rows # {} /\ Meant(i) # {}
      BY <1>3, <2>4, FS_EmptySet
    <3> QED  BY <1>5, <2>2, <2>4, <3>1
  <2> QED  BY <1>3, <2>3, <2>4
<1> QED  BY <1>4, <1>5

\* However the links and nodes of a home come and go, the tools agree
\* (query_tools.py).
THEOREM ToolsAlwaysAgree == HomeSpec => []ToolsAgree
<1>1. HomeInit => LinksAreWithin
  BY HomeInitWithin
<1>2. LinksAreWithin /\ [HomeNext]_<<nodes, edges>> => LinksAreWithin'
  <2>1. LinksAreWithin /\ UNCHANGED <<nodes, edges>> => LinksAreWithin'
    BY DEF LinksAreWithin
  <2> QED  BY <2>1, HomeNextWithin
<1>3. LinksAreWithin => ToolsAgree
  <2>1. ResolutionIsExact
    <3>1. \A most \in 1..2 : most \in Nat \ {0}
      OBVIOUS
    <3> QED  BY <3>1, ResolvedIsExact, Zenon DEF ResolutionIsExact, Meant
  <2> QED  BY <2>1, ContextsAreOneStory, UnassignedIsExact DEF ToolsAgree
<1> QED  BY <1>1, <1>2, <1>3, PTL DEF HomeSpec

-----------------------------------------------------------------------------
LEMMA ExportKept ==
    ASSUME NEW S, IsFiniteSet(S), NEW T \in Kept(S)
    PROVE  T \subseteq S /\ (~TooMany(S) => T = S)
<1>1. Cardinality(S) \in Nat /\ Limit \in Nat
  BY FS_CardinalityType, ExportAssumption
<1>2. CASE Cardinality(S) <= Limit
  BY <1>2 DEF Kept
<1>3. CASE ~(Cardinality(S) <= Limit)
  <2>1. T \in kSubset(Limit, S) /\ TooMany(S)
    BY <1>1, <1>3 DEF Kept, TooMany
  <2> QED  BY <2>1 DEF kSubset
<1> QED  BY <1>2, <1>3

LEMMA FiniteLists ==
    /\ IsFiniteSet(Of(Entities)) /\ IsFiniteSet(Of(Devices)) /\ IsFiniteSet(Of(Automations))
    /\ \A F \in SUBSET Reportable : IsFiniteSet(F)
  BY FS_Subset, ContextAssumption, ExportAssumption DEF Of

\* The export is at its stage, or answered with what it collected.
At(stages) == stage \in stages \/ Done
ForArea == request.type = "area"
ForHome == request.type = "whole_home"

\* What is known of the links and findings takes in those there are.
BeforeIsKept ==
    /\ edges \subseteq before.edges
    /\ findings \subseteq before.findings /\ findings \subseteq Reportable
    /\ changes \in Nat

\* Nothing is told and nothing answered before its time.
StagesFit ==
    /\ stage \in {"waiting", "automations", "findings", "answered"}
    /\ Done => stage = "answered"
    /\ stage = "waiting" => said = {} /\ ~cut

\* The area is one that was asked for.
AreaIsAsked ==
    ForArea /\ At({"automations", "findings"}) => area = request.target \/ request.target \in Names

\* What is collected for an area refers to it.
NothingElsewhere ==
    ForArea => /\ At({"findings"}) => \A x \in automations : \E e \in entities : <<x, e>> \in before.edges
               /\ Done => reported \subseteq before.findings \cap (entities \cup {area})

\* What is collected of a home is all of it, or its cut is told of.
CutIsSaid ==
    ForHome /\ At({"automations", "findings"}) =>
        /\ cut <=> said # {}
        /\ (said = {} /\ changes = 0) =>
              /\ entities = Of(Entities)
              /\ At({"findings"}) => automations = Of(Automations)
              /\ Done => reported = findings

ExportInv ==
    /\ LinksAreWithin
    /\ BeforeIsKept
    /\ StagesFit
    /\ AreaIsAsked
    /\ NothingElsewhere
    /\ CutIsSaid

LEMMA ExportInitInv == ExportInit => ExportInv
<1> SUFFICES ASSUME ExportInit PROVE ExportInv
  OBVIOUS
<1>1. LinksAreWithin
  BY HomeInitWithin DEF ExportInit
<1>2. BeforeIsKept /\ StagesFit
  BY DEF ExportInit, BeforeIsKept, StagesFit, Done
<1>3. ~Done /\ ~At({"automations", "findings"}) /\ ~At({"findings"})
  BY DEF ExportInit, Done, At
<1> QED  BY <1>1, <1>2, <1>3 DEF ExportInv, AreaIsAsked, NothingElsewhere, CutIsSaid

\* What a query leaves as it is.
LEMMA ExportFrame ==
    ASSUME ExportInv, UNCHANGED <<homeVars, request, before>>
    PROVE  /\ LinksAreWithin' /\ BeforeIsKept' /\ ForArea' = ForArea /\ ForHome' = ForHome
           /\ nodes' = nodes /\ edges' = edges /\ findings' = findings /\ changes' = changes
           /\ before' = before /\ request' = request
  BY DEF ExportInv, LinksAreWithin, BeforeIsKept, homeVars, ForArea, ForHome

LEMMA ExportAreaInv == ASSUME ExportInv, ExportArea PROVE ExportInv'
<1>1. /\ UNCHANGED <<homeVars, request, before, automations, reported, said>>
      /\ ForArea /\ ~ForHome /\ stage = "waiting"
  BY DEF ExportArea, ForArea, ForHome
<1>2. CASE Finish("not_found")
  <2>1. ~Done' /\ stage' = "answered"
    BY <1>2 DEF Finish, Done
  <2> QED  BY <1>1, <2>1, ExportFrame
           DEF ExportInv, StagesFit, AreaIsAsked, NothingElsewhere, CutIsSaid, At
<1>3. ASSUME NEW a \in Matches(request.target, Areas), area' = a, stage' = "automations", UNCHANGED outcome
      PROVE  ExportInv'
  <2>1. ~Done' /\ a \in Nodes /\ (a = request.target \/ NameOf[a] = request.target)
    BY <1>1, <1>3 DEF ExportInv, StagesFit, Done, Matches, Of, Nodes
  <2>2. a = request.target \/ request.target \in Names
    BY <2>1, ContextAssumption
  <2>3. AreaIsAsked'
    BY <1>1, <1>3, <2>2 DEF AreaIsAsked
  <2>4. StagesFit' /\ ~At({"findings"})' /\ ~ForHome'
    BY <1>1, <1>3, <2>1, ExportFrame DEF StagesFit, At
  <2>5. NothingElsewhere' /\ CutIsSaid'
    BY <2>1, <2>4 DEF NothingElsewhere, CutIsSaid
  <2> QED  BY <1>1, <2>3, <2>4, <2>5, ExportFrame DEF ExportInv
<1> QED  BY <1>2, <1>3 DEF ExportArea

LEMMA ExportHomeInv == ASSUME ExportInv, ExportHome PROVE ExportInv'
<1>1. /\ UNCHANGED <<homeVars, request, before, automations, reported, area, outcome>>
      /\ ForHome /\ ~ForArea /\ stage = "waiting" /\ stage' = "automations"
  BY DEF ExportHome, ForArea, ForHome
<1>2. ~Done' /\ ~At({"findings"})'
  BY <1>1 DEF ExportInv, StagesFit, Done, At
<1>3. cut' <=> said' # {}
  BY DEF ExportHome
<1>4. said' = {} => entities' = Of(Entities)
  <2>1. said' = {} => ~TooMany(Of(Entities))
    BY DEF ExportHome
  <2> QED  BY <2>1, ExportKept, FiniteLists DEF ExportHome
<1>5. Of(Entities)' = Of(Entities)
  BY <1>1, ExportFrame DEF Of
<1>6. StagesFit'
  BY <1>1, <1>2 DEF StagesFit
<1>7. CutIsSaid' /\ AreaIsAsked' /\ NothingElsewhere'
  BY <1>1, <1>2, <1>3, <1>4, <1>5, ExportFrame DEF CutIsSaid, AreaIsAsked, NothingElsewhere
<1> QED  BY <1>1, <1>6, <1>7, ExportFrame DEF ExportInv

LEMMA ExportAutomationsInv == ASSUME ExportInv, ExportAutomations PROVE ExportInv'
<1>1. /\ UNCHANGED <<homeVars, request, before, entities, reported, area, outcome>>
      /\ stage = "automations" /\ stage' = "findings"
  BY DEF ExportAutomations
<1>2. ~Done' /\ StagesFit' /\ At({"automations", "findings"})
  BY <1>1 DEF ExportInv, StagesFit, Done, At
<1>3. CASE ForArea /\ automations' = {x \in Automations : \E e \in entities : <<x, e>> \in edges}
  <2>1. ~ForHome
    BY <1>3 DEF ForArea, ForHome
  <2>2. \A x \in automations' : \E e \in entities' : <<x, e>> \in before'.edges
    BY <1>1, <1>3 DEF ExportInv, BeforeIsKept
  <2>3. AreaIsAsked'
    BY <1>1, <1>2, ExportFrame DEF ExportInv, AreaIsAsked
  <2> QED  BY <1>1, <1>2, <2>1, <2>2, <2>3, ExportFrame DEF ExportInv, NothingElsewhere, CutIsSaid
<1>4. CASE /\ ForHome /\ automations' \in Kept(Of(Automations))
           /\ said' = said \cup (IF TooMany(Of(Automations)) THEN {"automations"} ELSE {})
           /\ cut' = (cut \/ TooMany(Of(Automations)))
  <2>1. ~ForArea
    BY <1>4 DEF ForArea, ForHome
  <2>2. cut <=> said # {}
    BY <1>2, <1>4 DEF ExportInv, CutIsSaid
  <2>3. cut' <=> said' # {}
    BY <1>4, <2>2
  <2>4. said' = {} => said = {} /\ automations' = Of(Automations)
    BY <1>4, ExportKept, FiniteLists
  <2>5. Of(Automations)' = Of(Automations) /\ Of(Entities)' = Of(Entities)
    BY <1>1, ExportFrame DEF Of
  <2>6. CutIsSaid'
    BY <1>1, <1>2, <1>4, <2>3, <2>4, <2>5, ExportFrame DEF ExportInv, CutIsSaid
  <2> QED  BY <1>1, <1>2, <2>1, <2>6, ExportFrame DEF ExportInv, NothingElsewhere, AreaIsAsked
<1> QED  BY <1>3, <1>4 DEF ExportAutomations, ForArea, ForHome

LEMMA ExportFindingsInv == ASSUME ExportInv, ExportFindings PROVE ExportInv'
<1>1. /\ UNCHANGED <<homeVars, request, before, entities, automations, area>>
      /\ stage = "findings" /\ stage' = "answered" /\ Done'
  BY DEF ExportFindings, Finish, Done
<1>2. StagesFit' /\ At({"automations", "findings"}) /\ At({"findings"})
  BY <1>1 DEF StagesFit, At
<1>3. CASE ForArea /\ reported' = findings \cap (entities \cup {request.target})
  <2>1. ~ForHome
    BY <1>3 DEF ForArea, ForHome
  <2>2. area = request.target \/ request.target \in Names
    BY <1>2, <1>3 DEF ExportInv, AreaIsAsked
  <2>3. findings \subseteq Reportable /\ findings \subseteq before.findings
    BY DEF ExportInv, BeforeIsKept
  <2>4. reported' \subseteq before.findings \cap (entities \cup {area})
    BY <1>3, <2>2, <2>3, ContextAssumption, ExportAssumption
  <2>5. \A x \in automations : \E e \in entities : <<x, e>> \in before.edges
    BY <1>2, <1>3 DEF ExportInv, NothingElsewhere
  <2>6. NothingElsewhere' /\ AreaIsAsked'
    BY <1>1, <2>2, <2>4, <2>5, ExportFrame DEF NothingElsewhere, AreaIsAsked
  <2> QED  BY <1>1, <1>2, <2>1, <2>6, ExportFrame DEF ExportInv, CutIsSaid
<1>4. CASE /\ ForHome /\ reported' \in Kept(findings)
           /\ said' = said \cup (IF TooMany(findings) THEN {"validation findings"} ELSE {})
           /\ cut' = (cut \/ TooMany(findings))
  <2>1. ~ForArea
    BY <1>4 DEF ForArea, ForHome
  <2>2. /\ cut <=> said # {}
        /\ (said = {} /\ changes = 0) => entities = Of(Entities) /\ automations = Of(Automations)
    BY <1>2, <1>4 DEF ExportInv, CutIsSaid
  <2>3. cut' <=> said' # {}
    BY <1>4, <2>2
  <2>4. IsFiniteSet(findings)
    BY FiniteLists DEF ExportInv, BeforeIsKept
  <2>5. said' = {} => said = {} /\ reported' = findings
    BY <1>4, <2>4, ExportKept
  <2>6. Of(Automations)' = Of(Automations) /\ Of(Entities)' = Of(Entities)
    BY <1>1, ExportFrame DEF Of
  <2>7. CutIsSaid'
    BY <1>1, <2>2, <2>3, <2>5, <2>6, ExportFrame DEF CutIsSaid
  <2> QED  BY <1>1, <1>2, <2>1, <2>7, ExportFrame DEF ExportInv, NothingElsewhere, AreaIsAsked
<1> QED  BY <1>3, <1>4 DEF ExportFindings, ForArea, ForHome

LEMMA ExportFailInv == ASSUME ExportInv, Fail PROVE ExportInv'
<1>1. UNCHANGED <<homeVars, request, before>> /\ stage' = "answered" /\ ~Done'
  BY DEF Fail, Finish, Done
<1> QED  BY <1>1, ExportFrame
         DEF ExportInv, StagesFit, AreaIsAsked, NothingElsewhere, CutIsSaid, At

\* A home that changed is not held to be whole; what was seen of it is kept.
LEMMA ExportChangesInv == ASSUME ExportInv, GraphChanges PROVE ExportInv'
<1>1. /\ UNCHANGED <<request, stage, area, entities, automations, reported, said, outcome, cut>>
      /\ changes' = changes + 1
      /\ before' = [edges |-> before.edges \cup edges', findings |-> before.findings \cup findings']
  BY DEF GraphChanges
<1>2. LinksAreWithin' /\ findings' \subseteq Reportable
  <2>1. CASE HomeNext /\ UNCHANGED findings
    BY <2>1, HomeNextWithin DEF ExportInv, BeforeIsKept
  <2>2. CASE (\E t \in Reportable :
                 findings' = (IF t \in findings THEN findings \ {t} ELSE findings \cup {t}))
             /\ UNCHANGED <<nodes, edges>>
    BY <2>2 DEF ExportInv, BeforeIsKept, LinksAreWithin
  <2> QED  BY <2>1, <2>2 DEF GraphChanges
<1>3. before.edges \subseteq before'.edges /\ before.findings \subseteq before'.findings
  BY <1>1
<1>4. BeforeIsKept' /\ changes' # 0
  BY <1>1, <1>2 DEF ExportInv, BeforeIsKept
<1>5. StagesFit' /\ AreaIsAsked' /\ Done' = Done
  BY <1>1 DEF ExportInv, StagesFit, AreaIsAsked, At, Done, ForArea
<1>6. NothingElsewhere'
  BY <1>1, <1>3 DEF ExportInv, NothingElsewhere, At, Done, ForArea
<1>7. CutIsSaid'
  BY <1>1, <1>4 DEF ExportInv, CutIsSaid, At, Done, ForHome
<1> QED  BY <1>2, <1>4, <1>5, <1>6, <1>7 DEF ExportInv

LEMMA ExportNextInv == ExportInv /\ [ExportNext]_exportVars => ExportInv'
<1>1. ExportInv /\ UNCHANGED exportVars => ExportInv'
  BY DEF exportVars, homeVars, answerVars, ExportInv, LinksAreWithin, BeforeIsKept, StagesFit,
         AreaIsAsked, NothingElsewhere, CutIsSaid, At, Done, ForArea, ForHome, Of
<1> QED  BY <1>1, ExportAreaInv, ExportHomeInv, ExportAutomationsInv, ExportFindingsInv,
            ExportFailInv, ExportChangesInv DEF ExportNext

\* Whatever changes between its queries, an export has nothing foreign, and
\* nothing missing that it does not tell of (context_export.py).
THEOREM ExportIsAlwaysSound == ExportSpec => []ExportIsSound
<1>1. ExportInv => ExportIsSound
  BY DEF ExportInv, ExportIsSound, ExportKeepsToTheArea, HomeIsWholeOrSaysSo, NothingElsewhere,
         CutIsSaid, At, ForArea, ForHome
<1> QED  BY <1>1, ExportInitInv, ExportNextInv, PTL DEF ExportSpec

(***************************************************************************)
(* What a link costs in the floor plan.                                    *)
(***************************************************************************)

LEMMA Scaled == ASSUME NEW k \in Int, NEW x \in Int, k > 0 PROVE k * x <= 0 <=> x <= 0
  OBVIOUS
LEMMA Opposite == ASSUME NEW x \in Int, NEW y \in Int
      PROVE x * y <= 0 <=> (x <= 0 /\ y >= 0) \/ (x >= 0 /\ y <= 0)
  OBVIOUS
LEMMA Negated == ASSUME NEW x \in Int, NEW y \in Int PROVE (-x) * (y - x) = x * (x - y)
  OBVIOUS

LEMMA Squares == ASSUME NEW x \in Int, NEW y \in Int
   PROVE x*x >= 0 /\ x * x + y * y \in Int /\ x*x + y*y >= 0 /\ (x # 0 \/ y # 0 <=> x*x + y*y > 0)
  OBVIOUS

\* The vector x is i / k of v.
Lies(x1, x2, v1, v2, i, k) ==
    /\ x1 \in Int /\ x2 \in Int /\ i \in Int /\ k \in Int \ {0}
    /\ k * x1 = i * v1 /\ k * x2 = i * v2

\* Two vectors along a third: whether they point the same way.
LEMMA Along ==
    ASSUME NEW v1 \in Int, NEW v2 \in Int, v1 # 0 \/ v2 # 0,
           NEW x1, NEW x2, NEW y1, NEW y2, NEW i, NEW j, NEW k,
           Lies(x1, x2, v1, v2, i, k), Lies(y1, y2, v1, v2, j, k)
    PROVE  x1 * y1 + x2 * y2 <= 0 <=> i * j <= 0
<1>0. /\ x1 \in Int /\ x2 \in Int /\ i \in Int /\ k \in Int \ {0}
      /\ k * x1 = i * v1 /\ k * x2 = i * v2
      /\ y1 \in Int /\ y2 \in Int /\ j \in Int /\ k * y1 = j * v1 /\ k * y2 = j * v2
  BY DEF Lies
<1> USE <1>0
<1>1. (k * k) * (x1 * y1 + x2 * y2) = (k * x1) * (k * y1) + (k * x2) * (k * y2)
  OBVIOUS
<1>2. (k * x1) * (k * y1) + (k * x2) * (k * y2) = (i * v1) * (j * v1) + (i * v2) * (j * v2)
  OBVIOUS
<1>3. (i * v1) * (j * v1) + (i * v2) * (j * v2) = (v1 * v1 + v2 * v2) * (i * j)
  OBVIOUS
<1>4. k * k > 0 /\ v1 * v1 + v2 * v2 > 0
  BY Squares
<1> DEFINE K == k * k  V == v1 * v1 + v2 * v2  D == x1 * y1 + x2 * y2  P == i * j
<1>5. K \in Int /\ V \in Int /\ D \in Int /\ P \in Int /\ K > 0 /\ V > 0 /\ K * D = V * P
  BY <1>1, <1>2, <1>3, <1>4
<1> HIDE DEF K, V, D, P
<1>6. (D <= 0 <=> K * D <= 0) /\ (P <= 0 <=> V * P <= 0)
  BY <1>5, Scaled
<1>7. D <= 0 <=> P <= 0
  BY <1>5, <1>6
<1> QED  BY <1>7 DEF D, P

\* The path from 0 to r and the wall from c to c + w: the products that say how
\* the one lies to the other.
Segments(r1, r2, w1, w2, c1, c2, d, n, m) ==
    /\ r1 \in Int /\ r2 \in Int /\ w1 \in Int /\ w2 \in Int /\ c1 \in Int /\ c2 \in Int
    /\ d = r1 * w2 - r2 * w1
    /\ n = c1 * w2 - c2 * w1
    /\ m = c1 * r2 - c2 * r1

\* How far along the path, of square length R, the wall begins and ends.
Extent(r1, r2, w1, w2, c1, c2, R, t0, t1) ==
    /\ R = r1 * r1 + r2 * r2
    /\ t0 = c1 * r1 + c2 * r2
    /\ t1 = t0 + (w1 * r1 + w2 * r2)

LEMMA Identities ==
    ASSUME NEW r1 \in Int, NEW r2 \in Int, NEW w1 \in Int, NEW w2 \in Int, NEW c1 \in Int, NEW c2 \in Int,
           NEW d, d = r1 * w2 - r2 * w1, NEW n, n = c1 * w2 - c2 * w1, NEW m, m = c1 * r2 - c2 * r1
    PROVE  /\ d * c1 = n * r1 - m * w1 /\ d * c2 = n * r2 - m * w2
           /\ (r1 * r1 + r2 * r2) * w1 = (r1 * w1 + r2 * w2) * r1 - d * r2
           /\ (r1 * r1 + r2 * r2) * w2 = (r1 * w1 + r2 * w2) * r2 + d * r1
           /\ (r1 * r1 + r2 * r2) * c1 = (c1 * r1 + c2 * r2) * r1 + m * r2
           /\ (r1 * r1 + r2 * r2) * c2 = (c1 * r1 + c2 * r2) * r2 - m * r1
           /\ d \in Int /\ n \in Int /\ m \in Int
  OBVIOUS

\* Where the lines are not parallel.
LEMMA CrossingIsTouching ==
    ASSUME NEW r1, NEW r2, NEW w1, NEW w2, NEW c1, NEW c2, NEW d, NEW n, NEW m,
           Segments(r1, r2, w1, w2, c1, c2, d, n, m), d # 0
    PROVE  n * (n - d) <= 0 /\ m * (m - d) <= 0 <=>
              \/ m = 0 /\ c1 * (c1 - r1) + c2 * (c2 - r2) <= 0
              \/ m = d /\ (c1 + w1) * (c1 + w1 - r1) + (c2 + w2) * (c2 + w2 - r2) <= 0
              \/ n = 0 /\ c1 * (c1 + w1) + c2 * (c2 + w2) <= 0
              \/ n = d /\ (c1 - r1) * (c1 + w1 - r1) + (c2 - r2) * (c2 + w2 - r2) <= 0
              \/ m * (m - d) < 0 /\ n * (n - d) < 0
<1> DEFINE NearOnPath == c1 * (c1 - r1) + c2 * (c2 - r2) <= 0
           FarOnPath  == (c1 + w1) * (c1 + w1 - r1) + (c2 + w2) * (c2 + w2 - r2) <= 0
           NearOnWall == c1 * (c1 + w1) + c2 * (c2 + w2) <= 0
           FarOnWall  == (c1 - r1) * (c1 + w1 - r1) + (c2 - r2) * (c2 + w2 - r2) <= 0
           N == n * (n - d)
           M == m * (m - d)
<1>1. /\ r1 \in Int /\ r2 \in Int /\ w1 \in Int /\ w2 \in Int /\ c1 \in Int /\ c2 \in Int
      /\ d \in Int /\ n \in Int /\ m \in Int /\ d \in Int \ {0}
      /\ d * c1 = n * r1 - m * w1 /\ d * c2 = n * r2 - m * w2
  BY Identities DEF Segments
<1>2. (r1 # 0 \/ r2 # 0) /\ (w1 # 0 \/ w2 # 0)
  BY <1>1 DEF Segments
<1>3. ASSUME m = 0 PROVE NearOnPath <=> N <= 0
  <2>1. d * c1 = n * r1 /\ d * c2 = n * r2
    BY <1>1, <1>3
  <2>2. Lies(c1, c2, r1, r2, n, d) /\ Lies(c1 - r1, c2 - r2, r1, r2, n - d, d)
    BY <1>1, <2>1 DEF Lies
  <2> QED  BY <1>1, <1>2, <2>2, Along
<1>4. ASSUME m = d PROVE FarOnPath <=> N <= 0
  <2>1. d * (c1 + w1) = n * r1 /\ d * (c2 + w2) = n * r2
    BY <1>1, <1>4
  <2>2. /\ Lies(c1 + w1, c2 + w2, r1, r2, n, d)
        /\ Lies(c1 + w1 - r1, c2 + w2 - r2, r1, r2, n - d, d)
    BY <1>1, <2>1 DEF Lies
  <2> QED  BY <1>1, <1>2, <2>2, Along
<1>5. ASSUME n = 0 PROVE NearOnWall <=> M <= 0
  <2>1. d * c1 = (-m) * w1 /\ d * c2 = (-m) * w2
    BY <1>1, <1>5
  <2>2. Lies(c1, c2, w1, w2, -m, d) /\ Lies(c1 + w1, c2 + w2, w1, w2, d - m, d)
    BY <1>1, <2>1 DEF Lies
  <2>3. NearOnWall <=> (-m) * (d - m) <= 0
    BY <1>1, <1>2, <2>2, Along
  <2>4. (-m) * (d - m) = M
    BY <1>1, Negated
  <2> QED  BY <2>3, <2>4
<1>6. ASSUME n = d PROVE FarOnWall <=> M <= 0
  <2>1. d * (c1 - r1) = (-m) * w1 /\ d * (c2 - r2) = (-m) * w2
    BY <1>1, <1>6
  <2>2. /\ Lies(c1 - r1, c2 - r2, w1, w2, -m, d)
        /\ Lies(c1 + w1 - r1, c2 + w2 - r2, w1, w2, d - m, d)
    BY <1>1, <2>1 DEF Lies
  <2>3. FarOnWall <=> (-m) * (d - m) <= 0
    BY <1>1, <1>2, <2>2, Along
  <2>4. (-m) * (d - m) = M
    BY <1>1, Negated
  <2> QED  BY <2>3, <2>4
<1>7. N \in Int /\ M \in Int /\ (m = 0 \/ m = d <=> M = 0) /\ (n = 0 \/ n = d <=> N = 0)
  BY <1>1
<1> HIDE DEF NearOnPath, FarOnPath, NearOnWall, FarOnWall, N, M
<1>8. N <= 0 /\ M <= 0 <=>
         \/ m = 0 /\ NearOnPath
         \/ m = d /\ FarOnPath
         \/ n = 0 /\ NearOnWall
         \/ n = d /\ FarOnWall
         \/ M < 0 /\ N < 0
  BY <1>3, <1>4, <1>5, <1>6, <1>7
<1> QED  BY <1>8 DEF NearOnPath, FarOnPath, NearOnWall, FarOnWall, N, M

\* Where they are.
LEMMA CollinearIsTouching ==
    ASSUME NEW r1, NEW r2, NEW w1, NEW w2, NEW c1, NEW c2, NEW d, NEW n, NEW m,
           Segments(r1, r2, w1, w2, c1, c2, d, n, m), d = 0, r1 # 0 \/ r2 # 0,
           NEW R, NEW t0, NEW t1, Extent(r1, r2, w1, w2, c1, c2, R, t0, t1)
    PROVE  m = 0 /\ (t0 >= 0 \/ t1 >= 0) /\ (t0 <= R \/ t1 <= R) <=>
              \/ m = 0 /\ c1 * (c1 - r1) + c2 * (c2 - r2) <= 0
              \/ m = 0 /\ (c1 + w1) * (c1 + w1 - r1) + (c2 + w2) * (c2 + w2 - r2) <= 0
              \/ n = 0 /\ c1 * (c1 + w1) + c2 * (c2 + w2) <= 0
              \/ n = 0 /\ (c1 - r1) * (c1 + w1 - r1) + (c2 - r2) * (c2 + w2 - r2) <= 0
<1> DEFINE k == w1 * r1 + w2 * r2
<1>0. /\ r1 \in Int /\ r2 \in Int /\ w1 \in Int /\ w2 \in Int /\ c1 \in Int /\ c2 \in Int
      /\ n = c1 * w2 - c2 * w1 /\ m = c1 * r2 - c2 * r1
  BY DEF Segments
<1>1. R = r1 * r1 + r2 * r2 /\ t0 = c1 * r1 + c2 * r2 /\ t1 = t0 + k
  BY DEF Extent
<1>2. /\ R \in Int \ {0} /\ R > 0 /\ t0 \in Int /\ t1 \in Int /\ k \in Int /\ t1 = t0 + k
      /\ n \in Int /\ m \in Int
  <2>1. R > 0
    BY <1>0, <1>1, Squares
  <2> QED  BY <1>0, <1>1, <2>1
<1>3. /\ R * w1 = k * r1 /\ R * w2 = k * r2
      /\ R * c1 = t0 * r1 + m * r2 /\ R * c2 = t0 * r2 - m * r1
  <2>1. d = 0 /\ d = r1 * w2 - r2 * w1
    BY DEF Segments
  <2> QED  BY <1>0, <1>1, <2>1, Identities
<1>4. R * n = k * m
  <2>1. R * n = c1 * (R * w2) - c2 * (R * w1)
    BY <1>0, <1>2
  <2>2. c1 * (R * w2) - c2 * (R * w1) = c1 * (k * r2) - c2 * (k * r1)
    BY <1>3
  <2>3. c1 * (k * r2) - c2 * (k * r1) = k * m
    BY <1>0, <1>2
  <2> QED  BY <2>1, <2>2, <2>3
<1> HIDE DEF k
<1>5. CASE m = 0
  <2>0. r1 \in Int /\ r2 \in Int /\ w1 \in Int /\ w2 \in Int /\ c1 \in Int /\ c2 \in Int
    BY <1>0
  <2>1. R * c1 = t0 * r1 /\ R * c2 = t0 * r2 /\ n = 0
    BY <1>2, <1>3, <1>4, <1>5, <2>0
  <2>2. Lies(c1, c2, r1, r2, t0, R) /\ Lies(c1 - r1, c2 - r2, r1, r2, t0 - R, R)
    BY <2>0, <1>2, <2>1 DEF Lies
  <2>3. R * (c1 + w1) = t1 * r1 /\ R * (c2 + w2) = t1 * r2
    BY <2>0, <1>2, <1>3, <2>1
  <2>4. /\ Lies(c1 + w1, c2 + w2, r1, r2, t1, R)
        /\ Lies(c1 + w1 - r1, c2 + w2 - r2, r1, r2, t1 - R, R)
    BY <2>0, <1>2, <2>3 DEF Lies
  <2>5. c1 * (c1 - r1) + c2 * (c2 - r2) <= 0 <=> t0 * (t0 - R) <= 0
    BY <2>0, <2>2, Along
  <2>6. (c1 + w1) * (c1 + w1 - r1) + (c2 + w2) * (c2 + w2 - r2) <= 0 <=> t1 * (t1 - R) <= 0
    BY <2>0, <2>4, Along
  <2>7. c1 * (c1 + w1) + c2 * (c2 + w2) <= 0 <=> t0 * t1 <= 0
    BY <2>0, <2>2, <2>4, Along
  <2>8. (c1 - r1) * (c1 + w1 - r1) + (c2 - r2) * (c2 + w2 - r2) <= 0 <=> (t0 - R) * (t1 - R) <= 0
    BY <2>0, <2>2, <2>4, Along
  <2>9. /\ t0 * (t0 - R) <= 0 <=> (t0 <= 0 /\ t0 - R >= 0) \/ (t0 >= 0 /\ t0 - R <= 0)
        /\ t1 * (t1 - R) <= 0 <=> (t1 <= 0 /\ t1 - R >= 0) \/ (t1 >= 0 /\ t1 - R <= 0)
        /\ t0 * t1 <= 0 <=> (t0 <= 0 /\ t1 >= 0) \/ (t0 >= 0 /\ t1 <= 0)
        /\ (t0 - R) * (t1 - R) <= 0 <=> (t0 - R <= 0 /\ t1 - R >= 0) \/ (t0 - R >= 0 /\ t1 - R <= 0)
    <3>1. t0 - R \in Int /\ t1 - R \in Int
      BY <1>2
    <3> QED  BY <1>2, <3>1, Opposite
  <2>10. (t0 >= 0 \/ t1 >= 0) /\ (t0 <= R \/ t1 <= R) <=>
            \/ t0 * (t0 - R) <= 0 \/ t1 * (t1 - R) <= 0 \/ t0 * t1 <= 0 \/ (t0 - R) * (t1 - R) <= 0
    BY <1>2, <2>9
  <2> QED  BY <1>5, <2>1, <2>5, <2>6, <2>7, <2>8, <2>10
<1>6. CASE m # 0
  <2>1. SUFFICES ASSUME n = 0
                 PROVE  /\ ~(c1 * (c1 + w1) + c2 * (c2 + w2) <= 0)
                        /\ ~((c1 - r1) * (c1 + w1 - r1) + (c2 - r2) * (c2 + w2 - r2) <= 0)
    BY <1>6
  <2>2. k = 0
    BY <1>2, <1>4, <1>6, <2>1
  <2>3. w1 = 0 /\ w2 = 0
    BY <1>0, <1>2, <1>3, <2>2
  <2>4. (c1 # 0 \/ c2 # 0) /\ (c1 - r1 # 0 \/ c2 - r2 # 0)
    BY <1>0, <1>6
  <2>5. c1 - r1 \in Int /\ c2 - r2 \in Int
    BY <1>0
  <2>6. c1 * c1 + c2 * c2 > 0 /\ (c1 - r1) * (c1 - r1) + (c2 - r2) * (c2 - r2) > 0
    BY <1>0, <2>4, <2>5, Squares
  <2> QED  BY <1>0, <2>3, <2>6
<1> QED  BY <1>5, <1>6

-----------------------------------------------------------------------------
Plane == Int \X Int

LEMMA ShareIs ==
    ASSUME NEW n \in Int, NEW d \in Int, d # 0 PROVE IsShare(n, d) <=> n * (n - d) <= 0
<1>1. n - d \in Int /\ (n * (n - d) <= 0 <=> (n <= 0 /\ n - d >= 0) \/ (n >= 0 /\ n - d <= 0))
  BY Opposite
<1>2. CASE d > 0
  BY <1>1, <1>2 DEF IsShare
<1>3. CASE d < 0
  BY <1>1, <1>3 DEF IsShare
<1> QED  BY <1>2, <1>3

LEMMA SignsDiffer ==
    ASSUME NEW x \in Int, NEW y \in Int PROVE Sign(-x) * Sign(y - x) = -1 <=> x * (x - y) < 0
<1>1. -x \in Int /\ y - x \in Int /\ x - y \in Int
  OBVIOUS
<1>2. CASE x > 0
  <2>1. Sign(-x) = -1 /\ (x * (x - y) < 0 <=> x - y < 0)
    BY <1>2 DEF Sign
  <2> QED  BY <1>1, <2>1 DEF Sign
<1>3. CASE x < 0
  <2>1. Sign(-x) = 1 /\ (x * (x - y) < 0 <=> x - y > 0)
    BY <1>3 DEF Sign
  <2> QED  BY <1>1, <2>1 DEF Sign
<1>4. CASE x = 0
  <2>1. Sign(-x) = 0 /\ x * (x - y) = 0 /\ Sign(y - x) \in Int
    BY <1>1, <1>4 DEF Sign
  <2> QED  BY <2>1
<1> QED  BY <1>2, <1>3, <1>4

LEMMA SignIs == ASSUME NEW x \in Int PROVE Sign(x) = 0 <=> x = 0
  BY DEF Sign

LEMMA SignsDifferToo ==
    ASSUME NEW x \in Int, NEW y \in Int PROVE Sign(x) * Sign(x - y) = -1 <=> x * (x - y) < 0
<1>1. x - y \in Int
  OBVIOUS
<1>2. CASE x > 0
  <2>1. Sign(x) = 1 /\ (x * (x - y) < 0 <=> x - y < 0)
    BY <1>2 DEF Sign
  <2> QED  BY <1>1, <2>1 DEF Sign
<1>3. CASE x < 0
  <2>1. Sign(x) = -1 /\ (x * (x - y) < 0 <=> x - y > 0)
    BY <1>3 DEF Sign
  <2> QED  BY <1>1, <2>1 DEF Sign
<1>4. CASE x = 0
  <2>1. Sign(x) = 0 /\ x * (x - y) = 0 /\ Sign(x - y) \in Int
    BY <1>1, <1>4 DEF Sign
  <2> QED  BY <2>1
<1> QED  BY <1>2, <1>3, <1>4

\* A path of some length crosses a wall exactly where it touches it.
LEMMA IntersectIsTouch ==
    ASSUME NEW s \in Plane, NEW t \in Plane, NEW a \in Plane, NEW b \in Plane, s # t
    PROVE  SegmentsIntersect(s, t, a, b) <=> Touch(s, t, a, b)
<1> DEFINE r1 == t[1] - s[1]
           r2 == t[2] - s[2]
           w1 == b[1] - a[1]
           w2 == b[2] - a[2]
           c1 == a[1] - s[1]
           c2 == a[2] - s[2]
           d == r1 * w2 - r2 * w1
           n == c1 * w2 - c2 * w1
           m == c1 * r2 - c2 * r1
           R == r1 * r1 + r2 * r2
           t0 == c1 * r1 + c2 * r2
           t1 == t0 + (w1 * r1 + w2 * r2)
           OnPath == c1 * (c1 - r1) + c2 * (c2 - r2) <= 0
           FarOnPath == (c1 + w1) * (c1 + w1 - r1) + (c2 + w2) * (c2 + w2 - r2) <= 0
           OnWall == c1 * (c1 + w1) + c2 * (c2 + w2) <= 0
           FarOnWall == (c1 - r1) * (c1 + w1 - r1) + (c2 - r2) * (c2 + w2 - r2) <= 0
<1>0. s[1] \in Int /\ s[2] \in Int /\ t[1] \in Int /\ t[2] \in Int
      /\ a[1] \in Int /\ a[2] \in Int /\ b[1] \in Int /\ b[2] \in Int
  BY DEF Plane
<1>1. /\ r1 \in Int /\ r2 \in Int /\ w1 \in Int /\ w2 \in Int /\ c1 \in Int /\ c2 \in Int
      /\ r1 # 0 \/ r2 # 0
  <2>1. s = <<s[1], s[2]>> /\ t = <<t[1], t[2]>>
    BY DEF Plane
  <2> QED  BY <1>0, <2>1
<1>2. SegmentsIntersect(s, t, a, b) <=>
         IF d = 0 THEN m = 0 /\ R # 0 /\ (t0 >= 0 \/ t1 >= 0) /\ (t0 <= R \/ t1 <= R)
         ELSE IsShare(n, d) /\ IsShare(m, d)
  BY DEF SegmentsIntersect, Minus, Cross, Square, Dot
<1>3. /\ Side(s, t, a) = Sign(-m) /\ Side(s, t, b) = Sign(d - m)
      /\ Side(a, b, s) = Sign(n) /\ Side(a, b, t) = Sign(n - d)
  <2>1. /\ Cross(Minus(t, s), Minus(a, s)) = -m /\ Cross(Minus(t, s), Minus(b, s)) = d - m
        /\ Cross(Minus(b, a), Minus(s, a)) = n /\ Cross(Minus(b, a), Minus(t, a)) = n - d
    BY <1>0 DEF Cross, Minus
  <2> HIDE DEF m, d, n
  <2> QED  BY <2>1 DEF Side
<1>4. /\ Dot(Minus(s, a), Minus(t, a)) <= 0 <=> OnPath
      /\ Dot(Minus(s, b), Minus(t, b)) <= 0 <=> FarOnPath
      /\ Dot(Minus(a, s), Minus(b, s)) <= 0 <=> OnWall
      /\ Dot(Minus(a, t), Minus(b, t)) <= 0 <=> FarOnWall
  BY <1>0 DEF Dot, Minus
<1>5. d \in Int /\ n \in Int /\ m \in Int /\ R \in Int /\ R > 0 /\ t0 \in Int /\ t1 \in Int
  <2>1. R > 0 /\ R \in Int
    BY <1>1, Squares
  <2> QED  BY <1>1, <2>1
<1>6. CASE d = 0
  <2>1. m = 0 /\ (t0 >= 0 \/ t1 >= 0) /\ (t0 <= R \/ t1 <= R) <=>
              (m = 0 /\ OnPath) \/ (m = 0 /\ FarOnPath) \/ (n = 0 /\ OnWall) \/ (n = 0 /\ FarOnWall)
    <3>1. Segments(r1, r2, w1, w2, c1, c2, d, n, m) /\ Extent(r1, r2, w1, w2, c1, c2, R, t0, t1)
      BY <1>1 DEF Segments, Extent
    <3> HIDE DEF r1, r2, w1, w2, c1, c2, d, n, m, R, t0, t1
    <3>2. ASSUME d = 0
          PROVE  m = 0 /\ (t0 >= 0 \/ t1 >= 0) /\ (t0 <= R \/ t1 <= R) <=>
              (m = 0 /\ OnPath) \/ (m = 0 /\ FarOnPath) \/ (n = 0 /\ OnWall) \/ (n = 0 /\ FarOnWall)
      BY <1>1, <3>1, <3>2, CollinearIsTouching
    <3> QED  BY <1>6, <3>2
  <2> HIDE DEF d, n, m, R, t0, t1, OnPath, FarOnPath, OnWall, FarOnWall
  <2>2. SegmentsIntersect(s, t, a, b) <=> m = 0 /\ (t0 >= 0 \/ t1 >= 0) /\ (t0 <= R \/ t1 <= R)
    BY <1>2, <1>5, <1>6
  <2>3. d - m = -m /\ n - d = n /\ (Sign(-m) = 0 <=> m = 0) /\ (Sign(n) = 0 <=> n = 0)
    BY <1>5, <1>6, SignIs
  <2>4. Sign(-m) * Sign(-m) # -1
    BY <1>5 DEF Sign
  <2>5. Touch(s, t, a, b) <=>
              (m = 0 /\ OnPath) \/ (m = 0 /\ FarOnPath) \/ (n = 0 /\ OnWall) \/ (n = 0 /\ FarOnWall)
    BY <1>3, <1>4, <2>3, <2>4 DEF Touch, IsOn
  <2> QED  BY <2>1, <2>2, <2>5
<1>7. CASE d # 0
  <2>1. n * (n - d) <= 0 /\ m * (m - d) <= 0 <=>
              (m = 0 /\ OnPath) \/ (m = d /\ FarOnPath) \/ (n = 0 /\ OnWall) \/ (n = d /\ FarOnWall)
              \/ (m * (m - d) < 0 /\ n * (n - d) < 0)
    <3>1. Segments(r1, r2, w1, w2, c1, c2, d, n, m)
      BY <1>1 DEF Segments
    <3> HIDE DEF r1, r2, w1, w2, c1, c2, d, n, m
    <3>2. ASSUME d # 0
          PROVE  n * (n - d) <= 0 /\ m * (m - d) <= 0 <=>
              (m = 0 /\ OnPath) \/ (m = d /\ FarOnPath) \/ (n = 0 /\ OnWall) \/ (n = d /\ FarOnWall)
              \/ (m * (m - d) < 0 /\ n * (n - d) < 0)
      BY <3>1, <3>2, CrossingIsTouching
    <3> QED  BY <1>7, <3>2
  <2> HIDE DEF d, n, m, R, t0, t1, OnPath, FarOnPath, OnWall, FarOnWall
  <2>2. SegmentsIntersect(s, t, a, b) <=> n * (n - d) <= 0 /\ m * (m - d) <= 0
    BY <1>2, <1>5, <1>7, ShareIs
  <2>3. /\ d - m \in Int /\ n - d \in Int /\ -m \in Int
        /\ (Sign(-m) = 0 <=> m = 0) /\ (Sign(n) = 0 <=> n = 0)
        /\ (Sign(d - m) = 0 <=> m = d) /\ (Sign(n - d) = 0 <=> n = d)
    BY <1>5, SignIs
  <2>4. /\ Sign(-m) * Sign(d - m) = -1 <=> m * (m - d) < 0
        /\ Sign(n) * Sign(n - d) = -1 <=> n * (n - d) < 0
    BY <1>5, SignsDiffer, SignsDifferToo
  <2>5. Touch(s, t, a, b) <=>
              (m = 0 /\ OnPath) \/ (m = d /\ FarOnPath) \/ (n = 0 /\ OnWall) \/ (n = d /\ FarOnWall)
              \/ (m * (m - d) < 0 /\ n * (n - d) < 0)
    BY <1>3, <1>4, <2>3, <2>4 DEF Touch, IsOn
  <2> QED  BY <2>1, <2>2, <2>5
<1> QED  BY <1>6, <1>7

-----------------------------------------------------------------------------
\* From the other end a path touches what it touches from this one.
LEMMA TouchFromEitherEnd ==
    ASSUME NEW s \in Plane, NEW t \in Plane, NEW a \in Plane, NEW b \in Plane
    PROVE  Touch(s, t, a, b) <=> Touch(t, s, a, b)
<1>1. s[1] \in Int /\ s[2] \in Int /\ t[1] \in Int /\ t[2] \in Int
      /\ a[1] \in Int /\ a[2] \in Int /\ b[1] \in Int /\ b[2] \in Int
  BY DEF Plane
<1>2. ASSUME NEW x \in Plane
      PROVE  Side(t, s, x) = -Side(s, t, x) /\ Side(s, t, x) \in {-1, 0, 1}
  <2>1. x[1] \in Int /\ x[2] \in Int
    BY DEF Plane
  <2>2. /\ Cross(Minus(s, t), Minus(x, t)) = -Cross(Minus(t, s), Minus(x, s))
        /\ Cross(Minus(t, s), Minus(x, s)) \in Int
    BY <1>1, <2>1 DEF Cross, Minus
  <2>3. \A y \in Int : Sign(-y) = -Sign(y) /\ Sign(y) \in {-1, 0, 1}
    BY DEF Sign
  <2> QED  BY <2>2, <2>3 DEF Side
<1>3. ASSUME NEW x \in Plane PROVE IsOn(x, s, t) <=> IsOn(x, t, s)
  <2>1. x[1] \in Int /\ x[2] \in Int
    BY DEF Plane
  <2>2. Dot(Minus(s, x), Minus(t, x)) = Dot(Minus(t, x), Minus(s, x))
    BY <1>1, <2>1 DEF Dot, Minus
  <2>3. Side(t, s, x) = 0 <=> Side(s, t, x) = 0
    BY <1>2
  <2> QED  BY <2>2, <2>3 DEF IsOn
<1>4. Side(t, s, a) * Side(t, s, b) = Side(s, t, a) * Side(s, t, b)
  BY <1>2
<1>5. Side(a, b, s) * Side(a, b, t) = Side(a, b, t) * Side(a, b, s)
  <2>1. Cross(Minus(b, a), Minus(s, a)) \in Int /\ Cross(Minus(b, a), Minus(t, a)) \in Int
    BY <1>1 DEF Cross, Minus
  <2>2. Side(a, b, s) \in Int /\ Side(a, b, t) \in Int
    BY <2>1 DEF Side, Sign
  <2> QED  BY <2>2
<1> QED  BY <1>3, <1>4, <1>5 DEF Touch

LEMMA IntersectFromEitherEnd ==
    ASSUME NEW s \in Plane, NEW t \in Plane, NEW a \in Plane, NEW b \in Plane
    PROVE  SegmentsIntersect(s, t, a, b) <=> SegmentsIntersect(t, s, a, b)
  BY TouchFromEitherEnd, IntersectIsTouch

LEMMA SlantFromEitherEnd ==
    ASSUME NEW s \in Plane, NEW t \in Plane, NEW a \in Plane, NEW b \in Plane
    PROVE  Slant(s, t, a, b) = Slant(t, s, a, b)
<1> DEFINE r == Minus(t, s)
           q == Minus(s, t)
           w == Minus(b, a)
<1>1. s[1] \in Int /\ s[2] \in Int /\ t[1] \in Int /\ t[2] \in Int
      /\ a[1] \in Int /\ a[2] \in Int /\ b[1] \in Int /\ b[2] \in Int
  BY DEF Plane
<1>2. Square(r) = Square(q) /\ Cross(r, w) * Cross(r, w) = Cross(q, w) * Cross(q, w)
  <2>1. Cross(q, w) = -Cross(r, w) /\ Cross(r, w) \in Int
    BY <1>1 DEF Cross, Minus
  <2>2. \A x, y \in Int : y = -x => x * x = y * y
    OBVIOUS
  <2>3. Square(r) = Square(q)
    BY <1>1 DEF Square, Minus
  <2> QED  BY <2>1, <2>2, <2>3
<1> HIDE DEF r, q, w
<1>3. Slant(s, t, a, b) = LET c == Cross(r, w) * Cross(r, w) IN
        IF Square(r) = 0 \/ Square(w) = 0 THEN <<1, 1>>
        ELSE IF 9 * c < Square(r) * Square(w) THEN <<9, 1>>
        ELSE <<Square(r) * Square(w), c>>
  BY DEF Slant, r, w
<1>4. Slant(t, s, a, b) = LET c == Cross(q, w) * Cross(q, w) IN
        IF Square(q) = 0 \/ Square(w) = 0 THEN <<1, 1>>
        ELSE IF 9 * c < Square(q) * Square(w) THEN <<9, 1>>
        ELSE <<Square(q) * Square(w), c>>
  BY DEF Slant, q, w
<1> QED  BY <1>2, <1>3, <1>4

\* The same place, both parts of the quotient turned round.
LEMMA PlaceFromEitherEnd ==
    ASSUME NEW s \in Plane, NEW t \in Plane, NEW a \in Plane, NEW b \in Plane, NEW o,
           o.at \in Plane, o.width \in Int
    PROVE  Within(CrossingPoint(s, t, a, b), o) <=> Within(CrossingPoint(t, s, a, b), o)
<1> DEFINE x == CrossingPoint(s, t, a, b)
           y == CrossingPoint(t, s, a, b)
           d == Cross(Minus(t, s), Minus(b, a))
           n == Cross(Minus(a, s), Minus(b, a))
           e == Cross(Minus(s, t), Minus(b, a))
           k == Cross(Minus(a, t), Minus(b, a))
<1>1. s[1] \in Int /\ s[2] \in Int /\ t[1] \in Int /\ t[2] \in Int
      /\ a[1] \in Int /\ a[2] \in Int /\ b[1] \in Int /\ b[2] \in Int
      /\ o.at[1] \in Int /\ o.at[2] \in Int
  BY DEF Plane
<1>2. d \in Int /\ n \in Int /\ e = -d /\ k = n - d /\ (d = 0 <=> e = 0)
  <2>1. d \in Int /\ n \in Int /\ e = -d /\ k = n - d
    BY <1>1 DEF Cross, Minus
  <2>2. \A u \in Int : u = 0 <=> -u = 0
    OBVIOUS
  <2> HIDE DEF d, e, n, k
  <2> QED  BY <2>1, <2>2
<1>3. CASE d = 0
  <2>1. e = 0
    BY <1>2, <1>3
  <2>2. x = [at |-> <<a[1] + b[1], a[2] + b[2]>>, over |-> 2]
    BY <1>3 DEF CrossingPoint
  <2>3. y = [at |-> <<a[1] + b[1], a[2] + b[2]>>, over |-> 2]
    BY <2>1 DEF CrossingPoint
  <2> QED  BY <2>2, <2>3
<1>4. CASE d # 0
  <2>1. e # 0
    BY <1>2, <1>4
  <2>2. x = [at |-> <<s[1] * d + n * (t[1] - s[1]), s[2] * d + n * (t[2] - s[2])>>, over |-> d]
    BY <1>4 DEF CrossingPoint, Minus
  <2>3. y = [at |-> <<t[1] * e + k * (s[1] - t[1]), t[2] * e + k * (s[2] - t[2])>>, over |-> e]
    BY <2>1 DEF CrossingPoint, Minus
  <2> HIDE DEF d, n, e, k
  <2>4. y.over = -x.over /\ y.at[1] = -x.at[1] /\ y.at[2] = -x.at[2]
    BY <1>1, <1>2, <2>2, <2>3
  <2>5. x.over \in Int /\ x.at[1] \in Int /\ x.at[2] \in Int
    BY <1>1, <1>2, <2>2
  <2> HIDE DEF x, y
  <2>6. /\ Square(Minus(y.at, <<o.at[1] * y.over, o.at[2] * y.over>>)) =
              Square(Minus(x.at, <<o.at[1] * x.over, o.at[2] * x.over>>))
        /\ o.width * o.width * y.over * y.over = o.width * o.width * x.over * x.over
    <3> DEFINE u == x.at[1] - o.at[1] * x.over
               v == x.at[2] - o.at[2] * x.over
    <3>1. /\ y.at[1] - o.at[1] * y.over = -u /\ y.at[2] - o.at[2] * y.over = -v
          /\ u \in Int /\ v \in Int
      BY <1>1, <2>4, <2>5
    <3>2. o.width * o.width * y.over * y.over = o.width * o.width * x.over * x.over
      BY <2>4, <2>5
    <3>3. /\ Square(Minus(x.at, <<o.at[1] * x.over, o.at[2] * x.over>>)) = u * u + v * v
          /\ Square(Minus(y.at, <<o.at[1] * y.over, o.at[2] * y.over>>)) = (-u) * (-u) + (-v) * (-v)
      BY <3>1 DEF Square, Minus
    <3> HIDE DEF u, v
    <3>4. (-u) * (-u) + (-v) * (-v) = u * u + v * v
      BY <3>1
    <3> QED  BY <3>2, <3>3, <3>4
  <2>7. Within(x, o) <=> Within(y, o)
    BY <2>6 DEF Within
  <2> QED  BY <2>7 DEF x, y
<1> QED  BY <1>3, <1>4

-----------------------------------------------------------------------------
Parts(w) == 1..(Len(w.points) - 1)

IsWall(w) ==
    /\ w.points \in Seq(Plane)
    /\ \A i \in DOMAIN w.openings : w.openings[i].at \in Plane /\ w.openings[i].width \in Int

LEMMA PlansAreWalls ==
    /\ Points \subseteq Plane
    /\ \A walls \in Plans : \A w \in walls : IsWall(w)
<1>1. Points \subseteq Plane
  BY GeometryAssumption DEF Plane
<1>2. ASSUME NEW f \in Seq(Points) PROVE f \in Seq(Plane)
  BY <1>1
<1> QED  BY <1>1, <1>2, GeometryAssumption DEF IsWall, Plane

LEMMA PartsAreSegments ==
    ASSUME NEW w, IsWall(w), NEW i \in Parts(w)
    PROVE  i \in Nat /\ w.points[i] \in Plane /\ w.points[i + 1] \in Plane
<1>1. w.points \in Seq(Plane) /\ Len(w.points) \in Nat
  BY DEF IsWall
<1>2. i \in 1..Len(w.points) /\ i + 1 \in 1..Len(w.points)
  BY <1>1 DEF Parts
<1> QED  BY <1>1, <1>2

Hit(w, s, t) == {i \in Parts(w) : SegmentsIntersect(s, t, w.points[i], w.points[i + 1])}

\* Of the parts of a wall that have a property, one is the first.
LEMMA LeastThere ==
    ASSUME NEW n \in Int, NEW S, S \subseteq 1..n, S # {}
    PROVE  \E i \in S : \A j \in S : i <= j
<1> DEFINE T == {y \in (-n)..(-1) : -y \in S}
<1>1. T \subseteq Int /\ IsFiniteSet(T)
  <2>1. IsFiniteSet((-n)..(-1))
    BY FS_Interval
  <2>2. T \subseteq (-n)..(-1) /\ T \subseteq Int
    OBVIOUS
  <2> HIDE DEF T
  <2> QED  BY <2>1, <2>2, FS_Subset
<1>2. \A j \in S : -j \in T
  OBVIOUS
<1>3. Max(T) \in T /\ \A x \in T : x <= Max(T)
  <2>1. T # {}
    BY <1>2
  <2> HIDE DEF T
  <2> QED  BY <1>1, <2>1, MaxIsGreatest
<1>4. PICK i \in S : Max(T) = -i
  <2>1. -Max(T) \in S /\ Max(T) = -(-Max(T))
    BY <1>3
  <2> QED  BY <2>1
<1>5. ASSUME NEW j \in S PROVE i <= j
  <2>1. -j <= -i
    BY <1>2, <1>3, <1>4
  <2> QED  BY <2>1
<1> QED  BY <1>5

LEMMA FirstHitIs ==
    ASSUME NEW w, IsWall(w), NEW s, NEW t
    PROVE  /\ FirstHit(w, s, t) = {i \in Hit(w, s, t) : \A j \in Hit(w, s, t) : i <= j}
           /\ Hit(w, s, t) # {} => FirstHit(w, s, t) # {}
           /\ \A i, j \in FirstHit(w, s, t) : i = j
<1>1. FirstHit(w, s, t) = {i \in Hit(w, s, t) : \A j \in Hit(w, s, t) : i <= j}
  BY DEF FirstHit, Hit, Parts
<1>2. Len(w.points) - 1 \in Int /\ Hit(w, s, t) \subseteq 1..(Len(w.points) - 1)
  BY DEF Hit, Parts, IsWall
<1>3. ASSUME Hit(w, s, t) # {} PROVE \E i \in Hit(w, s, t) : \A j \in Hit(w, s, t) : i <= j
  BY <1>2, <1>3, LeastThere
<1>4. ASSUME NEW i \in Hit(w, s, t), NEW j \in Hit(w, s, t), i <= j, j <= i PROVE i = j
  BY <1>2, <1>4
<1> QED  BY <1>1, <1>3, <1>4

LEMMA HitFromEitherEnd ==
    ASSUME NEW w, IsWall(w), NEW s \in Plane, NEW t \in Plane
    PROVE  Hit(w, s, t) = Hit(w, t, s) /\ FirstHit(w, s, t) = FirstHit(w, t, s)
<1>1. \A i \in Parts(w) : SegmentsIntersect(s, t, w.points[i], w.points[i + 1])
                             <=> SegmentsIntersect(t, s, w.points[i], w.points[i + 1])
  BY PartsAreSegments, IntersectFromEitherEnd
<1>2. Hit(w, s, t) = Hit(w, t, s)
  BY <1>1 DEF Hit
<1> QED  BY <1>2, FirstHitIs

LEMMA OpeningFromEitherEnd ==
    ASSUME NEW w, IsWall(w), NEW s \in Plane, NEW t \in Plane, NEW a \in Plane, NEW b \in Plane
    PROVE  OpeningAt(w, CrossingPoint(s, t, a, b)) = OpeningAt(w, CrossingPoint(t, s, a, b))
<1> DEFINE In(x) == {i \in DOMAIN w.openings : w.openings[i].kind \in OpeningKinds /\ Within(x, w.openings[i])}
<1>1. In(CrossingPoint(s, t, a, b)) = In(CrossingPoint(t, s, a, b))
  BY PlaceFromEitherEnd DEF IsWall
<1> HIDE DEF In
<1>2. ASSUME NEW x
      PROVE  OpeningAt(w, x) = IF In(x) = {} THEN "none"
                               ELSE w.openings[CHOOSE i \in In(x) : \A j \in In(x) : i <= j].kind
  BY DEF OpeningAt, In
<1> QED  BY <1>1, <1>2

\* What one wall on the way costs.
Cost(w, i, s, t) ==
    [wall |-> w, slant |-> Slant(s, t, w.points[i], w.points[i + 1]),
     opening |-> OpeningAt(w, CrossingPoint(s, t, w.points[i], w.points[i + 1]))]

LEMMA CrossingsAre ==
    ASSUME NEW s, NEW t, NEW walls, NEW c
    PROVE  c \in Crossings(s, t, walls) <=>
              \E w \in walls : \E i \in FirstHit(w, s, t) : c = Cost(w, i, s, t)
<1>1. Crossings(s, t, walls) = UNION {{Cost(w, i, s, t) : i \in FirstHit(w, s, t)} : w \in walls}
  BY DEF Crossings, Cost
<1> QED  BY <1>1

LEMMA CrossingsFromEitherEnd ==
    ASSUME NEW s \in Plane, NEW t \in Plane, NEW walls, \A w \in walls : IsWall(w)
    PROVE  Crossings(s, t, walls) = Crossings(t, s, walls)
<1>1. ASSUME NEW w \in walls
      PROVE  /\ FirstHit(w, s, t) = FirstHit(w, t, s)
             /\ \A i \in FirstHit(w, s, t) : Cost(w, i, s, t) = Cost(w, i, t, s)
  <2>1. FirstHit(w, s, t) = FirstHit(w, t, s)
    BY HitFromEitherEnd
  <2>2. ASSUME NEW i \in FirstHit(w, s, t) PROVE Cost(w, i, s, t) = Cost(w, i, t, s)
    <3>1. i \in Parts(w)
      BY FirstHitIs DEF Hit
    <3>2. w.points[i] \in Plane /\ w.points[i + 1] \in Plane
      BY <3>1, PartsAreSegments
    <3> QED  BY <3>2, SlantFromEitherEnd, OpeningFromEitherEnd DEF Cost
  <2> QED  BY <2>1, <2>2
<1>2. ASSUME NEW c PROVE c \in Crossings(s, t, walls) <=> c \in Crossings(t, s, walls)
  BY <1>1, CrossingsAre
<1> QED  BY <1>2

\* A wall is crossed once, if the path and the wall have a point in common.
LEMMA WallsCrossed ==
    ASSUME NEW s \in Plane, NEW t \in Plane, s # t, NEW walls, \A w \in walls : IsWall(w)
    PROVE  /\ {c.wall : c \in Crossings(s, t, walls)} =
                 {w \in walls : \E i \in 1..(Len(w.points) - 1) :
                                    Touch(s, t, w.points[i], w.points[i + 1])}
           /\ \A c, d \in Crossings(s, t, walls) : c.wall = d.wall => c = d
<1>1. ASSUME NEW w \in walls
      PROVE  FirstHit(w, s, t) # {} <=>
                \E i \in 1..(Len(w.points) - 1) : Touch(s, t, w.points[i], w.points[i + 1])
  <2>1. \A i \in Parts(w) : SegmentsIntersect(s, t, w.points[i], w.points[i + 1])
                               <=> Touch(s, t, w.points[i], w.points[i + 1])
    BY PartsAreSegments, IntersectIsTouch
  <2>2. Hit(w, s, t) # {} <=> \E i \in Parts(w) : Touch(s, t, w.points[i], w.points[i + 1])
    BY <2>1 DEF Hit
  <2>3. FirstHit(w, s, t) # {} <=> Hit(w, s, t) # {}
    BY FirstHitIs
  <2> QED  BY <2>2, <2>3 DEF Parts
<1>2. \A w, i : Cost(w, i, s, t).wall = w
  BY DEF Cost
<1>3. ASSUME NEW w PROVE w \in {c.wall : c \in Crossings(s, t, walls)} <=> w \in walls /\ FirstHit(w, s, t) # {}
  <2>1. ASSUME w \in walls, NEW i \in FirstHit(w, s, t) PROVE w \in {c.wall : c \in Crossings(s, t, walls)}
    <3>1. Cost(w, i, s, t) \in Crossings(s, t, walls)
      BY <2>1, CrossingsAre
    <3> QED  BY <3>1, <1>2
  <2>2. ASSUME NEW c \in Crossings(s, t, walls), w = c.wall PROVE w \in walls /\ FirstHit(w, s, t) # {}
    BY <1>2, <2>2, CrossingsAre
  <2> QED  BY <2>1, <2>2
<1>4. \A c, d \in Crossings(s, t, walls) : c.wall = d.wall => c = d
  <2>1. SUFFICES ASSUME NEW c \in Crossings(s, t, walls), NEW d \in Crossings(s, t, walls), c.wall = d.wall
                 PROVE  c = d
    OBVIOUS
  <2>2. PICK w \in walls : \E i \in FirstHit(w, s, t) : c = Cost(w, i, s, t)
    BY CrossingsAre
  <2>3. PICK v \in walls : \E j \in FirstHit(v, s, t) : d = Cost(v, j, s, t)
    BY CrossingsAre
  <2>4. PICK i \in FirstHit(w, s, t) : c = Cost(w, i, s, t)
    BY <2>2
  <2>5. PICK j \in FirstHit(v, s, t) : d = Cost(v, j, s, t)
    BY <2>3
  <2>6. v = w
    BY <1>2, <2>1, <2>4, <2>5
  <2>7. i = j
    BY <2>6, FirstHitIs
  <2> QED  BY <2>4, <2>5, <2>6, <2>7
<1> QED  BY <1>1, <1>3, <1>4

-----------------------------------------------------------------------------
\* A quotient between 1 and 9, of positive numbers.
Bounded(slant) == slant[2] > 0 /\ slant[2] <= slant[1] /\ slant[1] <= 9 * slant[2]

LEMMA SlantBounded ==
    ASSUME NEW s \in Plane, NEW t \in Plane, NEW a \in Plane, NEW b \in Plane
    PROVE  Bounded(Slant(s, t, a, b))
<1> DEFINE r1 == t[1] - s[1]
           r2 == t[2] - s[2]
           w1 == b[1] - a[1]
           w2 == b[2] - a[2]
           R == r1 * r1 + r2 * r2
           W == w1 * w1 + w2 * w2
           c == (r1 * w2 - r2 * w1) * (r1 * w2 - r2 * w1)
           D == (r1 * w1 + r2 * w2) * (r1 * w1 + r2 * w2)
<1>1. r1 \in Int /\ r2 \in Int /\ w1 \in Int /\ w2 \in Int
  BY DEF Plane
<1>2. Slant(s, t, a, b) = IF R = 0 \/ W = 0 THEN <<1, 1>>
                          ELSE IF 9 * c < R * W THEN <<9, 1>> ELSE <<R * W, c>>
  BY DEF Slant, Minus, Cross, Square
<1> HIDE DEF r1, r2, w1, w2
<1>3. R \in Int /\ W \in Int /\ R >= 0 /\ W >= 0
  BY <1>1, Squares
<1>4. c \in Int /\ D \in Int /\ D >= 0 /\ c >= 0
  <2>1. \A x \in Int : x * x \in Int /\ x * x >= 0
    BY Squares
  <2>2. r1 * w2 - r2 * w1 \in Int /\ r1 * w1 + r2 * w2 \in Int
    BY <1>1
  <2> QED  BY <2>1, <2>2
<1>5. R * W = c + D
  BY <1>1
<1> HIDE DEF R, W, c, D
<1>6. CASE R = 0 \/ W = 0
  BY <1>2, <1>6 DEF Bounded
<1>7. CASE R # 0 /\ W # 0 /\ 9 * c < R * W
  BY <1>2, <1>7 DEF Bounded
<1>8. CASE R # 0 /\ W # 0 /\ ~(9 * c < R * W)
  <2>1. R * W > 0 /\ R * W \in Int
    BY <1>3, <1>8
  <2>2. c > 0 /\ c <= R * W /\ R * W <= 9 * c
    BY <1>4, <1>5, <1>8, <2>1
  <2> QED  BY <1>2, <1>8, <2>2 DEF Bounded
<1> QED  BY <1>6, <1>7, <1>8

LEMMA SlabsAre ==
    ASSUME NEW s \in Plane, NEW t \in Plane, NEW from, NEW to, from.level \in Int, to.level \in Int
    PROVE  Slabs(s, t, from, to) = Slabs(t, s, to, from) /\ Bounded(Slabs(s, t, from, to).slant)
<1> DEFINE dz == (to.level - from.level) * FloorHeight
           ez == (from.level - to.level) * FloorHeight
           Z == dz * dz
           G == Square(Minus(t, s))
           dd == G + Z
<1>1. FloorHeight \in Int /\ dz \in Int /\ ez = -dz
  BY GeometryAssumption
<1>2. G = Square(Minus(s, t)) /\ G \in Int /\ G >= 0
  <2>1. s[1] \in Int /\ s[2] \in Int /\ t[1] \in Int /\ t[2] \in Int
    BY DEF Plane
  <2>2. G = Square(Minus(s, t))
    BY <2>1 DEF Square, Minus
  <2>3. t[1] - s[1] \in Int /\ t[2] - s[2] \in Int
    BY <2>1
  <2>4. G = (t[1] - s[1]) * (t[1] - s[1]) + (t[2] - s[2]) * (t[2] - s[2])
    BY DEF Square, Minus
  <2> QED  BY <2>2, <2>3, <2>4, Squares
<1>3. Z \in Int /\ Z >= 0 /\ ez * ez = Z
  <2> HIDE DEF dz, ez
  <2> QED  BY <1>1, Squares
<1>4. Abs(to.level - from.level) = Abs(from.level - to.level)
  BY DEF Abs
<1> DEFINE slant == IF dd = 0 THEN <<1, 1>> ELSE IF 9 * Z < dd THEN <<9, 1>> ELSE <<dd, Z>>
<1>5. 9 * dz * dz = 9 * Z /\ 9 * ez * ez = 9 * Z
  <2> HIDE DEF dz, ez
  <2>1. \A x \in Int : 9 * x * x = 9 * (x * x)
    OBVIOUS
  <2>2. ez \in Int
    BY <1>1
  <2> QED  BY <1>1, <1>3, <2>1, <2>2
<1>6. Slabs(s, t, from, to) = [slabs |-> Abs(to.level - from.level), slant |-> slant]
  <2>1. Slabs(s, t, from, to) =
          [slabs |-> Abs(to.level - from.level),
           slant |-> IF dd = 0 THEN <<1, 1>> ELSE IF 9 * dz * dz < dd THEN <<9, 1>> ELSE <<dd, Z>>]
    BY DEF Slabs
  <2> HIDE DEF dz, Z, dd
  <2> QED  BY <1>5, <2>1
<1>7. Slabs(t, s, to, from) = [slabs |-> Abs(to.level - from.level), slant |-> slant]
  <2>1. Slabs(t, s, to, from) =
          [slabs |-> Abs(from.level - to.level),
           slant |-> IF Square(Minus(s, t)) + ez * ez = 0 THEN <<1, 1>>
                     ELSE IF 9 * ez * ez < Square(Minus(s, t)) + ez * ez THEN <<9, 1>>
                     ELSE <<Square(Minus(s, t)) + ez * ez, ez * ez>>]
    BY DEF Slabs
  <2>2. Square(Minus(s, t)) + ez * ez = dd
    BY <1>2, <1>3
  <2> HIDE DEF dz, ez, Z, dd
  <2> QED  BY <1>3, <1>4, <1>5, <2>1, <2>2
<1>8. Bounded(slant)
  <2> HIDE DEF G, Z
  <2> QED  BY <1>2, <1>3 DEF Bounded
<1> QED  BY <1>6, <1>7, <1>8

-----------------------------------------------------------------------------
\* The state of a question, and what it was told.
PathInv ==
    /\ near \in Points /\ far \in Points
    /\ levels \in FloorPairs /\ plan \in Plans
    /\ price \in {Unknown, PriceOf(near, far, levels[1], levels[2], plan)}

LEMMA PricedForTouched == PathInv => WallsAreThoseTouched
<1> SUFFICES ASSUME PathInv, price.known, price.sameFloor, near # far
             PROVE  /\ {c.wall : c \in price.walls} =
                          {w \in plan : \E i \in 1..(Len(w.points) - 1) :
                                            Touch(near, far, w.points[i], w.points[i + 1])}
                    /\ \A c, d \in price.walls : c.wall = d.wall => c = d
  BY DEF WallsAreThoseTouched
<1>1. near \in Plane /\ far \in Plane /\ \A w \in plan : IsWall(w)
  BY PlansAreWalls DEF PathInv
<1>2. price = PriceOf(near, far, levels[1], levels[2], plan)
  BY DEF PathInv, Unknown
<1>3. price.walls = Crossings(near, far, plan)
  <2>1. CASE levels[1].floor = levels[2].floor
    BY <1>2, <2>1 DEF PriceOf, Unknown
  <2>2. CASE levels[1].floor # levels[2].floor
    BY <1>2, <2>2 DEF PriceOf, Unknown
  <2> QED  BY <2>1, <2>2
<1> QED  BY <1>1, <1>3, WallsCrossed

LEMMA PriceFromEitherEnd == PathInv => DirectionDoesNotMatter
<1> SUFFICES ASSUME PathInv
             PROVE  PriceOf(near, far, levels[1], levels[2], plan) = PriceOf(far, near, levels[2], levels[1], plan)
  BY DEF DirectionDoesNotMatter, PathInv
<1>1. near \in Plane /\ far \in Plane /\ \A w \in plan : IsWall(w)
  BY PlansAreWalls DEF PathInv
<1>2. Crossings(near, far, plan) = Crossings(far, near, plan)
  BY <1>1, CrossingsFromEitherEnd
<1>3. levels[1].level \in Int \cup {NoLevel} /\ levels[2].level \in Int \cup {NoLevel}
  BY GeometryAssumption DEF PathInv
<1>4. ASSUME levels[1].level # NoLevel, levels[2].level # NoLevel
      PROVE  Slabs(near, far, levels[1], levels[2]) = Slabs(far, near, levels[2], levels[1])
  BY <1>1, <1>3, <1>4, SlabsAre
<1>5. CASE levels[1].floor = levels[2].floor
  BY <1>2, <1>5 DEF PriceOf
<1>6. CASE levels[1].floor # levels[2].floor /\ levels[1].level # NoLevel /\ levels[2].level # NoLevel
  BY <1>4, <1>6 DEF PriceOf
<1>7. CASE levels[1].floor # levels[2].floor /\ ~(levels[1].level # NoLevel /\ levels[2].level # NoLevel)
  BY <1>7 DEF PriceOf
<1> QED  BY <1>5, <1>6, <1>7

LEMMA PriceIsBounded == PathInv => SlantIsBounded
<1> SUFFICES ASSUME PathInv
             PROVE  /\ \A c \in price.walls : Bounded(c.slant)
                    /\ Bounded(price.slant)
  BY DEF SlantIsBounded, Bounded
<1>1. near \in Plane /\ far \in Plane /\ \A w \in plan : IsWall(w)
  BY PlansAreWalls DEF PathInv
<1>2. Bounded(<<1, 1>>)
  BY DEF Bounded
<1>3. CASE price = Unknown
  BY <1>2, <1>3 DEF Unknown
<1>4. CASE price = PriceOf(near, far, levels[1], levels[2], plan)
  <2>1. levels[1].level \in Int \cup {NoLevel} /\ levels[2].level \in Int \cup {NoLevel}
    BY GeometryAssumption DEF PathInv
  <2>2. CASE levels[1].floor = levels[2].floor
    <3>1. price.slant = <<1, 1>> /\ price.walls = Crossings(near, far, plan)
      BY <1>4, <2>2 DEF PriceOf, Unknown
    <3>2. ASSUME NEW c \in price.walls PROVE Bounded(c.slant)
      <4>1. PICK w \in plan : \E i \in FirstHit(w, near, far) : c = Cost(w, i, near, far)
        BY <3>1, CrossingsAre
      <4>2. PICK i \in FirstHit(w, near, far) : c = Cost(w, i, near, far)
        BY <4>1
      <4>3. IsWall(w) /\ i \in Parts(w)
        BY <1>1, FirstHitIs DEF Hit
      <4>4. w.points[i] \in Plane /\ w.points[i + 1] \in Plane
        BY <4>3, PartsAreSegments
      <4>5. c.slant = Slant(near, far, w.points[i], w.points[i + 1])
        BY <4>2 DEF Cost
      <4> QED  BY <1>1, <4>4, <4>5, SlantBounded
    <3> QED  BY <1>2, <3>1, <3>2
  <2>3. CASE levels[1].floor # levels[2].floor /\ levels[1].level # NoLevel /\ levels[2].level # NoLevel
    <3>1. price.slant = Slabs(near, far, levels[1], levels[2]).slant /\ price.walls = {}
      BY <1>4, <2>3 DEF PriceOf, Unknown
    <3> QED  BY <1>1, <2>1, <2>3, <3>1, SlabsAre
  <2>4. CASE levels[1].floor # levels[2].floor /\ ~(levels[1].level # NoLevel /\ levels[2].level # NoLevel)
    BY <1>2, <1>4, <2>4 DEF PriceOf, Unknown
  <2> QED  BY <2>2, <2>3, <2>4
<1> QED  BY <1>3, <1>4 DEF PathInv

\* Whatever the coordinates of the pins, the walls, the doors and the floors,
\* a link is priced for the walls it meets, once each and the same from both
\* ends, and within bounds (mesh_geometry.py, mesh_link_walls).
THEOREM PathsAreAlwaysPriced == PathSpec => []PathsArePriced
<1>1. PathInit => PathInv
  BY DEF PathInit, PathInv
<1>2. PathInv /\ [Price]_pathVars => PathInv'
  <2>1. ASSUME PathInv, Price PROVE PathInv'
    <3>1. near' = near /\ far' = far /\ levels' = levels /\ plan' = plan
          /\ price' = PriceOf(near, far, levels[1], levels[2], plan)
      BY <2>1 DEF Price
    <3> QED  BY <2>1, <3>1 DEF PathInv
  <2>2. ASSUME PathInv, UNCHANGED pathVars PROVE PathInv'
    BY <2>2 DEF PathInv, pathVars
  <2> QED  BY <2>1, <2>2
<1>3. PathInv => PathsArePriced
  BY PricedForTouched, PriceFromEitherEnd, PriceIsBounded DEF PathsArePriced
<1> QED  BY <1>1, <1>2, <1>3, PTL DEF PathSpec
=============================================================================
