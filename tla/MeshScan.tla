------------------------------ MODULE MeshScan ------------------------------
(***************************************************************************)
(* The Zigbee mesh scan: ask Zigbee2MQTT for its network map over MQTT,    *)
(* wait for an answer with a timeout, write one snapshot with its links in *)
(* batches, prune snapshots past their retention, and, if the option says  *)
(* so, thin out the history: delete the sibling links of every snapshot    *)
(* but the new one, in batches of a limited number.                        *)
(*                                                                         *)
(* A scan holds the coordinator's lock, so there is one at a time, and no  *)
(* other operation runs beside it.  Zigbee2MQTT answers when it likes, or  *)
(* never; an answer goes to whoever listens when it arrives.  Any graph    *)
(* call may fail for good, with its work done or not, and the process may  *)
(* stop.  A tick of the clock is the resolution of a snapshot's name.      *)
(* The edges from a link to the two devices it joins are left out.         *)
(***************************************************************************)
EXTENDS Integers, FiniteSets

CONSTANTS Links,        \* links a network map may hold
          Siblings,     \* those that are not part of the routing tree
          BatchSize,    \* _WRITE_BATCH_SIZE
          MaxBatches,   \* _MAX_PRUNE_BATCHES
          Retention,    \* mesh_snapshot_retention_days, in ticks
          MaxClock,     \* bound: ticks
          MaxScans,     \* bound: scans
          MaxFailures   \* bound: failures

ASSUME MeshAssumption ==
    /\ IsFiniteSet(Links) /\ "incomplete" \notin Links /\ Siblings \subseteq Links
    /\ BatchSize \in Nat \ {0} /\ MaxBatches \in Nat \ {0} /\ Retention \in Nat \ {0}
    /\ MaxClock \in Nat \ {0} /\ MaxScans \in Nat /\ MaxFailures \in Nat

Times == 1..MaxClock

VARIABLES
    clock,
    asked,       \* requests Zigbee2MQTT has not answered yet
    answers,     \* answers on their way: the links each of them holds
    snapshots,   \* MeshSnapshot nodes, each named after the tick it was taken at
    links,       \* the links each of them has
    phase,       \* what the scan at hand waits for, or "idle"
    stamp,       \* the tick it took its answer at
    todo,        \* links it has yet to write
    batches,     \* batches it has pruned
    carried,     \* history: per complete snapshot, the links its answer held
    thin,        \* history: the history was thinned out, and no scan wrote since
    scans,       \* scans so far
    failures     \* failures so far

graphVars == <<snapshots, links>>
scanVars  == <<phase, stamp, todo, batches>>
mqttVars  == <<asked, answers>>
history   == <<carried, thin>>
vars == <<clock, mqttVars, graphVars, scanVars, history, scans, failures>>

\* No map is complete with the value.
Incomplete == {"incomplete"}

Init ==
    /\ clock = 1
    /\ asked = 0
    /\ answers = {}
    /\ snapshots = {}
    /\ links = [s \in Times |-> {}]
    /\ phase = "idle"
    /\ stamp = 1
    /\ todo = {}
    /\ batches = 0
    /\ carried = [s \in Times |-> Incomplete]
    /\ thin = FALSE
    /\ scans = 0
    /\ failures = 0

-----------------------------------------------------------------------------
(* Zigbee2MQTT and time *)

\* Writing a snapshot takes less than its retention.
Tick ==
    /\ clock < MaxClock
    /\ phase \in {"idle", "waiting"} \/ clock - stamp < Retention
    /\ clock' = clock + 1
    /\ UNCHANGED <<mqttVars, graphVars, scanVars, history, scans, failures>>

\* The map as it is now; none, if Zigbee2MQTT reports an error.
Answer(S) ==
    /\ asked > 0
    /\ asked' = asked - 1
    /\ answers' = answers \cup {S}
    /\ UNCHANGED <<clock, graphVars, scanVars, history, scans, failures>>

\* An answer that nobody waits for, or that is lost.
Lose(S) ==
    /\ S \in answers
    /\ answers' = answers \ {S}
    /\ UNCHANGED <<clock, asked, graphVars, scanVars, history, scans, failures>>

-----------------------------------------------------------------------------
(* A scan *)

\* Subscribe, then publish the request.
Begin ==
    /\ phase = "idle"
    /\ scans < MaxScans
    /\ scans' = scans + 1
    /\ asked' = asked + 1
    /\ phase' = "waiting"
    /\ UNCHANGED <<clock, answers, graphVars, stamp, todo, batches, history, failures>>

EndScan ==
    /\ phase' = "idle"
    /\ todo' = {}
    /\ batches' = 0
    /\ stamp' = stamp

\* Seeded fault: the future is awaited without a timeout.
WaitForever == FALSE /\ UNCHANGED vars

\* The timeout, or an answer that is no JSON: no snapshot, and no error.
Timeout ==
    /\ phase = "waiting"
    /\ EndScan
    /\ UNCHANGED <<clock, mqttVars, graphVars, history, scans, failures>>

\* The first message on the topic is the answer, whatever request it is for.
Receive(S) ==
    /\ phase = "waiting"
    /\ S \in answers
    /\ answers' = answers \ {S}
    /\ phase' = "node"
    /\ stamp' = clock
    /\ todo' = S
    /\ UNCHANGED <<clock, asked, graphVars, batches, history, scans, failures>>

WriteNode ==
    /\ snapshots' = snapshots \cup {stamp}
    /\ links' = links

BatchesOf(S) ==
    IF Cardinality(S) <= BatchSize THEN {S} ELSE {B \in SUBSET S : Cardinality(B) = BatchSize}

WriteBatch(B) ==
    /\ links' = [links EXCEPT ![stamp] = @ \cup B]
    /\ snapshots' = snapshots

Expired == {s \in snapshots : s < clock - Retention}

\* Seeded fault: the links of an expired snapshot stay.
ExpireNodes == snapshots' = snapshots \ Expired /\ links' = links

Expire ==
    /\ snapshots' = snapshots \ Expired
    /\ links' = [s \in Times |-> IF s \in Expired THEN {} ELSE links[s]]

\* Seeded fault: the new snapshot is not left out.
SurplusAll == {x \in snapshots \X Siblings : x[2] \in links[x[1]]}

\* The sibling links of the older snapshots.
Surplus == {x \in (snapshots \ {stamp}) \X Siblings : x[2] \in links[x[1]]}

Thinned(B) ==
    /\ links' = [s \in Times |-> {l \in links[s] : <<s, l>> \notin B}]
    /\ snapshots' = snapshots

\* What a call leaves when it fails for good: nothing, or its work.
Leaves(Effect) == Effect \/ UNCHANGED graphVars

Fails ==
    /\ failures < MaxFailures
    /\ failures' = failures + 1
    /\ EndScan

\* A snapshot that has expired is no longer asked after.
Forget == carried' = [s \in Times |-> IF s \in snapshots' THEN carried[s] ELSE Incomplete]

Goto(p) ==
    /\ phase' = p
    /\ UNCHANGED <<stamp, todo, failures>>

WriteSnapshot ==
    /\ phase = "node"
    /\ \/ WriteNode /\ Goto("links")
       \/ Leaves(WriteNode) /\ Fails
    /\ thin' = FALSE
    /\ UNCHANGED <<clock, mqttVars, batches, carried, scans>>

WriteLinks ==
    /\ phase = "links"
    /\ \E B \in BatchesOf(todo) :
          \/ /\ WriteBatch(B)
             /\ todo' = todo \ B
             /\ phase' = IF B = todo THEN "expire" ELSE "links"
             /\ carried' = IF B = todo THEN [carried EXCEPT ![stamp] = links'[stamp]] ELSE carried
             /\ UNCHANGED <<stamp, failures>>
          \/ Leaves(WriteBatch(B)) /\ Fails /\ UNCHANGED carried
    /\ UNCHANGED <<clock, mqttVars, batches, thin, scans>>

\* _async_prune_old_snapshots; the option decides whether the history is
\* thinned out next.
PruneSnapshots ==
    /\ phase = "expire"
    /\ \/ Expire /\ Goto("thin") /\ batches' = 0
       \/ Expire /\ EndScan /\ UNCHANGED failures
       \/ Leaves(Expire) /\ Fails
    /\ Forget
    /\ UNCHANGED <<clock, mqttVars, thin, scans>>

\* Seeded fault: a full batch is taken for the last one.
NothingLeftOne(B) == Cardinality(B) <= BatchSize

\* A batch that is not full was the last one.
NothingLeft(B) == Cardinality(B) < BatchSize

\* One round of _async_prune_history_siblings.
PruneLinks ==
    /\ phase = "thin"
    /\ \E B \in BatchesOf(Surplus) :
          \/ /\ Thinned(B)
             /\ batches + 1 < MaxBatches /\ ~ NothingLeft(B)
             /\ Goto("thin")
             /\ batches' = batches + 1
             /\ thin' = thin
          \/ /\ Thinned(B)
             /\ batches + 1 = MaxBatches \/ NothingLeft(B)
             /\ EndScan
             /\ thin' = NothingLeft(B)
             /\ failures' = failures
          \/ Leaves(Thinned(B)) /\ Fails /\ thin' = thin
    /\ UNCHANGED <<clock, mqttVars, carried, scans>>

\* The answer to a batch is lost: it is sent again, and finds other links.
Resend ==
    /\ phase = "thin"
    /\ failures < MaxFailures
    /\ failures' = failures + 1
    /\ \E B \in BatchesOf(Surplus) : Thinned(B)
    /\ UNCHANGED <<clock, mqttVars, scanVars, history, scans>>

\* The request cannot be published, or the process stops while it waits.
WaitFails ==
    /\ phase = "waiting"
    /\ Fails
    /\ UNCHANGED <<clock, mqttVars, graphVars, history, scans>>

-----------------------------------------------------------------------------
\* A rebuild clears every node of source "home_assistant", and so the history.
Rebuild ==
    /\ phase = "idle"
    /\ snapshots' = {}
    /\ links' = [s \in Times |-> {}]
    /\ carried' = [s \in Times |-> Incomplete]
    /\ UNCHANGED <<clock, mqttVars, scanVars, thin, scans, failures>>

ScanStep ==
    \/ Timeout
    \/ WriteSnapshot
    \/ WriteLinks
    \/ PruneSnapshots
    \/ PruneLinks

Next ==
    \/ Tick
    \/ \E S \in SUBSET Links : Answer(S) \/ Lose(S) \/ Receive(S)
    \/ Begin
    \/ WaitFails
    \/ Resend
    \/ ScanStep
    \/ Rebuild

\* Timers fire and every graph call ends; Zigbee2MQTT owes nothing.
Spec == Init /\ [][Next]_vars

FairSpec == Spec /\ WF_vars(ScanStep)

-----------------------------------------------------------------------------
(* Properties *)

TypeOK ==
    /\ clock \in Times
    /\ asked \in 0..MaxScans
    /\ answers \subseteq SUBSET Links
    /\ snapshots \subseteq Times
    /\ links \in [Times -> SUBSET Links]
    /\ \A s \in Times \ snapshots : links[s] = {}
    /\ phase \in {"idle", "waiting", "node", "links", "expire", "thin"}
    /\ stamp \in Times
    /\ todo \subseteq Links
    /\ batches \in 0..(MaxBatches - 1)
    /\ carried \in [Times -> (SUBSET Links) \cup {Incomplete}]
    /\ thin \in BOOLEAN
    /\ scans \in 0..MaxScans
    /\ failures \in 0..MaxFailures

Complete == {s \in Times : carried[s] # Incomplete}

\* strings.json, mesh_history_keep_siblings: "the newest snapshot always keeps
\* everything".  The last snapshot a scan wrote completely has all the links of
\* its answer until another one has been written completely, however many
\* scans fail in between and wherever.
LastScanIsWhole ==
    \A s \in Complete :
        (\A t \in Complete : t <= s) => s \in snapshots /\ carried[s] \subseteq links[s]

\* The loop of _async_prune_history_siblings ends too early only at its limit:
\* after it ended by itself, no older snapshot holds a sibling link, until the
\* next scan has its answer.
HistoryIsThin == thin /\ phase \in {"idle", "waiting"} =>
    \A s \in snapshots \ {stamp} : links[s] \cap Siblings = {}

\* A scan that waits for an answer holds the lock every other operation waits
\* for: it ends, whether or not Zigbee2MQTT ever answers.
EveryScanEnds == phase # "idle" ~> phase = "idle"
=============================================================================
