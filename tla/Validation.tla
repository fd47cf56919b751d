----------------------------- MODULE Validation -----------------------------
(***************************************************************************)
(* The validation engine: each run of ontology.validate makes every check  *)
(* first, then goes through the checks once more and brings the stored     *)
(* findings into line: it merges a finding per detected target, deletes    *)
(* what an earlier run resolved, and resolves what is no longer detected.  *)
(* A run holds the coordinator's lock, so the graph changes between runs   *)
(* only, but the checks that read Home Assistant itself may change their   *)
(* mind at any moment.  A merge that fails is swallowed; any other graph   *)
(* call that fails ends the run; whether a call that failed had committed  *)
(* is not known.                                                           *)
(***************************************************************************)
EXTENDS Integers, Sequences, FiniteSets

CONSTANTS Targets,       \* elements a finding may be about
          Checks,        \* the categories, in the order of a run
          LiveChecks,    \* those that read the registry or the state machine
          MaxRuns,       \* bound: runs
          MaxFailures,   \* bound: failures and restarts
          MaxChanges     \* bound: changes of what the checks see

Categories == {Checks[i] : i \in DOMAIN Checks}

ASSUME ValidationAssumption ==
    /\ Checks \in Seq(Categories) /\ Checks # <<>>
    /\ \A i, j \in DOMAIN Checks : Checks[i] = Checks[j] => i = j
    /\ LiveChecks \subseteq Categories
    /\ IsFiniteSet(Targets)
    /\ MaxRuns \in Nat /\ MaxFailures \in Nat /\ MaxChanges \in Nat

VARIABLES
    issue,        \* per category, the targets its check would report now
    status,       \* per category and target: "none", "open" or "resolved"
    resolvedAt,   \* the run that stamped resolved_at, 0 if none did
    run,          \* runs begun so far; stands for the clock
    phase,        \* next graph call of the run, or "idle"
    at,           \* index of the category it is for
    detections,   \* per category, what this run detected
    detectedIds,  \* of the category at hand, the findings merged
    counts,       \* per category, how many
    reported,     \* the coordinator's validation_findings
    current,      \* history: no finding was written since `reported` was
    quiet,        \* history: complete runs in a row without a detection, up to 2
    failures,     \* failures and restarts so far
    changes       \* changes so far

findingVars == <<status, resolvedAt>>
runVars     == <<run, phase, at, detections, detectedIds, counts>>
vars == <<issue, findingVars, runVars, reported, current, quiet, failures, changes>>

Nothing == [c \in Categories |-> {}]
Zero    == [c \in Categories |-> 0]

Init ==
    /\ issue = Nothing
    /\ status = [c \in Categories |-> [t \in Targets |-> "none"]]
    /\ resolvedAt = [c \in Categories |-> [t \in Targets |-> 0]]
    /\ run = 0
    /\ phase = "idle"
    /\ at = 1
    /\ detections = Nothing
    /\ detectedIds = {}
    /\ counts = Zero
    /\ reported = Zero
    /\ current = TRUE
    /\ quiet = [c \in Categories |-> [t \in Targets |-> 0]]
    /\ failures = 0
    /\ changes = 0

Here == Checks[at]

-----------------------------------------------------------------------------
(* A run *)

Begin ==
    /\ phase = "idle"
    /\ run < MaxRuns
    /\ run' = run + 1
    /\ phase' = "detect"
    /\ at' = 1
    /\ detections' = Nothing
    /\ detectedIds' = {}
    /\ counts' = Zero
    /\ UNCHANGED <<issue, findingVars, reported, current, quiet, failures, changes>>

\* The run goes on to phase p of the category at index i.
Goto(p, i) ==
    /\ phase' = p
    /\ at' = i
    /\ UNCHANGED <<run, reported, quiet, failures>>

\* The exception leaves async_run_validation, or the process stops.
Stop ==
    /\ failures < MaxFailures
    /\ failures' = failures + 1
    /\ phase' = "idle"
    /\ at' = 1
    /\ quiet' = [c \in Categories |-> [t \in Targets |->
                    IF t \in detections[c] THEN 0 ELSE quiet[c][t]]]
    /\ run' = run

\* The reported counts stay those of an earlier run.
Abort == Stop /\ reported' = reported

\* One of the _detect_ functions: a read.
Detect ==
    /\ phase = "detect"
    /\ \/ /\ detections' = [detections EXCEPT ![Here] = issue[Here]]
          /\ IF at < Len(Checks) THEN Goto("detect", at + 1) ELSE Goto("merge", 1)
       \/ Abort /\ UNCHANGED detections
    /\ UNCHANGED <<issue, findingVars, detectedIds, counts, current, changes>>

\* The MERGE of a finding: open, detected just now, no longer resolved.
Opened(S) ==
    /\ status' = [status EXCEPT ![Here] = [t \in Targets |->
                     IF t \in S THEN "open" ELSE status[Here][t]]]
    /\ resolvedAt' = [resolvedAt EXCEPT ![Here] = [t \in Targets |->
                     IF t \in S THEN 0 ELSE resolvedAt[Here][t]]]

\* The loop over the detected targets.  Those whose merge failed are left out
\* of detected_ids, although some of these merges may have been committed.
Merge ==
    /\ phase = "merge"
    /\ \E ids \in SUBSET detections[Here] :
       \E written \in SUBSET detections[Here] :
          /\ ids \subseteq written
          /\ Opened(written)
          /\ detectedIds' = ids
          /\ counts' = [counts EXCEPT ![Here] = Cardinality(ids)]
          /\ phase' = "delete"
          /\ IF ids = detections[Here]
             THEN failures' = failures
             ELSE failures < MaxFailures /\ failures' = failures + 1
    /\ current' = FALSE
    /\ UNCHANGED <<issue, run, at, detections, reported, quiet, changes>>

\* Seeded fault: the guard on the time of resolution is the wrong way round.
ExpiredJustNow(t) ==
    /\ status[Here][t] = "resolved"
    /\ t \notin detectedIds
    /\ resolvedAt[Here][t] = run

\* Seeded fault: the status is not part of the match.
ExpiredAnyStatus(t) == t \notin detectedIds /\ resolvedAt[Here][t] # run

\* delete_query: resolved before this run and not detected by it.
Expired(t) ==
    /\ status[Here][t] = "resolved"
    /\ t \notin detectedIds
    /\ resolvedAt[Here][t] # run

Deleted ==
    /\ status' = [status EXCEPT ![Here] = [t \in Targets |->
                     IF Expired(t) THEN "none" ELSE status[Here][t]]]
    /\ resolvedAt' = [resolvedAt EXCEPT ![Here] = [t \in Targets |->
                     IF Expired(t) THEN 0 ELSE resolvedAt[Here][t]]]

Delete ==
    /\ phase = "delete"
    /\ \/ Deleted /\ (Goto("resolve", at) \/ Abort)
       \/ UNCHANGED findingVars /\ Abort
    /\ UNCHANGED <<issue, detections, detectedIds, counts, current, changes>>

\* Seeded fault: a finding whose merge failed stays open and is not counted.
LapsedUndetected(t) == status[Here][t] = "open" /\ t \notin detections[Here]

\* resolve_query: open and not detected.
Lapsed(t) == status[Here][t] = "open" /\ t \notin detectedIds

Resolved ==
    /\ status' = [status EXCEPT ![Here] = [t \in Targets |->
                     IF Lapsed(t) THEN "resolved" ELSE status[Here][t]]]
    /\ resolvedAt' = [resolvedAt EXCEPT ![Here] = [t \in Targets |->
                     IF Lapsed(t) THEN run ELSE resolvedAt[Here][t]]]

\* The counts are returned and become the coordinator's.
Finish ==
    /\ phase' = "idle"
    /\ at' = 1
    /\ reported' = counts
    /\ current' = TRUE
    /\ quiet' = [c \in Categories |-> [t \in Targets |->
                    IF t \in detections[c] THEN 0
                    ELSE IF quiet[c][t] = 0 THEN 1 ELSE 2]]
    /\ UNCHANGED <<run, failures>>

Resolve ==
    /\ phase = "resolve"
    /\ \/ Resolved /\ at < Len(Checks) /\ Goto("merge", at + 1) /\ UNCHANGED current
       \/ Resolved /\ at = Len(Checks) /\ Finish
       \/ (Resolved \/ UNCHANGED findingVars) /\ Abort /\ UNCHANGED current
    /\ UNCHANGED <<issue, detections, detectedIds, counts, changes>>

-----------------------------------------------------------------------------
(* Between runs *)

\* A rebuild clears every node of source "generated", findings among them.
Rebuild ==
    /\ phase = "idle"
    /\ changes < MaxChanges
    /\ changes' = changes + 1
    /\ status' = [c \in Categories |-> [t \in Targets |-> "none"]]
    /\ resolvedAt' = [c \in Categories |-> [t \in Targets |-> 0]]
    /\ current' = FALSE
    /\ UNCHANGED <<issue, runVars, reported, quiet, failures>>

\* What a check sees changes: of the graph's, by another operation between
\* two runs; of Home Assistant's, whenever it likes.
Change ==
    /\ changes < MaxChanges
    /\ changes' = changes + 1
    /\ \E c \in Categories, S \in SUBSET Targets :
          /\ c \in LiveChecks \/ phase = "idle"
          /\ issue' = [issue EXCEPT ![c] = S]
    /\ UNCHANGED <<findingVars, runVars, reported, current, quiet, failures>>

\* Home Assistant restarts: the counts are gone, the findings are not.
Restart ==
    /\ IF phase = "idle"
       THEN /\ failures < MaxFailures
            /\ failures' = failures + 1
            /\ UNCHANGED <<run, phase, at, quiet>>
       ELSE Stop
    /\ reported' = Zero
    /\ current' = FALSE
    /\ UNCHANGED <<issue, findingVars, detections, detectedIds, counts, changes>>

Next ==
    \/ Begin
    \/ Detect
    \/ Merge
    \/ Delete
    \/ Resolve
    \/ Rebuild
    \/ Change
    \/ Restart

Spec == Init /\ [][Next]_vars

-----------------------------------------------------------------------------
(* Properties *)

\* Every variable has its type; outside a run nothing is in progress.
TypeOK ==
    /\ issue \in [Categories -> SUBSET Targets]
    /\ status \in [Categories -> [Targets -> {"none", "open", "resolved"}]]
    /\ resolvedAt \in [Categories -> [Targets -> Nat]]
    /\ run \in Nat
    /\ phase \in {"idle", "detect", "merge", "delete", "resolve"}
    /\ at \in DOMAIN Checks
    /\ detections \in [Categories -> SUBSET Targets]
    /\ detectedIds \in SUBSET Targets
    /\ counts \in [Categories -> Nat]
    /\ reported \in [Categories -> Nat]
    /\ current \in BOOLEAN
    /\ quiet \in [Categories -> [Targets -> 0..2]]
    /\ failures \in Nat
    /\ changes \in Nat

\* Findings do not outlive their issue: after a complete run that did not
\* detect it a finding is not open, and after two in a row it is gone,
\* whatever runs failed half-way in between.
FindingsExpire ==
    \A c \in Categories, t \in Targets :
        t \notin detections[c] =>
            /\ quiet[c][t] > 0 => status[c][t] # "open"
            /\ quiet[c][t] = 2 => status[c][t] = "none"

OpenOnes(c) == {t \in Targets : status[c][t] = "open"}

\* The counts the coordinator reports after a run are those of the findings
\* that are open in the graph, until a later operation writes findings.
CountsMatchOpen ==
    current => \A c \in Categories : reported[c] = Cardinality(OpenOnes(c))

\* A validation run deletes a finding only if an earlier run resolved it, so
\* that the user has had a run's time to see it resolved (the retention policy
\* in the comment before delete_query).
ResolvedForARun ==
    [][\A c \in Categories, t \in Targets :
          (phase # "idle" /\ status[c][t] # "none" /\ status'[c][t] = "none")
              => status[c][t] = "resolved" /\ resolvedAt[c][t] \in 1..(run - 1)]_vars
=============================================================================
