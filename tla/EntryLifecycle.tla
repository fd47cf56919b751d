--------------------------- MODULE EntryLifecycle ---------------------------
(***************************************************************************)
(* The config entry: set-up with its connection test, schema gate and      *)
(* migration, unload, reload, Home Assistant's own retries and restarts,   *)
(* and the health record and repair issues that tell the user about them.  *)
(*                                                                         *)
(* Every set-up creates a graph client, and a set-up that gets through     *)
(* makes a runtime (coordinator) around it.  Both are named by the number  *)
(* of the set-up.  A runtime's operations are not cancelled by an unload:  *)
(* what was accepted before runs on, through a client that opens a driver  *)
(* whenever it finds none.                                                 *)
(***************************************************************************)
EXTENDS Integers, FiniteSets

CONSTANTS Threshold,    \* SUSTAINED_FAILURE_THRESHOLD
          MaxSetups,    \* bound: clients created (a retried set-up reuses its number)
          MaxPending,   \* bound: operations of a runtime accepted but not begun
          MaxOutages    \* bound: times the graph becomes unreachable

ASSUME ThresholdAssumption == Threshold \in Nat \ {0}

ASSUME BoundsAssumption ==
    MaxSetups \in Nat \ {0} /\ MaxPending \in Nat \ {0} /\ MaxOutages \in Nat

VARIABLES up,        \* is the graph database reachable?
          version,   \* the version its schema node records, "none" without one
          outages,
          phase,     \* where the config entry stands
          cur,       \* number of the last set-up
          driver,    \* per client: none, open or closing
          runtime,   \* the runtimes created
          listening, \* the runtimes whose listeners and timers are attached
          op,        \* per runtime: the operation that holds its lock
          pending,   \* per runtime: operations accepted and not begun
          failures,  \* per runtime: consecutive_failures
          issues     \* the repair issues of the entry that are up

graph == <<up, version, outages>>
health == <<failures, issues>>
ops == <<op, pending>>
vars == <<graph, phase, cur, driver, runtime, listening, ops, health>>

Setup == 1..MaxSetups

\* A full sync, another operation that keeps the health record, and one that
\* does not (a query, an energy role, a device or area update).
Kinds == {"full", "sync", "quiet"}

Versions == {"none", "previous", "current", "foreign"}

Phases == {"not_loaded", "testing", "reading", "indexing", "migrating", "loaded",
           "retry", "error", "unloading", "closing"}

Init ==
    /\ up \in BOOLEAN
    /\ version \in Versions
    /\ outages = 0
    /\ phase = "not_loaded"
    /\ cur = 0
    /\ driver = [n \in Setup |-> "none"]
    /\ runtime = {}
    /\ listening = {}
    /\ op = [n \in Setup |-> "none"]
    /\ pending = [n \in Setup |-> 0]
    /\ failures = [n \in Setup |-> 0]
    /\ issues = {}

-----------------------------------------------------------------------------
(* The graph database, outside of the program.  Up means that it answers, in *)
(* time and to these credentials.                                            *)

GraphDown ==
    /\ up
    /\ outages < MaxOutages
    /\ up' = FALSE
    /\ outages' = outages + 1
    /\ UNCHANGED <<version, phase, cur, driver, runtime, listening, ops, health>>

GraphUp ==
    /\ ~up
    /\ up' = TRUE
    /\ UNCHANGED <<version, outages, phase, cur, driver, runtime, listening, ops, health>>

\* The administrator clears a graph that the integration refuses, or restores
\* one of the current version.
SchemaResolved ==
    /\ version = "foreign"
    /\ version' \in {"none", "current"}
    /\ UNCHANGED <<up, outages, phase, cur, driver, runtime, listening, ops, health>>

-----------------------------------------------------------------------------
(* The client: any call opens a driver if it finds none, whether or not the  *)
(* graph answers and whether or not the client was closed before.            *)

Connected(n) == IF driver[n] = "none" THEN [driver EXCEPT ![n] = "open"] ELSE driver

Closed(n) == [driver EXCEPT ![n] = "none"]

Reaches(n) == up /\ driver[n] # "closing"

-----------------------------------------------------------------------------
(* The health record.  Failure counts are only compared with Threshold and   *)
(* stop there.                                                               *)

\* A success that leaves the issue to itself.
RecordSuccessSilently(n) ==
    /\ failures' = [failures EXCEPT ![n] = 0]
    /\ UNCHANGED issues

RecordSuccess(n) ==
    /\ failures' = [failures EXCEPT ![n] = 0]
    /\ issues' = issues \ {"sustained"}

OneMore(count) == IF count < Threshold THEN count + 1 ELSE Threshold

\* The issue is worded from entry.runtime_data, which an entry that is not
\* loaded need not have.
RecordFailure(n) ==
    /\ failures' = [failures EXCEPT ![n] = OneMore(@)]
    /\ IF failures'[n] < Threshold
       THEN UNCHANGED issues
       ELSE \/ issues' = issues \union {"sustained"}
            \/ phase # "loaded" /\ UNCHANGED issues

-----------------------------------------------------------------------------
(* async_setup_entry, one action per suspension. *)

\* Home Assistant sets the entry up: at start, after an unload, on a retry
\* (the number is reused: the client of the failed attempt is gone) or when
\* the user reloads an entry in error.
Begin ==
    /\ \/ phase \in {"not_loaded", "error"} /\ cur < MaxSetups /\ cur' = cur + 1
       \/ phase = "retry" /\ cur' = cur
    /\ phase' = "testing"
    /\ UNCHANGED <<graph, driver, runtime, listening, ops, health>>

TestConnection ==
    /\ phase = "testing"
    /\ \/ up /\ driver' = Connected(cur) /\ phase' = "reading"
       \/ ~up /\ driver' = Closed(cur) /\ phase' = "retry"
    /\ UNCHANGED <<graph, cur, runtime, listening, ops, health>>

\* The graph stops answering during the migration: the exception leaves
\* async_setup_entry as it is.  A commit whose answer was lost has happened.
MigrationFails ==
    /\ phase \in {"reading", "indexing", "migrating"}
    /\ ~up
    /\ phase' = "error"
    /\ version' \in IF phase = "migrating" THEN {version, "current"} ELSE {version}
    /\ UNCHANGED <<up, outages, cur, driver, runtime, listening, ops, health>>

\* A mismatch that tells nobody.
MismatchSilent ==
    /\ driver' = Closed(cur)
    /\ phase' = "retry"
    /\ UNCHANGED <<runtime, listening, op, health>>

Mismatch ==
    /\ issues' = issues \union {"mismatch"}
    /\ driver' = Closed(cur)
    /\ phase' = "retry"
    /\ UNCHANGED <<runtime, listening, op, failures>>

Attached ==
    /\ listening' = listening \union {cur}
    /\ op' = [op EXCEPT ![cur] = "full"]
    /\ failures' = [failures EXCEPT ![cur] = 0]
    /\ phase' = "loaded"
    /\ UNCHANGED driver

\* A set-up that does not hand the runtime to the entry.
ReadyNoRuntime ==
    /\ Attached
    /\ UNCHANGED runtime
    /\ issues' = {}

\* The mismatch issue goes, the runtime is created, counts as healthy (which
\* clears the other issue), and starts its first full sync in the background;
\* listeners and timers are attached.
Ready ==
    /\ Attached
    /\ runtime' = runtime \union {cur}
    /\ issues' = {}

GateOpen(found) == Ready

\* The gate: an absent or current schema passes, any other is a mismatch.
Gate(found) == IF found \in {"none", "current"} THEN Ready ELSE Mismatch

\* A known version goes on to the indexes, any other goes to the gate at once.
ReadVersion ==
    /\ phase = "reading"
    /\ up
    /\ IF version = "foreign"
       THEN Gate(version)
       ELSE /\ phase' = "indexing"
            /\ UNCHANGED <<driver, runtime, listening, op, health>>
    /\ UNCHANGED <<graph, cur, pending>>

EnsureIndexes ==
    /\ phase = "indexing"
    /\ up
    /\ IF version = "previous"
       THEN /\ phase' = "migrating"
            /\ UNCHANGED <<driver, runtime, listening, op, health>>
       ELSE Gate(version)
    /\ UNCHANGED <<graph, cur, pending>>

\* The transaction reads the version again and advances the previous one.
Migrated == IF version = "previous" THEN "current" ELSE version

Migrate ==
    /\ phase = "migrating"
    /\ up
    /\ version' = Migrated
    /\ Gate(version')
    /\ UNCHANGED <<up, outages, cur, pending>>

-----------------------------------------------------------------------------
(* async_unload_entry.  Listeners go only after it has returned. *)

Unload ==
    /\ phase = "loaded"
    /\ cur < MaxSetups
    /\ phase' = "unloading"
    /\ UNCHANGED <<graph, cur, driver, runtime, listening, ops, health>>

CloseBegin ==
    /\ phase = "unloading"
    /\ driver' = [driver EXCEPT ![cur] = IF @ = "none" THEN "none" ELSE "closing"]
    /\ phase' = "closing"
    /\ UNCHANGED <<graph, cur, runtime, listening, ops, health>>

CloseEnd ==
    /\ phase = "closing"
    /\ driver' = [driver EXCEPT ![cur] = IF @ = "closing" THEN "none" ELSE @]
    /\ listening' = listening \ {cur}
    /\ phase' = "not_loaded"
    /\ UNCHANGED <<graph, cur, runtime, ops, health>>

\* Home Assistant stops or crashes: only the database outlives it.
Restart ==
    /\ cur < MaxSetups
    /\ phase' = "not_loaded"
    /\ driver' = [n \in Setup |-> "none"]
    /\ runtime' = {}
    /\ listening' = {}
    /\ op' = [n \in Setup |-> "none"]
    /\ pending' = [n \in Setup |-> 0]
    /\ failures' = [n \in Setup |-> 0]
    /\ issues' = {}
    /\ UNCHANGED <<graph, cur>>

-----------------------------------------------------------------------------
(* Operations of a runtime. *)

\* An event, a timer or a service call reaches a runtime that is still attached.
Request(n) ==
    /\ n \in listening
    /\ pending[n] < MaxPending
    /\ pending' = [pending EXCEPT ![n] = @ + 1]
    /\ UNCHANGED <<graph, phase, cur, driver, runtime, listening, op, health>>

Start(n) ==
    /\ pending[n] > 0
    /\ op[n] = "none"
    /\ \E kind \in Kinds : op' = [op EXCEPT ![n] = kind]
    /\ pending' = [pending EXCEPT ![n] = @ - 1]
    /\ UNCHANGED <<graph, phase, cur, driver, runtime, listening, health>>

\* ensure_schema_node only writes the version when there is none.
SchemaEnsured(n) == IF op[n] = "full" /\ version = "none" THEN "current" ELSE version

\* A graph call in the middle of an operation; the retry loop lets an
\* operation go on after calls that failed.
Query(n) ==
    /\ op[n] # "none"
    /\ driver' = Connected(n)
    /\ version' \in IF Reaches(n) THEN {version, SchemaEnsured(n)} ELSE {version}
    /\ UNCHANGED <<up, outages, phase, cur, runtime, listening, ops, health>>

Succeed(n) ==
    /\ op[n] # "none"
    /\ Reaches(n)
    /\ driver' = Connected(n)
    /\ version' = SchemaEnsured(n)
    /\ op' = [op EXCEPT ![n] = "none"]
    /\ IF op[n] = "quiet" THEN UNCHANGED health ELSE RecordSuccess(n)
    /\ UNCHANGED <<up, outages, phase, cur, runtime, listening, pending>>

\* The graph is out of reach for too long, or an operation fails for a reason of its own.
Fail(n) ==
    /\ op[n] # "none"
    /\ driver' = Connected(n)
    /\ op' = [op EXCEPT ![n] = "none"]
    /\ IF op[n] = "quiet" THEN UNCHANGED health ELSE RecordFailure(n)
    /\ UNCHANGED <<graph, phase, cur, runtime, listening, pending>>

SetupStep ==
    \/ Begin \/ TestConnection \/ ReadVersion \/ EnsureIndexes \/ Migrate \/ MigrationFails

UnloadStep == Unload \/ CloseBegin \/ CloseEnd

Operation(n) == Request(n) \/ Start(n) \/ Query(n) \/ Succeed(n) \/ Fail(n)

Next ==
    \/ GraphDown \/ GraphUp \/ SchemaResolved \/ Restart
    \/ SetupStep \/ UnloadStep
    \/ \E n \in Setup : Operation(n)

Spec == Init /\ [][Next]_vars

(* Outages end; Home Assistant retries an entry that was not ready and       *)
(* carries a set-up or unload it began to its end; operations end, since     *)
(* every graph call has a timeout and every retry loop a limit.              *)
FairSpec ==
    /\ Spec
    /\ WF_vars(GraphUp)
    /\ WF_vars(SetupStep)
    /\ WF_vars(CloseBegin \/ CloseEnd)
    /\ \A n \in Setup : WF_vars(Start(n)) /\ WF_vars(Succeed(n) \/ Fail(n))

-----------------------------------------------------------------------------
TypeOK ==
    /\ up \in BOOLEAN
    /\ version \in Versions
    /\ outages \in 0..MaxOutages
    /\ phase \in Phases
    /\ cur \in 0..MaxSetups
    /\ driver \in [Setup -> {"none", "open", "closing"}]
    /\ runtime \subseteq Setup
    /\ listening \subseteq runtime
    /\ op \in [Setup -> Kinds \union {"none"}]
    /\ pending \in [Setup -> 0..MaxPending]
    /\ failures \in [Setup -> 0..Threshold]
    /\ issues \subseteq {"sustained", "mismatch"}

\* An operation, of this runtime or of one that was unloaded, only ever runs
\* on a graph with no schema node or with the current version: the gate holds
\* across reloads, restarts and a migration whose answer was lost.
OperationsKeepSchema ==
    (\E n \in Setup : op[n] # "none" \/ pending[n] > 0) => version \in {"none", "current"}

\* The sustained-failure issue is shared by all runtimes of the entry, yet it
\* is only up while some runtime really has that many failures in a row.
SustainedIssueIsDue ==
    "sustained" \in issues => \E n \in runtime : failures[n] >= Threshold

\* The mismatch issue is gone once an entry is loaded, and an entry is only
\* loaded, unloading or closing on a graph it may write.
LoadedMeansMatched ==
    phase \in {"loaded", "unloading", "closing"} =>
        "mismatch" \notin issues /\ version \in {"none", "current"}

\* An entry that waits for Home Assistant to retry has closed its client: the
\* retries, each with a client of its own, do not pile up drivers.
RetryLeavesNoDriver == phase = "retry" => driver[cur] = "none"

\* A set-up that began ends up loaded, in error, or with an issue that tells
\* the user why it cannot load, unless Home Assistant stops.
SetupIsAnswered ==
    phase = "testing" ~>
        phase \in {"loaded", "error", "not_loaded"} \/ "mismatch" \in issues
=============================================================================
