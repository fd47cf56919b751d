------------------------ MODULE EntryLifecycleProofs ------------------------
(***************************************************************************)
(* What holds of the config entry for every number of set-ups and outages, *)
(* and of any number of entries that any number of flows create and        *)
(* change.  A flow looks for an id long before it creates an entry with    *)
(* it; the invariant is that what it found stays true, so that no entry is *)
(* ever replaced.                                                          *)
(***************************************************************************)
EXTENDS EntryLifecycle, ConfigFlow, TLAPS

\* Whatever runs or waits belongs to a runtime, and runtimes are numbered by
\* set-ups that have begun.
WorkHasRuntime ==
    /\ runtime \subseteq 1..cur
    /\ \A n \in Setup : op[n] # "none" \/ pending[n] > 0 => n \in runtime

\* A set-up in progress or given up has no runtime yet, one that got through has one.
PhaseFitsRuntime ==
    /\ phase \in {"testing", "reading", "indexing", "migrating", "retry", "error"} =>
           cur \in Setup /\ cur \notin runtime
    /\ phase \in {"loaded", "unloading", "closing"} => cur \in runtime /\ "mismatch" \notin issues

\* Once there is a runtime, the schema is one it may write.
RuntimeHasSchema == runtime # {} => version \in {"none", "current"}

IInv ==
    /\ TypeOK
    /\ WorkHasRuntime
    /\ PhaseFitsRuntime
    /\ RuntimeHasSchema
    /\ SustainedIssueIsDue
    /\ RetryLeavesNoDriver

LEMMA InitInv == Init => IInv
<1> SUFFICES ASSUME Init PROVE IInv
  OBVIOUS
<1>1. TypeOK
  BY ThresholdAssumption, BoundsAssumption DEF Init, TypeOK, Setup, Versions, Phases, Kinds
<1>2. WorkHasRuntime /\ PhaseFitsRuntime /\ RuntimeHasSchema
  BY DEF Init, WorkHasRuntime, PhaseFitsRuntime, RuntimeHasSchema
<1>3. SustainedIssueIsDue /\ RetryLeavesNoDriver
  BY DEF Init, SustainedIssueIsDue, RetryLeavesNoDriver
<1> QED
  BY <1>1, <1>2, <1>3 DEF IInv

\* The gate, whichever step it is reached from, keeps the invariant: what it
\* lets through has a schema a runtime may write.
LEMMA GateInv ==
    ASSUME IInv, phase \in {"reading", "indexing", "migrating"},
           NEW found, version' = found, version' \in Versions,
           runtime # {} => version' \in {"none", "current"},
           Gate(found), UNCHANGED <<up, outages, cur, pending>>
    PROVE  IInv'
<1>1. CASE found \in {"none", "current"}
  <2>1. Ready
    BY <1>1 DEF Gate
  <2>2. cur \in Setup /\ cur \in 1..cur
    BY DEF IInv, TypeOK, PhaseFitsRuntime, Setup
  <2>3. TypeOK'
    BY <2>1, <2>2, ThresholdAssumption
    DEF Ready, Attached, IInv, TypeOK, Phases, Kinds
  <2>4. WorkHasRuntime' /\ PhaseFitsRuntime'
    BY <2>1, <2>2 DEF Ready, Attached, IInv, TypeOK, WorkHasRuntime, PhaseFitsRuntime
  <2>5. RuntimeHasSchema' /\ SustainedIssueIsDue' /\ RetryLeavesNoDriver'
    BY <1>1, <2>1
    DEF Ready, Attached, RuntimeHasSchema, SustainedIssueIsDue,
        RetryLeavesNoDriver
  <2> QED
    BY <2>3, <2>4, <2>5 DEF IInv
<1>2. CASE found \notin {"none", "current"}
  <2>1. Mismatch
    BY <1>2 DEF Gate
  <2>2. TypeOK'
    BY <2>1 DEF Mismatch, Closed, health, IInv, TypeOK, Phases
  <2>3. WorkHasRuntime' /\ PhaseFitsRuntime' /\ RuntimeHasSchema'
    BY <2>1 DEF Mismatch, IInv, WorkHasRuntime, PhaseFitsRuntime, RuntimeHasSchema
  <2>4. SustainedIssueIsDue' /\ RetryLeavesNoDriver'
    BY <2>1
    DEF Mismatch, Closed, health, IInv, TypeOK, PhaseFitsRuntime, SustainedIssueIsDue,
        RetryLeavesNoDriver
  <2> QED
    BY <2>2, <2>3, <2>4 DEF IInv
<1> QED
  BY <1>1, <1>2

LEMMA SetupInv == IInv /\ SetupStep => IInv'
<1> SUFFICES ASSUME IInv, SetupStep PROVE IInv'
  OBVIOUS
<1> USE DEF IInv, TypeOK
<1>1. CASE Begin
  <2>1. /\ phase' = "testing"
        /\ UNCHANGED <<up, version, outages, driver, runtime, listening, op, pending,
                       failures, issues>>
    BY <1>1 DEF Begin, graph, ops, health
  <2>2. /\ cur' \in 0..MaxSetups
        /\ cur' \in Setup
        /\ cur' \notin runtime
        /\ cur <= cur'
    <3>1. CASE phase \in {"not_loaded", "error"} /\ cur < MaxSetups /\ cur' = cur + 1
      <4>1. cur \in Nat /\ cur' \in 1..MaxSetups /\ cur' > cur
        BY <3>1, BoundsAssumption
      <4> QED
        BY <4>1 DEF Setup, WorkHasRuntime
    <3>2. CASE phase = "retry" /\ cur' = cur
      BY <3>2 DEF PhaseFitsRuntime
    <3> QED
      BY <1>1, <3>1, <3>2 DEF Begin
  <2>3. TypeOK'
    BY <2>1, <2>2 DEF Phases
  <2>4. runtime' \subseteq 1..cur'
    BY <2>1, <2>2, BoundsAssumption DEF WorkHasRuntime, Setup
  <2>5. WorkHasRuntime' /\ PhaseFitsRuntime' /\ RuntimeHasSchema'
    BY <2>1, <2>2, <2>4 DEF WorkHasRuntime, PhaseFitsRuntime, RuntimeHasSchema
  <2>6. SustainedIssueIsDue' /\ RetryLeavesNoDriver'
    BY <2>1 DEF SustainedIssueIsDue, RetryLeavesNoDriver
  <2> QED
    BY <2>3, <2>5, <2>6
<1>2. CASE TestConnection
  BY <1>2
  DEF TestConnection, Connected, Closed, WorkHasRuntime, PhaseFitsRuntime, RuntimeHasSchema,
      SustainedIssueIsDue, RetryLeavesNoDriver, Setup, Phases, graph, ops, health
<1>3. CASE MigrationFails
  BY <1>3
  DEF MigrationFails, WorkHasRuntime, PhaseFitsRuntime, RuntimeHasSchema,
      SustainedIssueIsDue, RetryLeavesNoDriver, Setup, Phases, Versions, ops, health
<1>4. CASE ReadVersion
  <2>1. CASE version = "foreign"
    BY <1>4, <2>1, GateInv DEF ReadVersion, graph, RuntimeHasSchema
  <2>2. CASE version # "foreign"
    BY <1>4, <2>2
    DEF ReadVersion, WorkHasRuntime, PhaseFitsRuntime, RuntimeHasSchema,
        SustainedIssueIsDue, RetryLeavesNoDriver, Setup, Phases, graph, health
  <2> QED
    BY <2>1, <2>2
<1>5. CASE EnsureIndexes
  <2>1. CASE version = "previous"
    BY <1>5, <2>1
    DEF EnsureIndexes, WorkHasRuntime, PhaseFitsRuntime, RuntimeHasSchema,
        SustainedIssueIsDue, RetryLeavesNoDriver, Setup, Phases, graph, health
  <2>2. CASE version # "previous"
    BY <1>5, <2>2, GateInv DEF EnsureIndexes, graph, RuntimeHasSchema
  <2> QED
    BY <2>1, <2>2
<1>6. CASE Migrate
  BY <1>6, GateInv DEF Migrate, Migrated, RuntimeHasSchema, Versions
<1> QED
  BY <1>1, <1>2, <1>3, <1>4, <1>5, <1>6 DEF SetupStep

LEMMA UnloadInv == IInv /\ UnloadStep => IInv'
<1> SUFFICES ASSUME IInv, UnloadStep PROVE IInv'
  OBVIOUS
<1> USE DEF IInv, TypeOK, WorkHasRuntime, PhaseFitsRuntime, RuntimeHasSchema,
            SustainedIssueIsDue, RetryLeavesNoDriver, Setup, Phases, graph, ops, health
<1>1. CASE Unload
  BY <1>1 DEF Unload
<1>2. CASE CloseBegin
  BY <1>2 DEF CloseBegin
<1>3. CASE CloseEnd
  BY <1>3 DEF CloseEnd
<1> QED
  BY <1>1, <1>2, <1>3 DEF UnloadStep

\* The environment: outages, an administrator who resolves a mismatch, and
\* restarts after which only the database is left.
LEMMA WorldInv == IInv /\ (GraphDown \/ GraphUp \/ SchemaResolved \/ Restart) => IInv'
<1> SUFFICES ASSUME IInv, GraphDown \/ GraphUp \/ SchemaResolved \/ Restart PROVE IInv'
  OBVIOUS
<1>1. CASE GraphDown \/ GraphUp
  <2>1. up' = TRUE \/ up' = FALSE
    BY <1>1, Zenon DEF GraphDown, GraphUp
  <2>2. outages' = outages \/ (outages < MaxOutages /\ outages' = outages + 1)
    BY <1>1, Zenon DEF GraphDown, GraphUp
  <2>3. UNCHANGED <<version, phase, cur, driver, runtime, listening, ops, health>>
    BY <1>1, Zenon DEF GraphDown, GraphUp
  <2>4. outages' \in 0..MaxOutages
    BY <2>2, BoundsAssumption DEF IInv, TypeOK
  <2> QED
    BY <2>1, <2>3, <2>4
    DEF IInv, TypeOK, WorkHasRuntime, PhaseFitsRuntime, RuntimeHasSchema,
        SustainedIssueIsDue, RetryLeavesNoDriver, ops, health
<1>2. CASE Restart
  BY <1>2, ThresholdAssumption, BoundsAssumption
  DEF Restart, graph, IInv, TypeOK, WorkHasRuntime, PhaseFitsRuntime, RuntimeHasSchema,
      SustainedIssueIsDue, RetryLeavesNoDriver, Setup, Phases
<1>3. CASE SchemaResolved
  BY <1>3
  DEF SchemaResolved, IInv, TypeOK, WorkHasRuntime, PhaseFitsRuntime, RuntimeHasSchema,
      SustainedIssueIsDue, RetryLeavesNoDriver, Versions, ops, health
<1> QED
  BY <1>1, <1>2, <1>3

LEMMA OperationInv == ASSUME IInv, NEW n \in Setup, Operation(n) PROVE IInv'
<1> USE DEF IInv, TypeOK, Setup
<1>1. CASE Request(n)
  <2>1. UNCHANGED <<up, version, outages, phase, cur, driver, runtime, listening, op, failures, issues>>
    BY <1>1 DEF Request, graph, health
  <2>2. /\ pending' \in [Setup -> 0..MaxPending] /\ n \in runtime
        /\ \A m \in Setup : m # n => pending'[m] = pending[m]
    <3>1. /\ pending \in [Setup -> 0..MaxPending] /\ pending[n] < MaxPending
          /\ pending' = [pending EXCEPT ![n] = pending[n] + 1]
          /\ n \in runtime
      BY <1>1 DEF Request
    <3>2. pending[n] + 1 \in 0..MaxPending
      BY <3>1, BoundsAssumption
    <3> QED
      BY ONLY <3>1, <3>2
  <2>3. TypeOK'
    BY <2>1, <2>2
  <2>4. WorkHasRuntime'
    BY <2>1, <2>2 DEF WorkHasRuntime
  <2>5. PhaseFitsRuntime' /\ RuntimeHasSchema' /\ SustainedIssueIsDue' /\ RetryLeavesNoDriver'
    BY <2>1 DEF PhaseFitsRuntime, RuntimeHasSchema, SustainedIssueIsDue, RetryLeavesNoDriver
  <2> QED
    BY <2>3, <2>4, <2>5
<1>2. CASE Start(n)
  <2>1. UNCHANGED <<up, version, outages, phase, cur, driver, runtime, listening, failures, issues>>
    BY <1>2 DEF Start, graph, health
  <2>2. /\ op' \in [Setup -> Kinds \union {"none"}]
        /\ \A m \in Setup : m # n => op'[m] = op[m]
    BY <1>2 DEF Start
  <2>3. /\ pending' \in [Setup -> 0..MaxPending]
        /\ \A m \in Setup : m # n => pending'[m] = pending[m]
    <3>1. /\ pending \in [Setup -> 0..MaxPending] /\ pending[n] > 0
          /\ pending' = [pending EXCEPT ![n] = pending[n] - 1]
      BY <1>2 DEF Start
    <3>2. pending[n] - 1 \in 0..MaxPending
      BY <3>1, BoundsAssumption
    <3> QED
      BY ONLY <3>1, <3>2
  <2>4. n \in runtime
    BY <1>2 DEF Start, WorkHasRuntime
  <2>5. TypeOK'
    BY <2>1, <2>2, <2>3
  <2>6. WorkHasRuntime'
    BY <2>1, <2>2, <2>3, <2>4 DEF WorkHasRuntime
  <2>7. PhaseFitsRuntime' /\ RuntimeHasSchema' /\ SustainedIssueIsDue' /\ RetryLeavesNoDriver'
    BY <2>1 DEF PhaseFitsRuntime, RuntimeHasSchema, SustainedIssueIsDue, RetryLeavesNoDriver
  <2> QED
    BY <2>5, <2>6, <2>7
<1>3. ASSUME op[n] # "none", driver' = Connected(n)
      PROVE  n \in runtime /\ (phase = "retry" => driver'[cur] = "none")
             /\ driver' \in [Setup -> {"none", "open", "closing"}]
  BY <1>3 DEF WorkHasRuntime, PhaseFitsRuntime, RetryLeavesNoDriver, Connected
<1>4. CASE Query(n)
  <2>1. UNCHANGED <<up, outages, phase, cur, runtime, listening, op, pending, failures, issues>>
    BY <1>4 DEF Query, ops, health
  <2>2. /\ driver' \in [Setup -> {"none", "open", "closing"}]
        /\ phase = "retry" => driver'[cur] = "none"
    BY <1>3, <1>4 DEF Query
  <2>3. version' \in Versions /\ (runtime # {} => version' \in {"none", "current"})
    BY <1>4 DEF Query, SchemaEnsured, Versions, RuntimeHasSchema
  <2>4. TypeOK'
    BY <2>1, <2>2, <2>3
  <2>5. WorkHasRuntime' /\ PhaseFitsRuntime' /\ RuntimeHasSchema'
    BY <2>1, <2>3 DEF WorkHasRuntime, PhaseFitsRuntime, RuntimeHasSchema
  <2>6. SustainedIssueIsDue' /\ RetryLeavesNoDriver'
    BY <2>1, <2>2 DEF SustainedIssueIsDue, RetryLeavesNoDriver
  <2> QED
    BY <2>4, <2>5, <2>6
<1>5. CASE Succeed(n)
  <2>1. n \in runtime /\ runtime' = runtime
    BY <1>3, <1>5 DEF Succeed
  <2>2. /\ failures' \in [Setup -> 0..Threshold]
        /\ issues' \subseteq {"sustained", "mismatch"}
        /\ "mismatch" \in issues' => "mismatch" \in issues
        /\ SustainedIssueIsDue'
    <3>1. CASE op[n] = "quiet"
      BY <1>5, <2>1, <3>1 DEF Succeed, SustainedIssueIsDue, health
    <3>2. CASE op[n] # "quiet"
      <4>1. RecordSuccess(n)
        BY <1>5, <3>2 DEF Succeed
      <4> QED
        BY <4>1, ThresholdAssumption DEF RecordSuccess, SustainedIssueIsDue
    <3> QED
      BY <3>1, <3>2
  <2>3. TypeOK'
    BY <1>3, <1>5, <2>1, <2>2 DEF Succeed, SchemaEnsured, Versions, Kinds
  <2>4. WorkHasRuntime' /\ PhaseFitsRuntime' /\ RuntimeHasSchema'
    BY <1>5, <2>1, <2>2
    DEF Succeed, SchemaEnsured, WorkHasRuntime, PhaseFitsRuntime, RuntimeHasSchema
  <2>5. RetryLeavesNoDriver'
    BY <1>3, <1>5 DEF Succeed, RetryLeavesNoDriver
  <2> QED
    BY <2>2, <2>3, <2>4, <2>5
<1>6. CASE Fail(n)
  <2>1. n \in runtime /\ runtime' = runtime
    BY <1>3, <1>6 DEF Fail
  <2>2. /\ failures' \in [Setup -> 0..Threshold]
        /\ issues' \subseteq {"sustained", "mismatch"}
        /\ "mismatch" \in issues' => "mismatch" \in issues
        /\ SustainedIssueIsDue'
    <3>1. CASE op[n] = "quiet"
      BY <1>6, <2>1, <3>1 DEF Fail, SustainedIssueIsDue, health
    <3>2. CASE op[n] # "quiet"
      <4>1. RecordFailure(n)
        BY <1>6, <3>2 DEF Fail
      <4>2. /\ failures' \in [Setup -> 0..Threshold]
            /\ \A m \in Setup : failures'[m] >= failures[m]
        <5>1. failures \in [Setup -> 0..Threshold]
          OBVIOUS
        <5>2. OneMore(failures[n]) \in 0..Threshold /\ OneMore(failures[n]) >= failures[n]
          BY ONLY <5>1, ThresholdAssumption DEF OneMore
        <5>3. failures' = [failures EXCEPT ![n] = OneMore(failures[n])]
          BY <4>1 DEF RecordFailure
        <5> QED
          BY ONLY <5>1, <5>2, <5>3, ThresholdAssumption
      <4>3. /\ issues' = issues \/ issues' = issues \union {"sustained"}
            /\ failures'[n] < Threshold => issues' = issues
        BY <4>1 DEF RecordFailure
      <4>4. "sustained" \in issues' => "sustained" \in issues \/ failures'[n] >= Threshold
        BY <4>2, <4>3, ThresholdAssumption
      <4>5. SustainedIssueIsDue'
        BY <2>1, <4>2, <4>4, ThresholdAssumption DEF SustainedIssueIsDue
      <4> QED
        BY <4>2, <4>3, <4>5
    <3> QED
      BY <3>1, <3>2
  <2>3. TypeOK'
    BY <1>3, <1>6, <2>1, <2>2 DEF Fail, Kinds, graph
  <2>4. WorkHasRuntime' /\ PhaseFitsRuntime' /\ RuntimeHasSchema'
    BY <1>6, <2>1, <2>2 DEF Fail, WorkHasRuntime, PhaseFitsRuntime, RuntimeHasSchema, graph
  <2>5. RetryLeavesNoDriver'
    BY <1>3, <1>6 DEF Fail, RetryLeavesNoDriver
  <2> QED
    BY <2>2, <2>3, <2>4, <2>5
<1> QED
  BY <1>1, <1>2, <1>4, <1>5, <1>6 DEF Operation

LEMMA StepInv == IInv /\ [Next]_vars => IInv'
<1> SUFFICES ASSUME IInv, [Next]_vars PROVE IInv'
  OBVIOUS
<1>1. CASE UNCHANGED vars
  BY <1>1
  DEF vars, graph, ops, health, IInv, TypeOK, WorkHasRuntime, PhaseFitsRuntime,
      RuntimeHasSchema, SustainedIssueIsDue, RetryLeavesNoDriver
<1> QED
  BY <1>1, SetupInv, UnloadInv, WorldInv, OperationInv DEF Next

\* The parts of the invariant hold in every reachable state.
THEOREM Invariant == Spec => []IInv
  BY InitInv, StepInv, PTL DEF Spec

\* Every variable has its type.
THEOREM TypeCorrect == Spec => []TypeOK
<1>1. IInv => TypeOK
  BY DEF IInv
<1> QED
  BY <1>1, Invariant, PTL

\* No operation of any runtime, loaded or left over, runs on a graph whose
\* schema the gate would have refused.
THEOREM SchemaKept == Spec => []OperationsKeepSchema
<1>1. IInv => OperationsKeepSchema
  BY DEF IInv, WorkHasRuntime, RuntimeHasSchema, OperationsKeepSchema
<1> QED
  BY <1>1, Invariant, PTL

\* The sustained-failure issue is never up without a runtime that has failed
\* that often in a row.
THEOREM SustainedIssueJustified == Spec => []SustainedIssueIsDue
<1>1. IInv => SustainedIssueIsDue
  BY DEF IInv
<1> QED
  BY <1>1, Invariant, PTL

\* A loaded entry has no mismatch issue and a schema it may write.
THEOREM LoadedMatched == Spec => []LoadedMeansMatched
<1>1. IInv => LoadedMeansMatched
  BY DEF IInv, PhaseFitsRuntime, RuntimeHasSchema, LoadedMeansMatched
<1> QED
  BY <1>1, Invariant, PTL

\* A set-up that is to be retried has closed its client.
THEOREM RetryClean == Spec => []RetryLeavesNoDriver
<1>1. IInv => RetryLeavesNoDriver
  BY DEF IInv
<1> QED
  BY <1>1, Invariant, PTL

(***************************************************************************)
(* Flows                                                                   *)
(***************************************************************************)

\* While an entry is set up or loaded and no reload of it waits, its client is
\* one for the address it names.
ClientUnlessReload ==
    \A e \in Present : entries[e].phase \in {"setting", "loaded"} /\ reloads[e] = {} =>
        entries[e].client = entries[e].at

FlowInv ==
    /\ FlowsTypeOK
    /\ CheckedIdStaysFree
    /\ ClientUnlessReload
    /\ ServicesWhileLoaded

LEMMA FlowsStart == FlowsInit => FlowInv
<1>. SUFFICES ASSUME FlowsInit PROVE FlowInv
  OBVIOUS
<1>1. Present = {}
  BY DEF FlowsInit, Present
<1>2. FlowsTypeOK
  BY <1>1 DEF FlowsInit, FlowsTypeOK
<1>3. CheckedIdStaysFree /\ ClientUnlessReload /\ ServicesWhileLoaded
  BY <1>1 DEF FlowsInit, CheckedIdStaysFree, ClientUnlessReload, ServicesWhileLoaded
<1>. QED  BY <1>2, <1>3 DEF FlowInv

\* What may be in the place of the flow f: what its kind and step need, and an
\* id that neither an entry nor another flow has.
Fits(f, w) ==
    /\ w.step = "testing" => w.input # None
    /\ w.kind \in {"reconfigure", "options"} => w.entry \in Present /\ w.uid = None
    /\ w.kind = "hassio" \/ (w.step = "testing" /\ w.kind = "user") => w.uid # None
    /\ w.uid # None =>
          /\ \A e \in Present : entries[e].uid # w.uid
          /\ \A g \in Flow \ {f} : flows[g] # None => flows[g].uid # w.uid

FlowStep(f, w) ==
    /\ flows' = [flows EXCEPT ![f] = w]
    /\ UNCHANGED <<answering, entries, reloads, services>>

\* A step of one flow that puts in its place what fits, or nothing.
LEMMA FlowStepKeeps ==
  ASSUME FlowInv, NEW f \in Flow, NEW w \in FlowRecords \union {None},
         w # None => Fits(f, w), FlowStep(f, w)
  PROVE  FlowInv'
<1>1. FlowsTypeOK /\ CheckedIdStaysFree /\ ClientUnlessReload /\ ServicesWhileLoaded
  BY DEF FlowInv
<1>2. /\ answering' = answering /\ entries' = entries /\ reloads' = reloads /\ services' = services
      /\ Present' = Present
  BY DEF FlowStep, Present
<1>3. flows' \in [Flow -> FlowRecords \union {None}] /\ flows'[f] = w
      /\ \A g \in Flow \ {f} : flows'[g] = flows[g]
  BY <1>1 DEF FlowStep, FlowsTypeOK
<1>4. FlowsTypeOK'
  BY <1>1, <1>2, <1>3 DEF FlowsTypeOK, Fits
<1>5. CheckedIdStaysFree'
  BY <1>1, <1>2, <1>3 DEF CheckedIdStaysFree, Fits
<1>6. ClientUnlessReload' /\ ServicesWhileLoaded'
  BY <1>1, <1>2 DEF ClientUnlessReload, ServicesWhileLoaded
<1>. QED  BY <1>4, <1>5, <1>6 DEF FlowInv

\* A step of one entry, with which a flow may end, changes neither its id nor
\* the ids that are looked for.
LEMMA EntryStepKeeps ==
  ASSUME FlowInv, NEW e \in Present, NEW r \in EntryRecords, r.uid = entries[e].uid,
         entries' = [entries EXCEPT ![e] = r],
         flows' \in [Flow -> FlowRecords \union {None}],
         \A f \in Flow : flows'[f] = flows[f] \/ flows'[f] = None,
         reloads' \in [Entry -> SUBSET (Flow \X {"listener", "flow"})],
         \A d \in Entry \ {e} : reloads'[d] = reloads[d],
         r.phase \in {"setting", "loaded"} /\ reloads'[e] = {} => r.client = r.at,
         services' \in BOOLEAN, services \/ r.phase = "loaded" => services',
         answering' = answering
  PROVE  FlowInv'
<1>1. FlowsTypeOK /\ CheckedIdStaysFree /\ ClientUnlessReload /\ ServicesWhileLoaded
  BY DEF FlowInv
<1>2. /\ entries' \in [Entry -> EntryRecords \union {None}] /\ e \in Entry /\ entries'[e] = r
      /\ \A d \in Entry \ {e} : entries'[d] = entries[d]
  BY <1>1 DEF FlowsTypeOK, Present
<1>3. Present' = Present
  BY <1>2, FlowsAssumption DEF Present
<1>4. FlowsTypeOK'
  BY <1>1, <1>2, <1>3 DEF FlowsTypeOK
<1>5. CheckedIdStaysFree'
  BY <1>1, <1>2, <1>3 DEF CheckedIdStaysFree, Present
<1>6. ClientUnlessReload' /\ ServicesWhileLoaded'
  BY <1>1, <1>2, <1>3 DEF ClientUnlessReload, ServicesWhileLoaded, Present
<1>. QED  BY <1>4, <1>5, <1>6 DEF FlowInv

FlowOf(kind, e, uid, step, input) ==
    [kind |-> kind, entry |-> e, uid |-> uid, step |-> step, input |-> input]

LEMMA FlowActionsKeep ==
  ASSUME FlowInv, NEW f \in Flow,
         \/ StartUser(f) \/ GiveUp(f) \/ Refused(f)
         \/ \E a \in Addr : SubmitUser(f, a) \/ Discover(f, a) \/ SubmitConfirm(f, a) \/ SubmitChange(f, a)
         \/ \E e \in Entry, kind \in {"reconfigure", "options"} : StartChange(f, e, kind)
  PROVE  FlowInv'
<1>1. FlowsTypeOK /\ CheckedIdStaysFree
  BY DEF FlowInv
<1>2. /\ "user" \in FlowKinds /\ "hassio" \in FlowKinds /\ "reconfigure" \in FlowKinds /\ "options" \in FlowKinds
      /\ None \in Entry \union {None} /\ None \in Addr \union {None}
      /\ \A a \in Addr : a # None /\ a \in Addr \union {None}
      /\ None \notin FlowRecords
  BY FlowsAssumption DEF FlowKinds
<1>3. ASSUME Close(f), UNCHANGED <<answering, entries, reloads, services>>
      PROVE  FlowInv'
  BY <1>3, FlowStepKeeps DEF Close, FlowStep
<1>4. ASSUME NEW w \in FlowRecords, FlowStep(f, w), Fits(f, w)
      PROVE  FlowInv'
  BY <1>4, FlowStepKeeps
<1>5. ASSUME flows[f] # None
      PROVE  /\ flows[f] \in FlowRecords
             /\ flows[f].uid \in Addr \union {None} /\ flows[f].entry \in Entry \union {None}
             /\ flows[f].kind \in FlowKinds
  BY <1>1, <1>5 DEF FlowsTypeOK, FlowRecords
<1>6. CASE StartUser(f)
  <2>. DEFINE w == FlowOf("user", None, None, "form", None)
  <2>a. Open(f, "user", None, None, "form", None) /\ UNCHANGED <<answering, entries, reloads, services>>
    BY <1>6 DEF StartUser
  <2>b. w \in FlowRecords
    BY <1>2 DEF FlowOf, FlowRecords
  <2>c. FlowStep(f, w)
    BY <2>a DEF FlowStep, FlowOf, Open
  <2>d. Fits(f, w)
    BY <2>a DEF Fits, FlowOf
  <2>. QED  BY <1>4, <2>b, <2>c, <2>d
<1>7. CASE GiveUp(f)
  BY <1>3, <1>7 DEF GiveUp
<1>8. CASE Refused(f)
  <2>. DEFINE w == [flows[f] EXCEPT !.step = "form", !.input = None]
  <2>1. flows[f] \in FlowRecords /\ flows[f].step = "testing"
    BY <1>5, <1>8 DEF Refused, Testing
  <2>2. w \in FlowRecords /\ w.step = "form" /\ w.kind = flows[f].kind /\ w.uid = flows[f].uid
        /\ w.entry = flows[f].entry
    BY <2>1 DEF FlowRecords
  <2>3. FlowStep(f, w)
    BY <1>1, <1>8 DEF Refused, FlowStep, FlowsTypeOK
  <2>4. Fits(f, w)
    <3>. HIDE DEF w
    <3>1. flows[f] # None
      BY <1>8 DEF Refused, Testing
    <3>2. flows[f].kind \in {"reconfigure", "options"} => flows[f].entry \in Present /\ flows[f].uid = None
      BY <1>1, <3>1 DEF FlowsTypeOK
    <3>3. flows[f].kind = "hassio" => flows[f].uid # None
      BY <1>1, <3>1 DEF FlowsTypeOK
    <3>4. flows[f].uid # None =>
             /\ \A e \in Present : entries[e].uid # flows[f].uid
             /\ \A g \in Flow \ {f} : flows[g] # None => flows[g].uid # flows[f].uid
      BY <1>1, <3>1 DEF CheckedIdStaysFree
    <3>. QED  BY <2>2, <3>2, <3>3, <3>4 DEF Fits
  <2>. QED  BY <1>4, <2>2, <2>3, <2>4
<1>9. ASSUME NEW a \in Addr, SubmitUser(f, a)
      PROVE  FlowInv'
  <2>1. CASE InProgress(f, a) \/ Configured(a)
    BY <1>3, <1>9, <2>1 DEF SubmitUser
  <2>2. CASE ~(InProgress(f, a) \/ Configured(a))
    <3>. DEFINE w == FlowOf("user", None, a, "testing", a)
    <3>a. Open(f, "user", None, a, "testing", a) /\ UNCHANGED <<answering, entries, reloads, services>>
      BY <1>9, <2>2 DEF SubmitUser
    <3>b. w \in FlowRecords
      BY <1>2 DEF FlowOf, FlowRecords
    <3>c. FlowStep(f, w)
      BY <3>a DEF FlowStep, FlowOf, Open
    <3>d. Fits(f, w)
      BY <1>2, <2>2 DEF Fits, FlowOf, InProgress, Configured
    <3>. QED  BY <1>4, <3>b, <3>c, <3>d
  <2>. QED  BY <2>1, <2>2
<1>10. ASSUME NEW a \in Addr, Discover(f, a)
       PROVE  FlowInv'
  <2>. DEFINE w == FlowOf("hassio", None, a, "form", None)
  <2>a. Open(f, "hassio", None, a, "form", None) /\ ~InProgress(f, a) /\ ~Configured(a)
        /\ UNCHANGED <<answering, entries, reloads, services>>
    BY <1>10 DEF Discover
  <2>b. w \in FlowRecords
    BY <1>2 DEF FlowOf, FlowRecords
  <2>c. FlowStep(f, w)
    BY <2>a DEF FlowStep, FlowOf, Open
  <2>d. Fits(f, w)
    BY <1>2, <2>a DEF Fits, FlowOf, InProgress, Configured
  <2>. QED  BY <1>4, <2>b, <2>c, <2>d
<1>11. ASSUME NEW a \in Addr, SubmitConfirm(f, a)
       PROVE  FlowInv'
  <2>. DEFINE w == FlowOf("hassio", None, flows[f].uid, "testing", a)
  <2>a. /\ flows[f] # None /\ flows[f].kind = "hassio"
        /\ Open(f, "hassio", None, flows[f].uid, "testing", a) /\ UNCHANGED <<answering, entries, reloads, services>>
    BY <1>11 DEF SubmitConfirm
  <2>b. w \in FlowRecords
    BY <1>2, <1>5, <2>a DEF FlowOf, FlowRecords
  <2>c. FlowStep(f, w)
    BY <2>a DEF FlowStep, FlowOf, Open
  <2>d. Fits(f, w)
    BY <1>1, <1>2, <2>a DEF Fits, FlowOf, FlowsTypeOK, CheckedIdStaysFree
  <2>. QED  BY <1>4, <2>b, <2>c, <2>d
<1>12. ASSUME NEW a \in Addr, SubmitChange(f, a)
       PROVE  FlowInv'
  <2>. DEFINE w == FlowOf(flows[f].kind, flows[f].entry, None, "testing", a)
  <2>a. /\ flows[f] # None /\ flows[f].kind \in {"reconfigure", "options"}
        /\ Open(f, flows[f].kind, flows[f].entry, None, "testing", a) /\ UNCHANGED <<answering, entries, reloads, services>>
    BY <1>12 DEF SubmitChange
  <2>b. w \in FlowRecords
    BY <1>2, <1>5, <2>a DEF FlowOf, FlowRecords
  <2>c. FlowStep(f, w)
    BY <2>a DEF FlowStep, FlowOf, Open
  <2>d. Fits(f, w)
    BY <1>1, <1>2, <2>a DEF Fits, FlowOf, FlowsTypeOK
  <2>. QED  BY <1>4, <2>b, <2>c, <2>d
<1>13. ASSUME NEW e \in Entry, NEW kind \in {"reconfigure", "options"}, StartChange(f, e, kind)
       PROVE  FlowInv'
  <2>. DEFINE w == FlowOf(kind, e, None, "form", None)
  <2>a. e \in Present /\ Open(f, kind, e, None, "form", None) /\ UNCHANGED <<answering, entries, reloads, services>>
    BY <1>13 DEF StartChange
  <2>b. w \in FlowRecords
    BY <1>2 DEF FlowOf, FlowRecords
  <2>c. FlowStep(f, w)
    BY <2>a DEF FlowStep, FlowOf, Open
  <2>d. Fits(f, w)
    BY <2>a DEF Fits, FlowOf
  <2>. QED  BY <1>4, <2>b, <2>c, <2>d
<1>. QED  BY <1>6, <1>7, <1>8, <1>9, <1>10, <1>11, <1>12, <1>13

\* No entry has the id of the flow that creates one, so none is replaced.
LEMMA CreateKeeps ==
  ASSUME FlowInv, NEW f \in Flow, NEW e \in Entry, Create(f, e)
  PROVE  FlowInv'
<1>1. FlowsTypeOK /\ CheckedIdStaysFree /\ ClientUnlessReload /\ ServicesWhileLoaded
  BY DEF FlowInv
<1>2. /\ flows[f] # None /\ flows[f].step = "testing" /\ flows[f].kind \in {"user", "hassio"}
      /\ flows' = [flows EXCEPT ![f] = None]
      /\ answering' = answering /\ reloads' = reloads /\ services' = services
  BY DEF Create, Testing, Close
<1>3. flows[f].uid \in Addr /\ flows[f].input \in Addr
  BY <1>1, <1>2 DEF FlowsTypeOK, FlowRecords
<1>. DEFINE r == [uid |-> flows[f].uid, at |-> flows[f].input, phase |-> "setting", client |-> flows[f].input]
<1>4. r \in EntryRecords /\ r # None
  BY <1>3, FlowsAssumption DEF EntryRecords, EntryPhases
<1>5. \A x \in Present : entries[x].uid # flows[f].uid /\ x # e
  BY <1>1, <1>2, <1>3, FlowsAssumption DEF CheckedIdStaysFree, Create, Present
<1>6. /\ entries' \in [Entry -> EntryRecords \union {None}] /\ entries'[e] = r
      /\ \A x \in Entry \ {e} : entries'[x] = entries[x]
  <2>1. entries' = [x \in Entry |-> CASE x = e -> r
                                      [] x \in Present /\ entries[x].uid = flows[f].uid -> None
                                      [] OTHER -> entries[x]]
    BY DEF Create
  <2>2. \A x \in Entry : entries[x] \in EntryRecords \union {None}
    BY <1>1 DEF FlowsTypeOK
  <2>. HIDE DEF r
  <2>3. entries'[e] = r
    <3>1. e \notin Present
      BY DEF Create, Present
    <3>. QED  BY <2>1, <3>1
  <2>4. ASSUME NEW x \in Entry, x # e
        PROVE  entries'[x] = entries[x]
    <3>1. CASE x \in Present
      <4>1. entries[x].uid # flows[f].uid
        BY <1>5, <3>1
      <4>. QED  BY <2>1, <2>4, <4>1
    <3>2. CASE x \notin Present
      BY <2>1, <2>4, <3>2
    <3>. QED  BY <3>1, <3>2
  <2>5. \A x \in Entry : entries'[x] \in EntryRecords \union {None}
    BY <1>4, <2>2, <2>3, <2>4
  <2>. QED  BY <2>1, <2>3, <2>4, <2>5
<1>7. /\ flows' \in [Flow -> FlowRecords \union {None}] /\ flows'[f] = None
      /\ \A g \in Flow \ {f} : flows'[g] = flows[g]
  BY <1>1, <1>2 DEF FlowsTypeOK
<1>8. Present' = Present \union {e}
  BY <1>4, <1>6 DEF Present
<1>9. r.uid = flows[f].uid /\ r.phase = "setting" /\ r.client = r.at
  OBVIOUS
<1>. HIDE DEF r
<1>10. FlowsTypeOK'
  BY <1>1, <1>2, <1>6, <1>7, <1>8 DEF FlowsTypeOK
<1>11. CheckedIdStaysFree'
  <2>. SUFFICES ASSUME NEW g \in Flow, flows'[g] # None, flows'[g].uid # None
                PROVE  /\ \A x \in Present' : entries'[x].uid # flows'[g].uid
                       /\ \A h \in Flow \ {g} : flows'[h] # None => flows'[h].uid # flows'[g].uid
    BY DEF CheckedIdStaysFree
  <2>1. g # f /\ flows'[g] = flows[g]
    BY <1>7
  <2>2. flows[f].uid # flows[g].uid
    BY <1>1, <1>2, <2>1 DEF CheckedIdStaysFree
  <2>. QED  BY <1>1, <1>6, <1>7, <1>8, <1>9, <2>1, <2>2 DEF CheckedIdStaysFree, Present
<1>12. ClientUnlessReload' /\ ServicesWhileLoaded'
  BY <1>1, <1>2, <1>6, <1>8, <1>9 DEF ClientUnlessReload, ServicesWhileLoaded, Present
<1>. QED  BY <1>10, <1>11, <1>12 DEF FlowInv

\* The flow asks for a reload of its own, so that the client need not follow
\* the change before it.
LEMMA ChangeKeeps ==
  ASSUME FlowInv, NEW f \in Flow, NEW others \in BOOLEAN, Change(f, others)
  PROVE  FlowInv'
<1>. DEFINE e == flows[f].entry
            r == [entries[e] EXCEPT !.at = flows[f].input]
<1>1. FlowsTypeOK /\ ServicesWhileLoaded
  BY DEF FlowInv
<1>2. /\ flows[f] # None /\ flows[f].step = "testing" /\ flows[f].kind \in {"reconfigure", "options"}
      /\ entries' = [entries EXCEPT ![e].at = flows[f].input]
      /\ flows' = [flows EXCEPT ![f] = None]
      /\ answering' = answering /\ services' = services
  BY DEF Change, Testing, Close
<1>3. e \in Present /\ flows[f].input \in Addr
  BY <1>1, <1>2 DEF FlowsTypeOK, FlowRecords
<1>4. e \in Entry /\ entries[e] \in EntryRecords
  BY <1>1, <1>3 DEF FlowsTypeOK, Present
<1>5. r \in EntryRecords /\ r.uid = entries[e].uid /\ r.phase = entries[e].phase
  BY <1>3, <1>4 DEF EntryRecords
<1>6. entries' = [entries EXCEPT ![e] = r]
  BY <1>1, <1>2, <1>4 DEF FlowsTypeOK
<1>7. /\ flows' \in [Flow -> FlowRecords \union {None}]
      /\ \A g \in Flow : flows'[g] = flows[g] \/ flows'[g] = None
  BY <1>1, <1>2 DEF FlowsTypeOK
<1>8. PICK X \in SUBSET (Flow \X {"listener", "flow"}) :
         <<f, "flow">> \in X /\ reloads' = [reloads EXCEPT ![e] = @ \union X]
  <2>1. \A changed \in BOOLEAN : /\ ReloadsAsked(f, e, changed) \in SUBSET (Flow \X {"listener", "flow"})
                                 /\ <<f, "flow">> \in ReloadsAsked(f, e, changed)
    BY DEF ReloadsAsked, Listened
  <2>2. (others \/ flows[f].input # entries[e].at) \in BOOLEAN
    OBVIOUS
  <2>. QED  BY <2>1, <2>2 DEF Change
<1>9. /\ reloads' \in [Entry -> SUBSET (Flow \X {"listener", "flow"})]
      /\ \A d \in Entry \ {e} : reloads'[d] = reloads[d]
      /\ reloads'[e] # {}
  BY <1>1, <1>4, <1>8 DEF FlowsTypeOK
<1>10. services \in BOOLEAN /\ (r.phase = "loaded" => services)
  BY <1>1, <1>3, <1>5 DEF FlowsTypeOK, ServicesWhileLoaded
<1>. HIDE DEF e, r
<1>. QED  BY <1>2, <1>3, <1>5, <1>6, <1>7, <1>9, <1>10, EntryStepKeeps

\* Set-up reads the address the entry names when it begins.
LEMMA BeginSetUpKeeps ==
  ASSUME FlowInv, NEW e \in Present, BeginSetUp(e), flows' = flows, answering' = answering,
         services' = services,
         reloads' \in [Entry -> SUBSET (Flow \X {"listener", "flow"})],
         \A d \in Entry \ {e} : reloads'[d] = reloads[d]
  PROVE  FlowInv'
<1>. DEFINE r == [entries[e] EXCEPT !.phase = "setting", !.client = entries[e].at]
<1>1. FlowsTypeOK
  BY DEF FlowInv
<1>2. e \in Entry /\ entries[e] \in EntryRecords
  BY <1>1 DEF FlowsTypeOK, Present
<1>3. r \in EntryRecords /\ r.uid = entries[e].uid /\ r.phase = "setting" /\ r.client = r.at
  BY <1>2 DEF EntryRecords, EntryPhases
<1>4. entries' = [entries EXCEPT ![e] = r]
  BY <1>1, <1>2 DEF BeginSetUp, FlowsTypeOK
<1>5. /\ flows' \in [Flow -> FlowRecords \union {None}]
      /\ \A g \in Flow : flows'[g] = flows[g] \/ flows'[g] = None
      /\ services' \in BOOLEAN
  BY <1>1 DEF FlowsTypeOK
<1>. HIDE DEF r
<1>. QED  BY <1>3, <1>4, <1>5, EntryStepKeeps

\* A step that takes an entry from one phase to the next.
LEMMA PhaseStepKeeps ==
  ASSUME FlowInv, NEW e \in Present, NEW to \in {"loaded", "unloading", "retry", "error"},
         entries' = [entries EXCEPT ![e].phase = to], flows' = flows, answering' = answering,
         reloads' \in [Entry -> SUBSET (Flow \X {"listener", "flow"})],
         \A d \in Entry \ {e} : reloads'[d] = reloads[d],
         to = "loaded" => entries[e].phase = "setting" /\ reloads' = reloads,
         services' \in BOOLEAN, services \/ to = "loaded" => services'
  PROVE  FlowInv'
<1>. DEFINE r == [entries[e] EXCEPT !.phase = to]
<1>1. FlowsTypeOK /\ ClientUnlessReload
  BY DEF FlowInv
<1>2. e \in Entry /\ entries[e] \in EntryRecords
  BY <1>1 DEF FlowsTypeOK, Present
<1>3. /\ r \in EntryRecords /\ r.uid = entries[e].uid /\ r.phase = to
      /\ r.client = entries[e].client /\ r.at = entries[e].at
  BY <1>2 DEF EntryRecords, EntryPhases
<1>4. entries' = [entries EXCEPT ![e] = r]
  BY <1>1, <1>2 DEF FlowsTypeOK
<1>5. /\ flows' \in [Flow -> FlowRecords \union {None}]
      /\ \A g \in Flow : flows'[g] = flows[g] \/ flows'[g] = None
  BY <1>1 DEF FlowsTypeOK
<1>. HIDE DEF r
<1>6. r.phase \in {"setting", "loaded"} /\ reloads'[e] = {} => r.client = r.at
  BY <1>1, <1>3 DEF ClientUnlessReload
<1>. QED  BY <1>3, <1>4, <1>5, <1>6, EntryStepKeeps

LEMMA EntryActionsKeep ==
  ASSUME FlowInv, NEW e \in Entry, Reload(e) \/ Unloaded(e) \/ SetUp(e) \/ Retry(e) \/ ReloadByHand(e)
  PROVE  FlowInv'
<1>1. /\ reloads \in [Entry -> SUBSET (Flow \X {"listener", "flow"})] /\ services \in BOOLEAN
      /\ e \in Present /\ flows' = flows /\ answering' = answering
  BY DEF FlowInv, FlowsTypeOK, Reload, Unloaded, SetUp, Retry, ReloadByHand
<1>2. CASE Reload(e)
  <2>1. /\ reloads' \in [Entry -> SUBSET (Flow \X {"listener", "flow"})]
        /\ \A d \in Entry \ {e} : reloads'[d] = reloads[d]
        /\ services' = services
    BY <1>1, <1>2 DEF Reload
  <2>2. CASE BeginSetUp(e)
    BY <1>1, <2>1, <2>2, BeginSetUpKeeps
  <2>3. CASE entries' = [entries EXCEPT ![e].phase = "unloading"]
    BY <1>1, <2>1, <2>3, PhaseStepKeeps
  <2>. QED  BY <1>2, <2>2, <2>3 DEF Reload
<1>3. CASE Unloaded(e)
  <2>1. BeginSetUp(e) /\ reloads' = reloads /\ services' = services
    <3>1. services' = (services /\ Present # {})
      BY <1>3 DEF Unloaded, UnregisterServices
    <3>2. Present # {}
      BY <1>1
    <3>3. services' = services
      BY <1>1, <3>1, <3>2
    <3>. QED  BY <1>3, <3>3 DEF Unloaded
  <2>. QED  BY <1>1, <2>1, BeginSetUpKeeps
<1>4. CASE SetUp(e)
  <2>1. entries[e].phase = "setting" /\ reloads' = reloads
    BY <1>4 DEF SetUp
  <2>2. CASE Moves(e, "loaded") /\ RegisterServices
    BY <1>1, <2>1, <2>2, PhaseStepKeeps DEF Moves, RegisterServices
  <2>3. ASSUME NEW to \in {"retry", "error"}, Moves(e, to), services' = services
        PROVE  FlowInv'
    BY <1>1, <2>1, <2>3, PhaseStepKeeps DEF Moves
  <2>. QED  BY <1>4, <2>2, <2>3 DEF SetUp
<1>5. CASE Retry(e) \/ ReloadByHand(e)
  <2>1. BeginSetUp(e) /\ reloads' = reloads /\ services' = services
    BY <1>5 DEF Retry, ReloadByHand
  <2>. QED  BY <1>1, <2>1, BeginSetUpKeeps
<1>. QED  BY <1>2, <1>3, <1>4, <1>5

\* Other entries keep the services while one of them is removed.
LEMMA RemoveKeeps ==
  ASSUME FlowInv, NEW e \in Entry, Remove(e)
  PROVE  FlowInv'
<1>1. FlowsTypeOK /\ CheckedIdStaysFree /\ ClientUnlessReload /\ ServicesWhileLoaded
  BY DEF FlowInv
<1>2. /\ e \in Present /\ \A f \in Flow : flows[f] # None => flows[f].entry # e
      /\ entries' = [entries EXCEPT ![e] = None] /\ reloads' = [reloads EXCEPT ![e] = {}]
      /\ answering' = answering /\ flows' = flows
  BY DEF Remove
<1>3. services' = services
  <2>1. CASE entries[e].phase = "loaded"
    <3>1. services' = (services /\ Present # {})
      BY <2>1 DEF Remove, UnregisterServices
    <3>. QED  BY <1>1, <1>2, <3>1 DEF FlowsTypeOK
  <2>2. CASE entries[e].phase # "loaded"
    BY <2>2 DEF Remove
  <2>. QED  BY <2>1, <2>2
<1>4. /\ entries' \in [Entry -> EntryRecords \union {None}] /\ entries'[e] = None
      /\ \A d \in Entry \ {e} : entries'[d] = entries[d] /\ reloads'[d] = reloads[d]
      /\ reloads' \in [Entry -> SUBSET (Flow \X {"listener", "flow"})]
  BY <1>1, <1>2 DEF FlowsTypeOK
<1>5. Present' = Present \ {e}
  BY <1>4 DEF Present
<1>6. FlowsTypeOK'
  BY <1>1, <1>2, <1>3, <1>4, <1>5 DEF FlowsTypeOK
<1>7. CheckedIdStaysFree'
  BY <1>1, <1>2, <1>4, <1>5 DEF CheckedIdStaysFree, Present
<1>8. ClientUnlessReload' /\ ServicesWhileLoaded'
  BY <1>1, <1>3, <1>4, <1>5 DEF ClientUnlessReload, ServicesWhileLoaded, Present
<1>. QED  BY <1>6, <1>7, <1>8 DEF FlowInv

LEMMA AroundFlowsKeeps ==
  ASSUME FlowInv, (\E a \in Addr : AddressChanges(a)) \/ UNCHANGED flowVars
  PROVE  FlowInv'
<1>1. /\ entries' = entries /\ flows' = flows /\ reloads' = reloads /\ services' = services
      /\ Present' = Present
  BY DEF AddressChanges, flowVars, Present
<1>2. answering' \subseteq Addr
  BY DEF AddressChanges, flowVars, FlowInv, FlowsTypeOK
<1>. QED  BY <1>1, <1>2 DEF FlowInv, FlowsTypeOK, CheckedIdStaysFree, ClientUnlessReload, ServicesWhileLoaded

\* For any number of databases, entries and open flows, however they overlap
\* with set-ups, reloads and removals: an entry keeps its id, a client for the
\* address it names, and the services while it runs.
THEOREM EntriesAlwaysKeepTheirOwn == FlowsSpec => []EntriesKeepTheirOwn
<1>1. FlowsInit => FlowInv
  BY FlowsStart
<1>2. FlowInv /\ [FlowsNext]_flowVars => FlowInv'
  BY FlowActionsKeep, CreateKeeps, ChangeKeeps, EntryActionsKeep, RemoveKeeps, AroundFlowsKeeps
  DEF FlowsNext
<1>3. FlowInv => EntriesKeepTheirOwn
  BY DEF FlowInv, EntriesKeepTheirOwn, ClientUnlessReload, ClientFollowsEntry
<1>. QED  BY <1>1, <1>2, <1>3, PTL DEF FlowsSpec
=============================================================================
