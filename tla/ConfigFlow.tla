------------------------------ MODULE ConfigFlow ------------------------------
(***************************************************************************)
(* The flows that create and change config entries (config_flow.py), and   *)
(* what becomes of a change: Home Assistant reloads the entry, from the    *)
(* listener the entry registers and because the flow asks, and set-up      *)
(* connects to what the entry then says.                                   *)
(*                                                                         *)
(* A flow submits an address (host and port), which is tried before it is  *)
(* kept.  What Home Assistant does with a flow, an entry and its set-up    *)
(* lock is external.  Set-up finds no other schema version here and an     *)
(* unload succeeds: EntryLifecycle has the cases where they do not.        *)
(***************************************************************************)
EXTENDS Naturals

CONSTANTS Addr,  \* bound: the addresses of databases
          Entry, \* bound: the config entries there can be
          Flow,  \* bound: the flows that are open at a time
          None

VARIABLES answering, \* the addresses that answer and accept the credentials
          entries,   \* the entries there are: what they say and how they run
          flows,     \* the open flows
          reloads,   \* per entry, the reloads that wait for its set-up lock
          services   \* are the services of the integration registered?

flowVars == <<answering, entries, flows, reloads, services>>

FlowKinds == {"user", "hassio", "reconfigure", "options"}

EntryPhases == {"setting", "loaded", "unloading", "retry", "error"}

EntryRecords == [uid : Addr, at : Addr, phase : EntryPhases, client : Addr]

FlowRecords ==
    [kind : FlowKinds, entry : Entry \union {None}, uid : Addr \union {None},
     step : {"form", "testing"}, input : Addr \union {None}]

\* What is assumed of the constants: None is nothing else.
ASSUME FlowsAssumption == None \notin Addr \union Entry \union EntryRecords \union FlowRecords

Present == {e \in Entry : entries[e] # None}

FlowsInit ==
    /\ answering \in SUBSET Addr
    /\ entries = [e \in Entry |-> None]
    /\ flows = [f \in Flow |-> None]
    /\ reloads = [e \in Entry |-> {}]
    /\ services = FALSE

-----------------------------------------------------------------------------
(* Unique ids: host and port, as they were when the flow looked at them.     *)

InProgress(f, a) == \E g \in Flow \ {f} : flows[g] # None /\ flows[g].uid = a

\* Seeded fault: what is configured is not looked at.
ConfiguredNever(a) == FALSE

Configured(a) == \E e \in Present : entries[e].uid = a

Open(f, kind, e, uid, step, input) ==
    flows' = [flows EXCEPT ![f] =
        [kind |-> kind, entry |-> e, uid |-> uid, step |-> step, input |-> input]]

Close(f) == flows' = [flows EXCEPT ![f] = None]

\* A slot of the bound Flow is used again when no reload of its last flow waits.
Free(f) ==
    /\ flows[f] = None
    /\ \A e \in Entry : \A r \in reloads[e] : r[1] # f

StartUser(f) ==
    /\ Free(f)
    /\ Open(f, "user", None, None, "form", None)
    /\ UNCHANGED <<answering, entries, reloads, services>>

SubmitUser(f, a) ==
    /\ flows[f] # None /\ flows[f].kind = "user" /\ flows[f].step = "form"
    /\ IF InProgress(f, a) \/ Configured(a)
       THEN Close(f)
       ELSE Open(f, "user", None, a, "testing", a)
    /\ UNCHANGED <<answering, entries, reloads, services>>

\* The add-on announces itself through the Supervisor.
Discover(f, a) ==
    /\ Free(f)
    /\ ~InProgress(f, a) /\ ~Configured(a)
    /\ Open(f, "hassio", None, a, "form", None)
    /\ UNCHANGED <<answering, entries, reloads, services>>

\* Seeded fault: what the user submits is not merged into what was discovered.
SubmitNothing(f, a) ==
    /\ flows[f] # None /\ flows[f].kind = "hassio" /\ flows[f].step = "form"
    /\ Open(f, "hassio", None, flows[f].uid, "testing", None)
    /\ UNCHANGED <<answering, entries, reloads, services>>

\* The user may have changed the address that was discovered.
SubmitConfirm(f, a) ==
    /\ flows[f] # None /\ flows[f].kind = "hassio" /\ flows[f].step = "form"
    /\ Open(f, "hassio", None, flows[f].uid, "testing", a)
    /\ UNCHANGED <<answering, entries, reloads, services>>

StartChange(f, e, kind) ==
    /\ Free(f)
    /\ e \in Present
    /\ Open(f, kind, e, None, "form", None)
    /\ UNCHANGED <<answering, entries, reloads, services>>

SubmitChange(f, a) ==
    /\ flows[f] # None /\ flows[f].step = "form"
    /\ flows[f].kind \in {"reconfigure", "options"}
    /\ Open(f, flows[f].kind, flows[f].entry, None, "testing", a)
    /\ UNCHANGED <<answering, entries, reloads, services>>

GiveUp(f) ==
    /\ flows[f] # None /\ flows[f].step = "form"
    /\ Close(f)
    /\ UNCHANGED <<answering, entries, reloads, services>>

-----------------------------------------------------------------------------
(* The connection was tried.                                                 *)

Testing(f) == flows[f] # None /\ flows[f].step = "testing"

Refused(f) ==
    /\ Testing(f)
    /\ flows[f].input \notin answering
    /\ flows' = [flows EXCEPT ![f].step = "form", ![f].input = None]
    /\ UNCHANGED <<answering, entries, reloads, services>>

\* The entry is created, takes the place of one with its id, and is set up.
Create(f, e) ==
    /\ Testing(f)
    /\ flows[f].kind \in {"user", "hassio"}
    /\ flows[f].input \in answering
    /\ entries[e] = None
    /\ reloads[e] = {}
    /\ entries' = [x \in Entry |->
           CASE x = e -> [uid |-> flows[f].uid, at |-> flows[f].input,
                          phase |-> "setting", client |-> flows[f].input]
             [] x \in Present /\ entries[x].uid = flows[f].uid -> None
             [] OTHER -> entries[x]]
    /\ Close(f)
    /\ UNCHANGED <<answering, reloads, services>>

\* An entry that is loaded listens for changes and asks for a reload.
Listened(f, e) == IF entries[e].phase = "loaded" THEN {<<f, "listener">>} ELSE {}

\* Seeded fault: the flow leaves the reload to the listener.
ReloadsByListener(f, e, changed) == IF changed THEN Listened(f, e) ELSE {}

\* The reloads a kept change asks for: the listener's if anything changed, and
\* the flow's own.
ReloadsAsked(f, e, changed) ==
    (IF changed THEN Listened(f, e) ELSE {}) \union {<<f, "flow">>}

\* Both flows that change an entry replace its data, and the options flow its
\* options; neither touches its unique id.
Change(f, others) ==
    LET e == flows[f].entry
        a == flows[f].input
    IN  /\ Testing(f)
        /\ flows[f].kind \in {"reconfigure", "options"}
        /\ a \in answering
        /\ entries' = [entries EXCEPT ![e].at = a]
        /\ reloads' = [reloads EXCEPT ![e] =
               @ \union ReloadsAsked(f, e, others \/ a # entries[e].at)]
        /\ Close(f)
        /\ UNCHANGED <<answering, services>>

-----------------------------------------------------------------------------
(* Reload, set-up and removal, one at a time for an entry.                   *)

RegisterServices == services' = TRUE

\* Seeded fault: every unload takes the services away.
UnregisterAlways == services' = FALSE

\* While the last entry unloads it is still among the entries.
UnregisterServices == services' = (services /\ Present # {})

\* Seeded fault: the client is kept from one set-up to the next.
BeginWithClient(e) == entries' = [entries EXCEPT ![e].phase = "setting"]

\* Set-up reads the entry when it begins.
BeginSetUp(e) == entries' = [entries EXCEPT ![e].phase = "setting", ![e].client = entries[e].at]

Reload(e) ==
    /\ e \in Present
    /\ \E r \in reloads[e] : reloads' = [reloads EXCEPT ![e] = @ \ {r}]
    /\ \/ /\ entries[e].phase = "loaded"
          /\ entries' = [entries EXCEPT ![e].phase = "unloading"]
       \/ entries[e].phase \in {"retry", "error"} /\ BeginSetUp(e)
    /\ UNCHANGED <<answering, flows, services>>

Unloaded(e) ==
    /\ e \in Present
    /\ entries[e].phase = "unloading"
    /\ UnregisterServices
    /\ BeginSetUp(e)
    /\ UNCHANGED <<answering, flows, reloads>>

Moves(e, phase) == entries' = [entries EXCEPT ![e].phase = phase]

Answers(e) == entries[e].client \in answering

\* A database that is gone by the end was gone when the connection was tested:
\* ConfigEntryNotReady, and Home Assistant will try again.  Or it went between that
\* and the migration of the schema: an error nobody catches, and nobody tries again.
SetUp(e) ==
    /\ e \in Present
    /\ entries[e].phase = "setting"
    /\ \/ Answers(e) /\ Moves(e, "loaded") /\ RegisterServices
       \/ ~Answers(e) /\ Moves(e, "retry") /\ UNCHANGED services
       \/ ~Answers(e) /\ Moves(e, "error") /\ UNCHANGED services
    /\ UNCHANGED <<answering, flows, reloads>>

Retry(e) ==
    /\ e \in Present
    /\ entries[e].phase = "retry"
    /\ BeginSetUp(e)
    /\ UNCHANGED <<answering, flows, reloads, services>>

\* The user reloads an entry that was given up.
ReloadByHand(e) ==
    /\ e \in Present
    /\ entries[e].phase = "error"
    /\ BeginSetUp(e)
    /\ UNCHANGED <<answering, flows, reloads, services>>

\* The user removes an entry that no flow is about.  Reloads of it find nothing.
Remove(e) ==
    /\ e \in Present
    /\ entries[e].phase \in {"loaded", "retry", "error"}
    /\ \A f \in Flow : flows[f] # None => flows[f].entry # e
    /\ IF entries[e].phase = "loaded" THEN UnregisterServices ELSE UNCHANGED services
    /\ entries' = [entries EXCEPT ![e] = None]
    /\ reloads' = [reloads EXCEPT ![e] = {}]
    /\ UNCHANGED <<answering, flows>>

AddressChanges(a) ==
    /\ answering' = (answering \ {a}) \union ({a} \ answering)
    /\ UNCHANGED <<entries, flows, reloads, services>>

FlowsNext ==
    \/ \E f \in Flow :
           \/ StartUser(f)
           \/ GiveUp(f)
           \/ Refused(f)
           \/ \E a \in Addr : SubmitUser(f, a) \/ Discover(f, a) \/ SubmitConfirm(f, a) \/ SubmitChange(f, a)
           \/ \E e \in Entry : Create(f, e)
           \/ \E e \in Entry, kind \in {"reconfigure", "options"} : StartChange(f, e, kind)
           \/ \E others \in BOOLEAN : Change(f, others)
    \/ \E e \in Entry :
           Reload(e) \/ Unloaded(e) \/ SetUp(e) \/ Retry(e) \/ ReloadByHand(e) \/ Remove(e)
    \/ \E a \in Addr : AddressChanges(a)

\* Home Assistant gets round to every reload, set-up and retry; nobody need reload
\* by hand.
FlowsSpec ==
    /\ FlowsInit /\ [][FlowsNext]_flowVars
    /\ \A e \in Entry :
           WF_flowVars(Reload(e)) /\ WF_flowVars(Unloaded(e)) /\ WF_flowVars(SetUp(e)) /\ WF_flowVars(Retry(e))

-----------------------------------------------------------------------------
\* Flows, entries and waiting reloads are of the kinds the code knows, a flow
\* that is tried has an address, one that creates an entry has its id, and one
\* that changes an entry has its entry.
FlowsTypeOK ==
    /\ answering \subseteq Addr
    /\ entries \in [Entry -> EntryRecords \union {None}]
    /\ flows \in [Flow -> FlowRecords \union {None}]
    /\ \A f \in Flow : flows[f] # None =>
           /\ flows[f].step = "testing" => flows[f].input # None
           /\ flows[f].kind \in {"reconfigure", "options"} =>
                  flows[f].entry \in Present /\ flows[f].uid = None
           /\ flows[f].kind = "hassio" \/ (flows[f].step = "testing" /\ flows[f].kind = "user") =>
                  flows[f].uid # None
    /\ reloads \in [Entry -> SUBSET (Flow \X {"listener", "flow"})]
    /\ services \in BOOLEAN

\* What async_set_unique_id and _abort_if_unique_id_configured found is still
\* true when the connection has been tried and the form corrected any number
\* of times: nothing has the id of an open flow, so no entry is replaced.
CheckedIdStaysFree ==
    \A f \in Flow : flows[f] # None /\ flows[f].uid # None =>
        /\ \A e \in Present : entries[e].uid # flows[f].uid
        /\ \A g \in Flow \ {f} : flows[g] # None => flows[g].uid # flows[f].uid

\* A loaded entry for which no reload waits runs on what the entry says,
\* whenever a flow changed it: while it was loaded, set up or waiting to retry.
ClientFollowsEntry ==
    \A e \in Present : entries[e].phase = "loaded" /\ reloads[e] = {} =>
        entries[e].client = entries[e].at

\* An entry that is loaded can be called, whatever happens to the others.
ServicesWhileLoaded ==
    \A e \in Present : entries[e].phase = "loaded" => services

\* When the databases answer for good and nobody changes anything any more, every
\* change has reached the set-up of its entry: the entry is loaded on the database
\* it names, or the last set-up for that very database found it gone half-way and
\* was given up, which only a user or a restart undoes.
ChangesTakeEffect ==
    <>[](answering = Addr /\ \A f \in Flow : flows[f] = None) =>
        <>[](\A e \in Present :
                entries[e].phase \in {"loaded", "error"} /\ entries[e].client = entries[e].at)

\* However flows, set-ups and reloads overlap, an entry keeps what is its own:
\* its id, a client for the address it names, and the services while it runs.
EntriesKeepTheirOwn == FlowsTypeOK /\ CheckedIdStaysFree /\ ClientFollowsEntry /\ ServicesWhileLoaded
=============================================================================
