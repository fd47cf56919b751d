---------------------------- MODULE RegistrySync ----------------------------
(***************************************************************************)
(* Floors, areas, devices and entities, and the edges between them: how    *)
(* the graph follows Home Assistant's registries through registry events   *)
(* (one queued update per element), the retry of failed updates, resync    *)
(* and rebuild.  The registries change at any moment; an operation reads   *)
(* one of them when its turn comes and writes what it read call by call.   *)
(* An edge is only merged where both of its nodes are there.               *)
(*                                                                         *)
(* What an entity's state has to do with it is in EntitySync.  Labels,     *)
(* domains and integrations, which are merged like areas, are left out.    *)
(***************************************************************************)
EXTENDS Integers, Sequences, FiniteSets, SequencesExt

CONSTANTS Floors, Areas, Devices, Entities,
          MaxChanges,    \* bound: registry changes
          MaxSyncs,      \* bound: full synchronizations
          MaxRetries,    \* bound: rounds of the retry
          MaxFailures    \* bound: operations that fail

Elements == Floors \cup Areas \cup Devices \cup Entities

\* What may contain an element directly, and so what its node has edges from.
Above(x) == IF x \in Entities THEN Areas \cup Devices
            ELSE IF x \in Devices THEN Areas
            ELSE IF x \in Areas THEN Floors ELSE {}

Layers == <<Floors, Areas, Devices, Entities>>

ASSUME RegistryAssumption ==
    /\ IsFiniteSet(Elements) /\ Elements \cap {"resync", "rebuild", "none"} = {}
    /\ \A i, j \in 1..4 : i # j => Layers[i] \cap Layers[j] = {}
    /\ MaxChanges \in Nat /\ MaxSyncs \in Nat /\ MaxRetries \in Nat /\ MaxFailures \in Nat

VARIABLES
    exists,     \* registry entries
    parents,    \* per element, what its entry names: a floor; an area; an area and a device
    changes,    \* registry changes so far (bound)
    nodes,      \* nodes of the graph
    edges,      \* its edges, <<above, below>>
    queue,      \* operations waiting for the lock: an element to update, or a full sync
    job,        \* the operation that holds the lock
    step,       \* its next graph call
    layer,      \* of a full sync: what it is collecting
    batch,      \* the elements it is writing
    seen,       \* their parents, as it read them
    failed,     \* state.failed_updates
    retrying,   \* what a round of the retry has still to ask for
    rounds,     \* such rounds so far (bound)
    suspect,    \* history: elements with a failed update since the last full sync
    broken,     \* history: the last full sync that ended failed
    exact,      \* history: did anything change since the last rebuild began?
    syncs,      \* full synchronizations so far (bound)
    failures    \* failures so far (bound)

haVars    == <<exists, parents, changes>>
graphVars == <<nodes, edges>>
jobVars   == <<job, step, layer, batch, seen>>
history   == <<suspect, broken, exact>>
retryVars == <<retrying, rounds>>
registryVars == <<haVars, graphVars, queue, jobVars, failed, retryVars, history, syncs, failures>>

FullSyncs == {"resync", "rebuild"}

NoParents == [x \in Elements |-> {}]

\* At most one of each layer.
Places ==
    [x \in Elements |-> {P \in SUBSET Above(x) : \A i \in 1..4 : Cardinality(P \cap Layers[i]) <= 1}]

\* The edges the registries call for.
Required == {e \in Elements \X Elements : e[2] \in exists /\ e[1] \in parents[e[2]]}

\* Right after a rebuild, whatever the registries hold.
RegistryInit ==
    /\ exists \in SUBSET Elements
    /\ parents \in [Elements -> UNION {Places[x] : x \in Elements}]
    /\ \A x \in Elements :
          parents[x] \in Places[x] /\ parents[x] \subseteq exists
              /\ (x \notin exists => parents[x] = {})
    /\ changes = 0
    /\ nodes = exists
    /\ edges = Required
    /\ queue = <<>>
    /\ job = "none"
    /\ step = "idle"
    /\ layer = 0
    /\ batch = {}
    /\ seen = NoParents
    /\ failed = {}
    /\ retrying = {}
    /\ rounds = 0
    /\ suspect = {}
    /\ broken = FALSE
    /\ exact = "yes"
    /\ syncs = 0
    /\ failures = 0

-----------------------------------------------------------------------------
(* Home Assistant *)

Below(x) == {y \in exists : x \in parents[y]}

\* A registry event creates a task, which waits for the lock.  Floors have no
\* listener.
Announce(x, others) == queue' = queue \o (IF x \in Floors THEN others ELSE <<x>> \o others)

Changed ==
    /\ changes < MaxChanges
    /\ changes' = changes + 1
    /\ exact' = "no"
    /\ UNCHANGED <<graphVars, jobVars, failed, suspect, broken, syncs, failures>>

Register(x) ==
    /\ x \notin exists
    /\ exists' = exists \cup {x}
    /\ Announce(x, <<>>)
    /\ Changed
    /\ UNCHANGED parents

\* Registries clear the references to what is removed, inside the event, in
\* any order.
Unregister(x) ==
    /\ x \in exists
    /\ exists' = exists \ {x}
    /\ parents' = [y \in Elements |-> IF y = x THEN {} ELSE parents[y] \ {x}]
    /\ \E q \in SetToSeqs(Below(x)) : Announce(x, q)
    /\ Changed

Move(x, P) ==
    /\ x \in exists
    /\ P \subseteq exists
    /\ P # parents[x]
    /\ parents' = [parents EXCEPT ![x] = P]
    /\ Announce(x, <<>>)
    /\ Changed
    /\ UNCHANGED exists

-----------------------------------------------------------------------------
(* Operations are requested *)

\* ontology.resync and ontology.rebuild; OpLock has the rule for the slot.
RequestSync(k) ==
    /\ syncs < MaxSyncs
    /\ syncs' = syncs + 1
    /\ queue' = Append(queue, k)
    /\ UNCHANGED <<haVars, graphVars, jobVars, failed, history, failures>>

\* The timer finds the list not empty, and async_retry_failed_updates copies it,
\* whether or not an earlier round is through with its copy.
BeginRetries ==
    /\ failed # {}
    /\ rounds < MaxRetries
    /\ rounds' = rounds + 1
    /\ retrying' = retrying \cup failed
    /\ UNCHANGED <<haVars, graphVars, queue, jobVars, failed, history, syncs, failures>>

\* An element of the copy goes through the handler of its events, although its
\* update may be waiting, or have succeeded, since the copy was made.
Retry(x) ==
    /\ x \in retrying \ Floors
    /\ queue' = Append(queue, x)
    /\ retrying' = retrying \ {x}
    /\ UNCHANGED <<haVars, graphVars, jobVars, failed, history, rounds, syncs, failures>>

-----------------------------------------------------------------------------
(* The operation that holds the lock *)

Work(s, i, S) ==
    /\ step' = s
    /\ layer' = i
    /\ batch' = S
    /\ seen' = parents

LayerOf(x) == CHOOSE i \in 1..4 : x \in Layers[i]

\* update_area, update_device, update_entity: what they do is decided by what
\* the registry holds when they get the lock.  An entity that has left the
\* registry keeps its node while its state is still there, and no edge of it is
\* looked at.
TakeUpdate ==
    /\ job = "none"
    /\ queue # <<>>
    /\ Head(queue) \in Elements
    /\ LET x == Head(queue) IN
          /\ job' = x
          /\ \/ x \in exists /\ Work("nodes", LayerOf(x), {x})
             \/ x \notin exists /\ Work("delete", LayerOf(x), {x})
             \/ x \in Entities \ exists /\ Work("stateNode", 4, {x})
    /\ queue' = Tail(queue)
    /\ UNCHANGED <<haVars, graphVars, failed, history, syncs, failures>>

\* Seeded fault: a rebuild does not clear.
FirstStepMerge(k) == "collect"

FirstStep(k) == IF k = "rebuild" THEN "delete" ELSE "collect"

TakeSync ==
    /\ job = "none"
    /\ queue # <<>>
    /\ Head(queue) \in FullSyncs
    /\ job' = Head(queue)
    /\ queue' = Tail(queue)
    /\ Work(FirstStep(Head(queue)), 0, Elements)
    /\ exact' = IF Head(queue) = "rebuild" THEN "maybe" ELSE exact
    /\ UNCHANGED <<haVars, graphVars, failed, suspect, broken, syncs, failures>>

WriteNodes(S) == nodes' = nodes \cup S /\ UNCHANGED edges

\* MATCH of both ends, then MERGE: a pair with an end that is not there is
\* skipped without an error.
Link(S, above) ==
    /\ edges' = edges \cup {e \in above \X S : e[1] \in seen[e[2]] /\ {e[1], e[2]} \subseteq nodes}
    /\ UNCHANGED nodes

\* The area edges of entities, before they are written again.
Unlink(S) ==
    /\ edges' = {e \in edges : ~ (e[1] \in Areas /\ e[2] \in S)}
    /\ UNCHANGED nodes

\* Seeded fault: the edges stay.
DetachNot(S) == nodes' = nodes \ S /\ edges' = edges

\* DETACH DELETE
Detach(S) ==
    /\ nodes' = nodes \ S
    /\ edges' = {e \in edges : e[1] \notin S /\ e[2] \notin S}

\* What the call at hand does to the elements S of the batch.
Effect(S) ==
    \/ step \in {"nodes", "stateNode"} /\ WriteNodes(S)
    \/ step = "owner"  /\ Link(S, Devices)
    \/ step = "unlink" /\ Unlink(S)
    \/ step = "place"  /\ Link(S, Floors \cup Areas)
    \/ step = "delete" /\ Detach(S)
    \/ step \in {"collect", "finish"} /\ UNCHANGED graphVars

EndJob ==
    /\ job' = "none"
    /\ step' = "idle"
    /\ layer' = 0
    /\ batch' = {}
    /\ seen' = NoParents

\* The calls for one batch, in their order.
Following ==
    [nodes |-> IF layer = 4 THEN "owner" ELSE "place", owner |-> "unlink", unlink |-> "place"]

\* A call in the middle of a batch.
Proceed ==
    /\ step \in {"nodes", "owner", "unlink"}
    /\ Effect(batch)
    /\ step' = Following[step]
    /\ UNCHANGED <<haVars, queue, job, layer, batch, seen, failed, history, syncs, failures>>

\* The last call of a batch of build_full_graph; the next collector reads its
\* registry in the same step.
Collect ==
    /\ job \in FullSyncs
    /\ step \in {"delete", "collect", "place"}
    /\ Effect(batch)
    /\ job' = job
    /\ IF layer < 4 THEN Work("nodes", layer + 1, exists \cap Layers[layer + 1])
                    ELSE Work("finish", 4, {})
    /\ UNCHANGED <<haVars, queue, failed, history, syncs, failures>>

UpdateDone ==
    /\ job \in Elements
    /\ step \in {"place", "stateNode", "delete"}
    /\ Effect(batch)
    /\ EndJob
    /\ failed' = failed \ {job}
    /\ UNCHANGED <<haVars, queue, history, syncs, failures>>

SyncDone ==
    /\ step = "finish"
    /\ EndJob
    /\ suspect' = {}
    /\ broken' = FALSE
    /\ exact' = IF exact = "maybe" THEN "yes" ELSE exact
    /\ UNCHANGED <<haVars, graphVars, queue, failed, syncs, failures>>

\* Seeded fault: the failure of an update is logged only.
TrackNothing == failed' = failed /\ UNCHANGED <<suspect, broken, exact>>

\* A failed update goes to failed_updates; a full sync leaves its error only.
Track ==
    IF job \in FullSyncs
    THEN broken' = TRUE /\ exact' = "no" /\ UNCHANGED <<failed, suspect>>
    ELSE failed' = failed \cup {job} /\ suspect' = suspect \cup {job} /\ UNCHANGED <<broken, exact>>

\* The call at hand fails after its retries, with part of its chunks written,
\* or with its answer lost.
Fail ==
    /\ job # "none"
    /\ failures < MaxFailures
    /\ failures' = failures + 1
    /\ \E S \in SUBSET batch : (step = "delete" => S \in {{}, batch}) /\ Effect(S)
    /\ Track
    /\ EndJob
    /\ UNCHANGED <<haVars, queue, syncs>>

\* What happens apart from the retry.
RegistryWork ==
    \/ \E x \in Elements : Register(x) \/ Unregister(x) \/ \E P \in Places[x] : Move(x, P)
    \/ \E k \in FullSyncs : RequestSync(k)
    \/ TakeUpdate
    \/ TakeSync
    \/ Proceed
    \/ Collect
    \/ UpdateDone
    \/ SyncDone
    \/ Fail

RegistryNext ==
    \/ RegistryWork /\ UNCHANGED retryVars
    \/ BeginRetries
    \/ \E x \in Elements : Retry(x)

RegistrySpec == RegistryInit /\ [][RegistryNext]_registryVars

-----------------------------------------------------------------------------
(* Properties *)

RegistryTypeOK ==
    /\ exists \subseteq Elements
    /\ parents \in [Elements -> SUBSET Elements]
    /\ changes \in 0..MaxChanges
    /\ nodes \subseteq Elements
    /\ edges \subseteq nodes \X nodes
    /\ queue \in Seq(Elements \cup FullSyncs)
    /\ job \in Elements \cup FullSyncs \cup {"none"}
    /\ step \in {"idle", "delete", "collect", "nodes", "stateNode", "owner", "unlink",
                 "place", "finish"}
    /\ layer \in 0..4
    /\ batch \subseteq Elements
    /\ seen \in [Elements -> SUBSET Elements]
    /\ failed \subseteq Elements
    /\ suspect \subseteq Elements
    /\ broken \in BOOLEAN
    /\ exact \in {"yes", "maybe", "no"}
    /\ syncs \in 0..MaxSyncs
    /\ failures \in 0..MaxFailures

RetryTypeOK == retrying \subseteq Elements /\ rounds \in 0..MaxRetries

Quiet == job = "none" /\ queue = <<>>

\* 001 FR-015, FR-020: once every announced change was handled, areas and
\* devices have nodes exactly if they exist, and every containment the
\* registries call for is in the graph, in whatever order changes, updates,
\* retries and full syncs came.  Exempt is what is on the list of failed
\* updates, and the edges of an element whose own update failed once: an
\* update that finds the other end missing skips the edge for good.  A
\* registered entity has no edge from an area it is no longer in.
QuietGraphMirrors ==
    Quiet /\ ~ broken =>
        /\ \A x \in (Areas \cup Devices) \ failed : x \in nodes <=> x \in exists
        /\ \A e \in Required :
              e[1] \in nodes \ suspect /\ e[2] \notin failed => e \in edges
        /\ \A e \in edges :
              e[1] \in Areas /\ e[2] \in (Entities \cap exists) \ failed => e \in Required

\* A rebuild during which the registries stood still, and after which they
\* did, leaves the registries' edges and no others, whatever was still queued
\* when it ran, or is retried after it.
RebuildIsExact ==
    exact = "yes" =>
        /\ edges \subseteq Required
        /\ job = "none" => \A e \in Required \ edges : e[2] \in failed

\* The graph mirrors the registries after a full sync as after single updates.
RegistryIsMirrored == RegistryTypeOK /\ RetryTypeOK /\ QuietGraphMirrors /\ RebuildIsExact
=============================================================================
