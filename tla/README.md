# Ontology for Home Assistant: TLA+ models, checks and proofs

`custom_components/ontology` mirrors Home Assistant's registries and states
into a Memgraph graph, keeps that graph in step with Home Assistant, lets users
add facts of their own to it, and shows it in a browser panel. This directory
holds TLA+ models of the parts whose correctness depends on order, failure and
concurrency, the TLC configurations that check them, and proofs of their main
invariants.

File and line references are to the repository; `specs/00x` are its own
specification documents.

## 1. The system

### 1.1 Components

| Component | Code | State it keeps | Operations | Talks to |
|---|---|---|---|---|
| Operation serialization | `coordinator.py` 385-431 | `asyncio.Lock`, `_waiting` | `_run_serialized`, `_run_incremental`, `async_run_operation` | wraps every operation below |
| Incremental sync | `event_listener.py`, `coordinator.py` 474-668, 807-902, `graph_builder.py` 776-855 | debounce window and timer, `failed_updates`, Entity nodes | state and registry events, batch, entity sync, retry sweep | HA events in; graph and change buffer out |
| Full sync, overrides, classification | `coordinator.py` 433-472, 764-805, `graph_builder.py`, `overrides.py`, `semantic_classifier.py` | generated, inferred and user nodes and edges; exported payload in memory | rebuild, resync, semantic refresh, import, export | graph, change buffer |
| Change buffer and live subscription | `coordinator.py` 70-203, `websocket_api.py` 440-557 | revision, bounded buffer, subscribers; per subscription a window and timers | publish, `events_since`, subscribe, flush | coordinator in, panel out |
| Explorer panel | `panel/*.js` | snapshot, 3D graph, subscription, selection, details, timers | load, reconnect, live event, select, expand, search | WebSocket commands |
| Config entry, health, schema gate, repair issues | `__init__.py`, `memgraph_client.py`, `schema_migrations.py`, `repairs.py` | entry state, driver, runtime, `consecutive_failures`, two repair issues, schema node | set-up, migrate, unload, reload, record success or failure | HA core, Memgraph |
| Energy roles | `user_knowledge.py`, `semantic_classifier.py` 240-271 | user and inferred assignments, their bindings | set, delete, reconcile, repair | runs inside every sync |
| Device and area registry sync | `event_listener.py` 144-189, `graph_builder.py` 260-429, 530-538, 776-855 | Floor, Area, Device and Entity nodes, the edges between them | registry events, retry, resync, rebuild | HA registries in, graph out |
| Validation | `validation.py`, `coordinator.py` 670-694 | findings: open, resolved, gone; the counts last reported | validate | registries and graph in, findings and sensor out |
| Zigbee mesh scan | `mesh_sync.py`, `mesh_geometry.py` | snapshots and links | scan, prune | MQTT, graph |
| Agent access and audit | `mcp_server.py`, `agent_audit.py`, `intent_handlers.py` 87-157 | a token, an option, one stored list of records | check, serve, append, prune, replace the token | agents in, query tools, Home Assistant's store |
| Spatial layout | `spatial_sync.py`, `validation.py` 220-247 | walls and pins in the graph | sync, two checks | spatial_context in, graph |
| Dashboards | `dashboard_sync.py` | cards and what they display | the last part of a full sync | Lovelace in, graph |
| Activity counters | `coordinator.py` 317-376 | three rings of per-minute counters | record, roll, publish | sensor |
| Read-only queries | `query_tools.py`, `impact_analysis.py`, `context_export.py`, `websocket_api.py` 290-403 | none; each question is several graph queries | contexts, resolution, impact, exports, batteries, consumers, mesh | graph, without the lock |
| Measurements | `graph_builder.py` 88-132, 435-516 | normalised properties of Entity nodes | normalise, with every entity write | the queries above |
| Mesh geometry | `mesh_geometry.py` | none | walls and slabs between two pins | mesh queries |
| Config flow | `config_flow.py`, `__init__.py` 401-420, 810-976 | open flows, entries, registered services | create, reconfigure, options, reload | HA core, Memgraph |
| Gateway and add-on | `graph_gateway.py`, `graph_backends.py`, `memgraph_addon/` | which backend, whether it answered last | snapshot, search, expand, detail | WebSocket commands in, Memgraph |
| Other front ends | `intent_handlers.py`, `lab_access.py`, `sensor.py`, `button.py`, `diagnostics.py` | a cached answer | - | the above |

### 1.2 How they interact

Home Assistant runs one event loop. A handler runs without interruption until
it awaits; whatever it read before may be stale afterwards. Events start tasks
that nobody waits for and nobody cancels, not even when the entry is unloaded.
Every operation on the graph takes the coordinator's lock first, so that
operations exclude each other, but Home Assistant itself goes on changing while
one runs, and an operation consists of many graph calls, each of which may fail
after its retries with the earlier ones done. After an operation the
coordinator publishes a change event; each open panel has a subscription that
coalesces changes per element for 250 ms. The panel is a set of asynchronous
calls of its own whose answers may overtake each other.

Readers never take the lock: the tools of agents, the exports and the panel ask
several queries for one answer, and an operation may write between any two of
them. Most lists are cut at a limit, some of them several times on the way.
A change of the configuration reloads the entry, because the entry listens for
it and because the flow that made it asks for it.

### 1.3 What is hard

- the gap between `release()` and the waiter it woke; a flag cleared by someone
  who did not set it;
- a batch of which some entities fail, retried beside newer events;
- the overrides of a user that exist only in memory while a rebuild runs;
- a subscriber that asks for a revision at the edge of the buffer; timers that
  survive a reconcile;
- overlapping loads and late answers in the panel;
- operations of an unloaded runtime, a lost answer to a committed migration, one
  repair issue shared by several runtimes;
- bindings of a user's assignment that go with a node and must come back;
- validation runs that end half-way, of which the next one cannot tell;
- registries that change while a full sync reads them one after another, and
  edges that are skipped when one of their ends is not there yet;
- answers over MQTT that nothing ties to a request, snapshots written in part;
- two programs in two languages that answer the same question about the graph;
- answers put together from several queries of a graph that is being written,
  with cuts on the way that the answer is to own up to;
- one fact, such as the area of an entity, decided by each tool in a query of
  its own;
- a stored list that every call loads, changes and saves, without a lock;
- a token that is replaced while a call is on its way;
- ids that are checked seconds before they are used, and entries that change
  while they are set up;
- plans and dashboards that are edited while they are copied, write by write;
- rings of buckets that nobody empties on time, and a clock that is set back;
- lines that touch, overlap or meet in a corner.

`PROJECT.json` lists these and others as hazards, at their lines, with the
properties that would show them going wrong.

### 1.4 What makes each part correct

- *Serialization*: one operation at a time, in the order of admission, no lost
  wake-up, nobody refused by a stale flag, nobody starved.
- *Incremental sync*: an accepted change is in the graph, on its way, or on the
  failed list; after quiet it is in the graph; clients are told the right thing.
- *Full sync*: user overrides outlive it; a success means a complete graph; no
  edge hangs in the air.
- *Streams*: a replay contains exactly what was missed; a live panel hears the
  last change of every element.
- *Panel*: the stream it follows continues where its graph stands; it says when
  it has lost it; a late answer does not open the wrong details.
- *Config entry*: nothing writes to a graph of an unknown schema; issues are up
  only when due; a failed set-up leaves no open driver; the user gets an answer.
- *Energy roles*: a user's role is changed by the user only and takes
  precedence; inferred roles follow the metadata.
- *Validation*: a finding goes when its issue has, not before a user could see
  it resolved; the counts reported are those in the graph.
- *Registry sync*: once everything announced has been handled the graph has what
  the registries call for; after a rebuild it has nothing else.
- *Mesh scan*: the last complete snapshot stays whole whatever later scans do; a
  history that was thinned is thin; a scan gives the lock back.
- *Agent access*: a call is recorded once and truthfully, a record is lost to an
  overlapping append only and goes when it is due; a replaced token opens nothing.
- *Readers*: nothing is said of the target that was at no time of the question
  true, what was true all the time is not missed, a cut is admitted, and the
  tools tell one story about one graph.
- *Measurements*: an answer is about what entities last reported, whatever kind
  of thing they reported before.
- *Geometry*: the walls between two pins are those that the line touches, from
  either end.
- *Config flow*: ids stay unique, a kept change reaches the client, one entry's
  unload does not take the services from another.
- *Layout and dashboards*: a sync that succeeded has copied the plan it was
  answered; each card has its own node; one bad dashboard costs only itself.
- *Activity*: what is published is the sum over the last minutes.
- *Slices*: what is sent can be drawn and asked for again, and the flag says
  truthfully whether something was left out, whichever backend answers.

## 2. Modules

| Module | Models | Composes or uses |
|---|---|---|
| `SerialOps` | what the coordinator promises: admitted operations run one at a time, in order, each eventually | |
| `OpLock` | the lock and the flag as they are, suspension point by suspension point | implements `SerialOps` (`Serial == INSTANCE SerialOps WITH ...`) |
| `OperationsProofs` | proofs about `OpLock`, the refinement included, and about `RegistrySync` | `OpLock`, `RegistrySync` |
| `EntitySync` | listener, debouncer, batch, single sync, retry, resync, rebuild, events | the lock by its abstract behaviour: a queue served in order |
| `EntitySyncProofs` | proofs about `EntitySync` | `EntitySync` |
| `Rebuild` | rebuild, resync, refresh, import, entity writes, failure and stop between calls | one operation at a time, as `OpLock` shows |
| `RebuildProofs` | proofs about what a full sync writes | `Rebuild`, `SpatialSync`, `DashboardSync` |
| `ChangeBuffer` | revisions, eviction, `events_since` | |
| `ChangeFeed` | what a panel is promised: of each element the last change, never an older one, and in the end | |
| `GraphStream` | snapshot, subscribe, replay, coalescing timers, reload | extends `ChangeBuffer`, implements `ChangeFeed` (`Feed == INSTANCE ChangeFeed WITH ...`) |
| `ExplorerPanel` | the panel's calls, answers, timers and what is on screen | the server side by the order of its events |
| `LiveProofs` | proofs about the buffer, the stream, its refinement of `ChangeFeed`, the panel, impact analyses, and slices | `GraphStream`, `ExplorerPanel`, `ImpactAnalysis`, `GraphSlice` |
| `EntryLifecycle` | set-up, gate, migration, unload, restart, health record, issues | operations by kind only |
| `EntryLifecycleProofs` | proofs about config entries | `EntryLifecycle`, `ConfigFlow` |
| `EnergyRoles` | assignments and bindings under every operation that touches them | one operation at a time, as `OpLock` shows |
| `EnergyRolesProofs` | proofs about roles, and about the questions that use them | `EnergyRoles`, `Measurements` |
| `Validation` | runs over several checks, call by call; findings over runs, failures, restarts and rebuilds | a run excludes other operations, as `OpLock` shows |
| `RegistrySync` | floors, areas, devices, entities and their edges through updates, retries, resync and rebuild, call by call | a queue served in order, as in `EntitySync` |
| `MeshScan` | request, answer, timeout, batched writes, retention, thinning, stop in between | a scan excludes other operations, as `OpLock` shows |
| `MeshScanProofs` | proofs about the mesh and its geometry, about context tools and exports | `MeshHealth`, `MeshGeometry`, `ContextExport` |
| `GraphSlice` | the four read requests as functions of the graph, through either backend | the graph by any history of merges and deletions |
| `AgentAudit` | calls through Assist, services and MCP; token, option, append, sweep | what a tool answers is in the reader modules |
| `ImpactAnalysis` | resolution, lists, a gather of queries, merging and cutting, beside a changing graph | |
| `ContextTools` | area, device and entity contexts, the panel's own, dependencies, unassigned items, resolution of identifiers, as functions of the graph | |
| `ContextExport` | exports of an area and of the home, query by query | extends `ContextTools` |
| `Measurements` | what an entity reports, what its node keeps of it, low batteries and active consumers | |
| `MeshHealth` | mesh health and mesh links, query by query | extends `MeshScan`, whose steps go on between the queries |
| `MeshGeometry` | crossings, openings, slants and slabs of a link | `MeshHealth` has what they come to as a constant |
| `ConfigFlow` | flows, entries, set-ups, reloads, services | set-up in outline; `EntryLifecycle` has its failures |
| `SpatialSync` | the layout sync write by write, and the two checks that read it | one operation at a time, as `OpLock` shows |
| `DashboardSync` | dashboards loaded and written card by card | the last part of `Rebuild`'s full syncs |
| `SyncActivity` | the rings, the roll, the recorders, the timer and the clock | |
| `RecordsProofs` | proofs about findings, counters and the log | `Validation`, `SyncActivity`, `AgentAudit` |
| `MCOpLock`, `MCEntitySync`, `MCExplorerPanel`, `MCRegistrySync` | constants for TLC | the module each is named for |
| `MCFullSync` | what a full sync writes | `Rebuild`, `SpatialSync`, `DashboardSync` |
| `MCEntry` | config entries | `EntryLifecycle`, `ConfigFlow` |
| `MCEnergy` | energy in the graph | `EnergyRoles`, `Measurements` |
| `MCRecords` | what is kept for a time | `Validation`, `SyncActivity`, `AgentAudit` |
| `MCMesh` | the Zigbee mesh | `MeshScan`, `MeshHealth`, `MeshGeometry` |
| `MCGraphStream` | what is told of a graph that goes on changing | `GraphStream`, `ContextTools`, `ContextExport` |
| `MCGraphReaders` | what is read of the graph | `GraphSlice`, `ImpactAnalysis` |

The last seven put the components of one subject into one specification, and a
variable `part` says which of them a behaviour is about; the others stand still
in one of their initial states. They are extended, so that a run checks the very
formulas that the proofs are about. These
components share no variable, so that interleaving their steps would show no more
than each of them shows alone. Fairness is asked of the part a behaviour is about
only. Components that do meet are composed for real: `GraphStream` with
`ChangeBuffer`, `MeshHealth` with `MeshScan`, `ContextExport` with
`ContextTools`, and their steps interleave.

An action is what the code does between two suspension points, or one graph
call with what follows it up to the next one. Where a call runs under the lock
and nothing else can observe the moments in between, several calls are one
action; the comment on the action says so. Names are those of the code wherever
TLA+ allows. Some definitions are wrong on purpose (their comments say what is missing or
misplaced): each is what a plausible slip in the definition it precedes would
look like, and makes a property of a run fail. No specification uses them;
`PROJECT.json` lists them under "mutants".

### 2.1 State against code

- **`OpLock`**: `locked` and `waiters` are the fields of `asyncio.Lock`; `woken`
  is the window in which the oldest waiter's future is done and its task has not
  run; `waiting` is `_waiting`; `status` is where each task stands.
- **`EntitySync`**: a state is a version number, which is all that "which state
  was written last" needs. `pending`/`timer` are the debouncer's, `queue`/`job`
  the operations waiting for and holding the lock, `failed` the ids in
  `failed_updates`, `sweep` the rest of the list a retry is walking, `events` the
  last event that named an entity, `graph` the version in the node. `accepted` is
  history, and so is `swept`: the entities whose node a rebuild has deleted, until
  somebody writes it or a change of them is accepted.
- **`Rebuild`**: nodes and edges by presence, `typeSource` for the `source`
  property two writers set on one node, `phase` the next graph call of the
  operation, `payload` the exported overrides. `wanted` and `interrupted` are
  history.
- **`ChangeBuffer`, `GraphStream`**: `revision` and the bounded buffer; `log`
  and `base` are history; `pending`/`timer` are the window and the dictionary of
  a subscription, `loose` counts the timers that a reconcile forgot.
- **`ExplorerPanel`**: `loads` holds each load with the subscription that came of
  it, `current` whose generation is valid, `handle` whose unsubscribe function is
  kept, then the fields of the element by their names; `asks` are the requests
  about single nodes in flight. `left` is history: the element was taken off the
  page and has not subscribed since, whether or not it was put back.
- **`EntryLifecycle`**: set-ups are numbered and name both the client and the
  runtime; `op`/`pending` are a runtime's operations, `failures` its
  `consecutive_failures` (counted up to the threshold, beyond which the code
  makes no difference), `issues` the repair issues that are up.
- **`EnergyRoles`**: `role[s][e]` is the assignment node of source `s`, `bound`
  its binding edges, `changed`/`touched` the work Home Assistant has announced.
- **`Validation`**: `status` and `resolvedAt` are the finding nodes, with the
  number of the run in place of the clock; `phase`/`at` the next graph call;
  `detections`, `detectedIds` and `counts` the local variables of a run;
  `reported` the coordinator's `validation_findings`. `current` and `quiet` are
  history.
- **`RegistrySync`**: `exists`/`parents` are the registries, `nodes`/`edges` the
  graph; `queue`/`job` as in `EntitySync`; `step`, `layer`, `batch` and `seen`
  are where an operation stands, which collector it is in, what it is writing
  and what it had read of it; `retrying` is the copy of the failed list that a
  round of the retry is still walking, whatever is queued by then, and `rounds`
  counts such rounds. `suspect`, `broken` and `exact` are history.
- **`MeshScan`**: `asked`/`answers` are the messages on their way, `snapshots`
  and `links` the nodes, named by the tick of the clock; `phase`, `stamp`, `todo`
  and `batches` the local variables of a scan. `carried` and `thin` are history.
- **`GraphSlice`**: a node is its label and its `ha_id`, a relationship its type and
  its ends. Rows come in an `order` that is chosen anew for each read from `Orders`,
  since ORDER BY leaves ties to the database and the query of a detail has none at
  all. A row is what the query returns, a slice what is made of it. `graph` and
  `relations` are what is in the graph, `request` and `reply` those of one call,
  whose answer depends on nothing but the graph; that is why only one is kept at a
  time.
- **`ChangeFeed`**: `log` is what was ever published, `told` the position the
  panel heard of each element last, `adrift` that the coordinator it heard it
  from is gone. In `GraphStream` these are `log`, the positions in its `told`,
  and `epoch # reloads`.
- **`AgentAudit`**: `log` is the stored list, as a bag of records, `batch[c]` the
  copy a call has loaded, pruned and extended and is about to save, `sweep` that
  of the periodic prune; `pc` says before which await a call stands; `token` is a number that
  grows when it is replaced. `overlapped` and `retired` are history.
- **`ImpactAnalysis`**: `tasks` are the queries of a gather that have not
  answered, `devices`/`affected`/`found` the lists collected so far, with one row of
  a device's entity for each area the device has an edge to (`DeviceRows`), `said`
  whether a warning of a cut has been kept. `ever`, `always` and `cut` are
  history.
- **`ContextTools`, `ContextExport`**: `nodes`/`edges` are the graph, with
  HAS_AREA turned round; each tool is an operator. An export has the stage it
  has come to and the lists collected; `before` and `cut` are history.
- **`Measurements`**: `reported` is Home Assistant's state of an entity, `node`
  the properties of its node as a record that has only the fields that are set;
  `stage`, `rows`, `known` are a question and its answer. `synced`, `quiet` and
  `always` are history.
- **`MeshHealth`**: adds to `MeshScan` the query a question has come to
  (`asking`), the snapshot it named and the one it used, and the parts of the
  answer. `calm` and `scanned` are history.
- **`MeshGeometry`**: one link, two ends and a plan; points are pairs of
  integers, and quotients are compared by cross multiplication.
- **`ConfigFlow`**: a flow has a kind, the id it checked, the address it is
  trying; an entry its id, the address it says, its phase, and the address its
  client was made with; `reloads[e]` are the reloads that wait for the set-up
  lock, with who asked for them.
- **`SpatialSync`**: `plan` is the drawing, `response` the drawing as answered;
  `pins`, `walls`, `onFloor` are the graph; `left` is what the loops have still
  to write. `copied` is history.
- **`DashboardSync`**: a card node is its dashboard, view and place, as its id is
  made; `current` is the dashboard being written with the cards left of it.
  `loaded`, `failed` and `synced` are history.
- **`SyncActivity`**: `buckets`, `last` are the three lists and
  `_activity_bucket_minute`; `snapshot` what the sensor shows. `recorded` and
  `peak` are history.

## 3. Checks

| Run | Instance | What it shows |
|---|---|---|
| `op_lock` | 3 explicit callers, 2 updates | one operation at a time and in order; no refusal by a stale flag; every waiter runs; `OpLock` implements `SerialOps`, its fairness included |
| `entity_sync` | 2 entities, 3 changes or rebuilds, 1 failure, 2 queued | no accepted change is lost, whichever calls fail and in whatever order operations run, except to a rebuild, which leaves no node and never an older state; the last announcement fits; once Home Assistant is quiet the graph gets the last accepted state, with the same exception, and the failed list drains |
| `rebuild` | *overrides*: 2 entities, 2 types, 3 matching pairs, 2 failures; *plan*: 2 floors, 2 entities, 1 wall that may have a door, 3 drawings, 1 failure; *dashboards*: 2 of them, of 3 layouts or none, 2 entities, 1 edit, 1 failure | overrides outlive every run that is not cut off; a layout sync that succeeded has copied the plan it was answered, and what is not drawn is reported; each card has a node of its own with what it shows, and a bad dashboard costs only itself |
| `graph_stream` | *stream*: 2 elements, buffer of 2, 4 events, 1 reload; *tools*: 2 areas of one name, 2 devices, 3 entities, 1 automation, every graph a sync can leave; *export*: the same with lists of 2 and 1 change, from every graph over 7 of the links, with all findings or none | replay is exact at the edge of the buffer; nothing falls through between snapshot, replay and windows; a live panel hears the last change; `GraphStream` implements `ChangeFeed`, its fairness included; contexts, panel and unassigned items agree and an identifier is resolved to the right thing; an exported area has nothing foreign and an exported home is whole or says that it was cut |
| `explorer_panel` | 1 node, 1 reconnect, 2 changes, 2 loads, 1 request, 2 failures, the page left and returned to | the current subscription goes on where the graph stands, and a panel that hears nothing says so, unless it was off the page and has not subscribed since; details open for the selection only |
| `entry_lifecycle` | *life*: threshold 2, 2 set-ups, 2 outages; *flows*: 2 addresses, 2 entries, 2 flows of 4 kinds | no operation of any runtime runs on a refused schema; issues only when due; each set-up gets an answer; checked ids stay free, a loaded entry runs on what it says, services stay while one is loaded; kept changes take effect, unless an outage in the middle of a set-up leaves the entry in error |
| `energy_roles` | *roles*: a registered and a state-only sensor, 2 roles, 3 changes, 2 commands, 1 failure; *questions*: 2 entities, 8 reports on either side of each limit, 2 homes, limits 1 and 4, 2 changes | user roles take precedence, inferred ones are current; low batteries and active consumers are those that were last reported, and a consumer is in one list |
| `validation` | *findings*: 2 targets, 2 checks (one of them of Home Assistant itself), 5 runs, 2 failures, 4 changes; *counters*: a window of 3, 10 minutes, 3 records, 1 set-back; *log*: 2 calls of any of 11 kinds, retention 1, 3 ticks, 1 replaced token | findings do not outlive their issue whatever ends half-way in between, reported counts are those of the graph, nothing is deleted before a whole later run; buckets hold their own minute only and published sums are those of the window; one truthful record per call, lost to overlapping appends only, and a replaced token opens nothing |
| `registry_sync` | 1 floor, 2 areas on it, 1 device, 1 entity, any registries of those to begin with, 2 changes, 1 full sync, 1 round of the retry, 1 failure | a quiet graph has every node and edge the registries call for, and no area edge of an entity that they do not; a rebuild leaves nothing else |
| `mesh_scan` | *scan*: 3 links, 2 of them siblings, batches of 1, 2 per pruning, retention of 1 tick, 3 scans, 3 ticks, 1 failure; *health*: 4 stations, 4 links (measured, unmeasured, a sibling, one without a relationship) of which at most one is missing, 2 scans; *paths*: every line and two-part wall on 9 points, without an opening, with a door, with one of an unknown kind or of negative width, 4 pairs of floors | the last complete snapshot stays whole; a thinned history is thin; no scan keeps the lock; an undisturbed health check is that of the scan, and the tree stays whole through thinning; crossings agree with a definition by sides, do not depend on the direction, slants are bounded |
| `graph_slices` | *slices*: 2 areas and an entity with 5 relationships to 4 nodes, two of which the direct backend cannot tell apart and may come in either order, every limit up to 4; *impact*: an area and another from which one device may have come, 2 devices, 2 entities, 3 dependents, lists of 2, 1 change | slices can be drawn, one without `truncated` has all that its backend can name, and one that has everything is without it; an impact analysis of any scope invents nothing and misses nothing stable unless cut |

A property that speaks of a component as a whole (`LiveOrSaysSo`,
`EntriesKeepTheirOwn`, `ImpactIsExact` and others) is a conjunction of named
parts in the component's module, each of which says in its own comment what it
is for. `PROJECT.json` has a seeded fault for each such part, which is enough to
violate the conjunction.

One more run, `rebuild_abort`, checks a sentence of the repository's documents
against what the code does and is **violated**: section 5 begins with it.

**Why the bounds are enough.** Three explicit callers are a holder, one that
waits and one that is refused; two updates can stand on either side of them. Two
entities are the least for a batch that fails in part, and two versions after
the first for an overtaking write; one failure makes a retry meet newer events.
A rebuild that a user asks for takes from the same three as the changes, so that it
comes before, between and after them. In `Rebuild`,
three of four pairs match, so that there are entities with one and with two
types, types with one and with two entities, and a pair no rule makes. A buffer
of two with four events evicts twice. Two loads are what overlapping takes, and
one node what any race about one node takes. Two set-ups are a runtime that is
left over and the one after it, and a set-up that fails is tried again under its
own number; the safety of any number of them is proved. A finding needs
one run to be opened, one to be resolved and one to be deleted; five leave room
for one that ends half-way and for one that opens it again, and with two checks
one may be done when the other is not. In `RegistrySync` each layer has an
element, areas two so that something can move; all registries and graphs of that
size in which the areas are on the floor are initial states, so two changes, which
may take an area or the floor away, are two changes from almost anywhere. Three
scans are one that is complete, one that fails over it and one more; three links
take three batches, more than the two that one pruning deletes.
In `GraphSlice` the entity has more neighbours, and two of them one name, than
most limits allow, so that every cut falls before, on and behind each
neighbour.

In `AgentAudit` two calls are what an overlap takes, and three ticks with a
retention of one let a record expire while an append that loaded it is saving.
In `ImpactAnalysis` all graphs of the given nodes are initial states, in
`ContextExport` those over seven of its thirteen links, so that one change is a
change from anywhere, and `ContextTools` goes through all of them; lists of two
are exceeded in each part and again in the merge. In `Measurements` the reports
stand on either side of the thresholds (strictly below, strictly above), out of
range, of a wrong unit and of no number at all, and two changes are a report and
the sync or role or move that follows it; of a producer by inference and of a
battery that says nothing of use, one entity begins with it, since one is what an
answer can go wrong about. Nine points have all positions of two
segments to one another, the collinear and the touching ones included. Two flows
are two forms open at once, and two entries may take a database from each other.
Three drawings are one before, one during and one after a sync. The three layouts
have a view with nothing, sections beside cards and a second view, which is where
places can collide. A window of three in ten minutes is passed three times, and a
pause can be shorter, as long and longer than it.

Symmetry is used twice, for the areas of `registry_sync` and for the devices,
entities and dependents of the impact part of `graph_slices`, which no
definition or property tells apart; neither run has a liveness property.

`CHECK_DEADLOCK FALSE` is set where a bound ends the behaviour:
`explorer_panel` (a panel that has used up its attempts, or has left the page),
`entry_lifecycle` (no set-up or flow left), `energy_roles` (changes and commands
used up, a question answered), `validation` (no run left, the clock at its end,
all calls answered), `registry_sync` (no change left), `mesh_scan` (no scan left, a
question answered, a path priced), `graph_stream` (events and reloads used up, an export
answered) and `graph_slices` (a question answered).

**Fairness.** Only what the event loop, timeouts and timers guarantee.
`OpLock`: a woken task runs and an operation ends, since every graph call is
bounded by a timeout and every retry loop by a count. `EntitySync`: the core
finishes starting, timers fire, the sweep comes round, the lock's queue moves
and operations end; nothing is assumed of Home Assistant's changes, and since
failures are bounded a graph that answers again is part of the assumption.
`GraphStream`: a load and a subscription that were begun are answered, timers
fire; nothing is assumed of publications or reloads. `EntryLifecycle`: outages
end, Home Assistant goes on with a set-up or unload it began and retries one
that was not ready, operations start and end. `MeshScan`: a scan's own steps are
taken, since the wait has a timeout and every graph call ends; nothing is assumed
of Zigbee2MQTT. `ConfigFlow`: Home
Assistant gets round to a waiting reload, ends an unload and a set-up, and tries
one again that was not ready; forms may stay open for ever and databases may come
and go, and `ChangesTakeEffect` is about those runs in which they stop. Nobody need
reload by hand an entry that ended in error, which Home Assistant does not retry.
`ChangeFeed` asks for no more than that a panel that is behind is told, which the
fairness of `GraphStream` gives. All other modules are checked for safety only.

**Abstractions to know of.** `ExplorerPanel`: the first load of the 3D library
inside `setSnapshot` is taken as part of the call, and a search result is clicked at
once. `EntryLifecycle`: a platform that cannot be unloaded and a failure of
forwarding are left out; a migration is one transaction. `EnergyRoles`: all entities
are power sensors, registry entries without a state are left out, the two services
are atomic under the lock. `EntitySync`: entities of the integration itself and
excluded ones never enter the pipeline and are left out. `Validation`: a finding is
one per check and target; details and the edge to the target are left out.
`RegistrySync`: Home Assistant runs already; labels, domains and integrations are
merged as areas are and left out, and so is what an entity's state has to do with
it. `MeshScan`: the edges from links to devices are left out. `GraphSlice`: names,
icons, states and properties for display are left out, a search term stands for the
nodes it finds, nodes have one label (the integration writes no second one), and no
two nodes with a relationship have another of the same type between them.
`AgentAudit`: redaction and the fields of a record other than caller, time and
status are left out. `ContextTools` and what extends it: names stand for themselves
(no folding of case), and fields of nodes for display are left out. `Measurements`:
numbers are few, infinities and text are one kind of report that is no number.
`MeshHealth`: a link names its ends, and what the floor plan makes of it is a
constant. `MeshGeometry`: integers for the code's floating point numbers and its
tolerance of 1e-9; the loss over the distance and the heights of pins are left out.
`ConfigFlow`: an address stands for host, port and credentials, the fields that do
not name the database for nothing. `SpatialSync`: a spot stands for coordinates, an
opening for its four numbers. `DashboardSync`: a card is the set of entities it
mentions, and cards inside cards are part of it, as in the code. `SyncActivity`: the
minute is a number, and the duration of the last batch is left out.

## 4. Proofs

All proofs hold for every value of the constants that meets the named assumptions,
each of which stands in the module that declares them: `OpsAssumption` (disjoint
sets of callers), `RebuildAssumption` (matches are pairs), `SpatialAssumption`
(finitely many walls and entities, each of a floor; None is no spot, and no place of
a pin or wall), `ValidationAssumption` (a non-empty list of checks without
repetition over finitely many targets), `ActivityAssumption` (a window of at least
one minute), `AuditAssumption` (requests are of the four channels),
`BufferAssumption` (a positive buffer size), `PanelAssumption`, `ImpactAssumption`
and `ExportAssumption` (finitely many nodes, positive limits), `ContextAssumption`
(finitely many nodes, names that are no nodes, links between the kinds the graph
builder links), `GraphSliceAssumption` (orders of the same finitely many nodes, each
of which has a name of its own, finitely many links, none of them between two areas,
as no operation writes one, and positive limits), `MeshAssumption` (finitely many
links, a positive batch size, prune limit and retention), `HealthAssumption` (links
have ends, a quality that may be absent, and are siblings unless of the tree),
`GeometryAssumption` (points and openings are integers), `KindsAssumption`
(state-only entities are entities), `ThingsAssumption`, `RolesAssumption`,
`ReportsAssumption` and `QuestionsAssumption` (finitely many things, and the
consumer among the roles), `ThresholdAssumption` (a positive threshold),
`FlowsAssumption` (None is nothing else), `DashboardsAssumption` (a configuration is
a sequence of views or cannot be read, and none is something else),
`RegistryAssumption` (disjoint layers of finitely many elements, none named like a
full sync), and the `BoundsAssumption`s, which say of the bounds that they are
natural numbers. Nothing else is assumed, of the number of entities, callers, nodes,
loads, calls, flows or failures in particular.

- **`OperationsProofs`**, the lock: `LockInvariant`, and from it `LockTypeCorrect`,
  `Mutex`, `WakeupNotLost`, `RejectionIsJustified`, `QueueCorrect` and
  `SerialRefinement`. Mutual exclusion is not inductive by itself: a task takes
  the lock when it resumes, so the invariant also has to say that a woken waiter
  implies a free lock and a non-empty queue, that a locked lock has exactly one
  running task, and that the queue is the set of waiting tasks without
  repetition (`QueueCorrect`). Then
  each step maps to a step of `SerialOps` or leaves `waiters`
  and the running operation alone. The refinement is proved for safety; that
  waiters run is TLC's.
- **`OperationsProofs`**, the registries: `RegistryInvariant` and from it
  `GraphMirrorsRegistries`. What an operation has read may be out of date when it
  writes it, an edge is skipped where an end is missing, and a full sync reads
  one registry after the other. `RegistryInv` says who owes what. What is no
  longer as it was read has been announced again (`ReadIsCurrent`). A node that
  is missing or left over is in the queue, on the list of failed updates, or at
  hand (`Missing`, `LeftOver`, `NodeOwed`). An edge is only skipped because its
  upper end is not there yet, and then it must come from an update behind: the
  queue is first in, first out, and nothing can be put into a new area or device
  before that was announced itself, so the parent's update is ahead of the
  child's (`NodeInTime`, `EdgeOwed`); `EdgeLeftOver` says the same of the area an
  entity has left. During a full sync these hold of the layers that it has read
  or placed (`HasRead`, `HasPlaced`), and a sync that fails gives them up, which
  is why the properties exempt `broken`. `StandsStill`, `Rebuilding` and
  `Rebuilt` follow a rebuild layer by layer, and say of what comes after it that
  it takes no edge away without writing it again. None of it asks which round of the
  retry an operation comes from: an update of an element nothing was wrong with, or
  a second one of an element that is queued already, only does what is due
  (`RetriesTyped` has the rounds by themselves).
- **`RebuildProofs`**: `OverridesSurvive`, `PayloadCovers`, `SuccessComplete`,
  `NoDanglingEdges`. The inductive invariant is `TypeOK`, `PhaseFitsKind` (which
  calls belong to which operation), `DueIsSomewhere` (an override the user wants
  is in the graph, or in the payload while the rebuild is between its clear and
  its import, or a rebuild was cut off), `BuiltIsThere` (after the build phase
  the registered entities have nodes) and `EdgesHaveEnds`.
- **`RebuildProofs`**, the plan: `PlanIsAlwaysKept`. `PlanInv` says of every moment of
  a layout sync what it is done with: the pins and walls of the answer that the
  loops have passed (`PinsDone`, `WallsDone`) are in the graph (`DoneIsThere`), and
  are as many as it has counted (`WritingIsCounted`). The
  drawing itself may change at each step; the answer does not.
- **`RebuildProofs`**, the dashboards: `CardsAreAlwaysKept`, for any configurations,
  sections and edits. `BoardsInv` says of every moment of a sync which of the
  displayed cards of the dashboards it is done with are in the graph
  (`CardsAreThere`), that no other card is (`NoOthers`), and that every dashboard it is
  past was loaded or has failed (`AllAreLoaded`). The number in a card's id is the
  number of cards up to it, through all sections of its view; it grows from card to
  card (`PlacesGrow`), so that no two cards share a node (`PlacesDiffer`) and the
  count of nodes is that of cards (`CardsHaveNodes`).
- **`EntitySyncProofs`**: `NothingAcceptedIsLost`, `SettledIsAnnounced`,
  `PipelineTyped`. A batch writes the state it captured, and may write it long
  after: with failures and retries between, an old write can overtake a new one
  in time. What holds it together is that the queue is first in, first out. Of an
  entity whose last state was accepted (`Due`) the invariant says (`IsPaid`) that
  an operation in the queue with an older state has the new one behind it, in
  the queue or in the window (`OldStateIsFollowed`); that so has the operation at
  hand, if it may still write an older one (`WritesOld`); that an entity whose
  node is behind is on a list (`Owed`), on one that the end of the operation at
  hand does not clear (`Passed`); and that an entity that was not announced, or
  was announced as gone, is owed a write as well. A rebuild removes nodes without
  owing anything: whoever's node it deleted is in `swept` until a write or an
  accepted change, and has no node of an older state as long as it is there
  (`UpToDate`), so that the debts of all others stand. `ProgressFits` says what an
  operation has done so far. `AcceptedChangeNotLost` and `SyncIsAnnounced` follow;
  neither is inductive, since neither says what the queue holds.
- **`LiveProofs`**, the buffer: `BridgeExact`, `GapJustified` and `StreamBridges`
  from the fact that the buffer is the last events of the log with consecutive
  revisions: the arithmetic of `events_since`, for every size and revision.
- **`LiveProofs`**, the stream: `NothingIsLost` and `StreamImplementsFeed`. The
  invariant (`StreamInv`) adds to `NothingFallsThrough` that what waits in a
  window is newer than what was told and, of the coordinator that runs, the
  newest (`PendingIsNews`); that a panel between its snapshot and its
  subscription has been told exactly what the snapshot was taken after, unless a
  reload began the numbers anew (`SnapshotIsWhole`); and that every handle has a
  timer that will fire (`HandlesAreArmed`). Every step then is a step of
  `ChangeFeed` or leaves its variables alone: a timer that fires tells the last
  change, and never an older one than was told. As with `OpLock` the
  refinement is proved for safety; that a panel which is behind is told in the
  end is TLC's.
- **`LiveProofs`**, the panel: `PanelIsLiveOrSaysSo` and `DetailsAreOfSelection`.
  Once it is said what loads, requests and events are, and that a timer that is
  stored will fire (`PanelTyped`), `StreamFollowsGraph` and `DisconnectionIsVisible`
  are inductive; the latter exempts what `left` says, from the moment the element
  goes off the page to its next subscription. Most steps are of a load that is not
  the current one, or end with a load on its way or a banner; `OtherLoadKeeps`,
  `LoadingKeeps` and `LookKeeps` prove these three kinds once.
- **`EntryLifecycleProofs`**: `SchemaKept`, `SustainedIssueJustified`,
  `LoadedMatched`, `RetryClean`. The invariant adds that whatever runs or waits
  belongs to a runtime (`WorkHasRuntime`), that a set-up in progress has none and
  a loaded entry has one (`PhaseFitsRuntime`), and that once a runtime exists the
  schema is one it may write (`RuntimeHasSchema`). The gate is reached from three
  steps; `GateInv` proves it once.
- **`EntryLifecycleProofs`**, the flows: `EntriesAlwaysKeepTheirOwn`, for any number
  of flows, entries and addresses. `CheckedIdStaysFree` and `ServicesWhileLoaded` are
  inductive; that a loaded entry runs on the address it names follows from
  `ClientUnlessReload`: whoever changes an entry that has a client leaves a reload
  behind, and only a set-up, which makes the client anew, takes it away.
- **`EnergyRolesProofs`**: `DebtsAreListed` and from it `RolesRight`. Bindings and
  inferred roles may be wrong for a while; the invariant says who owes what. An
  entity whose bindings are not in order is noted as unrepaired or touched, or
  the operation at hand will come to its repair (`RepairAhead`); one whose
  inferred role is not current is changed, touched or missed, or still to be
  reconciled by the operation at hand (`ReconcileAhead`). `RolesAreRight` is the
  case in which nobody owes anything.
- **`EnergyRolesProofs`**, the questions: `QuestionsAreAlwaysExact`, for every report, home,
  threshold and limit. `QuestionsInv` has two parts: a node is as its last sync
  wrote it, whatever was reported before that (`NodesAreWritten`), and what a
  question has collected is what the graph says, unless the graph has changed since
  it was asked (`FoundSoFar`).
- **`MeshScanProofs`**: `NewestIsWhole` and `OlderAreThin`. The invariant adds that
  the scan at hand is the latest, and no older than its retention
  (`ScanIsLatest`), so that it never deletes itself; and how far it has come
  (`ScanIsOnItsWay`): no snapshot is thinned before the one it makes way for is
  complete.
- **`MeshScanProofs`**, mesh health: `AnswersAreAlwaysOfTheScan`. `HealthInv` adds to the
  invariant of the scans that what no clean-up takes of a snapshot stays as long as
  the snapshot (`TreeIsWhole`), and that the parts of an answer are all of one
  snapshot until something is written (`HealthSoFar`, `AnswerIsListed`). The latest
  snapshot is the greatest of a finite set of ticks, which `MaxIsGreatest` derives by
  well-founded induction.
- **`MeshScanProofs`**, context tools and exports: `ToolsAlwaysAgree` needs of the
  graph only that a link has both its ends (`LinksAreWithin`); that three branches
  of two rows each are enough to see whether an identifier has one meaning, several
  or none is `RowsAreEnough`. `ExportIsAlwaysSound` needs to know at each stage what
  was collected and when: the history takes in the graph (`BeforeIsKept`), what is
  collected for an area refers to it (`NothingElsewhere`), what is collected of a
  home is all of it or its cut is told of (`CutIsSaid`).
- **`MeshScanProofs`**, geometry: `PathsAreAlwaysPriced`, for all integer points,
  walls and openings. `PathInv` is that what was priced is what `Price` gives; the
  work is in the lemmas about the operators. `IntersectIsTouch`: the test of the
  code, signs of cross products and, for parallel lines, an overlap of projections,
  agrees with the definition by sides (`CrossingIsTouching`, `CollinearIsTouching`,
  the latter over `Along`, how far a point lies along a line); the same lemmas with
  the ends exchanged give the independence of direction. `SlantBounded`: the factor
  for a slanted path is at least one and at most three, in squares and without a
  division.
- **`RecordsProofs`**, findings: `Expiry`, `CountsCorrect` and `RetentionKept`.
  `FindingsExpire` says nothing of the middle of a run, so the invariant adds
  what a run has done so far: `StampsInOrder` (a resolved finding bears the
  number of a run begun, an open one bears none), `DetectedOnce` (detections of
  checks not made yet are empty, and a run resets them), `CategoryAtHand` (what
  the merge and the deletion have established for the check at hand) and
  `DoneInLine` (the checks behind it agree with what was detected and counted).
- **`RecordsProofs`**, counters: `ActivityTyped` and `RingStaysRecent`, for every window.
  The invariant adds to `RingIsRecent` that nothing was recorded under a minute
  later than the one rolled to, which is why a bucket that is passed over may be
  emptied. The step that counts is the roll: of the minutes of a window no two
  share a bucket (`BucketsApart`, from `Division` and `NoMultipleBelow`), and the
  minutes that were passed have all their buckets among the emptied ones, whether
  fewer than a window passed or more (`WindowCovers`). `NoOtherBucket` states the
  first of these by itself. With `PublishedIsAlwaysExact` the sum that is published is
  that of the window: a sum is the number of its units, and where minutes and
  buckets are one to one (`WindowIsRing`) so are their units (`SameTotal`).
- **`RecordsProofs`**, the log: `CallsAlwaysAccountedFor`, for any number of calls. The
  log and the copies on their way are bags of records. `AuditInv` says that a bag
  holds records of calls that were answered or are about to be, with what they were
  answered, and each once (`BagsTellOfAnswers`); that of two saves under way each is
  marked (`OverlapIsMarked`); and that a record that is due is in the log and in
  every copy that is about to replace it (`DueIsEverywhere`), which is what a
  load, a prune and a save without a lock have to preserve.
- **`LiveProofs`**, impact analyses: `ImpactIsAlwaysExact`, for any scope, limit and graph
  that changes at any step. `AnalysisInv` says of each stage what was collected and
  which queries of the gather are out (`StageFits`, `TasksFit`); that whatever was
  collected was linked to the target at some time (`NothingForeign`); and that what was
  linked all the time is collected or still looked for, unless a list was cut, in
  which case it is full (`NothingLeftOut`). `KeptIs` and `LeastOfTwo` say what a cut
  leaves of a list. A list of rows that was not cut has every entity of the device,
  however many rows each of them has.
- **`LiveProofs`**, slices: `SlicesAreAlwaysExact`, for any graph, request, limits
  and order of rows. An answer depends on nothing but the graph and the
  request, so `SliceInv` only says that it is the answer of this graph; the work is in
  the operators. `OrderIsListed` says that sorting by a total order lists each element
  once, since no two elements have as many before them; from it follows what is taken at
  some places of a sequence (`AtIs`), and so what `Unique` and `Renderable` keep
  (`UniqueIs`, `RenderableIs`). `SliceIsClosed` has the limits and the ends, `OneMore`
  that asking for one more than the limit tells whether there is more. `ShownSlice` says
  of either backend what it shows of a row, in the ids it gives, and `IdsOfAll` that ids
  of which none is "Other" are all there only if nothing was cut: that an answer which
  has everything does not say `truncated` is claimed of such answers alone. The rows of
  an answer depend on the order that was chosen for it, which `RowsFollowGraph` keeps
  apart from the steps that choose the next one.

Proved and no run's property, since a run would show no more: `NoLostWakeup` and
the queue of `OpLock`, `PayloadCoversOverrides`, `SuccessIsComplete` and
`EdgesHaveEnds` of `Rebuild`, `GapOnlyWhenEvicted` of `ChangeBuffer`,
`LoadedMeansMatched` and `RetryLeavesNoDriver` of `EntryLifecycle`.

Model-checked only:

- every liveness property (`EveryWaiterRuns`, `EventuallySynced`,
  `SetupIsAnswered`, `EveryScanEnds`, `ChangesTakeEffect`) and the fairness of the
  two refinements, that is the rest of `ImplementsSerialOps` and
  `ImplementsChangeFeed`: out of the prover's reach.

## 5. Where the code and its documents part

`rebuild_abort` is the run of one: a rebuild holds the exported overrides in a
local variable only while the graph is cleared and rebuilt
(`coordinator.py:446`), so that an exception or a stop before the import loses
them. `specs/002-ontology-explorer-v2/spec.md:180` says that "preservation of
user-managed data is unconditional", and so does the comment above the code.

Others were met while modelling. The models have the behaviour as the code has
it, and the properties are stated so as to leave it room; where a sentence of
the repository says otherwise it is quoted.

Sync and streams:

- *A rebuild classifies before it imports* (`coordinator.py:449`), when no
  override is in the graph, so that every rule that matches applies;
  `semantic_classifier.py:280` has "classification must skip it".
- *A rebuild loses accepted changes.* It deletes the `Entity` nodes and makes them
  again from the registry (`coordinator.py:446`, `graph_builder.py:755`): a state-only
  entity has no node until its next change, and if the build fails after the clear no
  entity has one, while `failed_updates` holds none of them, so that nothing retries;
  `specs/001-ha-ontology-integration/tasks.md:174` has "failed updates are never
  silently lost", and FR-020 (001 `spec.md:201`) "rather than losing them silently".
  `AcceptedChangeNotLost` and `EventuallySynced` exempt just these entities, and
  neither an older state nor an entity that was written or changed since.
- *A pending element* keeps the kind of its first change and takes the revision
  of the last (`websocket_api.py:525`): a removal inside the window of an upsert
  is sent as an upsert, and the panel believes to be up to date; 005 `spec.md:99`
  has "converges to the latest ontology state".
- *The answer to a refresh* puts a node on screen whatever was heard meanwhile,
  its removal included (`ontology-panel.js:398`); 005 `spec.md:70` has "it is
  removed from the graph".
- *A detail the backend failed to answer* is reported as not found
  (`websocket_api.py:211`), since the gateway gives None for either;
  `graph_gateway.py:32` has "Normalize selected-backend failures into
  presentation unavailability".
- *Pins are counted* for each pin of the answer, also where no entity or no floor
  matched and nothing was written (`spatial_sync.py:124`); line 75 has "device
  pins placed".
- *Unpinned entities* are reported only if they have an area of their own
  (`validation.py:241`), not if it is that of their device; line 236 has
  "Entities on a floor".
- *A card that was edited* displays what it showed before as well, and cards that
  are gone stay until a rebuild (`dashboard_sync.py:96`); 002 `spec.md:246` has
  relationships "to each `Entity` node it displays".

Configuration:

- *Two entries on one database.* The unique id is the address as first entered
  or discovered; the confirmation, reconfigure and options change the address
  without looking for another entry (`config_flow.py:193`, `236`, `465`). Each
  entry has its own lock. `specs/003-assist-mcp-v3/plan.md:31` has "single config
  entry (single Memgraph target) per Home Assistant instance".
- *One change reloads twice*: `async_update_entry` runs the update listener, which
  reloads, and the flow reloads again (`config_flow.py:529`); the comment at
  539-545 means to avoid "a *second*, redundant reload".
- *The services outlive the last entry*, which Home Assistant still lists while
  it unloads (`__init__.py:949`); line 948 has "Remove the ontology services once
  the last config entry is unloaded."

Agents and tools:

- *A query tool that fails* with anything but a rejection leaves before the audit
  (`mcp_server.py:331`), a body that is JSON but no object raises before anything is
  recorded (`mcp_server.py:290`), and *of two overlapping appends one is lost*
  (`agent_audit.py:66`); `agent_audit.py:3` has "Every Assist ontology-query
  invocation, MCP tool call, and rejected MCP write/authentication attempt is
  appended here".
- *Affected entities are counted in rows* (`impact_analysis.py:193`, `201`, `212`): an
  entity has one for each area its device has an edge from, and a device that moved
  keeps the old edge. Entities are left out, and "affected entities truncated" is said,
  although the limit leaves room for all of them. `ImpactIsExact` takes this for a cut.
- *Merged dependents are cut* without a warning, and an area drops the warnings
  of its devices (`impact_analysis.py:133`, `247`);
  `specs/004-home-relationship-questions/spec.md:124` has "truncated consistently
  and includes a warning".
- *The export of an entity* names the area of its device as its own HAS_AREA
  (`context_export.py:178`); line 168 has "Direct graph relationships only
  (FR-022)."
- *The export of an area* asked for by its name loses the findings about the area
  itself (`context_export.py:97`; 003 `spec.md:198`), and says that nothing was
  truncated when its lists were cut (`context_export.py:99`; 004 `spec.md:208`).
- *The panel* looks for the area of an entity the wrong way round
  (`websocket_api.py:364` against `graph_builder.py:536`), and never shows one
  that is the entity's own; `specs/002-ontology-explorer-v2/contracts/websocket-api.md:24`
  has "its `Area`".
- *An active consumer beyond the limit* is listed as a known one without current
  power (`query_tools.py:509`);
  `specs/004-home-relationship-questions/contracts/read-operations.md:61` has "no
  qualifying current power reading".
- *A device that moved* has its low battery listed under both areas
  (`graph_builder.py:328`); 004 `spec.md:133` has "no cross-area duplicate".

Mesh:

- *One health check is of two snapshots*: `mesh_link_walls`, which is called last,
  looks for the latest one again (`query_tools.py:839`, `1048`); line 986 has
  "from the latest snapshot".
- *Unmeasured links crowd out weak ones* where the links are cut, and nothing says
  so (`query_tools.py:1056`); 004 `spec.md:208`.
- *A path along a wall* meets it at the middle of the wall, which need not be on
  the path (`mesh_geometry.py:88`); line 83 has "nearest point on a-b if
  collinear".
- *Two floors of one level* have no slab between them, so that a link between
  them is listed as an unexplained one (`query_tools.py:1065`); line 996 has
  "measured same-floor links".

And some, described by their lines, of which not all are contradicted by a
sentence of the repository:

- *Two waiting services.* A request that finds the lock released but promised
  passes the first test, and whoever ends clears the flag (`coordinator.py`
  391-400), so two explicit requests can wait at once;
  `specs/001-ha-ontology-integration/contracts/services.md:5` has one slot.
- *Changes during start-up.* They are ignored until Home Assistant runs
  (`event_listener.py:170`) and the initial sync may have read the entity before;
  `specs/001-ha-ontology-integration/spec.md:191`.
- *A state-only entity that goes away* keeps its node (`event_listener.py:91`)
  until a rebuild; 001 `spec.md:96`.
- *Overrides of state-only entities* are not restored by a rebuild: the build
  makes nodes from the registry, and the import has nothing to attach them to
  (`coordinator.py:449-453`).
- *The `source` of a semantic type* that a user made is overwritten by a
  classification (`semantic_classifier.py:307`); 001 `spec.md:198`.
- *A reload under an open panel* leaves its subscription on the old buffer
  (`websocket_api.py:548`): it stays "live" and hears nothing; 005
  `spec.md:134`. Revisions start at zero again, so an old one may look current.
- *The panel* never shows a node an upsert makes (005
  `spec.md:69`), leaks a subscription when loads overlap, and subscribes even if
  it has left the page in the meantime (005 `contracts/websocket-api.md:84`).
- *After an unload* running operations open the closed client's driver again
  (`memgraph_client.py:117`), nobody closes it, and old and new runtime may write
  at once; 001 `spec.md:194` wants one operation at a time.
- *An outage during the migration* (`__init__.py:278`) is not caught: the entry ends
  in an error without a retry and with its client open. A change of the entry that
  was kept then waits for the user to reload it by hand, which `ChangesTakeEffect`
  leaves room for. An initial sync that fails is not tried again, and the next batch
  reports the entry healthy.
- *A finding whose merge fails* is resolved by the same run, and deleted by a
  later one if it fails again, though its issue persists (`validation.py:320`);
  `specs/002-ontology-explorer-v2/data-model.md:38` has findings resolve when the
  issue goes away.
- *A finding of a target without a node* is merged without its edge, although
  the log says that it was skipped (`validation.py:305-311`).
- *A rebuild* deletes all findings, since they are nodes of source "generated"
  (`graph_builder.py:755`), without the retention a run grants them, and the
  mesh history with them, whatever its retention.
- *A silent reload* leaves nodes on screen that are gone
  (`ontology-panel.js:252`); 005 `spec.md:135`.
- *A batch that makes a node again* leaves the role a user gave it unbound until
  something else calls for a repair (`coordinator.py:635`); 004
  `data-model.md:93`.
- *A device that moves* gets an edge to its new area and keeps the one to the old
  (`graph_builder.py:814`), whereas an entity's old edge is deleted;
  `specs/003-assist-mcp-v3/spec.md:84`, "the analysis uses the current area
  relationship". An entity that loses its registry entry and keeps its state
  keeps its edges too, for the update returns before it deletes any
  (`graph_builder.py:520`).
- *An edge whose other end is missing* is skipped without an error
  (`graph_builder.py:186`), and nobody comes back to it before the next full
  sync if the update of that end had failed. A new floor has no listener, so that
  areas on it have no edge until then.
- *A panel that is put back on the page* neither loads nor subscribes again: it
  unsubscribed when it was taken off, and `connectedCallback` does both once only
  (`ontology-panel.js:19-26`). Its indicator stays "live" without a banner; 005
  FR-016 has "MUST visibly indicate when automatic updates are disconnected or
  delayed". `DisconnectionIsVisible` exempts it until it subscribes again.
- *A late answer* to a mesh request that timed out is taken for the answer to the
  next one (`mesh_sync.py:129`), though the docstring nine lines above has "the
  one matching response". An error in place of a map is written as a snapshot
  without links, which then is the newest, and the history is thinned beside it.
- *The two backends* are not equivalent (`graph_backends.py:1`, 005 `spec.md:143`)
  for nodes whose label the direct one does not know, among them every semantic
  asset, domain, integration and floor: it calls them "Other", under which name they
  cannot be expanded; their relationships, which carry the real label, are dropped
  without `truncated` being set, from any answer they are in; a domain and an
  integration of the same name become one node. In a detail the direct backend drops
  all relationships, since the element is not among the nodes they are held against
  (`graph_backends.py:414`), and only it knows relationships by id. Of nodes that
  tie in ORDER BY (`graph_backends.py:67`), and of all in a detail, which has no
  ORDER BY (`graph_backends.py:84-97`), it is the database that chooses which a cut
  keeps, so that asking twice may give two answers.
- *An unknown id* is expanded to an empty slice, where
  `specs/005-ontology-graph-visualization/contracts/websocket-api.md:33` has
  `not_found`. The snapshot has areas
  only, where line 22 of the contract adds their devices.
- *The own area of an entity* loses to that of its device in the context tools
  (`query_tools.py:715`), where `semantic_classifier.py:201` lets it win; the
  panel's context of an area has a nested aggregation that is not judged here.
- *Calls over MCP* may name a limit of their own, above the configured one. `resolve_target`
  (`query_tools.py:149`) is tested and called by nothing.
- *The latest mesh snapshot* may be one that is still being written: the tools ask
  for the newest, and nothing marks it complete.
- *Pins and walls that left the plan* stay until a rebuild, as does the relation
  of a wall to the floor it was on before; a rebuild deletes all of them, and
  nothing but the next layout sync brings them back. The code promises neither.
- *A clock that is set back* keeps the counts of the activity sensor until the
  clock has caught up, and counts some minutes under two times.

## 6. Not modelled, and the plan

Order of the modules so far, most important first: `SerialOps`, `OpLock`,
`EntitySync`, `Rebuild`, `ChangeBuffer`, `ChangeFeed`, `GraphStream`,
`ExplorerPanel`, `EntryLifecycle`, `EnergyRoles`, `Validation`, `RegistrySync`,
`MeshScan`, `GraphSlice`, `AgentAudit`, `ImpactAnalysis`, `ContextTools`,
`ContextExport`, `Measurements`, `MeshHealth`, `MeshGeometry`, `ConfigFlow`,
`SpatialSync`, `DashboardSync`, `SyncActivity`. Every safety property that a run
expects to hold is proved as well.

Left out for good:

- the text search (`query_tools.py` 575-627) and what only formats rows: matching
  and wording of text, one query each;
- which query a sentence becomes and how an answer is worded (`intent_handlers.py`);
- sensors, buttons and diagnostics: views of state that is modelled where it
  changes, and calls of operations that are;
- Lab access: the add-on's resolver answers a constant (`resolvers.js:309`), so
  there is no state to follow; the probes of `lab-capability.js` are called by
  nothing;
- the add-on's scripts and the HTTP side of its server;
- drawing, filters and layout in the panel, and the vendored graph library;
- the constants, the shim over two versions of a registry call, and the
  repository's tooling (`.specify/`).
