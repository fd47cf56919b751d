---------------------------- MODULE ExplorerPanel ----------------------------
(***************************************************************************)
(* The Ontology Explorer in the browser (panel/ontology-panel.js and the   *)
(* part of ontology-graph.js that keeps nodes): loading a snapshot,        *)
(* subscribing from its revision, reconnecting, applying live events,      *)
(* selecting and expanding nodes.  Every call to Home Assistant is a task  *)
(* that resumes when its answer arrives; answers may overtake each other,  *)
(* and anything else may run in between.  The events of one subscription   *)
(* arrive in order.                                                        *)
(*                                                                         *)
(* The graph is a few nodes, each with the revision of its last change;    *)
(* any of them is within one hop of any other.  Coalescing and the bounded *)
(* buffer are in GraphStream.  A panel may leave the page and be put back. *)
(* Lists, filters and styling are left out.                                *)
(***************************************************************************)
EXTENDS Integers, Sequences, FiniteSets

CONSTANTS Nodes,
          NoOne,         \* no node
          MaxAttempts,   \* SUBSCRIPTION_MAX_RECONNECT_ATTEMPTS
          MaxChanges,    \* bound: changes of the ontology
          MaxLoads,      \* bound: snapshots asked for
          MaxAsks,       \* bound: detail and expansion requests in flight
          MaxFailures    \* bound: calls the gateway refuses

ASSUME PanelAssumption ==
    /\ NoOne \notin Nodes
    /\ MaxAttempts \in Nat /\ MaxLoads \in Nat \ {0}
    /\ MaxChanges \in Nat /\ MaxAsks \in Nat /\ MaxFailures \in Nat

Absent == -1
View == [Nodes -> Absent..MaxChanges]
NoNodes == [n \in Nodes |-> Absent]
NoAsk == [kind |-> "none"]

VARIABLES
    \* Home Assistant and the graph
    world,      \* the ontology: each node's last revision, or Absent
    published,  \* events published so far; a revision is a position in it
    failures,   \* refused calls (bound)
    \* loading and the subscription
    loads,      \* every load so far, with the subscription it led to
    current,    \* the load whose subscription has the current generation, or 0
    handle,     \* _subscriptionUnsubscribe: whose it is, or 0
    timers,     \* reconnect timers that will fire
    stored,     \* _subscriptionReconnectTimer is the newest of them, not null
    attempts,   \* _subscriptionReconnectAttempt
    indicator,  \* data-subscription-state
    banner,     \* _showState; "retry" is any state with the Retry button
    inPage,     \* isConnected
    left,       \* history: it has left the page since it last subscribed
    \* what is on screen
    heard,      \* history: the revision the 3D graph has been brought to
    shown,      \* OntologyGraph._nodeMap
    snap,       \* _snapshot.nodes
    detail,     \* _currentDetailId
    selected,   \* OntologyGraph._selectedId
    details,    \* the node in the open details section, or NoOne
    asks        \* requests in flight about single nodes

worldVars == <<world, published, failures>>
linkVars  == <<loads, current, handle, timers, stored, attempts, indicator, banner, inPage, left>>
viewVars  == <<heard, shown, snap, detail, selected, details, asks>>
panelVars      == <<worldVars, linkVars, viewVars>>

Load(kind, stage, next) ==
    [kind |-> kind, stage |-> stage, rev |-> 0, view |-> NoNodes, next |-> next]

NewLoad(kind) == Load(kind, "asked", 0)

\* A load that led to no subscription, or to one that is closed.
Over == Load("none", "closed", 0)

PanelInit ==
    /\ world \in [Nodes -> {Absent, 0}]
    /\ published = <<>>
    /\ failures = 0
    /\ loads = <<NewLoad("view")>>
    /\ current = 0
    /\ handle = 0
    /\ timers = 0
    /\ stored = FALSE
    /\ attempts = 0
    /\ indicator = "none"
    /\ banner = "loading"
    /\ inPage = TRUE
    /\ left = FALSE
    /\ heard = 0
    /\ shown = NoNodes
    /\ snap = NoNodes
    /\ detail = NoOne
    /\ selected = NoOne
    /\ details = NoOne
    /\ asks = [k \in 1..MaxAsks |-> NoAsk]

MayFail == failures < MaxFailures /\ failures' = failures + 1

\* Nodes of `new` replace or join those of `old`.
Merge(old, new) == [n \in Nodes |-> IF new[n] # Absent THEN new[n] ELSE old[n]]

-----------------------------------------------------------------------------
(* The ontology changes; each change is published with the next revision *)

Changes(kind, id) ==
    /\ Len(published) < MaxChanges
    /\ published' = Append(published, [kind |-> kind, id |-> id])
    /\ UNCHANGED <<failures, linkVars, viewVars>>

Upserted(n) ==
    /\ Changes("upsert", n)
    /\ world' = [world EXCEPT ![n] = Len(published) + 1]

Removed(n) ==
    /\ world[n] # Absent
    /\ Changes("remove", n)
    /\ world' = [world EXCEPT ![n] = Absent]

\* A full sync: what it does not write is gone.
Reconciled(S) ==
    /\ Changes("reconcile", NoOne)
    /\ world' = [n \in Nodes |-> IF n \in S THEN Len(published) + 1 ELSE Absent]

-----------------------------------------------------------------------------
(* Loading: the initial load, Retry, the reconnect timer, a reconcile *)

\* _unsubscribe: the generation moves on; the stored unsubscribe is called.
Cancelled == IF handle = 0 THEN loads ELSE [loads EXCEPT ![handle] = Over]

ClearTimer == timers' = (IF stored THEN timers - 1 ELSE timers) /\ stored' = FALSE

\* _loadSnapshot up to its await.
BeginLoad(kind) ==
    /\ Len(loads) < MaxLoads
    /\ loads' = Append(Cancelled, NewLoad(kind))
    /\ current' = 0
    /\ handle' = 0
    /\ ClearTimer
    /\ UNCHANGED <<attempts, indicator, inPage, left>>

Retry ==
    /\ inPage
    /\ banner = "retry"
    /\ BeginLoad("view")
    /\ banner' = "loading"
    /\ UNCHANGED <<worldVars, viewVars>>

\* The timer's own snapshot request: nothing is unsubscribed first.
ReconnectNow ==
    /\ timers > 0
    /\ Len(loads) < MaxLoads
    /\ timers' = timers - 1
    /\ stored' = FALSE
    /\ loads' = Append(loads, NewLoad("reconnect"))
    /\ UNCHANGED <<worldVars, current, handle, attempts, indicator, banner, inPage, left,
                   viewVars>>

\* _handle_graph_snapshot
SnapshotAnswered(i) ==
    /\ loads[i].stage = "asked"
    /\ \/ /\ loads' = [loads EXCEPT ![i].stage = "answered", ![i].rev = Len(published), ![i].view = world]
          /\ UNCHANGED failures
       \/ /\ loads' = [loads EXCEPT ![i].stage = "failed"]
          /\ MayFail
    /\ UNCHANGED <<world, published, current, handle, timers, stored, attempts, indicator,
                   banner, inPage, left, viewVars>>

\* _startSubscription
StartSubscription(i) ==
    /\ loads' = [loads EXCEPT ![i] = Load("none", "subscribing", loads[i].rev + 1)]
    /\ current' = i
    /\ indicator' = "live"
    /\ attempts' = 0
    /\ left' = FALSE
    /\ UNCHANGED <<handle, timers, stored, inPage>>

\* setSnapshot
ShowSnapshot(view) == shown' = view /\ selected' = NoOne

EmptySnapshot(i) ==
    /\ loads[i].stage = "answered"
    /\ loads[i].kind # "reconnect"
    /\ loads[i].view = NoNodes
    /\ loads' = [loads EXCEPT ![i] = Over]
    /\ snap' = NoNodes
    /\ banner' = "retry"
    /\ UNCHANGED <<worldVars, current, handle, timers, stored, attempts, indicator, inPage, left,
                   heard, shown, detail, selected, details, asks>>

\* A silent load only adds to what is shown.
FinishLoad(i) ==
    /\ loads[i].stage = "answered"
    /\ loads[i].kind = "reconnect" \/ loads[i].view # NoNodes
    /\ snap' = loads[i].view
    /\ heard' = loads[i].rev
    /\ IF loads[i].kind = "silent" /\ shown # NoNodes
       THEN shown' = Merge(shown, loads[i].view) /\ UNCHANGED selected
       ELSE ShowSnapshot(loads[i].view)
    /\ banner' = IF loads[i].kind = "reconnect" THEN banner ELSE "none"
    /\ StartSubscription(i)
    /\ UNCHANGED <<worldVars, detail, details, asks>>

\* Seeded fault: a silent load fails in silence.
FailLoadQuietly(i) ==
    /\ loads[i].stage = "failed"
    /\ loads[i].kind # "reconnect"
    /\ loads' = [loads EXCEPT ![i] = Over]
    /\ banner' = IF loads[i].kind = "silent" THEN banner ELSE "retry"
    /\ UNCHANGED <<worldVars, current, handle, timers, stored, attempts, indicator, inPage,
                   left, viewVars>>

FailLoad(i) ==
    /\ loads[i].stage = "failed"
    /\ loads[i].kind # "reconnect"
    /\ loads' = [loads EXCEPT ![i] = Over]
    /\ banner' = "retry"
    /\ UNCHANGED <<worldVars, current, handle, timers, stored, attempts, indicator, inPage,
                   left, viewVars>>

\* Seeded fault: one attempt too many.
ScheduleReconnectOnce ==
    IF attempts > MaxAttempts
    THEN indicator' = "stale" /\ UNCHANGED <<timers, stored, attempts>>
    ELSE /\ indicator' = "reconnecting"
         /\ attempts' = attempts + 1
         /\ timers' = timers + 1
         /\ stored' = TRUE

\* _setSubscriptionState("stale"), then _scheduleReconnect
ScheduleReconnect ==
    IF attempts >= MaxAttempts
    THEN indicator' = "stale" /\ UNCHANGED <<timers, stored, attempts>>
    ELSE /\ indicator' = "reconnecting"
         /\ attempts' = attempts + 1
         /\ timers' = timers + 1
         /\ stored' = TRUE

FailReconnect(i) ==
    /\ loads[i].stage = "failed"
    /\ loads[i].kind = "reconnect"
    /\ loads' = [loads EXCEPT ![i] = Over]
    /\ ScheduleReconnect
    /\ UNCHANGED <<worldVars, current, handle, banner, inPage, left, viewVars>>

-----------------------------------------------------------------------------
(* The subscription *)

\* _handle_graph_subscribe
SubscriptionOpens(i) ==
    /\ loads[i].stage = "subscribing"
    /\ loads' = [loads EXCEPT ![i].stage = "open"]
    /\ UNCHANGED <<worldVars, current, handle, timers, stored, attempts, indicator, banner,
                   inPage, left, viewVars>>

\* Refused: only the current generation reacts.
SubscriptionFails(i) ==
    /\ loads[i].stage = "subscribing"
    /\ MayFail
    /\ loads' = [loads EXCEPT ![i] = Over]
    /\ IF i = current THEN ScheduleReconnect ELSE UNCHANGED <<timers, stored, attempts, indicator>>
    /\ UNCHANGED <<world, published, current, handle, banner, inPage, left, viewVars>>

\* The promise resolves, perhaps after the first events: kept, or cancelled at
\* once when a newer generation exists.
SubscriptionConfirmed(i) ==
    /\ loads[i].stage = "open"
    /\ IF i = current
       THEN handle' = i /\ loads' = [loads EXCEPT ![i].stage = "kept"]
       ELSE loads' = [loads EXCEPT ![i] = Over] /\ UNCHANGED handle
    /\ UNCHANGED <<worldVars, current, timers, stored, attempts, indicator, banner, inPage, left,
                   viewVars>>

\* disconnectedCallback
LeavePage ==
    /\ inPage
    /\ inPage' = FALSE
    /\ left' = TRUE
    /\ loads' = Cancelled
    /\ current' = 0
    /\ handle' = 0
    /\ ClearTimer
    /\ UNCHANGED <<worldVars, attempts, indicator, banner, viewVars>>

\* connectedCallback of an element that was on the page before: it is rendered and
\* its load was started long ago, so nothing is loaded and nothing subscribed.
ReturnToPage ==
    /\ ~ inPage
    /\ inPage' = TRUE
    /\ UNCHANGED <<worldVars, loads, current, handle, timers, stored, attempts, indicator, banner,
                   left, viewVars>>

FreeAsks == {k \in 1..MaxAsks : asks[k] = NoAsk}

\* A request about n, in the first free place.
Ask(kind, n) ==
    /\ FreeAsks # {}
    /\ asks' = [asks EXCEPT ![CHOOSE k \in FreeAsks : \A j \in FreeAsks : k <= j] =
                   [kind |-> kind, id |-> n, stage |-> "asked", view |-> NoNodes]]

Drop(i) == loads' = [loads EXCEPT ![i].next = @ + 1]

\* _handleLiveEvent, for the subscription of load i.
Heard(i) ==
    /\ Drop(i)
    /\ heard' = loads[i].next
    /\ UNCHANGED <<current, handle, timers, stored, attempts, indicator, banner, inPage, left>>

UpsertEvent(i, n) ==
    /\ Heard(i)
    /\ IF shown[n] # Absent THEN Ask("refresh", n) ELSE UNCHANGED asks
    /\ UNCHANGED <<shown, snap, detail, selected, details>>

RemoveEvent(i, n) ==
    /\ Heard(i)
    /\ shown' = [shown EXCEPT ![n] = Absent]
    /\ snap' = [snap EXCEPT ![n] = Absent]
    /\ details' = IF selected = n THEN NoOne ELSE details
    /\ UNCHANGED <<detail, selected, asks>>

ReconcileEvent(i) ==
    /\ BeginLoad("silent")
    /\ UNCHANGED <<banner, viewVars>>

\* Seeded fault: the generation is not compared.
EventArrivesAnyway(i) ==
    /\ loads[i].stage \in {"open", "kept"}
    /\ loads[i].next <= Len(published)
    /\ LET event == published[loads[i].next]
       IN  \/ event.kind = "upsert" /\ UpsertEvent(i, event.id)
           \/ event.kind = "remove" /\ RemoveEvent(i, event.id)
           \/ event.kind = "reconcile" /\ ReconcileEvent(i)
    /\ UNCHANGED worldVars

\* The next event of a subscription; one of an older generation is dropped.
EventArrives(i) ==
    /\ loads[i].stage \in {"open", "kept"}
    /\ loads[i].next <= Len(published)
    /\ LET event == published[loads[i].next]
       IN  \/ i = current /\ event.kind = "upsert" /\ UpsertEvent(i, event.id)
           \/ i = current /\ event.kind = "remove" /\ RemoveEvent(i, event.id)
           \/ i = current /\ event.kind = "reconcile" /\ ReconcileEvent(i)
           \/ /\ i # current
              /\ Drop(i)
              /\ UNCHANGED <<current, handle, timers, stored, attempts, indicator, banner,
                             inPage, left, viewVars>>
    /\ UNCHANGED worldVars

-----------------------------------------------------------------------------
(* Selecting *)

\* A click on a node, or on a fresh search result, which need not be on screen.
Select(n) ==
    /\ inPage
    /\ Ask("detail", n)
    /\ detail' = n
    /\ \/ shown[n] # Absent /\ selected' = n
       \/ world[n] # Absent /\ UNCHANGED selected
    /\ UNCHANGED <<worldVars, linkVars, heard, shown, snap, details>>

\* A click on the background.
Deselect ==
    /\ inPage
    /\ detail' = NoOne
    /\ details' = NoOne
    /\ selected' = NoOne
    /\ shown' = IF snap # NoNodes THEN snap ELSE shown
    /\ UNCHANGED <<worldVars, linkVars, heard, snap, asks>>

\* _handle_graph_search fails: the state with the Retry button is shown.
SearchFails ==
    /\ inPage
    /\ MayFail
    /\ banner' = "retry"
    /\ UNCHANGED <<world, published, loads, current, handle, timers, stored, attempts, indicator,
                   inPage, left, viewVars>>

\* _handle_graph_detail, _handle_graph_expand
AskAnswered(k) ==
    /\ asks[k] # NoAsk
    /\ asks[k].stage = "asked"
    /\ \/ /\ asks' = [asks EXCEPT ![k].stage = "answered", ![k].view = world]
          /\ UNCHANGED failures
       \/ /\ asks' = [asks EXCEPT ![k].stage = "failed"]
          /\ MayFail
    /\ UNCHANGED <<world, published, linkVars, heard, shown, snap, detail, selected, details>>

Resumes(k, kind) ==
    /\ asks[k] # NoAsk
    /\ asks[k].kind = kind
    /\ asks[k].stage \in {"answered", "failed"}

\* An element that is not found is an error too.
Found(k) == asks[k].stage = "answered" /\ asks[k].view[asks[k].id] # Absent

Done(k) == asks' = [asks EXCEPT ![k] = NoAsk]

\* The rest of _loadDetail and _selectionChanged.  A selection that has moved on
\* is left alone; otherwise the expansion is asked for, found or not.
Overtaken(k) == detail # asks[k].id

Expand(k) == asks' = [asks EXCEPT ![k].kind = "expand", ![k].stage = "asked", ![k].view = NoNodes]

\* Seeded fault: the answer is shown without comparing.
DetailLoadedAnyway(k) ==
    /\ Resumes(k, "detail")
    /\ Found(k)
    /\ details' = asks[k].id
    /\ IF Overtaken(k) THEN Done(k) ELSE Expand(k)
    /\ UNCHANGED <<worldVars, linkVars, heard, shown, snap, detail, selected>>

DetailLoaded(k) ==
    /\ Resumes(k, "detail")
    /\ Found(k)
    /\ IF Overtaken(k) THEN Done(k) /\ UNCHANGED details
                       ELSE Expand(k) /\ details' = asks[k].id
    /\ UNCHANGED <<worldVars, linkVars, heard, shown, snap, detail, selected>>

\* The error is shown whatever is selected by now.
DetailMissing(k) ==
    /\ Resumes(k, "detail")
    /\ ~ Found(k)
    /\ banner' = "retry"
    /\ IF Overtaken(k) THEN Done(k) ELSE Expand(k)
    /\ UNCHANGED <<worldVars, loads, current, handle, timers, stored, attempts, indicator,
                   inPage, left,
                   heard, shown, snap, detail, selected, details>>

\* A focused node the answer does not hold is taken from the snapshot.
Slice(k) ==
    LET id == asks[k].id
    IN  IF asks[k].view[id] = Absent THEN [asks[k].view EXCEPT ![id] = snap[id]] ELSE asks[k].view

\* _expandNodeNeighborhood after its awaits.
Expanded(k) ==
    /\ Resumes(k, "expand")
    /\ IF asks[k].stage = "failed" \/ Overtaken(k)
       THEN UNCHANGED <<shown, snap, selected>>
       ELSE /\ snap' = Merge(snap, Slice(k))
            /\ shown' = Merge(shown, Slice(k))
            /\ selected' = asks[k].id
    /\ Done(k)
    /\ UNCHANGED <<worldVars, linkVars, heard, detail, details>>

\* The answer an upsert event asked for: merged whatever happened since.
Refreshed(k) ==
    /\ Resumes(k, "refresh")
    /\ shown' = IF Found(k) THEN [shown EXCEPT ![asks[k].id] = asks[k].view[asks[k].id]] ELSE shown
    /\ Done(k)
    /\ UNCHANGED <<worldVars, linkVars, heard, snap, detail, selected, details>>

-----------------------------------------------------------------------------
Ontology ==
    \/ \E n \in Nodes : Upserted(n) \/ Removed(n)
    \/ \E S \in SUBSET Nodes : Reconciled(S)

Link ==
    \/ Retry
    \/ ReconnectNow
    \/ LeavePage
    \/ ReturnToPage
    \/ \E i \in 1..Len(loads) :
          \/ SnapshotAnswered(i)
          \/ EmptySnapshot(i)
          \/ FinishLoad(i)
          \/ FailLoad(i)
          \/ FailReconnect(i)
          \/ SubscriptionOpens(i)
          \/ SubscriptionFails(i)
          \/ SubscriptionConfirmed(i)
          \/ EventArrives(i)

User ==
    \/ \E n \in Nodes : Select(n)
    \/ Deselect
    \/ SearchFails

Answers ==
    \E k \in 1..MaxAsks :
        AskAnswered(k) \/ DetailLoaded(k) \/ DetailMissing(k) \/ Expanded(k) \/ Refreshed(k)

PanelNext == Ontology \/ Link \/ User \/ Answers

PanelSpec == PanelInit /\ [][PanelNext]_panelVars

-----------------------------------------------------------------------------
Stages == {"asked", "answered", "failed", "subscribing", "open", "kept", "closed"}

PanelTypeOK ==
    /\ world \in View
    /\ \A i \in 1..Len(loads) :
          loads[i].stage \in Stages /\ loads[i].next \in 0..MaxChanges + 1 /\ loads[i].view \in View
    /\ current \in 0..Len(loads)
    /\ handle \in 0..Len(loads)
    /\ timers \in Nat
    /\ stored \in BOOLEAN
    /\ attempts \in 0..MaxAttempts
    /\ indicator \in {"none", "live", "stale", "reconnecting"}
    /\ banner \in {"none", "loading", "retry"}
    /\ heard \in 0..MaxChanges
    /\ shown \in View
    /\ snap \in View
    /\ {detail, selected, details} \subseteq Nodes \cup {NoOne}

\* The 3D graph and the stream that feeds it agree: the current subscription
\* goes on exactly where the graph stands, however loads overlap, whichever
\* finishes last, and whatever an older subscription still delivers.
StreamFollowsGraph ==
    current # 0 /\ loads[current].stage \in {"subscribing", "open", "kept"}
        => loads[current].next = heard + 1

InFlight == \E i \in 1..Len(loads) : loads[i].stage \in {"asked", "answered", "failed"}

Listening == current # 0 /\ loads[current].stage \in {"subscribing", "open", "kept"}

\* 005 spec.md FR-016: a panel that hears of no changes, and is not about to, says
\* so, with the banner or with the indicator, however its loads, subscriptions and
\* timers end; but for one that was taken off the page and has not subscribed since.
DisconnectionIsVisible ==
    ~ Listening /\ ~ InFlight /\ ~ left => banner # "none" \/ indicator \in {"stale", "reconnecting"}

\* A late answer never opens the details of a node the user has left, or any
\* details once nothing is selected: they only ever open for the selection of
\* that moment.
DetailsFollowSelection ==
    [][details' \notin {details, NoOne} => details' = detail]_panelVars

\* The panel goes on exactly where its graph stands, or it says that it does not.
\* Only one that was taken off the page and put back may be silent.
LiveOrSaysSo == PanelTypeOK /\ StreamFollowsGraph /\ DisconnectionIsVisible
=============================================================================
