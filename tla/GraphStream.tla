----------------------------- MODULE GraphStream -----------------------------
(***************************************************************************)
(* One panel's live connection to the change buffer: snapshot, subscribe   *)
(* with replay, the per-element coalescing of websocket_api.py with its    *)
(* call_later handles, reconcile, unsubscribe, and a reload of the         *)
(* integration under an open panel.  Handlers of the event loop are        *)
(* atomic; the panel's own processing of an event is not modelled beyond   *)
(* "it was told", and a reconcile that makes it load a new snapshot.       *)
(***************************************************************************)
EXTENDS ChangeBuffer

Nothing == [at |-> 0, kind |-> "none"]

VARIABLES
    mode,      \* panel: "load" a snapshot, "loaded", or "live"
    from,      \* revision of its snapshot
    epoch,     \* history: the reload count when it was taken
    attached,  \* its callback is registered with the current buffer
    pending,   \* pending: the coalesced event of each element, or Nothing; its
               \* revision is given by its position in `log`
    timer,     \* timers: the element has a handle in the dictionary
    loose,     \* scheduled handles that are no longer in the dictionary
    told       \* history: position in `log` of the last thing the panel heard
               \* of each element, and what kind of event it was

streamVars == <<mode, from, epoch, attached, pending, timer, loose, told>>
vars == <<bufferVars, streamVars>>

Untold == [e \in Elements |-> [at |-> 0, kind |-> "snapshot"]]

Init ==
    /\ BufferInit
    /\ mode = "load"
    /\ from = 0
    /\ epoch = 0
    /\ attached = FALSE
    /\ pending = [e \in Elements |-> Nothing]
    /\ timer = [e \in Elements |-> FALSE]
    /\ loose = [e \in Elements |-> 0]
    /\ told = Untold

\* The subscription's closures are dropped; what its loose handles still do has
\* no effect.
NoSubscription ==
    /\ attached' = FALSE
    /\ pending' = [e \in Elements |-> Nothing]
    /\ timer' = [e \in Elements |-> FALSE]
    /\ loose' = [e \in Elements |-> 0]

-----------------------------------------------------------------------------
(* The panel *)

\* _loadSnapshot: unsubscribe, then ask; _handle_graph_snapshot reads the
\* revision before the graph, so the nodes are at least that recent.
LoadSnapshot ==
    /\ mode = "load"
    /\ mode' = "loaded"
    /\ from' = revision
    /\ epoch' = reloads
    /\ told' = [e \in Elements |-> [at |-> Len(log), kind |-> "snapshot"]]
    /\ NoSubscription
    /\ UNCHANGED bufferVars

\* Seeded fault: the first of the missed events is the one that stays.
ReplayedFirst(e) ==
    LET mine == {x \in EventsSince(from) : x.id = e}
    IN  IF mine = {} THEN told[e]
        ELSE LET first == CHOOSE x \in mine : \A y \in mine : y.rev >= x.rev
             IN  [at |-> base + first.rev, kind |-> first.kind]

\* What the panel has heard of e after the replay.
Replayed(e) ==
    LET mine == {x \in EventsSince(from) : x.id = e}
    IN  IF mine = {} THEN told[e]
        ELSE LET latest == CHOOSE x \in mine : \A y \in mine : y.rev <= x.rev
             IN  [at |-> base + latest.rev, kind |-> latest.kind]

\* _handle_graph_subscribe: replay or reconcile, then register, in one go.
Subscribe ==
    /\ mode = "loaded"
    /\ attached' = TRUE
    /\ IF CanBridge(from) /\ \A x \in EventsSince(from) : x.kind # "reconcile"
       THEN mode' = "live" /\ told' = [e \in Elements |-> Replayed(e)]
       ELSE mode' = "load" /\ UNCHANGED told
    /\ UNCHANGED <<bufferVars, from, epoch, pending, timer, loose>>

\* The user reloads the view or the connection drops and comes back.
Reopen ==
    /\ mode = "live"
    /\ mode' = "load"
    /\ UNCHANGED <<bufferVars, from, epoch, attached, pending, timer, loose, told>>

-----------------------------------------------------------------------------
(* The subscription's callback, run inside the publication *)

\* Seeded fault: the event carries the revision before it.
CoalescedBefore(e, kind) ==
    IF pending[e] = Nothing THEN [at |-> Len(log), kind |-> kind]
    ELSE [pending[e] EXCEPT !.at = Len(log)]

\* Seeded fault: the first event of the window is kept whole.
CoalescedFirst(e, kind) ==
    IF pending[e] = Nothing THEN [at |-> Len(log) + 1, kind |-> kind] ELSE pending[e]

\* A pending element takes the newer revision and keeps its kind.
Coalesced(e, kind) ==
    IF pending[e] = Nothing THEN [at |-> Len(log) + 1, kind |-> kind]
    ELSE [pending[e] EXCEPT !.at = Len(log) + 1]

\* _on_event: the element's timer is armed, or cancelled and armed again.
PublishElement(kind, e) ==
    /\ Publish(kind, e)
    /\ IF attached
       THEN /\ pending' = [pending EXCEPT ![e] = Coalesced(e, kind)]
            /\ timer' = [timer EXCEPT ![e] = TRUE]
       ELSE UNCHANGED <<pending, timer>>
    /\ UNCHANGED <<mode, from, epoch, attached, loose, told>>

\* A reconcile drops what is pending; the handles leave the dictionary but are
\* not cancelled.
ForgetPending ==
    /\ pending' = [e \in Elements |-> Nothing]
    /\ timer' = [e \in Elements |-> FALSE]
    /\ loose' = [e \in Elements |-> IF timer[e] THEN loose[e] + 1 ELSE loose[e]]

PublishReconcile ==
    /\ Publish("reconcile", All)
    /\ IF attached
       THEN ForgetPending /\ mode' = IF mode = "live" THEN "load" ELSE mode
       ELSE UNCHANGED <<mode, pending, timer, loose>>
    /\ UNCHANGED <<from, epoch, attached, told>>

\* _flush_element: both dictionaries lose the element.  A superseded generation
\* of the panel ignores the message.
Flush(e) ==
    /\ pending' = [pending EXCEPT ![e] = Nothing]
    /\ timer' = [timer EXCEPT ![e] = FALSE]
    /\ told' = IF mode = "live" /\ pending[e] # Nothing
               THEN [told EXCEPT ![e] = pending[e]]
               ELSE told
    /\ UNCHANGED <<bufferVars, mode, from, epoch, attached>>

FireTimer(e) ==
    /\ timer[e]
    /\ Flush(e)
    /\ UNCHANGED loose

\* A handle left over from before a reconcile; the newer one, if any, becomes
\* a left-over in its place.
FireLoose(e) ==
    /\ loose[e] > 0
    /\ Flush(e)
    /\ loose' = [loose EXCEPT ![e] = IF timer[e] THEN @ ELSE @ - 1]

\* async_reload_entry under an open panel: its callback stays with the old
\* coordinator's buffer, which will publish nothing more.
Reload ==
    /\ NewBuffer
    /\ attached' = FALSE
    /\ UNCHANGED <<mode, from, epoch, pending, timer, loose, told>>

Next ==
    \/ LoadSnapshot
    \/ Subscribe
    \/ Reopen
    \/ \E e \in Elements : PublishElement("upsert", e) \/ PublishElement("remove", e)
    \/ PublishReconcile
    \/ \E e \in Elements : FireTimer(e) \/ FireLoose(e)
    \/ Reload

\* Handles fire and the panel follows up on what it was told.  Nothing is
\* assumed of publications, reopening or reloads.
Fairness ==
    /\ WF_vars(LoadSnapshot)
    /\ WF_vars(Subscribe)
    /\ \A e \in Elements : WF_vars(FireTimer(e)) /\ WF_vars(FireLoose(e))

Spec == Init /\ [][Next]_vars

FairSpec == Spec /\ Fairness

-----------------------------------------------------------------------------
TypeOK ==
    /\ mode \in {"load", "loaded", "live"}
    /\ from \in 0..MaxEvents
    /\ epoch \in 0..MaxReloads
    /\ attached \in BOOLEAN
    /\ pending \in [Elements -> [at : 1..MaxEvents, kind : {"upsert", "remove"}] \cup {Nothing}]
    /\ timer \in [Elements -> BOOLEAN]
    /\ loose \in [Elements -> 0..MaxEvents]
    /\ told \in [Elements -> [at : 0..MaxEvents, kind : {"upsert", "remove", "snapshot"}]]

\* Position in `log` of the last event that named e.
LastAt(e) ==
    LET mine == {i \in 1..Len(log) : log[i].id = e}
    IN  IF mine = {} THEN 0 ELSE CHOOSE i \in mine : \A j \in mine : j <= i

\* Of element e the panel has heard the last change, or it waits to be sent.
Follows(e) == LastAt(e) > told[e].at => pending[e].at = LastAt(e)

\* contracts/websocket-api.md: a live panel with a snapshot of the running
\* coordinator has heard the last change of every element, or the change waits
\* with its latest revision.  Between the snapshot, the replay and the live
\* events nothing falls through.
NothingFallsThrough ==
    mode = "live" /\ attached /\ epoch = reloads => \A e \in Elements : Follows(e)

\* A panel that was told of an upsert or a removal was told of one there was.
ToldOfSomething ==
    \A e \in Elements : told[e].kind # "snapshot" =>
        \E i \in 1..told[e].at : log[i].id = e /\ log[i].kind = told[e].kind

\* Nothing that is published is lost on the way, and nothing is made up.
StreamIsSound == TypeOK /\ NothingFallsThrough /\ ToldOfSomething

\* The stream implements the feed: what the panel hears of an element, through
\* the snapshot, the replay or a window, is the last there is, it never goes
\* back, and unless the integration is reloaded it gets there.
Feed == INSTANCE ChangeFeed WITH told <- [e \in Elements |-> told[e].at], adrift <- epoch # reloads

ImplementsChangeFeed == Feed!Spec
=============================================================================
