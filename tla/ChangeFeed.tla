----------------------------- MODULE ChangeFeed -----------------------------
(***************************************************************************)
(* What a panel is promised about the changes of the graph (005 spec.md    *)
(* FR-014 and contracts/websocket-api.md): changes are numbered, and of    *)
(* each element it hears of the last change there was at that moment,      *)
(* never of an older one and never twice, until it is up to date.  Only a  *)
(* reload of the integration may leave it adrift, until it asks anew.      *)
(* Revisions, the bounded buffer, windows and timers are in GraphStream,   *)
(* which is shown to implement this specification.                         *)
(***************************************************************************)
EXTENDS Integers, Sequences

CONSTANTS Elements, All

VARIABLES log,    \* every change published, [rev, kind, id]
          told,   \* per element, the position of the last change it heard of
          adrift  \* the integration was reloaded since the panel asked

vars == <<log, told, adrift>>

Kinds == {"upsert", "remove", "reconcile"}

\* Position of the last change of e, 0 if there was none.
Last(e) ==
    LET mine == {i \in 1..Len(log) : log[i].id = e}
    IN  IF mine = {} THEN 0 ELSE CHOOSE i \in mine : \A j \in mine : j <= i

Behind(e) == told[e] < Last(e)

Init ==
    /\ log = <<>>
    /\ told = [e \in Elements |-> 0]
    /\ adrift = FALSE

\* Something is published: a change of an element, or of more than can be named.
Change ==
    /\ Len(log') = Len(log) + 1
    /\ log' = Append(log, log'[Len(log) + 1])
    /\ log'[Len(log) + 1].kind \in Kinds /\ log'[Len(log) + 1].id \in Elements \cup {All}
    /\ UNCHANGED <<told, adrift>>

\* One element is sent: what is said of it is the last that there is to say.
Tell(e) ==
    /\ ~ adrift
    /\ Behind(e)
    /\ told' = [told EXCEPT ![e] = Last(e)]
    /\ UNCHANGED <<log, adrift>>

\* Whatever was missed between the answer and the subscription is sent at once.
CatchUp ==
    /\ ~ adrift
    /\ told' = [e \in Elements |-> IF Behind(e) THEN Last(e) ELSE told[e]]
    /\ UNCHANGED <<log, adrift>>

\* The panel asks for everything, as of now.
Refresh ==
    /\ told' = [e \in Elements |-> Len(log)]
    /\ adrift' = FALSE
    /\ UNCHANGED log

Reload ==
    /\ adrift' = TRUE
    /\ UNCHANGED <<log, told>>

\* A panel adrift may be told of some changes; it is not sent back either.
Drift ==
    /\ adrift
    /\ told' \in [Elements -> 0..Len(log)]
    /\ \A e \in Elements : told[e] <= told'[e]
    /\ UNCHANGED <<log, adrift>>

Next ==
    \/ Change
    \/ \E e \in Elements : Tell(e)
    \/ CatchUp
    \/ Refresh
    \/ Reload
    \/ Drift

\* A panel that is not adrift is not left behind.
Spec == Init /\ [][Next]_vars /\ \A e \in Elements : WF_vars(Tell(e))
=============================================================================
