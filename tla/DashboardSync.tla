---------------------------- MODULE DashboardSync ----------------------------
(***************************************************************************)
(* The dashboards in the graph (dashboard_sync.py): the last part of a     *)
(* rebuild or resync loads each dashboard in turn and merges a node for    *)
(* each of its cards, named by its place, and a relationship to each       *)
(* entity the card mentions.  The user edits dashboards all the while.     *)
(*                                                                         *)
(* A card is the set of entities it mentions.  A view has cards, and may   *)
(* have sections with cards of their own.                                  *)
(***************************************************************************)
EXTENDS Naturals, FiniteSets, SequencesExt

CONSTANTS Dashboards, Displayable,
          Configs,      \* the configurations a dashboard may have
          MaxEdits,     \* bound: changes of a dashboard
          MaxLostCards, \* bound: graph writes that fail
          Absent        \* no dashboard; in place of a configuration: it cannot be loaded

View == [cards : Seq(SUBSET Displayable), sections : Seq(Seq(SUBSET Displayable))]

ASSUME DashboardsAssumption ==
    /\ Configs \subseteq Seq(View)
    /\ Absent \notin Dashboards \union Configs
    /\ MaxEdits \in Nat /\ MaxLostCards \in Nat

VARIABLES config,   \* per dashboard, its configuration
          present,  \* the Entity nodes
          cards,    \* DashboardCard nodes: dashboard, view, place
          displays, \* DISPLAYS_ENTITY relationships: a card and an entity
          running,  \* the full sync that has come to the dashboards, or "none"
          waiting,  \* the dashboards it has still to load
          current,  \* the one it writes, and the cards left of it
          loaded,   \* per dashboard, the configuration the last sync wrote
          failed,   \* the dashboards the last sync could not load or write in full
          synced,   \* the kind of the last sync, "none" once an entity came or went
          edits, lost

displayed == <<present, cards, displays>>
copying == <<running, waiting, current, loaded, failed, synced>>
dashboardVars == <<config, displayed, copying, edits, lost>>

Syncs == {"rebuild", "resync"}

Nothing == [dashboard |-> Absent, cards |-> {}]

DashboardsInit ==
    /\ config \in [Dashboards -> Configs \union {Absent}]
    /\ present \in SUBSET Displayable
    /\ cards = {} /\ displays = {}
    /\ running = "none" /\ waiting = {} /\ current = Nothing
    /\ loaded = [d \in Dashboards |-> Absent] /\ failed = {} /\ synced = "none"
    /\ edits = 0 /\ lost = 0

-----------------------------------------------------------------------------
(* _iter_cards                                                               *)

\* The lists of cards of a view: its own, and those of its sections.
Lists(view) == <<view.cards>> \o view.sections

\* Where a card may stand in them, and the one that does.
Positions(view) == UNION {{l} \X DOMAIN Lists(view)[l] : l \in DOMAIN Lists(view)}
CardAt(view, p) == Lists(view)[p[1]][p[2]]

\* The positions up to one.
UpTo(view, p) == {q \in Positions(view) : q[1] < p[1] \/ (q[1] = p[1] /\ q[2] <= p[2])}

\* Seeded fault: the places of a section's cards begin again.
PlacesOfEach(view) == {<<p[2], CardAt(view, p)>> : p \in Positions(view)}

\* Seeded fault: sections are not looked at.
PlacesOfOwn(view) == {<<i, view.cards[i]>> : i \in DOMAIN view.cards}

\* The cards of a view, and then of its sections, are numbered through.
Places(view) == {<<Cardinality(UpTo(view, p)), CardAt(view, p)>> : p \in Positions(view)}

\* View, place and entities of every card.
Cards(c) == UNION {{<<v, p[1], p[2]>> : p \in Places(c[v])} : v \in DOMAIN c}

-----------------------------------------------------------------------------
(* The user, and the rest of the integration.                                *)

EditDashboard(d) ==
    /\ edits < MaxEdits
    /\ edits' = edits + 1
    /\ \E c \in Configs \union {Absent} : config' = [config EXCEPT ![d] = c]
    /\ UNCHANGED <<displayed, copying, lost>>

\* A registry update, which waits for the lock while a sync runs.
EntityComesOrGoes(e) ==
    /\ running = "none"
    /\ present' = IF e \in present THEN present \ {e} ELSE present \union {e}
    /\ displays' = {r \in displays : r[2] # e}
    /\ synced' = "none"
    /\ UNCHANGED <<config, cards, running, waiting, current, loaded, failed, edits, lost>>

BeginDashboards(kind) ==
    /\ running = "none"
    /\ running' = kind /\ waiting' = Dashboards
    /\ loaded' = [d \in Dashboards |-> Absent] /\ failed' = {} /\ synced' = "none"
    /\ IF kind = "rebuild"
       THEN present' \in SUBSET Displayable /\ cards' = {} /\ displays' = {}
       ELSE present' \in {n \in SUBSET Displayable : present \subseteq n} /\ UNCHANGED <<cards, displays>>
    /\ UNCHANGED <<config, current, edits, lost>>

-----------------------------------------------------------------------------
(* async_sync_dashboards.                                                    *)

LoadDashboard(d) ==
    /\ running # "none" /\ current = Nothing /\ d \in waiting
    /\ waiting' = waiting \ {d}
    /\ IF config[d] = Absent
       THEN failed' = failed \union {d} /\ UNCHANGED <<current, loaded>>
       ELSE /\ current' = [dashboard |-> d, cards |-> Cards(config[d])]
            /\ loaded' = [loaded EXCEPT ![d] = config[d]]
            /\ UNCHANGED failed
    /\ UNCHANGED <<config, displayed, running, synced, edits, lost>>

\* Seeded fault: the entity is merged as well.
JoinedAnyway(entities) == entities

\* merge_relationship joins nodes that exist.
Joined(entities) == entities \intersect present

\* A card whose entity is not in the graph is kept, without the relationship.
WriteCard(c) ==
    LET card == <<current.dashboard, c[1], c[2]>>
    IN  /\ c \in current.cards
        /\ current' = [current EXCEPT !.cards = @ \ {c}]
        /\ cards' = cards \union {card}
        /\ displays' = displays \union {<<card, e>> : e \in Joined(c[3])}
        /\ UNCHANGED <<config, present, running, waiting, loaded, failed, synced, edits, lost>>

\* Seeded fault: an exception ends the sync.
StopThere == waiting' = {} /\ current' = Nothing

\* The rest of the dashboard is passed over, the other dashboards are not.
SkipDashboard == waiting' = waiting /\ current' = Nothing

\* A write fails: of a relationship, which is left out; or of the dashboard or
\* a card, with or without its node.
WriteFails ==
    /\ current.dashboard # Absent
    /\ lost < MaxLostCards
    /\ lost' = lost + 1
    /\ failed' = failed \union {current.dashboard}
    /\ \/ \E c \in current.cards :
              LET card == <<current.dashboard, c[1], c[2]>>
              IN  /\ current' = [current EXCEPT !.cards = @ \ {c}]
                  /\ cards' = cards \union {card}
                  /\ \E e \in Joined(c[3]) :
                         displays' = displays \union {<<card, x>> : x \in Joined(c[3]) \ {e}}
                  /\ UNCHANGED waiting
       \/ /\ \E c \in current.cards :
                 cards' \in {cards, cards \union {<<current.dashboard, c[1], c[2]>>}}
          /\ SkipDashboard
          /\ UNCHANGED displays
    /\ UNCHANGED <<config, present, running, loaded, synced, edits>>

DashboardDone ==
    /\ current.dashboard # Absent /\ current.cards = {}
    /\ current' = Nothing
    /\ UNCHANGED <<config, displayed, running, waiting, loaded, failed, synced, edits, lost>>

EndDashboards ==
    /\ running # "none" /\ waiting = {} /\ current = Nothing
    /\ running' = "none"
    /\ synced' = running
    /\ UNCHANGED <<config, displayed, waiting, current, loaded, failed, edits, lost>>

DashboardsNext ==
    \/ \E d \in Dashboards : EditDashboard(d) \/ LoadDashboard(d)
    \/ \E e \in Displayable : EntityComesOrGoes(e)
    \/ \E kind \in Syncs : BeginDashboards(kind)
    \/ \E c \in current.cards : WriteCard(c)
    \/ WriteFails \/ DashboardDone \/ EndDashboards

DashboardsSpec == DashboardsInit /\ [][DashboardsNext]_dashboardVars

-----------------------------------------------------------------------------
\* The entities Lovelace shows on a dashboard: on its views and their sections.
Shown(c) ==
    (UNION {UNION ToSet(c[v].cards) : v \in DOMAIN c})
        \union UNION {UNION {UNION ToSet(section) : section \in ToSet(c[v].sections)} : v \in DOMAIN c}

\* The entities a card node displays.
DisplayedBy(card) == {r[2] : r \in {s \in displays : s[1] = card}}

\* The dashboards the last sync wrote in full.
Written == IF synced = "none" THEN {} ELSE Dashboards \ failed

\* Where Lovelace shows a card, in any list of a view, that mentions exactly
\* these entities of the graph.
ShownWith(view, entities) ==
    {p \in Positions(view) : CardAt(view, p) \intersect present = entities}

\* Nodes and relationships are of known cards and entities, and what is being
\* written was loaded.
DashboardsTypeOK ==
    /\ \A r \in displays : r[1] \in cards /\ r[2] \in present
    /\ \A c \in cards : c[1] \in Dashboards
    /\ running \in Syncs \union {"none"} /\ synced \in Syncs \union {"none"}
    /\ waiting \subseteq Dashboards /\ failed \subseteq Dashboards
    /\ current.dashboard = Absent => current.cards = {}
    /\ current.dashboard # Absent => loaded[current.dashboard] # Absent

\* After a rebuild every card of a dashboard that could be written has one
\* node, with the entities it mentions, wherever in its view it stands, and
\* there are no other nodes of it (_iter_cards, FR-048).
EveryCardHasItsNode ==
    synced = "rebuild" =>
        \A d \in Written, v \in UNION {DOMAIN c : c \in Configs}, entities \in SUBSET present :
            Cardinality({c \in cards : c[1] = d /\ c[2] = v /\ DisplayedBy(c) = entities}) =
                (IF v \in DOMAIN loaded[d] THEN Cardinality(ShownWith(loaded[d][v], entities)) ELSE 0)

\* After any full sync, an entity that a dashboard shows is displayed by one
\* of its cards (_sync_one_dashboard).
ShownIsFound ==
    \A d \in Written : \A e \in Shown(loaded[d]) \intersect present :
        \E c \in cards : c[1] = d /\ e \in DisplayedBy(c)

\* A dashboard that cannot be loaded or written does not keep the sync from
\* the others (FR-050).
OthersStillSynced == \A d \in Written : loaded[d] # Absent

\* The graph holds the cards of every dashboard that could be read and written.
CardsAreKept == DashboardsTypeOK /\ OthersStillSynced /\ EveryCardHasItsNode /\ ShownIsFound
=============================================================================
