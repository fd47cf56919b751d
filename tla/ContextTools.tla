---------------------------- MODULE ContextTools ----------------------------
(***************************************************************************)
(* The tools that read the surroundings of an area, a device or an entity, *)
(* each in one query, of a graph that changes between two of them.         *)
(* Identifiers are ids or names, and a list is cut at a limit.  The text   *)
(* of a search and the fields of a node are left out.                      *)
(***************************************************************************)
EXTENDS Integers, FiniteSetsExt

CONSTANTS Areas, Devices, Entities, Automations,
          Sensors,       \* the entities of the domain sensor
          Names, NameOf, \* names, and the name of each area, device, entity, automation
          Linkable,      \* the pairs of nodes that may be linked in this home
          Passing        \* the nodes that come and go

Nodes == Areas \cup Devices \cup Entities \cup Automations

\* HAS_DEVICE, HAS_ENTITY, HAS_AREA (turned round), REFERENCES or CONTROLS.
Pairs == (Areas \X (Devices \cup Entities)) \cup (Devices \X Entities)
            \cup (Automations \X Entities)

\* What is assumed of the constants: an id is of one kind and never a name.
ASSUME ContextAssumption ==
    /\ IsFiniteSet(Areas) /\ IsFiniteSet(Devices) /\ IsFiniteSet(Entities)
    /\ Devices \cap Entities = {}
    /\ NameOf \in [Nodes -> Names] /\ Names \cap Nodes = {}
    /\ Sensors \subseteq Entities /\ Linkable \subseteq Pairs /\ Passing \subseteq Nodes

VARIABLES nodes, edges \* the graph

\* A sync replaces the own area of an entity, but leaves an entity that moved
\* to another device on the old one, and a device in its old area, as well.
Legal(L) == \A e \in Entities : Cardinality({a \in Areas : <<a, e>> \in L}) <= 1

HomeInit ==
    /\ nodes \in {N \in SUBSET Nodes : Nodes \ Passing \subseteq N}
    /\ edges \in SUBSET {l \in Linkable : l[1] \in nodes /\ l[2] \in nodes}
    /\ Legal(edges)

\* Operations of the coordinator write links and nodes.
LinkChanges ==
    /\ \E l \in Linkable :
          /\ l[1] \in nodes /\ l[2] \in nodes
          /\ edges' = (IF l \in edges THEN edges \ {l} ELSE edges \cup {l})
    /\ Legal(edges')
    /\ UNCHANGED nodes

NodeChanges ==
    \E n \in Passing :
        /\ nodes' = (IF n \in nodes THEN nodes \ {n} ELSE nodes \cup {n})
        /\ edges' = {l \in edges : l[1] \in nodes' /\ l[2] \in nodes'}

HomeNext == LinkChanges \/ NodeChanges

HomeSpec == HomeInit /\ [][HomeNext]_<<nodes, edges>>

-----------------------------------------------------------------------------

Of(kind) == kind \cap nodes

Matches(i, kind) == {n \in Of(kind) : n = i \/ NameOf[n] = i}

AreasOf(d)   == {a \in Areas : <<a, d>> \in edges}
OwnAreas(e)  == {a \in Areas : <<a, e>> \in edges}
DevicesOf(e) == {d \in Devices : <<d, e>> \in edges}

\* The entities of an area, one row for each way they come to be in it.
AreaRows(a) ==
    ({"device"} \X {e \in Entities : \E d \in DevicesOf(e) : a \in AreasOf(d)})
        \cup ({"own"} \X {e \in Entities : a \in OwnAreas(e)})

Listed(rows) == {r[2] : r \in rows}

\* area_context, uncut.
AreaContext(a) ==
    [devices |-> {d \in Devices : a \in AreasOf(d)}, entities |-> Listed(AreaRows(a))]

\* device_context, uncut; a device in several areas is answered with one.
DeviceContext(d) == [areas |-> AreasOf(d), entities |-> {e \in Entities : d \in DevicesOf(e)}]

\* Seeded fault: an entity with an area of its own is in that area only.
OwnAreaFirst(e) ==
    [devices |-> DevicesOf(e),
     areas   |-> IF OwnAreas(e) # {} THEN OwnAreas(e) ELSE UNION {AreasOf(d) : d \in DevicesOf(e)},
     dependents |-> {x \in Automations : <<x, e>> \in edges}]

\* entity_context, uncut: the area of the device comes before that of the entity.
EntityContext(e) ==
    [devices |-> DevicesOf(e),
     areas   |-> LET ofDevices == UNION {AreasOf(d) : d \in DevicesOf(e)}
                 IN IF ofDevices # {} THEN ofDevices ELSE OwnAreas(e),
     dependents |-> {x \in Automations : <<x, e>> \in edges}]

\* ontology/entity_context of the panel.  It asks for a HAS_AREA that leads from
\* the area to the entity; a sync writes the other direction only.
PanelEntity(e) ==
    [devices |-> DevicesOf(e),
     areas   |-> UNION {AreasOf(d) : d \in DevicesOf(e)},
     dependents |-> {x \in Automations : <<x, e>> \in edges}]

\* ontology/area_context of the panel: what the two rows list, once.
PanelArea(a) ==
    [devices  |-> {d \in Devices : a \in AreasOf(d)},
     entities |-> {e \in Entities : a \in OwnAreas(e) \cup UNION {AreasOf(d) : d \in DevicesOf(e)}}]

\* automation_dependencies: of every entity the identifier matches.
AutomationDependencies(i) ==
    {x \in Automations : \E e \in Matches(i, Entities) : <<x, e>> \in edges}

\* Seeded fault: a sensor with a device counts as placed, wherever the device is.
UnassignedButWithDevice ==
    {d \in Of(Devices) : AreasOf(d) = {}}
        \cup {e \in Of(Sensors) : OwnAreas(e) = {} /\ DevicesOf(e) = {}}

\* unassigned_area_items
Unassigned ==
    {d \in Of(Devices) : AreasOf(d) = {}}
        \cup {e \in Of(Sensors) : OwnAreas(e) = {} /\ \A d \in DevicesOf(e) : AreasOf(d) = {}}

\* Seeded fault: rows are cut before the exact id is looked for.
BranchUnordered(i, kind, limit) ==
    LET all == Matches(i, kind) IN
    {rows \in SUBSET all : Cardinality(rows) = Min({limit, Cardinality(all)})}

\* resolve_target: the rows of one branch, exact ids first, one more than the
\* limit; of all rows only exact ids count where there are any.
Branch(i, kind, limit) ==
    LET all == Matches(i, kind) IN
    {rows \in SUBSET all : /\ Cardinality(rows) = Min({limit + 1, Cardinality(all)})
                           /\ i \in all => i \in rows}

Resolved(i, limit) ==
    LET answers == {a \cup d \cup e : a \in Branch(i, Areas, limit),
                       d \in Branch(i, Devices, limit), e \in Branch(i, Entities, limit)}
        Exact(rows) == IF i \in rows THEN {i} ELSE rows
    IN {[outcome |-> IF rows = {} THEN "not_found"
                     ELSE IF Cardinality(Exact(rows)) = 1 THEN "ok" ELSE "ambiguous",
         candidates |-> Exact(rows),
         truncated |-> Cardinality(Exact(rows)) > limit] : rows \in answers}

\* _export_entity, with area_context's idea of the area of an entity.
EntityRelationships(e) ==
    ({"HAS_ENTITY"} \X DevicesOf(e)) \cup ({"HAS_AREA"} \X EntityContext(e).areas)
        \cup ({"REFERENCES"} \X EntityContext(e).dependents)

\* _export_device
DeviceRelationships(d) ==
    ({"HAS_DEVICE"} \X DeviceContext(d).areas) \cup ({"HAS_ENTITY"} \X DeviceContext(d).entities)

\* _export_automation
AutomationRelationships(x) == {"REFERENCES"} \X {e \in Entities : <<x, e>> \in edges}

-----------------------------------------------------------------------------

\* What an entity says of its device, a device of its entities and an area of
\* both are one story, whichever tool tells it (area_context, device_context,
\* entity_context): an entity is listed in the area its own context names, and
\* what depends on it is what automation_dependencies finds.  The panel's own
\* query of an area lists the same, that of an entity names no other area,
\* and an exported relationship is exported from both its ends.
ContextsAgree ==
    /\ \A a \in Areas : PanelArea(a) = AreaContext(a)
    /\ \A e \in Entities :
        /\ \A d \in Devices : d \in EntityContext(e).devices <=> e \in DeviceContext(d).entities
        /\ AutomationDependencies(e) = EntityContext(e).dependents
        /\ PanelEntity(e).areas \subseteq EntityContext(e).areas
        /\ \A d \in Devices :
              <<"HAS_ENTITY", e>> \in DeviceRelationships(d) <=> <<"HAS_ENTITY", d>> \in EntityRelationships(e)
        /\ \A x \in Automations :
              <<"REFERENCES", e>> \in AutomationRelationships(x) <=> <<"REFERENCES", x>> \in EntityRelationships(e)
        /\ \A a \in Areas :
              /\ a \in EntityContext(e).areas => e \in AreaContext(a).entities
              /\ \A d \in DevicesOf(e) :
                    d \in AreaContext(a).devices => a \in EntityContext(e).areas

\* The items without an area are those that no area lists, in either tool's
\* own way of deciding it (unassigned_area_items against area_context).
UnassignedAreNowhere ==
    \A n \in Of(Devices) \cup Of(Sensors) :
        n \in Unassigned <=>
            \A a \in Areas : n \notin AreaContext(a).devices \cup AreaContext(a).entities

\* An identifier that is an id means that node, however many others bear it
\* as a name and however small the limit; otherwise what is said of the
\* candidates (one, several, more than are listed) is true (resolve_target).
ResolutionIsExact ==
    \A i \in Nodes \cup Names, limit \in 1..2 :
        \A r \in Resolved(i, limit) :
            LET all == Matches(i, Areas \cup Devices \cup Entities) IN
            /\ i \in all => r.outcome = "ok" /\ r.candidates = {i}
            /\ i \notin all =>
                  /\ r.outcome = (IF all = {} THEN "not_found"
                                  ELSE IF Cardinality(all) = 1 THEN "ok" ELSE "ambiguous")
                  /\ r.truncated <=> Cardinality(all) > limit

\* The tools tell one story of what is where, of what is nowhere, and of what
\* an identifier means.
ToolsAgree == ContextsAgree /\ UnassignedAreNowhere /\ ResolutionIsExact
=============================================================================
