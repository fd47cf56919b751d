----------------------------- MODULE SpatialSync -----------------------------
(***************************************************************************)
(* The floor plan: walls and pins are asked of the spatial_context         *)
(* integration and merged into the graph one write at a time               *)
(* (spatial_sync.py), under the coordinator's lock, while the user draws   *)
(* on.  Two validation checks read what is there.                          *)
(*                                                                         *)
(* A place on a floor is a spot, and of a wall only the openings are kept. *)
(***************************************************************************)
EXTENDS FiniteSets, Naturals

CONSTANTS Floors, Walls, Spots, Openings,
          Drawable,      \* the entities
          Home,          \* the floor of each entity
          ByDevice,      \* the entities whose area is that of their device
          MaxDrawings,   \* bound: changes of the floor plan
          MaxLostWrites, \* bound: graph writes that fail
          None

\* Where a pin or a wall may be drawn.  The plan may have floors that Home
\* Assistant does not know: None is one.
PinPlaces == (Floors \union {None}) \X Spots

WallPlaces == (Floors \union {None}) \X SUBSET Openings

\* What is assumed of the constants: None is nothing else.
ASSUME SpatialAssumption ==
    /\ Home \in [Drawable -> Floors]
    /\ ByDevice \subseteq Drawable
    /\ IsFiniteSet(Drawable) /\ IsFiniteSet(Walls)
    /\ MaxDrawings \in Nat /\ MaxLostWrites \in Nat
    /\ None \notin Floors \union Spots /\ None \notin BOOLEAN
    /\ \A at \in PinPlaces : at # None
    /\ \A at \in WallPlaces : at # None /\ at[2] # None

VARIABLES plan,      \* the drawing: pins and walls
          inGraph,   \* the Entity nodes of the graph
          pins,      \* PINNED_ON_FLOOR relationships, with their spot
          walls,     \* Wall nodes, with their openings
          onFloor,   \* ON_FLOOR relationships of walls
          stage,     \* idle, asking, or writing
          response,  \* the drawing as it was answered
          floor,     \* the floor that is written
          left,      \* the floors, pins and walls that are still to be written
          counts,    \* what the last sync counted
          copied,    \* TRUE after a sync that went through, FALSE after one that
                     \* failed, None once anything else happened
          drawings, lostWrites

graph == <<inGraph, pins, walls, onFloor>>
sync == <<stage, response, floor, left>>
planVars == <<plan, graph, sync, counts, copied, drawings, lostWrites>>

\* An entity is drawn at one spot, a wall on one floor.
Plans == [pins  : [Drawable -> PinPlaces \union {None}],
          walls : [Walls -> WallPlaces \union {None}]]

NoPlan == [pins |-> [e \in Drawable |-> None], walls |-> [w \in Walls |-> None]]

NothingLeft == [floors |-> {}, pins |-> {}, walls |-> {}]

PlanInit ==
    /\ plan = NoPlan
    /\ inGraph \in SUBSET Drawable
    /\ pins = [e \in Drawable |-> [f \in Floors |-> None]]
    /\ walls = [w \in Walls |-> None]
    /\ onFloor = {}
    /\ stage = "idle" /\ response = NoPlan /\ floor = None /\ left = NothingLeft
    /\ counts = [walls |-> 0, pins |-> 0]
    /\ copied = None
    /\ drawings = 0 /\ lostWrites = 0

-----------------------------------------------------------------------------
(* The user draws, and other operations of the coordinator change the graph. *)

Draw ==
    /\ drawings < MaxDrawings
    /\ drawings' = drawings + 1
    /\ \/ \E e \in Drawable, at \in PinPlaces \union {None} :
              plan' = [plan EXCEPT !.pins[e] = at]
       \/ \E w \in Walls, at \in WallPlaces \union {None} :
              plan' = [plan EXCEPT !.walls[w] = at]
    /\ UNCHANGED <<graph, sync, counts, copied, lostWrites>>

\* A registry update writes or detaches an entity; the floors stay.
EntityChanges(e) ==
    /\ stage = "idle"
    /\ inGraph' = (inGraph \union {e}) \ (inGraph \intersect {e})
    /\ pins' = [pins EXCEPT ![e] = [f \in Floors |-> None]]
    /\ copied' = None
    /\ UNCHANGED <<plan, walls, onFloor, sync, counts, drawings, lostWrites>>

\* A rebuild clears what the integration owns, walls and pins with it, and
\* builds the entities and floors again, but not the drawing.
Rebuild ==
    /\ stage = "idle"
    /\ inGraph' \in SUBSET Drawable
    /\ pins' = [e \in Drawable |-> [f \in Floors |-> None]]
    /\ walls' = [w \in Walls |-> None]
    /\ onFloor' = {}
    /\ copied' = None
    /\ UNCHANGED <<plan, sync, counts, drawings, lostWrites>>

-----------------------------------------------------------------------------
(* async_sync_spatial_layout.                                                *)

EndSync(ok) == copied' = ok /\ stage' = "idle" /\ floor' = None /\ left' = NothingLeft

\* Without the integration there is nothing to do, which is a success too.
Unavailable ==
    /\ stage = "idle"
    /\ counts' = [walls |-> 0, pins |-> 0]
    /\ copied' = None
    /\ UNCHANGED <<plan, graph, sync, drawings, lostWrites>>

Ask ==
    /\ stage = "idle"
    /\ stage' = "asking"
    /\ copied' = None
    /\ UNCHANGED <<plan, graph, response, floor, left, counts, drawings, lostWrites>>

\* Floors without an id are passed over.
Answered ==
    /\ stage = "asking"
    /\ response' = plan
    /\ stage' = "writing"
    /\ floor' = None
    /\ left' = [NothingLeft EXCEPT !.floors = Floors]
    /\ counts' = [walls |-> 0, pins |-> 0]
    /\ UNCHANGED <<plan, graph, copied, drawings, lostWrites>>

\* Seeded fault: the pins of every floor are written on the first.
PinsAnywhere(f) == {e \in Drawable : response.pins[e] # None}

PinsOn(f) == {e \in Drawable : response.pins[e] # None /\ response.pins[e][1] = f}

WallsOn(f) == {w \in Walls : response.walls[w] # None /\ response.walls[w][1] = f}

NextFloor ==
    /\ stage = "writing"
    /\ left.pins = {} /\ left.walls = {}
    /\ \E f \in left.floors :
           /\ floor' = f
           /\ left' = [floors |-> left.floors \ {f}, pins |-> PinsOn(f), walls |-> WallsOn(f)]
    /\ UNCHANGED <<plan, graph, stage, response, counts, copied, drawings, lostWrites>>

\* merge_relationship joins nodes that exist, and does nothing otherwise.
Pinned(e, f, spot) == IF e \in inGraph THEN [pins EXCEPT ![e][f] = spot] ELSE pins

WritePin(e) ==
    /\ stage = "writing" /\ e \in left.pins
    /\ pins' = Pinned(e, floor, response.pins[e][2])
    /\ left' = [left EXCEPT !.pins = @ \ {e}]
    /\ counts' = [counts EXCEPT !.pins = @ + 1]
    /\ UNCHANGED <<plan, inGraph, walls, onFloor, stage, response, floor, copied, drawings, lostWrites>>

\* Seeded fault: a wall without openings keeps those it had.
OpeningsAdded(w, openings) == IF openings = {} /\ walls[w] # None THEN walls[w] ELSE openings

\* _opening_arrays: all four properties are written, also when they are empty.
OpeningArrays(w, openings) == openings

\* The node, and then its relationship with the floor.
WriteWall(w) ==
    /\ stage = "writing" /\ left.pins = {} /\ w \in left.walls
    /\ \/ /\ walls' = [walls EXCEPT ![w] = OpeningArrays(w, response.walls[w][2])]
          /\ onFloor' = onFloor \union {<<w, floor>>}
          /\ left' = [left EXCEPT !.walls = @ \ {w}]
          /\ counts' = [counts EXCEPT !.walls = @ + 1]
          /\ UNCHANGED <<stage, floor, copied, lostWrites>>
       \/ /\ lostWrites < MaxLostWrites   \* the second write fails
          /\ lostWrites' = lostWrites + 1
          /\ walls' = [walls EXCEPT ![w] = OpeningArrays(w, response.walls[w][2])]
          /\ EndSync(FALSE)
          /\ UNCHANGED <<onFloor, counts>>
    /\ UNCHANGED <<plan, inGraph, pins, response, drawings>>

WritingEnds ==
    /\ stage = "writing"
    /\ left = NothingLeft
    /\ EndSync(TRUE)
    /\ UNCHANGED <<plan, graph, response, counts, drawings, lostWrites>>

\* The service or a write fails; what was written stays.
Fail ==
    /\ stage # "idle"
    /\ lostWrites < MaxLostWrites
    /\ lostWrites' = lostWrites + 1
    /\ EndSync(FALSE)
    /\ UNCHANGED <<plan, graph, response, counts, drawings>>

PlanNext ==
    \/ Draw \/ Rebuild \/ Unavailable \/ Ask \/ Answered \/ NextFloor \/ WritingEnds \/ Fail
    \/ \E e \in Drawable : EntityChanges(e) \/ WritePin(e)
    \/ \E w \in Walls : WriteWall(w)

PlanSpec == PlanInit /\ [][PlanNext]_planVars

-----------------------------------------------------------------------------
(* Validation: what the graph misses of the drawing.                         *)

IsPinned(e, f) == pins[e][f] # None

Covered(f) == (\E w \in Walls : <<w, f>> \in onFloor) \/ (\E e \in Drawable : IsPinned(e, f))

\* _detect_floor_missing_spatial_coverage, of floors with an area
MissingCoverage == {f \in Floors : (\E e \in Drawable : Home[e] = f) /\ ~Covered(f)}

\* Seeded fault: a pin on any floor will do.
MissingPinAnywhere ==
    {e \in inGraph \ ByDevice : Covered(Home[e]) /\ \A f \in Floors : ~IsPinned(e, f)}

\* _detect_entity_missing_floor_pin: an entity is on the floor of its own area
MissingPin == {e \in inGraph \ ByDevice : Covered(Home[e]) /\ ~IsPinned(e, Home[e])}

-----------------------------------------------------------------------------
\* Graph, plan and operation are of their kinds, what is left to write is in
\* the answer, and no more is counted than the answer has.
PlanTypeOK ==
    /\ plan \in Plans /\ response \in Plans
    /\ inGraph \subseteq Drawable
    /\ pins \in [Drawable -> [Floors -> Spots \union {None}]]
    /\ walls \in [Walls -> (SUBSET Openings) \union {None}]
    /\ onFloor \subseteq Walls \X Floors
    /\ stage \in {"idle", "asking", "writing"}
    /\ left \in [floors : SUBSET Floors, pins : SUBSET Drawable, walls : SUBSET Walls]
    /\ \A e \in left.pins : response.pins[e] # None /\ response.pins[e][1] = floor
    /\ \A w \in left.walls : response.walls[w] # None /\ response.walls[w][1] = floor
    /\ counts.pins \in 0..Cardinality(Drawable) /\ counts.walls \in 0..Cardinality(Walls)
    /\ copied \in {TRUE, FALSE, None}

OnKnownFloor(at) == at # None /\ at[1] # None

\* After a sync that succeeded, and until something else writes, the graph has
\* every pin and wall of the drawing it was answered, where it was then drawn
\* and with the openings it then had (async_sync_spatial_layout).
LayoutIsCopied ==
    copied = TRUE =>
        /\ \A e \in inGraph :
               OnKnownFloor(response.pins[e]) => pins[e][response.pins[e][1]] = response.pins[e][2]
        /\ \A w \in Walls :
               OnKnownFloor(response.walls[w]) =>
                   walls[w] = response.walls[w][2] /\ <<w, response.walls[w][1]>> \in onFloor

\* An entity that the sync found drawn on its own floor is not reported, one
\* that the graph has pinned on another floor only is (validation.py).
ReportedIfNotDrawn ==
    copied = TRUE =>
        \A e \in inGraph \ ByDevice :
            /\ OnKnownFloor(response.pins[e]) /\ response.pins[e][1] = Home[e] => e \notin MissingPin
            /\ ~IsPinned(e, Home[e]) => e \in MissingPin \/ Home[e] \in MissingCoverage

\* The graph holds the drawing, and what of the drawing it lacks is reported.
PlanIsKept == PlanTypeOK /\ LayoutIsCopied /\ ReportedIfNotDrawn
=============================================================================
