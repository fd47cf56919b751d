---------------------------- MODULE MeshGeometry ----------------------------
(***************************************************************************)
(* What the floor plan makes of a radio link: whether the line between two *)
(* devices crosses a wall, whether through a door, at what slant, and what *)
(* floors lie between them.  Coordinates are integers, and quotients and   *)
(* roots are compared without being formed; the code has floating point    *)
(* numbers and a tolerance.  The loss over the distance and the heights of *)
(* pins are left out.                                                      *)
(***************************************************************************)
EXTENDS Integers, Sequences

CONSTANTS Points,     \* <<x, y>>
          Plans,      \* walls of a floor, [points, openings, attenuation] with openings [at, width, kind]
          FloorPairs, \* floors and levels of the ends, <<[floor, level], [floor, level]>>
          NoLevel,    \* the level of a floor that has none
          FloorHeight

\* What is assumed of the constants.
ASSUME GeometryAssumption ==
    /\ Points \subseteq Int \X Int /\ FloorHeight \in Nat /\ NoLevel \notin Int
    /\ \A walls \in Plans : \A w \in walls :
        /\ w.points \in Seq(Points)
        /\ \A i \in DOMAIN w.openings :
              w.openings[i].at \in Int \X Int /\ w.openings[i].width \in Int
    /\ \A ends \in FloorPairs :
        ends[1].level \in Int \cup {NoLevel} /\ ends[2].level \in Int \cup {NoLevel}

VARIABLES near, far, \* where the ends are pinned
          levels,    \* their floors
          plan,      \* the walls of the floor of the first end
          price      \* what the link is told to cross

pathVars == <<near, far, levels, plan, price>>

Abs(n) == IF n < 0 THEN -n ELSE n
Minus(a, b) == <<a[1] - b[1], a[2] - b[2]>>
Cross(a, b) == a[1] * b[2] - a[2] * b[1]
Square(a) == a[1] * a[1] + a[2] * a[2]
Dot(a, b) == a[1] * b[1] + a[2] * b[2]

\* 0 <= n / d <= 1
IsShare(n, d) == IF d > 0 THEN n \in 0..d ELSE n \in d..0

\* Seeded fault: parallel segments do not meet.
MeetsProperly(s, t, a, b) ==
    LET r == Minus(t, s)
        w == Minus(b, a)
        d == Cross(r, w)
    IN d # 0 /\ IsShare(Cross(Minus(a, s), w), d) /\ IsShare(Cross(Minus(a, s), r), d)

\* Where the lines are not parallel, both must be met between their ends;
\* collinear segments must overlap, seen from the path.
SegmentsIntersect(s, t, a, b) ==
    LET r  == Minus(t, s)
        w  == Minus(b, a)
        d  == Cross(r, w)
        t0 == Dot(Minus(a, s), r)  \* over Square(r)
        t1 == t0 + Dot(w, r)
    IN IF d = 0
       THEN /\ Cross(Minus(a, s), r) = 0 /\ Square(r) # 0
            /\ t0 >= 0 \/ t1 >= 0
            /\ t0 <= Square(r) \/ t1 <= Square(r)
       ELSE IsShare(Cross(Minus(a, s), w), d) /\ IsShare(Cross(Minus(a, s), r), d)

\* Where it crosses, as a numerator for each coordinate and a denominator.
CrossingPoint(s, t, a, b) ==
    LET r == Minus(t, s)
        d == Cross(r, Minus(b, a))
        n == Cross(Minus(a, s), Minus(b, a))
    IN IF d = 0 THEN [at |-> <<a[1] + b[1], a[2] + b[2]>>, over |-> 2]
       ELSE [at |-> <<s[1] * d + n * r[1], s[2] * d + n * r[2]>>, over |-> d]

\* Seeded fault: the slant is not capped.
SlantUncapped(s, t, a, b) ==
    LET r == Minus(t, s)
        w == Minus(b, a)
        c == Cross(r, w) * Cross(r, w)
    IN IF Square(r) = 0 \/ Square(w) = 0 THEN <<1, 1>> ELSE <<Square(r) * Square(w), c>>

\* The square of 1 / cos, capped at 3, as a quotient.
Slant(s, t, a, b) ==
    LET r == Minus(t, s)
        w == Minus(b, a)
        c == Cross(r, w) * Cross(r, w)
    IN IF Square(r) = 0 \/ Square(w) = 0 THEN <<1, 1>>
       ELSE IF 9 * c < Square(r) * Square(w) THEN <<9, 1>>
       ELSE <<Square(r) * Square(w), c>>

Within(x, o) ==
    o.width >= 0 /\ 4 * Square(Minus(x.at, <<o.at[1] * x.over, o.at[2] * x.over>>)) <= o.width * o.width * x.over * x.over

\* OPENING_ATTENUATION_DB: what is no door or window is no way through.
OpeningKinds == {"door", "window"}

\* The first of its openings the point lies in.
OpeningAt(w, x) ==
    LET in == {i \in DOMAIN w.openings : w.openings[i].kind \in OpeningKinds /\ Within(x, w.openings[i])}
    IN IF in = {} THEN "none" ELSE w.openings[CHOOSE i \in in : \A j \in in : i <= j].kind

\* Seeded fault: what counts is the part of the wall that is met first.
FirstAlong(w, s, t) ==
    LET hit == {i \in 1..(Len(w.points) - 1) : SegmentsIntersect(s, t, w.points[i], w.points[i + 1])}
        Share(i) == Abs(Dot(Minus(w.points[i], s), Minus(t, s)))
    IN IF hit = {} THEN {} ELSE {CHOOSE i \in hit : \A j \in hit : Share(i) <= Share(j)}

\* The first part of a wall that is met counts, in the order of its points.
FirstHit(w, s, t) ==
    LET hit == {i \in 1..(Len(w.points) - 1) : SegmentsIntersect(s, t, w.points[i], w.points[i + 1])}
    IN {i \in hit : \A j \in hit : i <= j}

\* wall_crossing_details: what each wall on the way costs.
Crossings(s, t, walls) ==
    UNION {{[wall |-> w, slant |-> Slant(s, t, w.points[i], w.points[i + 1]),
             opening |-> OpeningAt(w, CrossingPoint(s, t, w.points[i], w.points[i + 1]))] :
                i \in FirstHit(w, s, t)} : w \in walls}

\* The slabs between two floors, and the slant of the way through them.
Slabs(s, t, from, to) ==
    LET dz == (to.level - from.level) * FloorHeight
        dd == Square(Minus(t, s)) + dz * dz
    IN [slabs |-> Abs(to.level - from.level),
        slant |-> IF dd = 0 THEN <<1, 1>> ELSE IF 9 * dz * dz < dd THEN <<9, 1>> ELSE <<dd, dz * dz>>]

Unknown == [known |-> FALSE, sameFloor |-> FALSE, walls |-> {}, slabs |-> 0, slant |-> <<1, 1>>]

\* mesh_link_walls, of one link between two pinned devices.
PriceOf(s, t, from, to, walls) ==
    IF from.floor = to.floor
    THEN [Unknown EXCEPT !.known = TRUE, !.sameFloor = TRUE, !.walls = Crossings(s, t, walls)]
    ELSE IF from.level # NoLevel /\ to.level # NoLevel
    THEN LET x == Slabs(s, t, from, to)
         IN [Unknown EXCEPT !.known = TRUE, !.slabs = x.slabs, !.slant = x.slant]
    ELSE Unknown

PathInit ==
    /\ near \in Points /\ far \in Points
    /\ levels \in FloorPairs
    /\ plan \in Plans
    /\ price = Unknown

Price ==
    /\ price = Unknown
    /\ price' = PriceOf(near, far, levels[1], levels[2], plan)
    /\ UNCHANGED <<near, far, levels, plan>>

PathSpec == PathInit /\ [][Price]_pathVars

-----------------------------------------------------------------------------

Sign(n) == IF n > 0 THEN 1 ELSE IF n < 0 THEN -1 ELSE 0
Side(a, b, x) == Sign(Cross(Minus(b, a), Minus(x, a)))
IsOn(x, a, b) == Side(a, b, x) = 0 /\ Dot(Minus(a, x), Minus(b, x)) <= 0

\* Two segments have a point in common: an end of one is on the other, or
\* the ends of each are on different sides of the other.
Touch(s, t, a, b) ==
    \/ IsOn(a, s, t) \/ IsOn(b, s, t) \/ IsOn(s, a, b) \/ IsOn(t, a, b)
    \/ Side(s, t, a) * Side(s, t, b) = -1 /\ Side(a, b, s) * Side(a, b, t) = -1

\* segments_intersect, "properly or touchingly crosses": for a path of any
\* length but none at all a wall counts, and counts once, exactly if the path
\* and the wall have a point in common, whatever corner or end they meet at
\* and however they are parallel (segments_intersect, wall_crossing_details).
WallsAreThoseTouched ==
    price.known /\ price.sameFloor /\ near # far =>
        /\ {c.wall : c \in price.walls} =
              {w \in plan : \E i \in 1..(Len(w.points) - 1) : Touch(near, far, w.points[i], w.points[i + 1])}
        /\ \A c, d \in price.walls : c.wall = d.wall => c = d

\* A link costs the same from either end: neither wall, nor door, nor slant
\* depends on which device reported it.
DirectionDoesNotMatter ==
    price # Unknown => price = PriceOf(far, near, levels[2], levels[1], plan)

\* A slant never makes a wall or a slab cheaper, nor more than three times as
\* dear (oblique_factor, slab_factor).
SlantIsBounded ==
    \A s \in {c.slant : c \in price.walls} \cup {price.slant} :
        s[2] > 0 /\ s[2] <= s[1] /\ s[1] <= 9 * s[2]

\* A path is priced for the walls it meets, the same from both of its ends,
\* and within bounds.
PathsArePriced == WallsAreThoseTouched /\ DirectionDoesNotMatter /\ SlantIsBounded
=============================================================================
