----------------------------- MODULE CellPhysics -----------------------------
(***************************************************************************)
(* The bodies in one cell and near it: rectangles and circles that turn    *)
(* and move (src/physics/*_bounding_box.cpp), the quadtree they are put in *)
(* at every update (src/map/quadtree.hpp), and the search for collisions   *)
(* by separating axes (src/physics/sat_collisions.cpp) as Cell::update,    *)
(* Cell::physics and Cell::cleanup drive them (src/map/cell.cpp).  The     *)
(* cell takes part in every update, and in the cleanup that follows it.    *)
(*                                                                         *)
(* Coordinates are whole numbers and bodies turn by right angles, so that  *)
(* nothing is rounded.  What a rectangle has cached, its normals and its   *)
(* extent, is named by the orientation it was computed for.                *)
(***************************************************************************)
EXTENDS Integers, FiniteSets, SequencesExt

CONSTANTS Rects, Circles,  \* the bodies, by the type of their box
          Shape,       \* the four vertices of a rectangle around its position,
                       \* or the center (x, y, z) and the radius of a circle
          Visitors,    \* the bodies that are in sibling cells
          Places,      \* the positions of bodies
          Center, Radius,  \* of the tree
          Rays,        \* the segments bodies are traced along
          MaxBodies,   \* how many bodies there are at a time
          MaxEntities, \* Cell::MaxQuadrantEntities
          MaxDepth,    \* Cell::MaxQuadtreeDepth
          Junk,        \* what an extent that was never computed may hold
          None

ASSUME PhysicsAssumption ==
    /\ \A e \in Rects : Shape[e] \in [1..4 -> Int \X Int]
    /\ \A e \in Circles : Shape[e] \in [center : Int \X Int \X Int, radius : Nat \ {0}]
    /\ Places \subseteq Int \X Int /\ Center \in Int \X Int /\ Radius \in Nat
    /\ MaxBodies \in Nat
    /\ MaxEntities \in Nat \ {0} /\ MaxDepth \in Nat

VARIABLES box,   \* the bounding box of each body in the cell, or None
          junk,  \* what uninitialised extents hold
          tree,  \* the nodes with children, and the bodies each node holds
          phase, todo,
          found  \* the collisions of the last Cell::physics

vars == <<box, junk, tree, phase, todo, found>>

Bodies == Rects \cup Circles

(* Where the body is, how it is turned, RectBoundingBox::_recalcNormals and *)
(* the orientation that _normals, _min and _max are those of.               *)
Box == [pos : Places, orient : 0..1, recalc : BOOLEAN, seen : {None, 0, 1}]

(* A node of the tree is named by the quadrants on the way to it.           *)
Paths == UNION {[1..n -> 0..3] : n \in 0..MaxDepth}

-----------------------------------------------------------------------------
(* Bounding boxes.                                                          *)

Plus(p, q) == <<p[1] + q[1], p[2] + q[2]>>
Dot(p, q) == p[1] * q[1] + p[2] * q[2]
Minus(p, q) == <<p[1] - q[1], p[2] - q[2]>>
Square(p) == Dot(p, p)

(* glm::rotate by a right angle of each vertex.                             *)
Vertices(e, o) ==
    [i \in 1..4 |-> IF o = 0 THEN Shape[e][i] ELSE <<0 - Shape[e][i][2], Shape[e][i][1]>>]

Corners(e) ==
    LET v == Vertices(e, box[e].orient)
    IN  [i \in 1..4 |-> Plus(v[i], box[e].pos)]

(* The orientation that normals() leaves the cache computed for.            *)
Refreshed(b) == IF b.recalc THEN b.orient ELSE b.seen

Least(S) == CHOOSE x \in S : \A y \in S : x <= y
Most(S) == CHOOSE x \in S : \A y \in S : x >= y

(* _normals after normals(): zero if they were never computed.              *)
Normals(e) ==
    IF Refreshed(box[e]) = None THEN {<<0, 0>>}
    ELSE LET v == Vertices(e, Refreshed(box[e]))
         IN  {<<v[i + 1][2] - v[i][2], v[i][1] - v[i + 1][1]>> : i \in 1..2}

(* _min and _max, after normals().                                          *)
CircleExtent(e) ==
    LET c == Shape[e].center
        r == Shape[e].radius
    IN  <<c[1] - r, c[2] - r, c[1] + r, c[2] + r>>

ExtentOfThree(e, b) ==  \* mutant: the last vertex is not looked at
    IF e \in Circles THEN CircleExtent(e)
    ELSE IF Refreshed(b) = None THEN junk
    ELSE LET v == Vertices(e, Refreshed(b))
             xs == {v[i][1] : i \in 1..3}
             ys == {v[i][2] : i \in 1..3}
         IN  <<Least(xs), Least(ys), Most(xs), Most(ys)>>
Extent(e, b) ==
    IF e \in Circles THEN CircleExtent(e)
    ELSE IF Refreshed(b) = None THEN junk
    ELSE LET v == Vertices(e, Refreshed(b))
             xs == {v[i][1] : i \in 1..4}
             ys == {v[i][2] : i \in 1..4}
         IN  <<Least(xs), Least(ys), Most(xs), Most(ys)>>

AsRect(e, b) ==
    LET x == Extent(e, b)
    IN  <<x[1] + b.pos[1], x[2] + b.pos[2], x[3] + b.pos[1], x[4] + b.pos[2]>>

(* CircularBoundingBox::center2D, and the center in the world.              *)
Center2D(e) == <<Shape[e].center[1], Shape[e].center[3]>>

(* CollisionsFramework::project: a circle is taken by its radius along the  *)
(* axis, which is not made a unit vector first.                             *)
ProjectedRect(e, axis) == {Dot(axis, Corners(e)[i]) : i \in 1..4}

ProjectedCircle(e, axis) ==
    LET c == Dot(axis, Plus(Center2D(e), box[e].pos))
    IN  {c - Shape[e].radius * Square(axis), c + Shape[e].radius * Square(axis)}

Projected(e, axis) == IF e \in Rects THEN ProjectedRect(e, axis) ELSE ProjectedCircle(e, axis)

Separated(e, f, axis) ==
    LET p == Projected(e, axis)
        q == Projected(f, axis)
    IN  Least({Most(p), Most(q)}) - Most({Least(p), Least(q)}) < 0

(* The vertex of rectangle e that is nearest to the center of circle f, as  *)
(* if both were in the same place.                                          *)
NearestVertex(e, f) ==
    LET v == Vertices(e, box[e].orient)
        d == [i \in 1..4 |-> Square(Minus(v[i], Center2D(f)))]
    IN  v[CHOOSE i \in 1..4 : /\ \A j \in 1..4 : d[i] <= d[j]
                              /\ \A j \in 1..(i - 1) : d[i] < d[j]]

NormalsOfOne(e, f) == Normals(e)  \* mutant: the normals of b are not tried
AxesOfRects(e, f) == Normals(e) \cup Normals(f)
AxesOfBoth(e, f) == {Minus(NearestVertex(e, f), Center2D(f))} \cup Normals(e)
AxesOfCircles(e, f) == {Minus(Center2D(e), Center2D(f))}

(* SAT::collides: on none of the axes does a gap separate the projections.  *)
Axes(e, f) ==
    IF e \in Rects
    THEN IF f \in Rects THEN AxesOfRects(e, f) ELSE AxesOfBoth(e, f)
    ELSE IF f \in Rects THEN AxesOfBoth(f, e) ELSE AxesOfCircles(e, f)

Collides(e, f) == \A axis \in Axes(e, f) : ~Separated(e, f, axis)

-----------------------------------------------------------------------------
(* Segments.                                                                *)

Ccw(a, b, c) == (c[2] - a[2]) * (b[1] - a[1]) > (b[2] - a[2]) * (c[1] - a[1])

Cross(a, b, c, d) == Ccw(a, c, d) # Ccw(b, c, d) /\ Ccw(a, b, c) # Ccw(a, b, d)

(* BoundingBox::intersects: a side of a rectangle crosses the segment, or   *)
(* the line through it meets the circle.  Distances are left out.           *)
RectIntersects(e, from, to) ==
    \E i \in 1..4 : Cross(Corners(e)[i], Corners(e)[(i % 4) + 1], from, to)

CircleIntersects(e, from, to) ==
    LET d == Minus(to, from)
        f == Minus(from, Plus(box[e].pos, <<Shape[e].center[1], Shape[e].center[2]>>))
        B == 2 * Dot(d, f)
        C == Square(f) - Shape[e].radius * Shape[e].radius
    IN  Square(d) > 0 /\ B * B - 4 * Square(d) * C >= 0

Intersects(e, from, to) ==
    IF e \in Rects THEN RectIntersects(e, from, to) ELSE CircleIntersects(e, from, to)

-----------------------------------------------------------------------------
(* The quadtree.                                                            *)

Half(n) == IF n >= 0 THEN n \div 2 ELSE 0 - ((0 - n) \div 2)

(* QuadTree::split: the bounds of child k of a node with bounds b.          *)
ChildBounds(b, k) ==
    LET w == Half(b[3] - b[1])
        h == Half(b[4] - b[2])
    IN  <<IF k \in {0, 3} THEN b[1] + w ELSE b[1],
          IF k \in {2, 3} THEN b[2] + h ELSE b[2], w, h>>

Root == <<Center[1] - Radius, Center[2] - Radius, Center[1] + Radius, Center[2] + Radius>>

BoundsOf == [path \in Paths |-> FoldLeft(ChildBounds, Root, path)]
Bounds(path) == BoundsOf[path]

(* RadialQuadTree::contains.                                                *)
TreeContains(p) == Square(Minus(p, Center)) <= Radius * Radius

(* QuadTree::getIndex: the quadrant a rectangle lies in, or -1; twice the   *)
(* midpoints are compared.                                                  *)
GetIndex(b, r) ==
    LET left == 2 * r[1] < b[1] + b[3] /\ 2 * r[3] < b[1] + b[3]
        right == ~left /\ 2 * r[1] > b[1] + b[3]
        top == 2 * r[2] < b[2] + b[4] /\ 2 * r[4] < b[2] + b[4]
        bottom == ~top /\ 2 * r[2] > b[2] + b[4]
    IN  CASE right /\ top -> 0 [] left /\ top -> 1
          [] left /\ bottom -> 2 [] right /\ bottom -> 3 [] OTHER -> -1

(* QuadTree::insert of e below path, with the rectangles rects.  A node     *)
(* that holds too many is split, and hands on what fits a quadrant.         *)
Overfull(path, n) == n > MaxEntities /\ Len(path) < MaxDepth

RECURSIVE Insert(_, _, _, _)
InsertLast(tr, path, e, rects) ==  \* mutant: only the new body is handed on
    LET index(f) == GetIndex(Bounds(path), rects[f])
        own == Append(tr.held[path], e)
        Down(t, f) == Insert(t, Append(path, index(f)), f, rects)
    IN  IF path \in tr.split /\ index(e) # -1 THEN Down(tr, e)
        ELSE IF ~Overfull(path, Len(own)) THEN [tr EXCEPT !.held[path] = own]
        ELSE IF index(e) = -1
             THEN [split |-> tr.split \cup {path}, held |-> [tr.held EXCEPT ![path] = own]]
             ELSE Down([tr EXCEPT !.split = @ \cup {path}], e)
Insert(tr, path, e, rects) ==
    LET index(f) == GetIndex(Bounds(path), rects[f])
        own == Append(tr.held[path], e)
        Down(t, f) == Insert(t, Append(path, index(f)), f, rects)
    IN  IF path \in tr.split /\ index(e) # -1 THEN Down(tr, e)
        ELSE IF ~Overfull(path, Len(own)) THEN [tr EXCEPT !.held[path] = own]
        ELSE FoldLeft(Down,
                [split |-> tr.split \cup {path},
                 held |-> [tr.held EXCEPT ![path] =
                              SelectSeq(own, LAMBDA f : index(f) = -1)]],
                SelectSeq(own, LAMBDA f : index(f) # -1))

(* QuadTree::intersects: from inside, or across a side of the bounds.       *)
CrossesThreeSides(b, from, to) ==  \* mutant: the last side is forgotten
    \/ from[1] > b[1] /\ from[2] > b[2] /\ to[1] < b[3] /\ to[2] < b[4]
    \/ Cross(<<b[1], b[2]>>, <<b[1], b[4]>>, from, to)
    \/ Cross(<<b[1], b[4]>>, <<b[3], b[4]>>, from, to)
    \/ Cross(<<b[3], b[4]>>, <<b[3], b[2]>>, from, to)
CrossesNode(b, from, to) ==
    \/ from[1] > b[1] /\ from[2] > b[2] /\ to[1] < b[3] /\ to[2] < b[4]
    \/ Cross(<<b[1], b[2]>>, <<b[1], b[4]>>, from, to)
    \/ Cross(<<b[1], b[4]>>, <<b[3], b[4]>>, from, to)
    \/ Cross(<<b[3], b[4]>>, <<b[3], b[2]>>, from, to)
    \/ Cross(<<b[3], b[2]>>, <<b[1], b[2]>>, from, to)

(* QuadTree::retrieve: the node is looked at if the upper side, the         *)
(* diagonal or the right side of the rectangle meets it; the fourth test of *)
(* the code repeats the first.                                              *)
Meets(b, r) ==
    \/ CrossesNode(b, <<r[1], r[2]>>, <<r[3], r[2]>>)
    \/ CrossesNode(b, <<r[1], r[2]>>, <<r[3], r[4]>>)
    \/ CrossesNode(b, <<r[3], r[2]>>, <<r[3], r[4]>>)

Ancestors(path) == {SubSeq(path, 1, n) : n \in 0..Len(path)}

(* The nodes that exist: a node that was split keeps its children.          *)
Nodes == {q \in Paths : Ancestors(q) \ {q} \subseteq tree.split}

(* The bodies in the nodes a search comes to that goes on in those of       *)
(* passing.                                                                 *)
Search(passing) ==
    UNION {Range(tree.held[q]) : q \in {p \in passing : Ancestors(p) \subseteq passing}}

Retrieve(r) == Search({q \in Nodes : Meets(Bounds(q), r)})

Trace(from, to) == Search({q \in Nodes : CrossesNode(Bounds(q), from, to)})

-----------------------------------------------------------------------------
Present == {e \in Bodies : box[e] # None}

Init ==
    /\ box = [e \in Bodies |-> None]
    /\ junk \in Junk
    /\ tree = [split |-> {}, held |-> [path \in Paths |-> << >>]]
    /\ phase = "ops" /\ todo = {} /\ found = {}

(* An entity with a new bounding box enters the cell, or leaves it.         *)
Enter(e, p) ==
    /\ phase = "ops" /\ box[e] = None /\ Cardinality(Present) < MaxBodies
    /\ box' = [box EXCEPT ![e] = [pos |-> p, orient |-> 0, recalc |-> FALSE, seen |-> None]]
    /\ UNCHANGED <<junk, tree, phase, todo, found>>

Leave(e) ==
    /\ phase = "ops" /\ box[e] # None
    /\ box' = [box EXCEPT ![e] = None]
    /\ UNCHANGED <<junk, tree, phase, todo, found>>

BeginUpdate ==
    /\ phase = "ops" /\ Present # {}
    /\ phase' = "update" /\ todo' = Present
    /\ UNCHANGED <<box, junk, tree, found>>

Rotate(b, turns) ==
    [b EXCEPT !.orient = IF turns THEN 1 - @ ELSE @, !.recalc = @ \/ turns]

Turn(e, b, turns) == IF e \in Circles THEN b ELSE Rotate(b, turns)

(* The body is moved and turned by its motion master and put in the tree,   *)
(* one of a sibling cell only where this cell's tree reaches.  The tree may *)
(* ask for the rectangles of others that were updated before it.  That      *)
(* asRect() caches what it computes is left to Physics: until the body is   *)
(* turned again it would compute the same.                                  *)
UpdateBody(e, p, turns) ==
    /\ phase = "update" /\ e \in todo
    /\ box' = [box EXCEPT ![e] = Turn(e, [@ EXCEPT !.pos = p], turns)]
    /\ tree' = IF e \in Visitors /\ ~TreeContains(p) THEN tree
               ELSE Insert(tree, << >>, e, [f \in Present |-> AsRect(f, box'[f])])
    /\ todo' = todo \ {e}
    /\ UNCHANGED <<junk, phase, found>>

(* Cell::physics: each body against the candidates the tree has for it.     *)
Physics ==
    /\ phase = "update" /\ todo = {}
    /\ found' = {pair \in (Present \ Visitors) \X Present :
                    /\ pair[1] # pair[2]
                    /\ pair[2] \in Retrieve(AsRect(pair[1], box[pair[1]]))
                    /\ Collides(pair[1], pair[2])}
    /\ box' = [e \in Bodies |->
                  IF e \in Present \cap Rects
                  THEN [box[e] EXCEPT !.seen = Refreshed(box[e]), !.recalc = FALSE]
                  ELSE box[e]]
    /\ phase' = "found"
    /\ UNCHANGED <<junk, tree, todo>>

(* Cell::cleanup: QuadTree::clear keeps the nodes.                          *)
ClearRoot == [tree EXCEPT !.held[<< >>] = << >>]  \* mutant: the children are not cleared
Clear == [tree EXCEPT !.held = [path \in Paths |-> << >>]]

Cleanup ==
    /\ phase = "found"
    /\ tree' = Clear
    /\ phase' = "ops" /\ found' = {}
    /\ UNCHANGED <<box, junk, todo>>

Next ==
    \/ BeginUpdate \/ Physics \/ Cleanup
    \/ \E e \in Bodies :
          \/ Leave(e)
          \/ \E p \in Places : Enter(e, p) \/ \E turns \in BOOLEAN : UpdateBody(e, p, turns)

Spec == Init /\ [][Next]_vars
-----------------------------------------------------------------------------
(* Whether two bodies have a point in common, seen from their corners and   *)
(* sides: a corner of one is in the other, or two sides meet, or a side is  *)
(* no further from a center than the radius.                                *)
Side(a, b, c) == (b[1] - a[1]) * (c[2] - a[2]) - (b[2] - a[2]) * (c[1] - a[1])

Covers(v, p) ==
    LET sides == {Side(v[i], v[(i % 4) + 1], p) : i \in 1..4}
    IN  (\A s \in sides : s >= 0) \/ (\A s \in sides : s <= 0)

Opposite(m, n) == (m > 0 /\ n < 0) \/ (m < 0 /\ n > 0)

SidesCross(a, b, c, d) ==
    Opposite(Side(a, b, c), Side(a, b, d)) /\ Opposite(Side(c, d, a), Side(c, d, b))

Near(p, a, b, r) ==
    \/ Square(Minus(p, a)) <= r * r \/ Square(Minus(p, b)) <= r * r
    \/ /\ a # b
       /\ Dot(Minus(b, a), Minus(p, a)) \in 0..Square(Minus(b, a))
       /\ Side(a, b, p) * Side(a, b, p) <= r * r * Square(Minus(b, a))

Middle(e) == Plus(Center2D(e), box[e].pos)

OverlapRects(v, w) ==
    \/ \E i \in 1..4 : Covers(v, w[i]) \/ Covers(w, v[i])
    \/ \E i, j \in 1..4 : SidesCross(v[i], v[(i % 4) + 1], w[j], w[(j % 4) + 1])

OverlapBoth(v, c) ==
    \/ Covers(v, Middle(c))
    \/ \E i \in 1..4 : Near(Middle(c), v[i], v[(i % 4) + 1], Shape[c].radius)

Overlap(e, f) ==
    CASE e \in Rects /\ f \in Rects -> OverlapRects(Corners(e), Corners(f))
      [] e \in Rects /\ f \in Circles -> OverlapBoth(Corners(e), f)
      [] e \in Circles /\ f \in Rects -> OverlapBoth(Corners(f), e)
      [] OTHER -> Near(Middle(e), Middle(f), Middle(f), Shape[e].radius + Shape[f].radius)

(* Whether a segment crosses the outline of a body.                         *)
Crosses(e, from, to) ==
    IF e \in Rects
    THEN \E i \in 1..4 : SidesCross(Corners(e)[i], Corners(e)[(i % 4) + 1], from, to)
    ELSE from # to /\ Near(Middle(e), from, to, Shape[e].radius)

(* A rectangle whose extent has been computed.  asRect() and intersects()   *)
(* of a circle take its height y for its depth z.                           *)
Sized(e) == IF e \in Rects THEN Refreshed(box[e]) # None
            ELSE Shape[e].center[2] = Shape[e].center[3]

Inserted(e) == e \in Present \ todo /\ (e \in Visitors => TreeContains(box[e].pos))

Inside(r) == r[1] > Root[1] /\ r[2] > Root[2] /\ r[3] < Root[3] /\ r[4] < Root[4]

(* Every body of the cell, and every one of a sibling that is near enough,  *)
(* is in the tree once when the update is over, and none is left behind     *)
(* when the tree is cleared: nodes that are split keep their children from  *)
(* tick to tick and hand bodies on and on.                                  *)
InsertedOnce ==
    \A e \in Bodies :
        Cardinality({x \in Paths \X (1..MaxBodies) :
                        x[2] <= Len(tree.held[x[1]]) /\ tree.held[x[1]][x[2]] = e})
          = IF phase # "ops" /\ Inserted(e) THEN 1 ELSE 0

(* A node that has children keeps only what fits none of them.              *)
SplitKeepsMisfits ==
    phase # "ops" => \A path \in tree.split : \A e \in Range(tree.held[path]) :
        GetIndex(Bounds(path), AsRect(e, box[e])) = -1

(* bounding_box.hpp: "Returns the minimum rect that contains the OBB": of a *)
(* body that has been turned, however often it has moved and turned since.  *)
RectIsMinimal ==
    \A e \in Present \cap Rects : Sized(e) =>
        LET r == AsRect(e, box[e])
            c == Corners(e)
        IN  /\ \A i \in 1..4 : c[i][1] \in r[1]..r[3] /\ c[i][2] \in r[2]..r[4]
            /\ \A k \in {1, 3} : \E i \in 1..4 : c[i][1] = r[k]
            /\ \A k \in {2, 4} : \E i \in 1..4 : c[i][2] = r[k]

(* As long as the tree has not been split, Cell::physics finds all bodies   *)
(* that overlap a body of the cell, whichever way they have been turned and *)
(* also when they are in a sibling cell; and of rectangles no other ones.   *)
CollisionsFound ==
    phase = "found" /\ tree.split = {} =>
        \A e \in Present \ Visitors, f \in Present :
            /\ e # f /\ Sized(e) /\ Sized(f) /\ Inserted(f)
            /\ Inside(AsRect(e, box[e]))
            => /\ Overlap(e, f) => <<e, f>> \in found
               /\ <<e, f>> \in found /\ {e, f} \subseteq Rects => Overlap(e, f)

(* As long as the tree has not been split, a body that a segment crosses is *)
(* among those QuadTree::trace returns, and BoundingBox::intersects says    *)
(* that it is hit, wherever the segment begins and ends.                    *)
TraceFindsHits ==
    phase = "found" /\ tree.split = {} =>
        \A e \in Present, ray \in Rays :
            /\ Sized(e) /\ Inserted(e) /\ Inside(AsRect(e, box[e]))
            /\ Crosses(e, ray[1], ray[2])
            => e \in Trace(ray[1], ray[2]) /\ Intersects(e, ray[1], ray[2])
=============================================================================
