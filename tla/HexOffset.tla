----------------------------- MODULE HexOffset -----------------------------
(***************************************************************************)
(* The hexagonal addressing of the map (src/map/offset.hpp) and the four   *)
(* neighbourhood queries built on it: Cell::inRadius, Cell::ring,          *)
(* Map::createSiblings / getSiblings and Map::getCellsExcluding.  An       *)
(* offset is an axial pair <<q, r>>; the third cube coordinate is derived. *)
(* A query is modelled by the offsets it looks up: which of them hold a    *)
(* cell is the business of MapCluster.                                     *)
(***************************************************************************)
EXTENDS Integers

Offset == Int \X Int

S(o) == 0 - o[1] - o[2]

AbsDiff(a, b) == IF a >= b THEN a - b ELSE b - a

Larger(a, b) == IF a >= b THEN a ELSE b

Smaller(a, b) == IF a <= b THEN a ELSE b

(* Offset::distance *)
Distance(o, p) ==
    Larger(Larger(AbsDiff(o[1], p[1]), AbsDiff(o[2], p[2])), AbsDiff(S(o), S(p)))

(* directions[], indexed from 0 as in the code *)
Directions ==
    [i \in 0..5 |->
        CASE i = 0 -> <<1, -1>>
          [] i = 1 -> <<1, 0>>
          [] i = 2 -> <<0, 1>>
          [] i = 3 -> <<-1, 1>>
          [] i = 4 -> <<-1, 0>>
          [] i = 5 -> <<0, -1>>]

MaxDirIdx == 6

Plus(o, d) == <<o[1] + d[1], o[2] + d[2]>>

Minus(o, p) == <<o[1] - p[1], o[2] - p[2]>>

(* directionIdxs: the index of a unit step, -1 for anything else *)
DirectionIdxsSwapped(d) ==  \* mutant: two directions exchanged
    CASE d = <<1, -1>> -> 0
      [] d = <<1, 0>>  -> 1
      [] d = <<0, 1>>  -> 3
      [] d = <<-1, 1>> -> 2
      [] d = <<-1, 0>> -> 4
      [] d = <<0, -1>> -> 5
      [] OTHER -> -1
DirectionIdxs(d) ==
    CASE d = <<1, -1>> -> 0
      [] d = <<1, 0>>  -> 1
      [] d = <<0, 1>>  -> 2
      [] d = <<-1, 1>> -> 3
      [] d = <<-1, 0>> -> 4
      [] d = <<0, -1>> -> 5
      [] OTHER -> -1

(* The six offsets Map::createSiblings creates and Map::getSiblings reads. *)
Siblings(o) ==
    {<<o[1] + 0, o[2] - 1>>, <<o[1] + 1, o[2] - 1>>, <<o[1] + 1, o[2] + 0>>,
     <<o[1] + 0, o[2] + 1>>, <<o[1] - 1, o[2] + 1>>, <<o[1] - 1, o[2] + 0>>}

(* Cell::inRadius: the two nested loops over dx and dy. *)
InSquare(o, radius) ==  \* mutant: the bounds of dy do not depend on dx
    {<<dx + o[1], dy + o[2]>> : dx, dy \in (0 - radius)..radius}
InRadius(o, radius) ==
    UNION {{<<dx + o[1], dy + o[2]>> :
                dy \in Larger(0 - radius, 0 - dx - radius)..Smaller(radius, 0 - dx + radius)}
           : dx \in (0 - radius)..radius}

(* Cell::ring: the walk that starts radius steps out along directions[4]   *)
(* and takes radius steps along each direction; entry n is the offset the  *)
(* n-th iteration stores.                                                  *)
Ring(o, radius) ==
    LET walk[n \in 0..(6 * radius)] ==
            IF n = 0
            THEN <<o[1] + Directions[4][1] * radius, o[2] + Directions[4][2] * radius>>
            ELSE Plus(walk[n - 1], Directions[(n - 1) \div radius])
    IN  [n \in 1..(6 * radius) |-> walk[n - 1]]

(* getCellsExcluding on two cells one step apart: straight on, and the two *)
(* directions next to that one.                                            *)
CellsExcluding(o, exclude) ==
    LET direction == Minus(o, exclude)
        idx == DirectionIdxs(direction)
        i == IF idx = 0 THEN MaxDirIdx - 1 ELSE idx - 1
        j == (idx + 1) % MaxDirIdx
    IN  {Plus(o, direction), Plus(o, Directions[i]), Plus(o, Directions[j])}

(* round(a / d), half away from zero, as the C library rounds *)
Truncate(a, d) ==  \* mutant: a conversion to an integer instead of round
    IF a >= 0 THEN a \div d ELSE 0 - ((0 - a) \div d)
Round(a, d) ==
    IF a >= 0 THEN (2 * a + d) \div (2 * d) ELSE 0 - ((d - 2 * a) \div (2 * d))

(* offsetOf on the point whose axial coordinates are a / d and b / d: each *)
(* cube coordinate is rounded, and the one that moved most is recomputed   *)
(* from the other two.  Exact fractions stand for the floats.              *)
OffsetOfRounded(a, b, d) ==  \* mutant: the rounded coordinates are not corrected
    <<Round(a, d), Round(b, d)>>
OffsetOf(a, b, d) ==
    LET c == 0 - a - b
        q == Round(a, d)
        r == Round(b, d)
        s == Round(c, d)
        qDiff == AbsDiff(q * d, a)
        rDiff == AbsDiff(r * d, b)
        sDiff == AbsDiff(s * d, c)
    IN  IF qDiff > rDiff /\ qDiff > sDiff THEN <<0 - r - s, r>>
        ELSE IF rDiff > sDiff THEN <<q, 0 - q - s>>
        ELSE <<q, r>>

(* A cell with the six cells around it. *)
Around(o) == {o} \cup Siblings(o)
=============================================================================
