-------------------------- MODULE EntityViewProofs --------------------------
(***************************************************************************)
(* What the neighbourhood queries of HexOffset return on the whole,        *)
(* unbounded grid, and that the walk of EntityView keeps the view exact.   *)
(***************************************************************************)
EXTENDS EntityView, WellFoundedInduction, TLAPS

(* Being a sibling is symmetric and irreflexive, which is what MapCluster   *)
(* assumes of its grid.                                                     *)
THEOREM SiblingsSymmetric ==
    ASSUME NEW o \in Offset, NEW p \in Offset
    PROVE  /\ p \in Siblings(o) => o \in Siblings(p)
           /\ o \notin Siblings(o)
           /\ Siblings(o) \subseteq Offset
  BY DEF Siblings, Offset

(* The two loops of Cell::inRadius visit exactly the offsets at most radius *)
(* away.                                                                    *)
THEOREM InRadiusIsBall ==
    ASSUME NEW o \in Offset, NEW radius \in Nat
    PROVE  InRadius(o, radius) = {p \in Offset : Distance(o, p) <= radius}
<1>1. ASSUME NEW p \in InRadius(o, radius)
      PROVE  p \in Offset /\ Distance(o, p) <= radius
  <2>1. PICK dx \in (0 - radius)..radius :
          \E dy \in Larger(0 - radius, 0 - dx - radius)..Smaller(radius, 0 - dx + radius) :
             p = <<dx + o[1], dy + o[2]>>
    BY <1>1 DEF InRadius
  <2>2. PICK dy \in Larger(0 - radius, 0 - dx - radius)..Smaller(radius, 0 - dx + radius) :
             p = <<dx + o[1], dy + o[2]>>
    BY <2>1
  <2>3. /\ dx \in Int /\ dy \in Int /\ o[1] \in Int /\ o[2] \in Int
        /\ 0 - radius <= dx /\ dx <= radius
        /\ 0 - radius <= dy /\ dy <= radius
        /\ 0 - radius <= dx + dy /\ dx + dy <= radius
    BY <2>1, <2>2 DEF Larger, Smaller, Offset
  <2>4. p \in Offset /\ p[1] = dx + o[1] /\ p[2] = dy + o[2]
    BY <2>2, <2>3 DEF Offset
  <2> QED BY <2>3, <2>4 DEF Distance, Larger, AbsDiff, S
<1>2. ASSUME NEW p \in Offset, Distance(o, p) <= radius
      PROVE  p \in InRadius(o, radius)
  <2> DEFINE dx == p[1] - o[1]
             dy == p[2] - o[2]
  <2>1. /\ p[1] \in Int /\ p[2] \in Int /\ o[1] \in Int /\ o[2] \in Int
        /\ p = <<dx + o[1], dy + o[2]>>
    BY DEF Offset
  <2>2. /\ 0 - radius <= dx /\ dx <= radius
        /\ 0 - radius <= dy /\ dy <= radius
        /\ 0 - radius <= dx + dy /\ dx + dy <= radius
    BY <1>2, <2>1 DEF Distance, Larger, AbsDiff, S
  <2>3. /\ dx \in (0 - radius)..radius
        /\ dy \in Larger(0 - radius, 0 - dx - radius)..Smaller(radius, 0 - dx + radius)
    BY <2>1, <2>2 DEF Larger, Smaller
  <2> HIDE DEF dx, dy
  <2> QED BY <2>1, <2>3 DEF InRadius
<1> QED BY <1>1, <1>2

(* getCellsExcluding on neighbours, one direction after the other.          *)
LEMMA ExcludingByDirection ==
    ASSUME NEW q \in Int, NEW r \in Int
    PROVE
      /\ CellsExcluding(<<q, r>>, <<q - 1, r + 1>>) =
           {<<q + 1, r - 1>>, <<q, r - 1>>, <<q + 1, r>>}
      /\ CellsExcluding(<<q, r>>, <<q - 1, r>>) =
           {<<q + 1, r>>, <<q + 1, r - 1>>, <<q, r + 1>>}
      /\ CellsExcluding(<<q, r>>, <<q, r - 1>>) =
           {<<q, r + 1>>, <<q + 1, r>>, <<q - 1, r + 1>>}
      /\ CellsExcluding(<<q, r>>, <<q + 1, r - 1>>) =
           {<<q - 1, r + 1>>, <<q, r + 1>>, <<q - 1, r>>}
      /\ CellsExcluding(<<q, r>>, <<q + 1, r>>) =
           {<<q - 1, r>>, <<q - 1, r + 1>>, <<q, r - 1>>}
      /\ CellsExcluding(<<q, r>>, <<q, r + 1>>) =
           {<<q, r - 1>>, <<q - 1, r>>, <<q + 1, r - 1>>}
<1>1. CellsExcluding(<<q, r>>, <<q - 1, r + 1>>) =
           {<<q + 1, r - 1>>, <<q, r - 1>>, <<q + 1, r>>}
  <2>1. Minus(<<q, r>>, <<q - 1, r + 1>>) = <<1, -1>>
    BY DEF Minus
  <2>2. DirectionIdxs(<<1, -1>>) = 0
    BY DEF DirectionIdxs
  <2> QED BY <2>1, <2>2 DEF CellsExcluding, Plus, Directions, MaxDirIdx
<1>2. CellsExcluding(<<q, r>>, <<q - 1, r>>) =
           {<<q + 1, r>>, <<q + 1, r - 1>>, <<q, r + 1>>}
  <2>1. Minus(<<q, r>>, <<q - 1, r>>) = <<1, 0>>
    BY DEF Minus
  <2>2. DirectionIdxs(<<1, 0>>) = 1
    BY DEF DirectionIdxs
  <2> QED BY <2>1, <2>2 DEF CellsExcluding, Plus, Directions, MaxDirIdx
<1>3. CellsExcluding(<<q, r>>, <<q, r - 1>>) =
           {<<q, r + 1>>, <<q + 1, r>>, <<q - 1, r + 1>>}
  <2>1. Minus(<<q, r>>, <<q, r - 1>>) = <<0, 1>>
    BY DEF Minus
  <2>2. DirectionIdxs(<<0, 1>>) = 2
    BY DEF DirectionIdxs
  <2> QED BY <2>1, <2>2 DEF CellsExcluding, Plus, Directions, MaxDirIdx
<1>4. CellsExcluding(<<q, r>>, <<q + 1, r - 1>>) =
           {<<q - 1, r + 1>>, <<q, r + 1>>, <<q - 1, r>>}
  <2>1. Minus(<<q, r>>, <<q + 1, r - 1>>) = <<-1, 1>>
    BY DEF Minus
  <2>2. DirectionIdxs(<<-1, 1>>) = 3
    BY DEF DirectionIdxs
  <2> QED BY <2>1, <2>2 DEF CellsExcluding, Plus, Directions, MaxDirIdx
<1>5. CellsExcluding(<<q, r>>, <<q + 1, r>>) =
           {<<q - 1, r>>, <<q - 1, r + 1>>, <<q, r - 1>>}
  <2>1. Minus(<<q, r>>, <<q + 1, r>>) = <<-1, 0>>
    BY DEF Minus
  <2>2. DirectionIdxs(<<-1, 0>>) = 4
    BY DEF DirectionIdxs
  <2> QED BY <2>1, <2>2 DEF CellsExcluding, Plus, Directions, MaxDirIdx
<1>6. CellsExcluding(<<q, r>>, <<q, r + 1>>) =
           {<<q, r - 1>>, <<q - 1, r>>, <<q + 1, r - 1>>}
  <2>1. Minus(<<q, r>>, <<q, r + 1>>) = <<0, -1>>
    BY DEF Minus
  <2>2. DirectionIdxs(<<0, -1>>) = 5
    BY DEF DirectionIdxs
  <2> QED BY <2>1, <2>2 DEF CellsExcluding, Plus, Directions, MaxDirIdx
<1> QED BY <1>1, <1>2, <1>3, <1>4, <1>5, <1>6

(* For two neighbouring cells, getCellsExcluding returns what is around the *)
(* first and not around the second.                                         *)
THEOREM CellsExcludingIsDifference ==
    ASSUME NEW o \in Offset, NEW p \in Siblings(o)
    PROVE  CellsExcluding(o, p) = Around(o) \ Around(p)
<1>1. PICK q \in Int, r \in Int : o = <<q, r>>
  BY DEF Offset
<1>2. CASE p = <<q - 1, r + 1>>
  <2>1. CellsExcluding(o, p) = {<<q + 1, r - 1>>, <<q, r - 1>>, <<q + 1, r>>}
    BY <1>1, <1>2, ExcludingByDirection
  <2> QED BY <2>1, <1>1, <1>2 DEF Around, Siblings
<1>3. CASE p = <<q - 1, r>>
  <2>1. CellsExcluding(o, p) = {<<q + 1, r>>, <<q + 1, r - 1>>, <<q, r + 1>>}
    BY <1>1, <1>3, ExcludingByDirection
  <2> QED BY <2>1, <1>1, <1>3 DEF Around, Siblings
<1>4. CASE p = <<q, r - 1>>
  <2>1. CellsExcluding(o, p) = {<<q, r + 1>>, <<q + 1, r>>, <<q - 1, r + 1>>}
    BY <1>1, <1>4, ExcludingByDirection
  <2> QED BY <2>1, <1>1, <1>4 DEF Around, Siblings
<1>5. CASE p = <<q + 1, r - 1>>
  <2>1. CellsExcluding(o, p) = {<<q - 1, r + 1>>, <<q, r + 1>>, <<q - 1, r>>}
    BY <1>1, <1>5, ExcludingByDirection
  <2> QED BY <2>1, <1>1, <1>5 DEF Around, Siblings
<1>6. CASE p = <<q + 1, r>>
  <2>1. CellsExcluding(o, p) = {<<q - 1, r>>, <<q - 1, r + 1>>, <<q, r - 1>>}
    BY <1>1, <1>6, ExcludingByDirection
  <2> QED BY <2>1, <1>1, <1>6 DEF Around, Siblings
<1>7. CASE p = <<q, r + 1>>
  <2>1. CellsExcluding(o, p) = {<<q, r - 1>>, <<q - 1, r>>, <<q + 1, r - 1>>}
    BY <1>1, <1>7, ExcludingByDirection
  <2> QED BY <2>1, <1>1, <1>7 DEF Around, Siblings
<1> QED BY <1>1, <1>2, <1>3, <1>4, <1>5, <1>6, <1>7 DEF Siblings

-----------------------------------------------------------------------------
(* offsetOf always returns an offset.                                       *)
LEMMA OffsetOfType ==
    ASSUME NEW a \in Int, NEW b \in Int, NEW d \in Nat \ {0}
    PROVE  OffsetOf(a, b, d) \in Offset
<1>1. ASSUME NEW c \in Int PROVE Round(c, d) \in Int
  BY DEF Round
<1>2. Round(a, d) \in Int /\ Round(b, d) \in Int /\ Round(0 - a - b, d) \in Int
  BY <1>1
<1> QED BY <1>2 DEF OffsetOf, Offset

(* directionIdxs finds an index exactly for neighbours.                     *)
LEMMA DirectionOfSibling ==
    ASSUME NEW o \in Offset, NEW p \in Offset, DirectionIdxs(Minus(p, o)) # -1
    PROVE  p \in Siblings(o)
<1>1. PICK q1 \in Int, r1 \in Int : o = <<q1, r1>>
  BY DEF Offset
<1>2. PICK q2 \in Int, r2 \in Int : p = <<q2, r2>>
  BY DEF Offset
<1>3. Minus(p, o) \in {<<1, -1>>, <<1, 0>>, <<0, 1>>, <<-1, 1>>, <<-1, 0>>, <<0, -1>>}
  BY DEF DirectionIdxs
<1> QED BY <1>1, <1>2, <1>3 DEF Minus, Siblings

ViewInv ==
    /\ TypeOK
    /\ inMap /\ ~wild => view = Around(cell)
    /\ ~inMap => view = {}

(* What a client sees, with what it sees while it is not in the map.        *)
LEMMA ViewInvariant == Spec => []ViewInv
<1>1. Init => ViewInv
  <2> SUFFICES ASSUME Init PROVE ViewInv
    OBVIOUS
  <2>1. 0 \in (0 - Extent)..Extent
    BY ViewAssumption
  <2>2. pos \in Positions /\ cell \in Offset
    BY <2>1 DEF Init, Positions, Offset
  <2> QED BY <2>2 DEF Init, ViewInv, TypeOK
<1>2. ViewInv /\ [Next]_vars => ViewInv'
  <2> SUFFICES ASSUME ViewInv, [Next]_vars PROVE ViewInv'
    OBVIOUS
  <2>1. ASSUME NEW p \in Positions
        PROVE  CellAt(p) \in Offset /\ Around(CellAt(p)) \subseteq Offset
    <3>1. p[1] \in Int /\ p[2] \in Int
      BY ViewAssumption DEF Positions
    <3>2. CellAt(p) \in Offset
      BY <3>1, OffsetOfType, ViewAssumption DEF CellAt
    <3> QED BY <3>2, SiblingsSymmetric DEF Around
  <2>2. CASE OnAdded
    BY <2>1, <2>2 DEF OnAdded, ViewInv, TypeOK
  <2>3. CASE OnRemoved
    BY <2>3 DEF OnRemoved, ViewInv, TypeOK
  <2>4. ASSUME NEW p \in Positions, OnMove(p) PROVE ViewInv'
    <3> DEFINE to == CellAt(p)
    <3>1. /\ inMap /\ ~wild /\ inMap' = inMap /\ pos' = p
          /\ view = Around(cell) /\ cell \in Offset /\ to \in Offset
          /\ view \subseteq Offset
      BY <2>1, <2>4 DEF OnMove, ViewInv, TypeOK
    <3>2. CASE to = cell
      BY <2>4, <3>1, <3>2 DEF OnMove, ViewInv, TypeOK
    <3>3. CASE to # cell /\ DirectionIdxs(Minus(to, cell)) = -1
      BY <2>4, <3>1, <3>3 DEF OnMove, ChangeCell, ViewInv, TypeOK
    <3>4. CASE to # cell /\ DirectionIdxs(Minus(to, cell)) # -1
      <4>1. to \in Siblings(cell) /\ cell \in Siblings(to)
        BY <3>1, <3>4, DirectionOfSibling, SiblingsSymmetric
      <4>2. /\ CellsExcluding(cell, to) = Around(cell) \ Around(to)
            /\ CellsExcluding(to, cell) = Around(to) \ Around(cell)
        BY <3>1, <4>1, CellsExcludingIsDifference
      <4>3. /\ cell' = to /\ wild' = wild
            /\ view' = (view \ CellsExcluding(cell, to)) \cup CellsExcluding(to, cell)
        BY <2>4, <3>4 DEF OnMove, ChangeCell
      <4>4. view' = Around(to)
        BY <3>1, <4>2, <4>3
      <4> QED BY <2>1, <3>1, <4>3, <4>4 DEF ViewInv, TypeOK
    <3> QED BY <3>2, <3>3, <3>4
  <2>5. ASSUME NEW p \in Positions, Teleport(p) PROVE ViewInv'
    BY <2>5 DEF Teleport, ViewInv, TypeOK
  <2>6. CASE UNCHANGED vars
    BY <2>6 DEF vars, ViewInv, TypeOK
  <2> QED BY <2>2, <2>3, <2>4, <2>5, <2>6 DEF Next
<1> QED BY <1>1, <1>2, PTL DEF Spec

(* However long the walk and however fine the positions, the client holds   *)
(* exactly its cell and the six around it as spawned.                       *)
THEOREM ViewStaysExact == Spec => []ViewIsNeighbourhood
<1>1. ViewInv => ViewIsNeighbourhood
  BY DEF ViewInv, ViewIsNeighbourhood
<1> QED BY <1>1, ViewInvariant, PTL

-----------------------------------------------------------------------------
(* Rounding moves a coordinate by half a cell at most.                      *)
LEMMA RoundIsNear ==
    ASSUME NEW a \in Int, NEW d \in Nat \ {0}
    PROVE  /\ Round(a, d) \in Int
           /\ 2 * (Round(a, d) * d) - 2 * a <= d
           /\ 2 * a - 2 * (Round(a, d) * d) <= d
<1>1. ASSUME NEW m \in Nat
      PROVE  LET t == (2 * m + d) \div (2 * d)
             IN  t \in Int /\ 2 * (t * d) - 2 * m <= d /\ 2 * m - 2 * (t * d) <= d
  <2> DEFINE e == 2 * d
             x == 2 * m + d
             t == x \div e
  <2>1. e \in Nat \ {0} /\ x \in Nat
    OBVIOUS
  <2>2. t \in Int /\ e * t <= x /\ x < e * t + e
    <3> HIDE DEF e, x
    <3> QED BY <2>1
  <2>3. e * t = 2 * (t * d)
    <3>1. t \in Int
      BY <2>2
    <3> HIDE DEF t
    <3> QED BY <3>1
  <2> HIDE DEF t
  <2> QED BY <2>2, <2>3 DEF t
<1>2. CASE a >= 0
  BY <1>1, <1>2 DEF Round
<1>3. CASE ~(a >= 0)
  <2> DEFINE m == 0 - a
             t == (2 * m + d) \div (2 * d)
  <2>1. m \in Nat /\ 2 * m + d = d - 2 * a
    BY <1>3
  <2>2. t \in Int /\ 2 * (t * d) - 2 * m <= d /\ 2 * m - 2 * (t * d) <= d
    BY <1>1, <2>1
  <2>3. Round(a, d) = 0 - t
    BY <1>3, <2>1 DEF Round
  <2>4. (0 - t) * d = 0 - (t * d)
    <3> HIDE DEF t
    <3> QED BY <2>2
  <2> HIDE DEF t
  <2> QED BY <2>1, <2>2, <2>3, <2>4
<1> QED BY <1>2, <1>3

(* A multiple of d that is less than two of them away from zero.            *)
LEMMA SmallMultiple ==
    ASSUME NEW k \in Int, NEW d \in Nat \ {0}, k * d < 2 * d, 0 - 2 * d < k * d
    PROVE  k \in {-1, 0, 1}
<1>1. ASSUME k >= 2 PROVE FALSE
  <2>1. k - 2 \in Nat /\ (k - 2) * d \in Nat /\ (k - 2) * d = k * d - 2 * d
    BY <1>1
  <2> QED BY <2>1
<1>2. ASSUME k <= -2 PROVE FALSE
  <2>1. 0 - 2 - k \in Nat /\ (0 - 2 - k) * d \in Nat /\ (0 - 2 - k) * d = 0 - 2 * d - k * d
    BY <1>2
  <2> QED BY <2>1
<1> QED BY <1>1, <1>2

(* What the correction in offsetOf achieves: whichever coordinate was       *)
(* recomputed, the three distances of the point from the centre of the cell *)
(* it is put in differ by at most a cell, which is to be in its hexagon.    *)
InHexagon(x, y, z, d) ==
    /\ x - y <= d /\ y - x <= d
    /\ y - z <= d /\ z - y <= d
    /\ z - x <= d /\ x - z <= d

LEMMA OffsetOfInHexagon ==
    ASSUME NEW a \in Int, NEW b \in Int, NEW d \in Nat \ {0}
    PROVE  LET o == OffsetOf(a, b, d)
               x == o[1] * d - a
               y == o[2] * d - b
           IN  /\ o \in Offset /\ x \in Int /\ y \in Int
               /\ InHexagon(x, y, 0 - x - y, d)
<1> DEFINE c == 0 - a - b
           q == Round(a, d)
           r == Round(b, d)
           s == Round(c, d)
           qd == q * d
           rd == r * d
           sd == s * d
<1>1. /\ q \in Int /\ r \in Int /\ s \in Int /\ c \in Int
      /\ 2 * qd - 2 * a <= d /\ 2 * a - 2 * qd <= d
      /\ 2 * rd - 2 * b <= d /\ 2 * b - 2 * rd <= d
      /\ 2 * sd - 2 * c <= d /\ 2 * c - 2 * sd <= d
  BY RoundIsNear
<1> HIDE DEF q, r, s
<1>2. /\ qd \in Int /\ rd \in Int /\ sd \in Int
      /\ (q + r + s) * d = qd + rd + sd
      /\ (0 - r - s) * d = 0 - rd - sd
      /\ (0 - q - s) * d = 0 - qd - sd
  BY <1>1
<1> HIDE DEF qd, rd, sd
<1>3. qd + rd + sd = 0 - d \/ qd + rd + sd = 0 \/ qd + rd + sd = d
  <2> DEFINE k == q + r + s
  <2>1. k \in Int /\ k * d < 2 * d /\ 0 - 2 * d < k * d
    BY <1>1, <1>2
  <2>2. k \in {-1, 0, 1}
    <3> HIDE DEF k
    <3> QED BY <2>1, SmallMultiple
  <2>3. k * d = qd + rd + sd
    BY <1>2
  <2> HIDE DEF k
  <2> QED BY <2>2, <2>3
<1> DEFINE qDiff == AbsDiff(qd, a)
           rDiff == AbsDiff(rd, b)
           sDiff == AbsDiff(sd, c)
           o == OffsetOf(a, b, d)
<1>4. o = IF qDiff > rDiff /\ qDiff > sDiff THEN <<0 - r - s, r>>
          ELSE IF rDiff > sDiff THEN <<q, 0 - q - s>>
          ELSE <<q, r>>
  BY DEF OffsetOf, q, r, s, qd, rd, sd
<1> HIDE DEF o
<1>5. CASE qDiff > rDiff /\ qDiff > sDiff
  <2>1. o = <<0 - r - s, r>>
    BY <1>4, <1>5
  <2>2. o \in Offset /\ o[1] * d = 0 - rd - sd /\ o[2] * d = rd
    BY <1>1, <1>2, <2>1 DEF Offset, rd
  <2>3. InHexagon(0 - rd - sd - a, rd - b, 0 - (0 - rd - sd - a) - (rd - b), d)
    BY <1>1, <1>2, <1>3, <1>5 DEF InHexagon, AbsDiff
  <2> QED BY <1>2, <2>2, <2>3 DEF o
<1>6. CASE ~(qDiff > rDiff /\ qDiff > sDiff) /\ rDiff > sDiff
  <2>1. o = <<q, 0 - q - s>>
    BY <1>4, <1>6
  <2>2. o \in Offset /\ o[1] * d = qd /\ o[2] * d = 0 - qd - sd
    BY <1>1, <1>2, <2>1 DEF Offset, qd
  <2>3. InHexagon(qd - a, 0 - qd - sd - b, 0 - (qd - a) - (0 - qd - sd - b), d)
    BY <1>1, <1>2, <1>3, <1>6 DEF InHexagon, AbsDiff
  <2> QED BY <1>2, <2>2, <2>3 DEF o
<1>7. CASE ~(qDiff > rDiff /\ qDiff > sDiff) /\ ~(rDiff > sDiff)
  <2>1. o = <<q, r>>
    BY <1>4, <1>7
  <2>2. o \in Offset /\ o[1] * d = qd /\ o[2] * d = rd
    BY <1>1, <1>2, <2>1 DEF Offset, qd, rd
  <2>3. InHexagon(qd - a, rd - b, 0 - (qd - a) - (rd - b), d)
    BY <1>1, <1>2, <1>3, <1>7 DEF InHexagon, AbsDiff
  <2> QED BY <1>2, <2>2, <2>3 DEF o
<1> QED BY <1>5, <1>6, <1>7

(* In its hexagon a point is nearest to the centre of it: what the squared  *)
(* distances from two neighbouring centres differ by is d times what        *)
(* InHexagon bounds.                                                        *)
LEMMA NearestInHexagon ==
    ASSUME NEW x \in Int, NEW y \in Int, NEW d \in Nat, InHexagon(x, y, 0 - x - y, d),
           NEW u \in {-1, 0, 1}, NEW v \in {-1, 0, 1}, u + v \in {-1, 0, 1}
    PROVE  x * x + y * y + x * y <=
             (x + u * d) * (x + u * d) + (y + v * d) * (y + v * d) + (x + u * d) * (y + v * d)
<1> DEFINE Sq(i, j) == i * i + j * j + i * j
<1>0. d * (2 * x + y + d) >= 0 /\ d * (d - 2 * x - y) >= 0
      /\ d * (2 * y + x + d) >= 0 /\ d * (d - 2 * y - x) >= 0
      /\ d * (x - y + d) >= 0 /\ d * (y - x + d) >= 0
  <2>1. /\ 2 * x + y + d \in Nat /\ d - 2 * x - y \in Nat
        /\ 2 * y + x + d \in Nat /\ d - 2 * y - x \in Nat
        /\ x - y + d \in Nat /\ y - x + d \in Nat
    BY DEF InHexagon
  <2>2. ASSUME NEW i \in Nat PROVE d * i >= 0
    OBVIOUS
  <2> QED BY <2>1, <2>2
<1>1. Sq(x + d, y) = Sq(x, y) + d * (2 * x + y + d)
  OBVIOUS
<1>2. Sq(x - d, y) = Sq(x, y) + d * (d - 2 * x - y)
  OBVIOUS
<1>3. Sq(x, y + d) = Sq(x, y) + d * (2 * y + x + d)
  OBVIOUS
<1>4. Sq(x, y - d) = Sq(x, y) + d * (d - 2 * y - x)
  OBVIOUS
<1>5. Sq(x + d, y - d) = Sq(x, y) + d * (x - y + d)
  OBVIOUS
<1>6. Sq(x - d, y + d) = Sq(x, y) + d * (y - x + d)
  OBVIOUS
<1>7. /\ Sq(x, y) \in Int
      /\ \A i, j \in {-1, 0, 1} : x + i * d \in Int /\ y + j * d \in Int
  OBVIOUS
<1>8. /\ x + 0 * d = x /\ x + 1 * d = x + d /\ x + (-1) * d = x - d
      /\ y + 0 * d = y /\ y + 1 * d = y + d /\ y + (-1) * d = y - d
  OBVIOUS
<1>9. /\ Sq(x, y) <= Sq(x, y) /\ Sq(x, y) <= Sq(x + d, y) /\ Sq(x, y) <= Sq(x - d, y)
      /\ Sq(x, y) <= Sq(x, y + d) /\ Sq(x, y) <= Sq(x, y - d)
      /\ Sq(x, y) <= Sq(x + d, y - d) /\ Sq(x, y) <= Sq(x - d, y + d)
  <2> HIDE DEF Sq
  <2> QED BY <1>0, <1>1, <1>2, <1>3, <1>4, <1>5, <1>6, <1>7
<1>10. \/ u = 0 /\ v \in {-1, 0, 1}
       \/ u = 1 /\ v \in {-1, 0}
       \/ u = -1 /\ v \in {0, 1}
  OBVIOUS
<1>11. Sq(x, y) <= Sq(x + u * d, y + v * d)
  <2> HIDE DEF Sq
  <2> QED BY <1>8, <1>9, <1>10
<1> QED BY <1>11

(* For any grid of positions, offsetOf puts a point in the cell whose       *)
(* centre is nearest.                                                       *)
THEOREM CellsAreNearest == Spec => []CellIsNearest
<1>1. TypeOK => CellIsNearest
  <2> SUFFICES ASSUME TypeOK, NEW p \in Around(CellAt(pos))
               PROVE  SquaredDistance(pos, CellAt(pos)) <= SquaredDistance(pos, p)
    BY DEF CellIsNearest
  <2> DEFINE a == pos[1]
             b == pos[2]
             d == Scale
             o == CellAt(pos)
             x == o[1] * d - a
             y == o[2] * d - b
  <2>1. a \in Int /\ b \in Int /\ d \in Nat \ {0}
    BY ViewAssumption DEF TypeOK, Positions
  <2>2. o \in Offset /\ x \in Int /\ y \in Int /\ InHexagon(x, y, 0 - x - y, d)
    <3> HIDE DEF a, b, d
    <3>1. o = OffsetOf(a, b, d)
      BY DEF CellAt, a, b, d
    <3> QED BY <2>1, <3>1, OffsetOfInHexagon
  <2>3. PICK q \in Int, r \in Int : o = <<q, r>>
    BY <2>2 DEF Offset
  <2>4. PICK u \in {-1, 0, 1}, v \in {-1, 0, 1} : u + v \in {-1, 0, 1} /\ p = <<q + u, r + v>>
    <3> HIDE DEF o
    <3>1. p \in Around(<<q, r>>)
      BY <2>3 DEF o
    <3>2. \/ p = <<q + 0, r + 0>> \/ p = <<q + 0, r + (-1)>> \/ p = <<q + 1, r + (-1)>>
          \/ p = <<q + 1, r + 0>> \/ p = <<q + 0, r + 1>> \/ p = <<q + (-1), r + 1>>
          \/ p = <<q + (-1), r + 0>>
      BY <3>1 DEF Around, Siblings
    <3> QED BY <3>2
  <2> HIDE DEF a, b, d, o
  <2>5. /\ a - o[1] * d = 0 - x /\ b - o[2] * d = 0 - y
        /\ a - p[1] * d = 0 - (x + u * d) /\ b - p[2] * d = 0 - (y + v * d)
        /\ u * d \in Int /\ v * d \in Int
    <3>1. (q + u) * d = q * d + u * d /\ (r + v) * d = r * d + v * d
          /\ u * d \in Int /\ v * d \in Int /\ q * d \in Int /\ r * d \in Int
      BY <2>1
    <3> QED BY <2>1, <2>3, <2>4, <3>1
  <2> HIDE DEF x, y
  <2>6. x * x + y * y + x * y <=
             (x + u * d) * (x + u * d) + (y + v * d) * (y + v * d) + (x + u * d) * (y + v * d)
    BY <2>1, <2>2, <2>4, NearestInHexagon
  <2>7. ASSUME NEW i \in Int, NEW j \in Int
        PROVE  (0 - i) * (0 - i) + (0 - j) * (0 - j) + (0 - i) * (0 - j) = i * i + j * j + i * j
    OBVIOUS
  <2>8. SquaredDistance(pos, o) = x * x + y * y + x * y
    <3>1. SquaredDistance(pos, o) = (0 - x) * (0 - x) + (0 - y) * (0 - y) + (0 - x) * (0 - y)
      BY <2>5 DEF SquaredDistance, a, b, d
    <3> QED BY <2>2, <2>7, <3>1
  <2>9. SquaredDistance(pos, p) =
             (x + u * d) * (x + u * d) + (y + v * d) * (y + v * d) + (x + u * d) * (y + v * d)
    <3> DEFINE i == x + u * d
               j == y + v * d
    <3>1. i \in Int /\ j \in Int
      BY <2>2, <2>5
    <3>2. SquaredDistance(pos, p) = (0 - i) * (0 - i) + (0 - j) * (0 - j) + (0 - i) * (0 - j)
      BY <2>5 DEF SquaredDistance, a, b, d
    <3> HIDE DEF i, j
    <3>3. SquaredDistance(pos, p) = i * i + j * j + i * j
      BY <2>7, <3>1, <3>2
    <3> QED BY <3>3 DEF i, j
  <2> QED BY <2>6, <2>8, <2>9 DEF o
<1>2. ViewInv => TypeOK
  BY DEF ViewInv
<1> QED BY <1>1, <1>2, ViewInvariant, PTL

(* Moving a point by less than two thirds of a cell takes it to the same    *)
(* cell or to one next to it: a point of a hexagon is at most two thirds    *)
(* away from its centre along each of the three coordinates.                *)
LEMMA ShortStepToSibling ==
    ASSUME NEW a \in Int, NEW b \in Int, NEW a2 \in Int, NEW b2 \in Int,
           NEW d \in Nat \ {0}, NEW step \in Nat, 3 * step < 2 * d,
           Distance(<<a2, b2>>, <<a, b>>) <= step,
           OffsetOf(a2, b2, d) # OffsetOf(a, b, d)
    PROVE  OffsetOf(a2, b2, d) \in Siblings(OffsetOf(a, b, d))
<1> DEFINE o == OffsetOf(a, b, d)
           p == OffsetOf(a2, b2, d)
           x == o[1] * d - a
           y == o[2] * d - b
           x2 == p[1] * d - a2
           y2 == p[2] * d - b2
<1>1. o \in Offset /\ x \in Int /\ y \in Int /\ InHexagon(x, y, 0 - x - y, d)
  BY OffsetOfInHexagon
<1>2. p \in Offset /\ x2 \in Int /\ y2 \in Int /\ InHexagon(x2, y2, 0 - x2 - y2, d)
  BY OffsetOfInHexagon
<1>3. PICK q \in Int, r \in Int : o = <<q, r>>
  BY <1>1 DEF Offset
<1>4. PICK q2 \in Int, r2 \in Int : p = <<q2, r2>>
  BY <1>2 DEF Offset
<1> HIDE DEF o, p
<1>5. /\ a2 - a <= step /\ a - a2 <= step /\ b2 - b <= step /\ b - b2 <= step
      /\ (a2 + b2) - (a + b) <= step /\ (a + b) - (a2 + b2) <= step
  BY DEF Distance, Larger, AbsDiff, S
<1>6. ASSUME NEW i \in Int, NEW j \in Int, InHexagon(i, j, 0 - i - j, d)
      PROVE  /\ 3 * i <= 2 * d /\ 0 - 2 * d <= 3 * i
             /\ 3 * j <= 2 * d /\ 0 - 2 * d <= 3 * j
             /\ 3 * (i + j) <= 2 * d /\ 0 - 2 * d <= 3 * (i + j)
  BY <1>6 DEF InHexagon
<1>7. /\ q2 * d - q * d = (x2 - x) + (a2 - a) /\ r2 * d - r * d = (y2 - y) + (b2 - b)
      /\ q * d \in Int /\ q2 * d \in Int /\ r * d \in Int /\ r2 * d \in Int
  <2>1. q * d \in Int /\ q2 * d \in Int /\ r * d \in Int /\ r2 * d \in Int
    OBVIOUS
  <2> QED BY <1>3, <1>4, <2>1
<1> HIDE DEF x, y, x2, y2
<1>8. /\ q2 * d - q * d < 2 * d /\ 0 - 2 * d < q2 * d - q * d
      /\ r2 * d - r * d < 2 * d /\ 0 - 2 * d < r2 * d - r * d
      /\ (q2 * d - q * d) + (r2 * d - r * d) < 2 * d
      /\ 0 - 2 * d < (q2 * d - q * d) + (r2 * d - r * d)
  <2>1. /\ 3 * x <= 2 * d /\ 0 - 2 * d <= 3 * x
        /\ 3 * y <= 2 * d /\ 0 - 2 * d <= 3 * y
        /\ 3 * (x + y) <= 2 * d /\ 0 - 2 * d <= 3 * (x + y)
    BY <1>1, <1>6
  <2>2. /\ 3 * x2 <= 2 * d /\ 0 - 2 * d <= 3 * x2
        /\ 3 * y2 <= 2 * d /\ 0 - 2 * d <= 3 * y2
        /\ 3 * (x2 + y2) <= 2 * d /\ 0 - 2 * d <= 3 * (x2 + y2)
    BY <1>2, <1>6
  <2> QED BY <1>1, <1>2, <1>5, <1>7, <2>1, <2>2
<1>9. /\ (q2 - q) * d = q2 * d - q * d /\ (r2 - r) * d = r2 * d - r * d
      /\ (q2 - q + r2 - r) * d = (q2 * d - q * d) + (r2 * d - r * d)
  OBVIOUS
<1>10. q2 - q \in {-1, 0, 1} /\ r2 - r \in {-1, 0, 1} /\ q2 - q + r2 - r \in {-1, 0, 1}
  <2>1. q2 - q \in Int /\ r2 - r \in Int /\ q2 - q + r2 - r \in Int
    OBVIOUS
  <2> QED BY <1>8, <1>9, <2>1, SmallMultiple
<1>11. <<q2, r2>> # <<q, r>>
  BY <1>3, <1>4 DEF o, p
<1>12. <<q2, r2>> \in Siblings(<<q, r>>)
  BY <1>10, <1>11 DEF Siblings
<1> QED BY <1>3, <1>4, <1>12 DEF o, p

(* directionIdxs finds an index for every neighbour.                        *)
LEMMA SiblingHasDirection ==
    ASSUME NEW o \in Offset, NEW p \in Siblings(o)
    PROVE  DirectionIdxs(Minus(p, o)) # -1
<1>1. PICK q \in Int, r \in Int : o = <<q, r>>
  BY DEF Offset
<1>2. Minus(p, o) \in {<<1, -1>>, <<1, 0>>, <<0, 1>>, <<-1, 1>>, <<-1, 0>>, <<0, -1>>}
  BY <1>1 DEF Minus, Siblings
<1> QED BY <1>2 DEF DirectionIdxs

(* The cell is that of the position, as long as every move is followed by   *)
(* the change of cell it calls for.                                         *)
PlaceInv == ~wild /\ (inMap => cell = CellAt(pos))

(* No walk in steps of less than two thirds of a cell makes                 *)
(* getCellsExcluding read directions[] out of range.                        *)
THEOREM ShortStepsNeverWild ==
    ASSUME 3 * MaxStep < 2 * Scale
    PROVE  Spec => []NeverWild
<1>1. Init => PlaceInv
  BY DEF Init, PlaceInv
<1>2. ViewInv /\ PlaceInv /\ [Next]_vars => PlaceInv'
  <2> SUFFICES ASSUME ViewInv, PlaceInv, [Next]_vars PROVE PlaceInv'
    OBVIOUS
  <2>1. CASE OnAdded
    BY <2>1 DEF OnAdded, PlaceInv, CellAt
  <2>2. CASE OnRemoved
    BY <2>2 DEF OnRemoved, PlaceInv
  <2>3. ASSUME NEW p \in Positions, OnMove(p) PROVE PlaceInv'
    <3>1. /\ inMap /\ ~wild /\ pos' = p /\ inMap' = inMap
          /\ cell = CellAt(pos) /\ Distance(p, pos) <= MaxStep
      BY <2>3 DEF OnMove, PlaceInv
    <3>2. CASE CellAt(p) = cell
      BY <2>3, <3>1, <3>2 DEF OnMove, PlaceInv, CellAt
    <3>3. CASE CellAt(p) # cell
      <4>1. PICK a \in Int, b \in Int : pos = <<a, b>>
        BY ViewAssumption DEF ViewInv, TypeOK, Positions
      <4>2. PICK a2 \in Int, b2 \in Int : p = <<a2, b2>>
        BY ViewAssumption DEF Positions
      <4>3. Scale \in Nat \ {0} /\ MaxStep \in Nat
        BY ViewAssumption
      <4>4. CellAt(pos) = OffsetOf(a, b, Scale) /\ CellAt(p) = OffsetOf(a2, b2, Scale)
        BY <4>1, <4>2 DEF CellAt
      <4>5. CellAt(p) \in Siblings(cell)
        BY <3>1, <3>3, <4>1, <4>2, <4>3, <4>4, ShortStepToSibling
      <4>6. DirectionIdxs(Minus(CellAt(p), cell)) # -1
        BY <4>5, SiblingHasDirection DEF ViewInv, TypeOK
      <4>7. cell' = CellAt(p) /\ wild' = wild
        BY <2>3, <3>3, <4>6 DEF OnMove, ChangeCell
      <4> QED BY <3>1, <4>7 DEF PlaceInv, CellAt
    <3> QED BY <3>2, <3>3
  <2>4. ASSUME NEW p \in Positions, Teleport(p) PROVE PlaceInv'
    BY <2>4 DEF Teleport, PlaceInv, CellAt
  <2>5. CASE UNCHANGED vars
    BY <2>5 DEF vars, PlaceInv, CellAt
  <2> QED BY <2>1, <2>2, <2>3, <2>4, <2>5 DEF Next
<1>3. PlaceInv => NeverWild
  BY DEF PlaceInv, NeverWild
<1> QED BY <1>1, <1>2, <1>3, ViewInvariant, PTL DEF Spec

-----------------------------------------------------------------------------
(* Induction, as the least counterexample.                                  *)
LEMMA LeastNat ==
    ASSUME NEW T \in SUBSET Nat, T # {}
    PROVE  \E x \in T : \A y \in T : ~(y < x)
<1>1. PICK x \in T : \A y \in T : ~(<<y, x>> \in OpToRel(<, Nat))
  BY NatLessThanWellFounded, WFMin
<1> QED BY <1>1 DEF OpToRel

(* The n-th offset of the walk of Cell::ring, in closed form: a point of    *)
(* the hexagon's border, side after side.                                   *)
RingAt(q, r, k, n) ==
    IF n <= k THEN <<q - k + n, r - n>>
    ELSE IF n <= 2 * k THEN <<q + n - k, r - k>>
    ELSE IF n <= 3 * k THEN <<q + k, r - k + (n - 2 * k)>>
    ELSE IF n <= 4 * k THEN <<q + k - (n - 3 * k), r + (n - 3 * k)>>
    ELSE IF n <= 5 * k THEN <<q - (n - 4 * k), r + k>>
    ELSE <<q - k, r + k - (n - 5 * k)>>

LEMMA SideOf ==
    ASSUME NEW k \in Nat \ {0}, NEW m \in Nat, NEW i \in Nat, i * k <= m, m < i * k + k
    PROVE  m \div k = i
<1> DEFINE t == m \div k
<1>1. t \in Int /\ k * t <= m /\ m < k * t + k
  OBVIOUS
<1> HIDE DEF t
<1>2. (t - i) * k = k * t - i * k /\ i * k \in Int /\ k * t \in Int
  BY <1>1
<1>3. t - i \in Int /\ (t - i) * k < k /\ 0 - k < (t - i) * k
  BY <1>1, <1>2
<1>4. ASSUME t - i >= 1 PROVE FALSE
  <2>1. t - i - 1 \in Nat /\ (t - i - 1) * k \in Nat /\ (t - i - 1) * k = (t - i) * k - k
    BY <1>1, <1>4
  <2> QED BY <1>3, <2>1
<1>5. ASSUME t - i <= -1 PROVE FALSE
  <2>1. 0 - 1 - (t - i) \in Nat /\ (0 - 1 - (t - i)) * k \in Nat
        /\ (0 - 1 - (t - i)) * k = 0 - k - (t - i) * k
    BY <1>1, <1>5
  <2> QED BY <1>3, <2>1
<1>6. t = i
  BY <1>1, <1>4, <1>5
<1> QED BY <1>6 DEF t

LEMMA RingStep ==
    ASSUME NEW q \in Int, NEW r \in Int, NEW k \in Nat \ {0}, NEW n \in 1..(6 * k)
    PROVE  RingAt(q, r, k, n) = Plus(RingAt(q, r, k, n - 1), Directions[(n - 1) \div k])
<1>1. /\ Directions[0] = <<1, -1>> /\ Directions[1] = <<1, 0>> /\ Directions[2] = <<0, 1>>
      /\ Directions[3] = <<-1, 1>> /\ Directions[4] = <<-1, 0>> /\ Directions[5] = <<0, -1>>
  BY DEF Directions
<1> DEFINE m == n - 1
<1>2. m \in Nat /\ n = m + 1 /\ m < 6 * k
  OBVIOUS
<1> HIDE DEF m
<1>3. ASSUME NEW i \in 0..5, i * k <= m, m < i * k + k
      PROVE  m \div k = i
  BY <1>2, <1>3, SideOf
<1>4. CASE m < k
  <2>1. m \div k = 0
    BY <1>2, <1>3, <1>4
  <2> QED BY <1>1, <1>2, <1>4, <2>1 DEF RingAt, Plus, m
<1>5. CASE k <= m /\ m < 2 * k
  <2>1. m \div k = 1
    BY <1>2, <1>3, <1>5
  <2> QED BY <1>1, <1>2, <1>5, <2>1 DEF RingAt, Plus, m
<1>6. CASE 2 * k <= m /\ m < 3 * k
  <2>1. m \div k = 2
    BY <1>2, <1>3, <1>6
  <2> QED BY <1>1, <1>2, <1>6, <2>1 DEF RingAt, Plus, m
<1>7. CASE 3 * k <= m /\ m < 4 * k
  <2>1. m \div k = 3
    BY <1>2, <1>3, <1>7
  <2> QED BY <1>1, <1>2, <1>7, <2>1 DEF RingAt, Plus, m
<1>8. CASE 4 * k <= m /\ m < 5 * k
  <2>1. m \div k = 4
    BY <1>2, <1>3, <1>8
  <2> QED BY <1>1, <1>2, <1>8, <2>1 DEF RingAt, Plus, m
<1>9. CASE 5 * k <= m
  <2>1. m \div k = 5
    BY <1>2, <1>3, <1>9
  <2> QED BY <1>1, <1>2, <1>9, <2>1 DEF RingAt, Plus, m
<1> QED BY <1>2, <1>4, <1>5, <1>6, <1>7, <1>8, <1>9

(* The loop of Cell::ring walks along that border.                          *)
LEMMA RingWalksBorder ==
    ASSUME NEW q \in Int, NEW r \in Int, NEW k \in Nat \ {0}
    PROVE  Ring(<<q, r>>, k) = [n \in 1..(6 * k) |-> RingAt(q, r, k, n - 1)]
<1> DEFINE I == 0..(6 * k)
           start == <<q + Directions[4][1] * k, r + Directions[4][2] * k>>
           Walk(f) == [n \in I |-> IF n = 0 THEN start
                                    ELSE Plus(f[n - 1], Directions[(n - 1) \div k])]
           walk == CHOOSE f : f = Walk(f)
           border == [n \in I |-> RingAt(q, r, k, n)]
<1>1. Ring(<<q, r>>, k) = [n \in 1..(6 * k) |-> walk[n - 1]]
  BY DEF Ring
<1>2. start = RingAt(q, r, k, 0)
  <2>1. Directions[4] = <<-1, 0>>
    BY DEF Directions
  <2>2. start = <<q - k, r>>
    BY <2>1
  <2> QED BY <2>2 DEF RingAt
<1>3. \A n \in I : n = 0 \/ (n \in 1..(6 * k) /\ n - 1 \in I)
  OBVIOUS
<1> HIDE DEF start
<1>4. border = Walk(border)
  <2>1. ASSUME NEW n \in I PROVE border[n] = Walk(border)[n]
    <3>1. CASE n = 0
      BY <1>2, <3>1
    <3>2. CASE n # 0
      <4>1. n \in 1..(6 * k) /\ n - 1 \in I
        BY <1>3, <3>2
      <4>2. border[n] = RingAt(q, r, k, n) /\ border[n - 1] = RingAt(q, r, k, n - 1)
        BY <4>1
      <4>3. border[n] = Plus(border[n - 1], Directions[(n - 1) \div k])
        BY <4>1, <4>2, RingStep
      <4> HIDE DEF border
      <4> QED BY <3>2, <4>3
    <3> QED BY <3>1, <3>2
  <2>2. border = [n \in I |-> border[n]]
    OBVIOUS
  <2> HIDE DEF border
  <2> QED BY <2>1, <2>2
<1>5. walk = Walk(walk)
  <2> HIDE DEF border
  <2> QED BY <1>4
<1>6. ASSUME NEW f, f = Walk(f), NEW n \in I PROVE f[n] = border[n]
  <2> DEFINE T == {m \in I : f[m] # border[m]}
  <2> SUFFICES ASSUME T # {} PROVE FALSE
    OBVIOUS
  <2>1. T \in SUBSET Nat
    OBVIOUS
  <2>2. PICK m \in T : \A y \in T : ~(y < m)
    BY <2>1, LeastNat
  <2>3. m \in I /\ f[m] # border[m]
    BY <2>2
  <2> HIDE DEF border
  <2>4. /\ f[m] = IF m = 0 THEN start ELSE Plus(f[m - 1], Directions[(m - 1) \div k])
        /\ border[m] = IF m = 0 THEN start ELSE Plus(border[m - 1], Directions[(m - 1) \div k])
    BY <1>4, <1>6, <2>3
  <2>5. m # 0
    BY <2>3, <2>4
  <2>6. m - 1 \in I /\ m - 1 < m
    BY <2>3, <2>5
  <2>7. f[m - 1] = border[m - 1]
    BY <2>2, <2>6
  <2> QED BY <2>3, <2>4, <2>5, <2>7
<1>7. \A n \in 1..(6 * k) : walk[n - 1] = RingAt(q, r, k, n - 1)
  <2> TAKE n \in 1..(6 * k)
  <2>1. n - 1 \in I
    OBVIOUS
  <2>2. walk[n - 1] = border[n - 1]
    <3> HIDE DEF walk, border, Walk
    <3> QED BY <1>5, <1>6, <2>1
  <2> QED BY <2>1, <2>2
<1> HIDE DEF walk
<1> QED BY <1>1, <1>7

(* Cell::ring stores every offset at the given distance, and each of them   *)
(* once, whatever the cell and the radius.                                  *)
THEOREM RingIsSphere ==
    ASSUME NEW o \in Offset, NEW k \in Nat
    PROVE  /\ {Ring(o, k)[n] : n \in DOMAIN Ring(o, k)} =
                 {p \in Offset : Distance(o, p) = k /\ k > 0}
           /\ \A m, n \in DOMAIN Ring(o, k) : Ring(o, k)[m] = Ring(o, k)[n] => m = n
<1>1. PICK q \in Int, r \in Int : o = <<q, r>>
  BY DEF Offset
<1>2. CASE k = 0
  <2>1. DOMAIN Ring(o, k) = 1..0
    BY <1>2 DEF Ring
  <2> QED BY <1>2, <2>1
<1>3. CASE k # 0
  <2> DEFINE ring == Ring(o, k)
  <2>0. k \in Nat \ {0}
    BY <1>3
  <2>1. ring = [n \in 1..(6 * k) |-> RingAt(q, r, k, n - 1)]
    BY <1>1, <2>0, RingWalksBorder
  <2> HIDE DEF ring
  <2>2. ASSUME NEW n \in 1..(6 * k)
        PROVE  ring[n] \in Offset /\ Distance(o, ring[n]) = k
    <3>1. ring[n] = RingAt(q, r, k, n - 1)
      BY <2>1
    <3> DEFINE x == RingAt(q, r, k, n - 1)[1]
               y == RingAt(q, r, k, n - 1)[2]
    <3>2. /\ RingAt(q, r, k, n - 1) = <<x, y>> /\ x \in Int /\ y \in Int
          /\ \/ x - q <= 0 /\ y - r <= 0 /\ (x - q) + (y - r) = 0 - k
             \/ x - q >= 0 /\ y - r = 0 - k /\ x - q <= k
             \/ x - q = k /\ y - r <= 0 /\ y - r >= 0 - k
             \/ x - q >= 0 /\ y - r >= 0 /\ (x - q) + (y - r) = k
             \/ x - q <= 0 /\ y - r = k /\ x - q >= 0 - k
             \/ x - q = 0 - k /\ y - r >= 0 /\ y - r <= k
      BY <2>0 DEF RingAt
    <3> HIDE DEF x, y
    <3>3. Distance(<<q, r>>, <<x, y>>) = k
      BY <2>0, <3>2 DEF Distance, Larger, AbsDiff, S
    <3> QED BY <1>1, <3>1, <3>2, <3>3 DEF Offset
  <2>3. ASSUME NEW p \in Offset, Distance(o, p) = k
        PROVE  \E n \in 1..(6 * k) : p = ring[n]
    <3>1. PICK x \in Int, y \in Int : p = <<x, y>>
      BY DEF Offset
    <3> DEFINE u == x - q
               v == y - r
    <3>2. /\ u \in Int /\ v \in Int
          /\ \/ u <= 0 /\ v <= 0 /\ u + v = 0 - k
             \/ u >= 0 /\ v = 0 - k /\ u <= k
             \/ u = k /\ v <= 0 /\ v >= 0 - k
             \/ u >= 0 /\ v >= 0 /\ u + v = k
             \/ u <= 0 /\ v = k /\ u >= 0 - k
             \/ u = 0 - k /\ v >= 0 /\ v <= k
      BY <1>1, <2>3, <3>1 DEF Distance, Larger, AbsDiff, S
    <3>3. ASSUME NEW n \in 1..(6 * k), p = RingAt(q, r, k, n - 1)
          PROVE  \E i \in 1..(6 * k) : p = ring[i]
      BY <2>1, <3>3
    <3>4. CASE u <= 0 /\ v <= 0 /\ u + v = 0 - k
      <4> DEFINE n == 1 - v
      <4>1. n \in 1..(6 * k) /\ p = RingAt(q, r, k, n - 1)
        BY <2>0, <3>1, <3>4 DEF RingAt
      <4> QED BY <3>3, <4>1
    <3>5. CASE u >= 0 /\ v = 0 - k /\ u <= k
      <4> DEFINE n == 1 + k + u
      <4>1. n \in 1..(6 * k) /\ p = RingAt(q, r, k, n - 1)
        BY <2>0, <3>1, <3>5 DEF RingAt
      <4> QED BY <3>3, <4>1
    <3>6. CASE u = k /\ v <= 0 /\ v >= 0 - k
      <4> DEFINE n == 1 + 3 * k + v
      <4>1. n \in 1..(6 * k) /\ p = RingAt(q, r, k, n - 1)
        BY <2>0, <3>1, <3>6 DEF RingAt
      <4> QED BY <3>3, <4>1
    <3>7. CASE u >= 0 /\ v >= 0 /\ u + v = k
      <4> DEFINE n == 1 + 3 * k + v
      <4>1. n \in 1..(6 * k) /\ p = RingAt(q, r, k, n - 1)
        BY <2>0, <3>1, <3>7 DEF RingAt
      <4> QED BY <3>3, <4>1
    <3>8. CASE u <= 0 /\ v = k /\ u >= 0 - k
      <4> DEFINE n == 1 + 4 * k - u
      <4>1. n \in 1..(6 * k) /\ p = RingAt(q, r, k, n - 1)
        BY <2>0, <3>1, <3>8 DEF RingAt
      <4> QED BY <3>3, <4>1
    <3>9. CASE u = 0 - k /\ v > 0 /\ v <= k
      <4> DEFINE n == 1 + 6 * k - v
      <4>1. n \in 1..(6 * k) /\ p = RingAt(q, r, k, n - 1)
        BY <2>0, <3>1, <3>9 DEF RingAt
      <4> QED BY <3>3, <4>1
    <3>10. CASE u = 0 - k /\ v = 0
      <4>1. u <= 0 /\ v <= 0 /\ u + v = 0 - k
        BY <2>0, <3>2, <3>10
      <4> QED BY <3>4, <4>1
    <3> QED BY <3>2, <3>4, <3>5, <3>6, <3>7, <3>8, <3>9, <3>10
  <2>4. ASSUME NEW m \in 1..(6 * k), NEW n \in 1..(6 * k), ring[m] = ring[n]
        PROVE  m = n
    <3>1. RingAt(q, r, k, m - 1) = RingAt(q, r, k, n - 1)
      BY <2>1, <2>4
    <3> DEFINE Side(i, u, v) ==
                 \/ i - 1 <= k /\ u = i - 1 - k /\ v = 0 - (i - 1)
                 \/ k < i - 1 /\ i - 1 <= 2 * k /\ u = i - 1 - k /\ v = 0 - k
                 \/ 2 * k < i - 1 /\ i - 1 <= 3 * k /\ u = k /\ v = i - 1 - 3 * k
                 \/ 3 * k < i - 1 /\ i - 1 <= 4 * k /\ u = 4 * k - (i - 1) /\ v = i - 1 - 3 * k
                 \/ 4 * k < i - 1 /\ i - 1 <= 5 * k /\ u = 4 * k - (i - 1) /\ v = k
                 \/ 5 * k < i - 1 /\ u = 0 - k /\ v = 6 * k - (i - 1)
    <3>2. ASSUME NEW i \in 1..(6 * k)
          PROVE  \E u, v \in Int : RingAt(q, r, k, i - 1) = <<q + u, r + v>> /\ Side(i, u, v)
      <4> DEFINE u == RingAt(q, r, k, i - 1)[1] - q
                 v == RingAt(q, r, k, i - 1)[2] - r
      <4>1. u \in Int /\ v \in Int /\ RingAt(q, r, k, i - 1) = <<q + u, r + v>>
        BY <2>0 DEF RingAt
      <4>2. Side(i, u, v)
        BY <2>0 DEF RingAt
      <4> HIDE DEF u, v, Side
      <4> QED BY <4>1, <4>2
    <3>3. PICK u \in Int, v \in Int : RingAt(q, r, k, m - 1) = <<q + u, r + v>> /\ Side(m, u, v)
      BY <3>2
    <3>4. PICK u2 \in Int, v2 \in Int :
            RingAt(q, r, k, n - 1) = <<q + u2, r + v2>> /\ Side(n, u2, v2)
      BY <3>2
    <3>5. q + u = q + u2 /\ r + v = r + v2
      <4>1. <<q + u, r + v>> = <<q + u2, r + v2>>
        BY <3>1, <3>3, <3>4
      <4> QED BY <4>1
    <3>6. u = u2 /\ v = v2
      BY <3>5
    <3> QED BY <2>0, <3>3, <3>4, <3>6
  <2>5. {ring[n] : n \in DOMAIN ring} = {p \in Offset : Distance(o, p) = k /\ k > 0}
    <3>1. DOMAIN ring = 1..(6 * k) /\ k > 0
      BY <2>0, <2>1
    <3> QED BY <2>2, <2>3, <3>1
  <2> QED BY <2>1, <2>4, <2>5 DEF ring
<1> QED BY <1>2, <1>3

(* So the queries match the distance wherever a client has walked to.       *)
THEOREM QueriesRight == Spec => []QueriesMatchDistance
<1>1. TypeOK => QueriesMatchDistance
  <2> SUFFICES ASSUME TypeOK, NEW radius \in 0..3
               PROVE  LET box == ((cell[1] - 4)..(cell[1] + 4)) \X ((cell[2] - 4)..(cell[2] + 4))
                          ring == Ring(cell, radius)
                      IN  /\ {ring[n] : n \in DOMAIN ring} =
                               {p \in box : Distance(cell, p) = radius /\ radius > 0}
                          /\ \A m, n \in DOMAIN ring : ring[m] = ring[n] => m = n
                          /\ InRadius(cell, radius) = {p \in box : Distance(cell, p) <= radius}
    BY DEF QueriesMatchDistance
  <2> DEFINE box == ((cell[1] - 4)..(cell[1] + 4)) \X ((cell[2] - 4)..(cell[2] + 4))
             ring == Ring(cell, radius)
  <2>1. cell \in Offset /\ radius \in Nat /\ cell[1] \in Int /\ cell[2] \in Int
    BY DEF TypeOK, Offset
  <2>2. box \subseteq Offset
    BY <2>1 DEF Offset
  <2>3. ASSUME NEW p \in Offset, Distance(cell, p) <= radius PROVE p \in box
    <3>1. PICK q \in Int, r \in Int : cell = <<q, r>>
      BY <2>1 DEF Offset
    <3>2. PICK x \in Int, y \in Int : p = <<x, y>>
      BY DEF Offset
    <3>3. x \in (q - 4)..(q + 4) /\ y \in (r - 4)..(r + 4)
      BY <2>3, <3>1, <3>2 DEF Distance, Larger, AbsDiff, S
    <3> QED BY <3>1, <3>2, <3>3
  <2>4. /\ {ring[n] : n \in DOMAIN ring} =
              {p \in Offset : Distance(cell, p) = radius /\ radius > 0}
        /\ \A m, n \in DOMAIN ring : ring[m] = ring[n] => m = n
    BY <2>1, RingIsSphere
  <2>5. InRadius(cell, radius) = {p \in Offset : Distance(cell, p) <= radius}
    BY <2>1, InRadiusIsBall
  <2> HIDE DEF box, ring
  <2>6. {p \in box : Distance(cell, p) <= radius} = {p \in Offset : Distance(cell, p) <= radius}
    BY <2>2, <2>3
  <2>7. {p \in box : Distance(cell, p) = radius /\ radius > 0} =
          {p \in Offset : Distance(cell, p) = radius /\ radius > 0}
    <3>1. ASSUME NEW p \in Offset, Distance(cell, p) = radius PROVE p \in box
      BY <2>1, <2>3, <3>1
    <3> QED BY <2>2, <3>1
  <2> QED BY <2>4, <2>5, <2>6, <2>7 DEF box, ring
<1>2. ViewInv => TypeOK
  BY DEF ViewInv
<1> QED BY <1>1, <1>2, ViewInvariant, PTL
=============================================================================
