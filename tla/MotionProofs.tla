---------------------------- MODULE MotionProofs ----------------------------
(***************************************************************************)
(* The motion master implements EntityView, so that what is proved of      *)
(* every walk holds of the walks it takes an entity on, and an entity on   *)
(* nobody's orders comes to rest.                                          *)
(***************************************************************************)
EXTENDS Motion, EntityViewProofs, TLAPS

(* However an entity is driven, by a curve or straight on, teleported,      *)
(* stopped and turned between any two updates, Map::onMove sees a walk of   *)
(* EntityView: no operation of MotionMaster moves it by more than MaxStep   *)
(* or changes its position behind the map's back.                           *)
THEOREM MotionImplementsView == MotionSpec => Spec
<1>1. MotionInit => Init
  BY DEF MotionInit
<1>2. [MotionNext]_motionVars => [Next]_vars
  <2> SUFFICES ASSUME [MotionNext]_motionVars PROVE [Next]_vars
    OBVIOUS
  <2>1. CASE Update
    <3>1. ASSUME NEW c \in Curves, NEW v \in 1..MaxSpeed, NEW h \in 0..5, EndPath(c, v, h)
          PROVE  UNCHANGED vars
      BY <3>1 DEF EndPath, viewVars, vars
    <3>2. ASSUME NEW c \in Curves, NEW v \in 1..MaxSpeed, NEW next \in 1..Steps,
                 NEW p, FollowPath(c, v, next, p)
          PROVE  Next
      BY <3>2 DEF FollowPath, OnMove, Next
    <3>3. ASSUME NEW elapsed \in 1..MaxElapsed, GoStraight(elapsed)
          PROVE  [Next]_vars
      <4>1. CASE moving
        <5> DEFINE p == Ahead(pos, heading', speed * elapsed)
        <5>1. OnMove(p)
          BY <3>3, <4>1 DEF GoStraight
        <5>2. p \in Positions
          BY <5>1 DEF OnMove
        <5> QED BY <5>1, <5>2 DEF Next
      <4>2. CASE ~moving
        BY <3>3, <4>2 DEF GoStraight, viewVars, vars
      <4> QED BY <4>1, <4>2
    <3> QED BY <2>1, <3>1, <3>2, <3>3 DEF Update
  <2>2. CASE InTheMap
    BY <2>2 DEF InTheMap, Next
  <2>3. CASE Move \/ SetGenerator
    BY <2>3 DEF Move, SetGenerator, viewVars, vars
  <2>4. ASSUME NEW p \in Sites, Teleported(p) PROVE Next
    <3>1. p \in Positions
      BY MotionAssumption
    <3> QED BY <2>4, <3>1 DEF Teleported, Next
  <2>5. CASE \E cleanup \in BOOLEAN : Stop(cleanup)
    BY <2>5 DEF Stop, viewVars, vars
  <2>6. CASE \E v \in 0..MaxSpeed : SetSpeed(v)
    BY <2>6 DEF SetSpeed, viewVars, vars
  <2>7. CASE (\E turning \in BOOLEAN : Forward(turning, heading))
             \/ (\E h \in 0..5 : Forward(rotating, h))
    BY <2>7 DEF Forward, viewVars, vars
  <2>8. CASE UNCHANGED motionVars
    BY <2>8 DEF motionVars, viewVars, vars
  <2> QED BY <2>1, <2>2, <2>3, <2>4, <2>5, <2>6, <2>7, <2>8 DEF MotionNext
<1> QED BY <1>1, <1>2, PTL DEF MotionSpec, Spec

(* So a client the motion master takes around sees exactly the seven cells  *)
(* around it, in the cell nearest to it, and never makes directions[] be    *)
(* read out of range, if it is not faster than two thirds of a cell in the  *)
(* longest update.                                                          *)
THEOREM MovedViewExact ==
    ASSUME 3 * MaxStep < 2 * Scale
    PROVE  MotionSpec => [](ViewIsNeighbourhood /\ NeverWild /\ CellIsNearest)
<1>1. Spec => []NeverWild
  BY ShortStepsNeverWild
<1> QED BY <1>1, MotionImplementsView, ViewStaysExact, CellsAreNearest, PTL

(* An entity that moves without a generator has been told to: the flag the  *)
(* generator sets for itself is cleared whichever way its path comes to an  *)
(* end.                                                                     *)
THEOREM PathsEndAtRest == MotionSpec => []StopsAfterPath
<1>1. MotionInit => StopsAfterPath
  BY DEF MotionInit, StopsAfterPath
<1>2. StopsAfterPath /\ [MotionNext]_motionVars => StopsAfterPath'
  <2> SUFFICES ASSUME StopsAfterPath, [MotionNext]_motionVars PROVE StopsAfterPath'
    OBVIOUS
  <2>1. CASE Update
    <3>1. ASSUME NEW c, NEW v, NEW h, EndPath(c, v, h) PROVE StopsAfterPath'
      BY <3>1 DEF EndPath, StopsAfterPath
    <3>2. ASSUME NEW c, NEW v, NEW next, NEW p, FollowPath(c, v, next, p)
          PROVE  StopsAfterPath'
      BY <3>2 DEF FollowPath, Advance, StopsAfterPath
    <3>3. ASSUME NEW elapsed, GoStraight(elapsed) PROVE StopsAfterPath'
      BY <3>3 DEF GoStraight, pathVars, StopsAfterPath
    <3> QED BY <2>1, <3>1, <3>2, <3>3 DEF Update
  <2>2. CASE InTheMap \/ Move \/ SetGenerator
    BY <2>2 DEF InTheMap, Move, SetGenerator, pathVars, StopsAfterPath
  <2>3. CASE \E p \in Sites : Teleported(p)
    BY <2>3 DEF Teleported, StopsAfterPath
  <2>4. CASE \E cleanup \in BOOLEAN : Stop(cleanup)
    BY <2>4 DEF Stop, StopsAfterPath
  <2>5. CASE \E v \in 0..MaxSpeed : SetSpeed(v)
    BY <2>5 DEF SetSpeed, pathVars, StopsAfterPath
  <2>6. CASE (\E turning \in BOOLEAN : Forward(turning, heading))
             \/ (\E h \in 0..5 : Forward(rotating, h))
    BY <2>6 DEF Forward, pathVars, StopsAfterPath
  <2>7. CASE UNCHANGED motionVars
    BY <2>7 DEF motionVars, pathVars, StopsAfterPath
  <2> QED BY <2>1, <2>2, <2>3, <2>4, <2>5, <2>6, <2>7 DEF MotionNext
<1> QED BY <1>1, <1>2, PTL DEF MotionSpec

(* The coefficients of DerivativeBezier are those of the derivative of the  *)
(* cubic, whatever the curve, the point and the number of points: twice the *)
(* slope is the symmetric difference up to the cubic term.                  *)
LEMMA SymmetricDifference ==
    ASSUME NEW a \in Int, NEW b \in Int, NEW c \in Int, NEW d \in Int,
           NEW i \in Int, NEW n \in Int
    PROVE  Calc(<<a, b, c, d>>, i + 1, n) - Calc(<<a, b, c, d>>, i - 1, n) =
               2 * Slope(<<a, b, c, d>>, i, n) + 2 * (d - a + 3 * (b - c))
  BY DEF Calc, Slope, Dv

(* A curve that is followed is one of Curves.                               *)
CurveTypes == bezier = NoCurve \/ bezier \in Curves

LEMMA CurvesTyped == MotionSpec => []CurveTypes
<1>1. MotionInit => CurveTypes
  BY DEF MotionInit, CurveTypes
<1>2. CurveTypes /\ [MotionNext]_motionVars => CurveTypes'
  <2> SUFFICES ASSUME CurveTypes, [MotionNext]_motionVars PROVE CurveTypes'
    OBVIOUS
  <2>1. CASE Update
    BY <2>1 DEF Update, EndPath, FollowPath, GoStraight, pathVars, CurveTypes
  <2>2. CASE InTheMap \/ Move \/ SetGenerator
    BY <2>2 DEF InTheMap, Move, SetGenerator, pathVars, CurveTypes
  <2>3. CASE \E p \in Sites : Teleported(p)
    BY <2>3 DEF Teleported, pathVars, CurveTypes
  <2>4. CASE \E cleanup \in BOOLEAN : Stop(cleanup)
    BY <2>4 DEF Stop, pathVars, CurveTypes
  <2>5. CASE \E v \in 0..MaxSpeed : SetSpeed(v)
    BY <2>5 DEF SetSpeed, pathVars, CurveTypes
  <2>6. CASE (\E turning \in BOOLEAN : Forward(turning, heading))
             \/ (\E h \in 0..5 : Forward(rotating, h))
    BY <2>6 DEF Forward, pathVars, CurveTypes
  <2>7. CASE UNCHANGED motionVars
    BY <2>7 DEF motionVars, pathVars, CurveTypes
  <2> QED BY <2>1, <2>2, <2>3, <2>4, <2>5, <2>6, <2>7 DEF MotionNext
<1> QED BY <1>1, <1>2, PTL DEF MotionSpec

(* Whatever the curve and the point of it, increase divides by the          *)
(* derivative of the curve it is on.                                        *)
THEOREM SlopesRight == MotionSpec => []SlopeIsDerivative
<1>1. CurveTypes => SlopeIsDerivative
  <2> SUFFICES ASSUME CurveTypes, OnPath, NEW n \in Nat \ {0}, NEW i \in 0..n
               PROVE  Calc(bezier, i + 1, n) - Calc(bezier, i - 1, n) =
                          2 * Slope(bezier, i, n)
                          + 2 * (bezier[4] - bezier[1] + 3 * (bezier[2] - bezier[3]))
    BY DEF SlopeIsDerivative
  <2>1. bezier \in Int \X Int \X Int \X Int
    BY MotionAssumption DEF CurveTypes, OnPath
  <2>2. PICK a \in Int, b \in Int, c \in Int, d \in Int : bezier = <<a, b, c, d>>
    BY <2>1
  <2>3. i \in Int /\ n \in Int
    OBVIOUS
  <2> QED BY <2>2, <2>3, SymmetricDifference
<1> QED BY <1>1, CurvesTyped, PTL

LEMMA CalcInt ==
    ASSUME NEW c \in Int \X Int \X Int \X Int, NEW i \in Int, NEW n \in Int
    PROVE  Calc(c, i, n) \in Int
  BY DEF Calc

(* What the loop that fills _segments computes.                             *)
LEMMA SegmentsFilled ==
    ASSUME NEW c \in Int \X Int \X Int \X Int
    PROVE  /\ Segments(c) = [i \in 0..Parts |-> Segments(c)[i]]
           /\ Segments(c)[0] = 0
           /\ \A i \in 1..Parts :
                 Segments(c)[i] = Segments(c)[i - 1]
                                  + AbsDiff(Calc(c, i, Parts), Calc(c, i - 1, Parts))
<1> DEFINE Part(i) == AbsDiff(Calc(c, i, Parts), Calc(c, i - 1, Parts))
           Filled(f) == [i \in 0..Parts |-> IF i = 0 THEN 0 ELSE f[i - 1] + Part(i)]
           UpTo(f, m) == \A i \in 0..Parts : i <= m => f[i] = Filled(f)[i]
<1>0. Parts \in Nat \ {0}
  BY MotionAssumption
<1>1. Segments(c) = CHOOSE f : f = Filled(f)
  BY DEF Segments
<1> HIDE DEF Part
<1>2. \A m \in Nat : \E f : UpTo(f, m)
  <2> DEFINE T == {m \in Nat : ~\E f : UpTo(f, m)}
  <2> SUFFICES ASSUME T # {} PROVE FALSE
    OBVIOUS
  <2>1. PICK m \in T : \A y \in T : ~(y < m)
    BY LeastNat
  <2>2. m # 0
    <3>1. UpTo([i \in 0..Parts |-> 0], 0)
      BY <1>0
    <3> QED BY <2>1, <3>1
  <2>3. m - 1 \in Nat /\ m - 1 \notin T
    <3>1. m \in Nat
      BY <2>1
    <3> HIDE DEF T
    <3> QED BY <2>1, <2>2, <3>1
  <2>4. PICK f : UpTo(f, m - 1)
    BY <2>3
  <2> DEFINE g == Filled(f)
  <2>5. UpTo(g, m)
    <3> SUFFICES ASSUME NEW i \in 0..Parts, i <= m PROVE g[i] = Filled(g)[i]
      OBVIOUS
    <3>1. CASE i = 0
      BY <3>1
    <3>2. CASE i # 0
      <4>1. i - 1 \in 0..Parts /\ i - 1 <= m - 1
        BY <2>3, <3>2, <1>0
      <4>2. f[i - 1] = g[i - 1]
        BY <2>4, <4>1
      <4>3. g[i] = f[i - 1] + Part(i) /\ Filled(g)[i] = g[i - 1] + Part(i)
        BY <3>2
      <4> HIDE DEF g
      <4> QED BY <4>2, <4>3
    <3> QED BY <3>1, <3>2
  <2> QED BY <2>1, <2>5
<1>3. PICK f : UpTo(f, Parts)
  BY <1>0, <1>2
<1>4. Filled(Filled(f)) = Filled(f)
  <2>1. \A i \in 0..Parts : i <= Parts
    BY <1>0
  <2>2. \A i \in 0..Parts : f[i] = Filled(f)[i]
    BY <1>3, <2>1
  <2>3. ASSUME NEW i \in 0..Parts PROVE Filled(Filled(f))[i] = Filled(f)[i]
    <3>1. CASE i = 0
      BY <3>1
    <3>2. CASE i # 0
      <4>1. i - 1 \in 0..Parts
        BY <3>2, <1>0
      <4> QED BY <2>2, <3>2, <4>1
    <3> QED BY <3>1, <3>2
  <2> QED BY <2>3
<1>5. Segments(c) = Filled(Segments(c))
  BY <1>1, <1>4
<1>6. ASSUME NEW s, s = Filled(s)
      PROVE  /\ s = [i \in 0..Parts |-> s[i]]
             /\ s[0] = 0
             /\ \A i \in 1..Parts : s[i] = s[i - 1] + Part(i)
  <2>1. s = [i \in 0..Parts |-> s[i]]
    BY <1>6
  <2>2. \A i \in 0..Parts : s[i] = IF i = 0 THEN 0 ELSE s[i - 1] + Part(i)
    BY <1>6
  <2>3. 0 \in 0..Parts /\ \A i \in 1..Parts : i \in 0..Parts /\ i # 0
    BY <1>0
  <2> QED BY <2>1, <2>2, <2>3
<1> QED BY <1>5, <1>6 DEF Part

(* Distances are not negative, so _segments is sorted.                      *)
LEMMA SegmentsSorted ==
    ASSUME NEW c \in Int \X Int \X Int \X Int
    PROVE  /\ Segments(c) \in [0..Parts -> Nat]
           /\ \A i, j \in 0..Parts : i <= j => Segments(c)[i] <= Segments(c)[j]
<1> DEFINE seg == Segments(c)
           Part(i) == AbsDiff(Calc(c, i, Parts), Calc(c, i - 1, Parts))
<1>0. Parts \in Nat \ {0}
  BY MotionAssumption
<1>1. \A i \in 1..Parts : Part(i) \in Nat
  <2> TAKE i \in 1..Parts
  <2>1. i \in Int /\ i - 1 \in Int /\ Parts \in Int
    BY <1>0
  <2>2. Calc(c, i, Parts) \in Int /\ Calc(c, i - 1, Parts) \in Int
    BY <2>1, CalcInt
  <2> QED BY <2>2 DEF AbsDiff
<1> HIDE DEF Part
<1>2. /\ seg = [i \in 0..Parts |-> seg[i]] /\ seg[0] = 0
      /\ \A i \in 1..Parts : seg[i] = seg[i - 1] + Part(i)
  BY SegmentsFilled DEF Part
<1> HIDE DEF seg
<1> DEFINE Sorted(j) == \A i \in 0..j : seg[i] \in Nat /\ seg[i] <= seg[j]
           T == {j \in 0..Parts : ~Sorted(j)}
<1>3. T = {}
  <2> SUFFICES ASSUME T # {} PROVE FALSE
    OBVIOUS
  <2>1. T \in SUBSET Nat
    BY <1>0
  <2>2. PICK j \in T : \A y \in T : ~(y < j)
    BY <2>1, LeastNat
  <2>3. j \in 0..Parts /\ ~Sorted(j)
    BY <2>2
  <2>4. j # 0
    <3>1. Sorted(0)
      BY <1>2
    <3> HIDE DEF Sorted
    <3> QED BY <2>3, <3>1
  <2>5. j - 1 \in 0..Parts /\ j \in 1..Parts /\ j - 1 < j
    BY <1>0, <2>3, <2>4
  <2>6. Sorted(j - 1)
    <3> HIDE DEF Sorted
    <3> QED BY <2>2, <2>5
  <2>7. seg[j] = seg[j - 1] + Part(j) /\ Part(j) \in Nat
    BY <1>1, <1>2, <2>5
  <2>8. \A i \in 0..j : i = j \/ i \in 0..(j - 1)
    BY <2>3
  <2>9. Sorted(j)
    <3>1. j - 1 \in 0..(j - 1)
      BY <2>5, <1>0
    <3>2. seg[j - 1] \in Nat /\ seg[j] \in Nat /\ seg[j - 1] <= seg[j]
      BY <2>6, <2>7, <3>1
    <3>3. ASSUME NEW i \in 0..j PROVE seg[i] \in Nat /\ seg[i] <= seg[j]
      BY <2>6, <2>8, <3>2
    <3> QED BY <3>3
  <2> HIDE DEF Sorted
  <2> QED BY <2>3, <2>9
<1>4. \A j \in 0..Parts : Sorted(j)
  BY <1>3
<1>5. seg \in [0..Parts -> Nat]
  <2>1. \A j \in 0..Parts : j \in 0..j
    BY <1>0
  <2>2. \A j \in 0..Parts : seg[j] \in Nat
    BY <1>4, <2>1
  <2> QED BY <1>2, <2>2
<1>6. ASSUME NEW i \in 0..Parts, NEW j \in 0..Parts, i <= j PROVE seg[i] <= seg[j]
  BY <1>4, <1>6
<1> QED BY <1>5, <1>6 DEF seg

(* The binary search of SegmentedBezier::map on any sorted table that       *)
(* begins with 0, for any fraction k / n of its last entry: it ends, and    *)
(* with the entry at or before the length asked for.                        *)
LEMMA SearchFinds ==
    ASSUME NEW seg \in [0..Parts -> Nat], seg[0] = 0,
           \A i, j \in 0..Parts : i <= j => seg[i] <= seg[j],
           NEW n \in Nat, NEW k \in 0..n
    PROVE  LET i == MapIndex(seg, k, n)
           IN  /\ i \in 0..Parts
               /\ seg[i] * n <= k * seg[Parts]
               /\ seg[i] * n < k * seg[Parts] =>
                      i < Parts /\ k * seg[Parts] <= seg[i + 1] * n
<1> DEFINE Below(i) == seg[i] * n < k * seg[Parts]
           I == 0..Parts
           Mid(low, high) == low + (high - low) \div 2
           Body(f, w) ==
               IF w[1] >= w[2] THEN w[3]
               ELSE IF Below(Mid(w[1], w[2]))
                    THEN f[<<Mid(w[1], w[2]) + 1, w[2], Mid(w[1], w[2])>>]
                    ELSE f[<<w[1], Mid(w[1], w[2]), Mid(w[1], w[2])>>]
           Search(f) == [w \in I \X I \X I |-> Body(f, w)]
           srch == CHOOSE f : f = Search(f)
           found == LastProbe(seg, k, n)
<1>0. Parts \in Nat \ {0}
  BY MotionAssumption
<1>1. /\ found = srch[<<0, Parts, 0>>]
      /\ MapIndex(seg, k, n) = IF seg[found] * n > k * seg[Parts] THEN found - 1 ELSE found
  BY DEF MapIndex, LastProbe
<1> HIDE DEF found, srch
<1>2. /\ seg[0] \in Nat /\ k * seg[Parts] \in Nat
      /\ \A i \in I : seg[i] * n \in Nat
      /\ \A i, j \in I : i <= j => seg[i] * n <= seg[j] * n
      /\ seg[0] * n = 0
      /\ k * seg[Parts] <= seg[Parts] * n
  <2>1. ASSUME NEW a \in Nat, NEW b \in Nat, NEW m \in Nat, a <= b
        PROVE  a * m \in Nat /\ a * m <= b * m /\ m * a \in Nat /\ m * a = a * m
    <3>1. (b - a) * m \in Nat
      BY <2>1
    <3>2. (b - a) * m = b * m - a * m
      BY <2>1
    <3> QED BY <2>1, <3>1, <3>2
  <2>2. 0 \in I /\ Parts \in I /\ k \in Nat /\ k <= n
    BY <1>0
  <2>3. \A i \in I : seg[i] \in Nat
    OBVIOUS
  <2>4. \A i, j \in I : i <= j => seg[i] * n <= seg[j] * n
    BY <2>1, <2>3
  <2>5. \A i \in I : seg[i] * n \in Nat
    BY <2>1, <2>3
  <2>6. k * seg[Parts] \in Nat /\ k * seg[Parts] <= n * seg[Parts]
    BY <2>1, <2>2, <2>3
  <2>7. n * seg[Parts] = seg[Parts] * n
    BY <2>1, <2>2, <2>3
  <2> QED BY <2>2, <2>3, <2>4, <2>5, <2>6, <2>7
<1>3. \A low, high \in I : low < high => Mid(low, high) \in low..(high - 1)
  BY <1>0
<1> HIDE DEF Mid
<1>4. ~Below(Parts) /\ \A i, j \in I : i <= j /\ Below(j) => Below(i)
  BY <1>0, <1>2
<1> HIDE DEF Below
(* Both halves are narrower than what is searched.                          *)
<1>5. ASSUME NEW low \in I, NEW high \in I, low < high
      PROVE  /\ Mid(low, high) \in I /\ Mid(low, high) + 1 \in I
             /\ low <= Mid(low, high) /\ Mid(low, high) < high
             /\ high - (Mid(low, high) + 1) < high - low
             /\ Mid(low, high) - low < high - low
  <2> DEFINE mid == Mid(low, high)
  <2>1. mid \in low..(high - 1)
    BY <1>3, <1>5
  <2> HIDE DEF mid
  <2>2. low \in Int /\ high \in Int /\ mid \in Int /\ low <= mid /\ mid < high
    BY <1>0, <2>1
  <2>3. mid \in I /\ mid + 1 \in I
    BY <1>0, <2>2
  <2>4. high - (mid + 1) < high - low /\ mid - low < high - low
    BY <2>2
  <2> QED BY <2>2, <2>3, <2>4 DEF mid
<1>6. ASSUME NEW f, NEW g, NEW m \in Int, NEW w \in I \X I \X I,
             w[2] - w[1] <= m + 1,
             \A v \in I \X I \X I : v[2] - v[1] <= m => f[v] = g[v]
      PROVE  Body(f, w) = Body(g, w)
  <2>1. CASE w[1] >= w[2]
    BY <2>1
  <2>2. CASE ~(w[1] >= w[2])
    <3> DEFINE low == w[1]
               high == w[2]
               mid == Mid(low, high)
    <3>1. low \in I /\ high \in I /\ low < high /\ high - low <= m + 1
      BY <1>0, <1>6, <2>2
    <3> HIDE DEF low, high
    <3>2. /\ mid \in I /\ mid + 1 \in I
          /\ high - (mid + 1) < high - low /\ mid - low < high - low
      BY <1>5, <3>1
    <3> HIDE DEF mid
    <3>3. high - (mid + 1) <= m /\ mid - low <= m
      BY <1>0, <3>1, <3>2
    <3>4. f[<<mid + 1, high, mid>>] = g[<<mid + 1, high, mid>>]
      BY <1>6, <3>1, <3>2, <3>3
    <3>5. f[<<low, mid, mid>>] = g[<<low, mid, mid>>]
      BY <1>6, <3>1, <3>2, <3>3
    <3> QED BY <2>2, <3>4, <3>5 DEF low, high, mid
  <2> QED BY <2>1, <2>2
<1> HIDE DEF Body
<1> DEFINE UpTo(f, m) == \A w \in I \X I \X I : w[2] - w[1] <= m => f[w] = Body(f, w)
<1>7. \A m \in Nat : \E f : UpTo(f, m)
  <2> DEFINE T == {m \in Nat : ~\E f : UpTo(f, m)}
  <2> HIDE DEF UpTo
  <2> SUFFICES ASSUME T # {} PROVE FALSE
    OBVIOUS
  <2>1. PICK m \in T : \A y \in T : ~(y < m)
    BY LeastNat
  <2>2. m \in Nat /\ ~\E f : UpTo(f, m)
    BY <2>1
  <2>3. m # 0
    <3> DEFINE f0 == [w \in I \X I \X I |-> w[3]]
    <3>1. UpTo(f0, 0)
      <4>1. ASSUME NEW w \in I \X I \X I, w[2] - w[1] <= 0 PROVE f0[w] = Body(f0, w)
        <5>1. w[1] >= w[2]
          BY <1>0, <4>1
        <5> QED BY <5>1 DEF Body
      <4> HIDE DEF f0
      <4> QED BY <4>1 DEF UpTo
    <3> QED BY <2>2, <3>1
  <2>4. m - 1 \in Nat /\ m - 1 \notin T
    <3> HIDE DEF T
    <3> QED BY <2>1, <2>2, <2>3
  <2>5. PICK f : UpTo(f, m - 1)
    BY <2>4
  <2> DEFINE g == Search(f)
  <2>6. \A w \in I \X I \X I : g[w] = Body(f, w)
    OBVIOUS
  <2> HIDE DEF g
  <2>7. \A w \in I \X I \X I : w[2] - w[1] <= m - 1 => f[w] = g[w]
    BY <2>5, <2>6 DEF UpTo
  <2>8. ASSUME NEW w \in I \X I \X I, w[2] - w[1] <= m PROVE g[w] = Body(g, w)
    <3>1. m - 1 \in Int /\ w[2] - w[1] <= (m - 1) + 1
      BY <2>2, <2>8, <1>0
    <3>2. Body(f, w) = Body(g, w)
      BY <1>6, <2>7, <3>1
    <3> QED BY <2>6, <3>2
  <2>9. UpTo(g, m)
    BY <2>8 DEF UpTo
  <2> QED BY <2>2, <2>9
<1>8. PICK f : UpTo(f, Parts)
  <2> HIDE DEF UpTo
  <2> QED BY <1>0, <1>7
<1>9. Search(Search(f)) = Search(f)
  <2> DEFINE g == Search(f)
  <2>1. \A w \in I \X I \X I : g[w] = Body(f, w)
    OBVIOUS
  <2>2. \A w \in I \X I \X I : w[2] - w[1] <= Parts /\ w[2] - w[1] <= Parts + 1
    BY <1>0
  <2> HIDE DEF g
  <2>3. \A w \in I \X I \X I : f[w] = g[w]
    BY <1>8, <2>1, <2>2
  <2>4. \A w \in I \X I \X I : Body(f, w) = Body(g, w)
    BY <1>0, <1>6, <2>2, <2>3
  <2>5. Search(g) = Search(f)
    BY <2>4
  <2> QED BY <2>5 DEF g
<1>10. srch = Search(srch)
  BY <1>9 DEF srch
<1>11. \A low, high, index \in I : srch[<<low, high, index>>] = Body(srch, <<low, high, index>>)
  BY <1>10
(* The loop invariant: everything before low is below the length, nothing   *)
(* from high on is, and index is next to both once a half was taken.        *)
<1> DEFINE Loop(low, high, index) ==
               /\ low <= high
               /\ \A i \in I : (i < low => Below(i)) /\ (i >= high => ~Below(i))
               /\ low < high \/ index = low - 1 \/ index = high
           Found(x) ==
               /\ x \in I
               /\ \E p \in I :
                     ~Below(p) /\ (\A i \in I : i < p => Below(i)) /\ (x = p \/ x = p - 1)
<1>12. ASSUME NEW low \in I, NEW high \in I, NEW index \in I, Loop(low, high, index)
       PROVE  Found(srch[<<low, high, index>>])
  <2> DEFINE T == {m \in Nat : \E l, h, x \in I :
                      m = h - l /\ Loop(l, h, x) /\ ~Found(srch[<<l, h, x>>])}
  <2> SUFFICES T = {}
    <3>1. low \in Int /\ high \in Int /\ low <= high
      BY <1>0, <1>12
    <3>2. high - low \in Nat
      <4> HIDE DEF T
      <4> QED BY <3>1
    <3> HIDE DEF Loop, Found
    <3> QED BY <1>12, <3>2
  <2> SUFFICES ASSUME T # {} PROVE FALSE
    OBVIOUS
  <2>1. PICK m \in T : \A y \in T : ~(y < m)
    BY LeastNat
  <2>2. PICK l \in I, h \in I, x \in I : m = h - l /\ Loop(l, h, x) /\ ~Found(srch[<<l, h, x>>])
    BY <2>1
  <2>3. ASSUME NEW l2 \in I, NEW h2 \in I, NEW x2 \in I, Loop(l2, h2, x2), h2 - l2 < h - l
        PROVE  Found(srch[<<l2, h2, x2>>])
    <3>1. h2 - l2 \in Nat
      BY <1>0, <2>3
    <3> HIDE DEF Loop, Found
    <3>2. h2 - l2 \in T => FALSE
      <4> HIDE DEF T
      <4> QED BY <2>1, <2>2, <2>3, <3>1
    <3> QED BY <2>3, <3>1, <3>2
  <2>4. srch[<<l, h, x>>] = Body(srch, <<l, h, x>>)
    BY <1>11
  <2>5. CASE l = h
    <3>1. srch[<<l, h, x>>] = x
      BY <2>4, <2>5, <1>0 DEF Body
    <3>2. Found(x)
      <4>1. ~Below(h) /\ (\A i \in I : i < h => Below(i)) /\ (x = h \/ x = h - 1)
        BY <2>2, <2>5, <1>0
      <4> QED BY <4>1
    <3> HIDE DEF Found
    <3> QED BY <2>2, <3>1, <3>2
  <2>6. CASE l < h
    <3> DEFINE mid == Mid(l, h)
    <3>1. /\ mid \in I /\ mid + 1 \in I /\ l <= mid /\ mid < h
          /\ h - (mid + 1) < h - l /\ mid - l < h - l
      BY <1>5, <2>6
    <3>2. CASE Below(mid)
      <4>1. srch[<<l, h, x>>] = srch[<<mid + 1, h, mid>>]
        BY <2>4, <2>6, <3>2, <1>0 DEF Body
      <4>2. Loop(mid + 1, h, mid)
        <5> HIDE DEF mid
        <5>1. \A i \in I : i < mid + 1 => i <= mid
          BY <1>0, <3>1
        <5>2. \A i \in I : i < mid + 1 => Below(i)
          BY <5>1, <1>4, <3>1, <3>2
        <5>3. mid + 1 <= h /\ mid = (mid + 1) - 1
          BY <1>0, <3>1
        <5> QED BY <2>2, <5>2, <5>3
      <4> HIDE DEF Found, Loop, mid
      <4> QED BY <2>2, <2>3, <3>1, <4>1, <4>2
    <3>3. CASE ~Below(mid)
      <4>1. srch[<<l, h, x>>] = srch[<<l, mid, mid>>]
        BY <2>4, <2>6, <3>3, <1>0 DEF Body
      <4>2. Loop(l, mid, mid)
        <5> HIDE DEF mid
        <5>1. \A i \in I : i >= mid => mid <= i
          BY <1>0, <3>1
        <5>2. \A i \in I : i >= mid => ~Below(i)
          BY <5>1, <1>4, <3>1, <3>3
        <5> QED BY <2>2, <3>1, <5>2
      <4> HIDE DEF Found, Loop, mid
      <4> QED BY <2>2, <2>3, <3>1, <4>1, <4>2
    <3> HIDE DEF Found, Loop, mid
    <3> QED BY <3>2, <3>3
  <2>7. l <= h
    BY <2>2
  <2> QED BY <2>5, <2>6, <2>7, <1>0
<1>13. Found(found)
  <2>1. 0 \in I /\ Parts \in I /\ Loop(0, Parts, 0)
    <3>1. \A i \in I : i >= Parts => i = Parts
      BY <1>0
    <3>2. \A i \in I : ~(i < 0)
      BY <1>0
    <3> QED BY <1>0, <1>4, <3>1, <3>2
  <2>2. found = srch[<<0, Parts, 0>>]
    BY <1>1
  <2> HIDE DEF Found, Loop, found
  <2> QED BY <2>1, <2>2, <1>12
<1> HIDE DEF found
<1>14. PICK p \in I : ~Below(p) /\ (\A i \in I : i < p => Below(i)) /\ (found = p \/ found = p - 1)
  BY <1>13
<1>15. k * seg[Parts] <= seg[p] * n
  BY <1>2, <1>14 DEF Below
<1>16. p # 0 => p - 1 \in I /\ p - 1 < p
  BY <1>0
<1>17. p # 0 => seg[p - 1] * n < k * seg[Parts]
  BY <1>14, <1>16 DEF Below
<1> DEFINE x == MapIndex(seg, k, n)
<1>18. CASE seg[found] * n > k * seg[Parts]
  <2>1. found = p
    <3>1. ASSUME found = p - 1, p # 0 PROVE FALSE
      BY <3>1, <1>2, <1>17, <1>18, <1>16
    <3>2. ASSUME found = p - 1, p = 0 PROVE FALSE
      BY <1>13, <3>2, <1>0
    <3> QED BY <1>14, <3>1, <3>2
  <2>2. p # 0
    BY <1>2, <1>18, <2>1
  <2>3. x = p - 1
    BY <1>1, <1>18, <2>1
  <2>4. x \in I /\ x < Parts /\ x + 1 = p
    BY <1>0, <1>16, <2>2, <2>3
  <2> HIDE DEF x
  <2>5. seg[x] * n < k * seg[Parts]
    BY <1>17, <2>2, <2>3
  <2>6. seg[x] * n \in Nat /\ seg[x] * n <= k * seg[Parts]
    BY <1>2, <2>4, <2>5
  <2> QED BY <1>15, <2>4, <2>5, <2>6 DEF x
<1>19. CASE ~(seg[found] * n > k * seg[Parts])
  <2>1. x = found /\ x \in I
    BY <1>1, <1>13, <1>19
  <2> HIDE DEF x
  <2>2. seg[x] * n <= k * seg[Parts]
    BY <1>2, <1>19, <2>1
  <2>3. ASSUME seg[x] * n < k * seg[Parts] PROVE x < Parts /\ k * seg[Parts] <= seg[x + 1] * n
    <3>1. x # p
      BY <1>2, <1>15, <2>3
    <3>2. x + 1 = p /\ x < Parts
      BY <1>0, <1>14, <2>1, <3>1
    <3> QED BY <1>15, <3>2
  <2> QED BY <2>1, <2>2, <2>3 DEF x
<1> QED BY <1>18, <1>19

(* SegmentedBezier::map finds the entry for every curve and any number of   *)
(* parts, however its lengths are spread.                                   *)
THEOREM LengthsInverted == MotionSpec => []MapInvertsLengths
<1>1. CurveTypes => MapInvertsLengths
  <2> SUFFICES ASSUME CurveTypes, OnPath, NEW n \in 3..4, NEW k \in 0..n
               PROVE  LET seg == Segments(bezier)
                          i == MapIndex(seg, k, n)
                      IN  /\ i \in 0..Parts
                          /\ seg[i] * n <= k * seg[Parts]
                          /\ seg[i] * n < k * seg[Parts] =>
                                 i < Parts /\ k * seg[Parts] <= seg[i + 1] * n
    BY DEF MapInvertsLengths
  <2>1. bezier \in Int \X Int \X Int \X Int
    BY MotionAssumption DEF CurveTypes, OnPath
  <2>2. Segments(bezier)[0] = 0 /\ n \in Nat
    BY <2>1, SegmentsFilled
  <2> DEFINE seg == Segments(bezier)
  <2>3. /\ seg \in [0..Parts -> Nat]
        /\ \A i, j \in 0..Parts : i <= j => seg[i] <= seg[j]
    BY <2>1, SegmentsSorted
  <2> HIDE DEF seg
  <2>4. seg[0] = 0
    BY <2>2 DEF seg
  <2>5. LET i == MapIndex(seg, k, n)
        IN  /\ i \in 0..Parts
            /\ seg[i] * n <= k * seg[Parts]
            /\ seg[i] * n < k * seg[Parts] =>
                   i < Parts /\ k * seg[Parts] <= seg[i + 1] * n
    BY <2>2, <2>3, <2>4, SearchFinds
  <2> QED BY <2>5 DEF seg
<1> QED BY <1>1, CurvesTyped, PTL
=============================================================================
