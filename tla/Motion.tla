------------------------------- MODULE Motion -------------------------------
(***************************************************************************)
(* What moves an entity: MotionMaster (src/movement/motion_master.cpp) with *)
(* the movement generator RandomMovement (movement_generator.cpp) and its  *)
(* Bezier curves (movement_generator.hpp).  The motion master calls        *)
(* Map::onMove, so the state of EntityView is part of this one.            *)
(*                                                                         *)
(* Where the points of a curve lie on the map is left open: an update      *)
(* takes the entity to any point no further away than MaxStep.  The        *)
(* algebra of the curves is exact, on integer control points of one of the *)
(* two dimensions, which are treated alike.                                *)
(***************************************************************************)
EXTENDS EntityView, Sequences

CONSTANTS MaxSpeed,   \* speeds are 0..MaxSpeed, in 1 / Scale
          MaxElapsed, \* an update takes 1..MaxElapsed
          Steps,      \* a curve is followed in at most this many updates
          Sites,      \* the positions the game teleports entities to
          Curves,     \* the control points curves are made of
          Parts,      \* the template parameter len of SegmentedBezier
          NoCurve

ASSUME MotionAssumption ==
    /\ MaxSpeed \in Nat \ {0} /\ MaxElapsed \in Nat \ {0}
    /\ MaxSpeed * MaxElapsed <= MaxStep
    /\ Steps \in Nat \ {0} /\ Parts \in Nat \ {0}
    /\ Sites \subseteq Positions
    /\ Curves \subseteq Int \X Int \X Int \X Int
    /\ NoCurve \notin Curves

VARIABLES moving,    \* MovementFlags::MOVING
          rotating,  \* MovementFlags::ROTATING
          heading,   \* _forward, as an index of Directions
          speed,     \* _speed
          generator, \* there is a _generator
          bezier,    \* RandomMovement::_bezier, set while _hasPoint is
          t,         \* RandomMovement::_t, in updates
          told       \* history: somebody called move() since the last stop

viewVars == <<pos, cell, inMap, view, wild>>
pathVars == <<generator, bezier, t>>
motionVars == <<viewVars, moving, rotating, heading, speed, pathVars, told>>

MotionInit ==
    /\ Init
    /\ moving = FALSE /\ rotating = FALSE /\ heading = 0 /\ speed = 0
    /\ generator = FALSE /\ bezier = NoCurve /\ t = 0
    /\ told = FALSE

-----------------------------------------------------------------------------
(* MotionMaster::update.                                                    *)

OnPath == bezier # NoCurve

Ahead(p, h, n) == <<p[1] + n * Directions[h][1], p[2] + n * Directions[h][2]>>

(* The direction from the position to p, as one of the six.                 *)
HeadingTo(p) ==
    CHOOSE h \in 0..5 : \A g \in 0..5 :
        Distance(Ahead(pos, h, 1), p) <= Distance(Ahead(pos, g, 1), p)

Rotated(h) == IF rotating THEN (h + 1) % MaxDirIdx ELSE h

(* RandomMovement::update, which has no curve, picks one and a speed and    *)
(* starts moving; then it goes on along the curve until t is next.          *)
Advance(c, v, next) ==
    /\ inMap /\ ~wild
    /\ generator
    /\ IF OnPath THEN c = bezier /\ v = speed /\ next > t ELSE v > 0
    /\ speed' = v

(* The curve goes on: the entity is taken to its next point.                *)
FollowPath(c, v, next, p) ==
    /\ Advance(c, v, next)
    /\ next < Steps
    /\ p # pos /\ OnMove(p)
    /\ bezier' = c /\ t' = next
    /\ moving' = (moving \/ ~OnPath)
    /\ heading' = Rotated(HeadingTo(p))
    /\ UNCHANGED <<rotating, generator, told>>

(* The curve ends: RandomMovement stops the motion master, which deletes it *)
(* and does not use the point it returned.                                  *)
EndPathMoving(c, v, h) ==  \* mutant: stop() is not called
    /\ Advance(c, v, Steps)
    /\ generator' = FALSE /\ bezier' = NoCurve /\ t' = 0
    /\ moving' = (moving \/ ~OnPath)
    /\ heading' = h
    /\ UNCHANGED <<viewVars, rotating, told>>
EndPath(c, v, h) ==
    /\ Advance(c, v, Steps)
    /\ generator' = FALSE /\ bezier' = NoCurve /\ t' = 0
    /\ moving' = FALSE /\ rotating' = FALSE /\ told' = FALSE
    /\ heading' = h
    /\ UNCHANGED viewVars

(* Without a generator the entity turns and then goes straight on.          *)
GoStraight(elapsed) ==
    /\ ~generator /\ inMap /\ ~wild
    /\ heading' = Rotated(heading)
    /\ IF moving THEN OnMove(Ahead(pos, heading', speed * elapsed))
                 ELSE UNCHANGED viewVars
    /\ UNCHANGED <<moving, rotating, speed, pathVars, told>>

Update ==
    \/ \E c \in Curves, v \in 1..MaxSpeed :
          \/ \E h \in 0..5 : EndPath(c, v, h)
          \/ \E next \in 1..Steps, p \in InRadius(pos, MaxStep) : FollowPath(c, v, next, p)
    \/ \E elapsed \in 1..MaxElapsed : GoStraight(elapsed)

-----------------------------------------------------------------------------
(* The calls of the game, between two updates.  A teleported entity is not  *)
(* on a path: it would be taken back to that.                               *)

Teleported(p) ==
    /\ ~OnPath
    /\ Teleport(p)
    /\ moving' = FALSE /\ rotating' = FALSE /\ told' = FALSE
    /\ UNCHANGED <<heading, speed, pathVars>>

Move ==
    /\ moving' = TRUE /\ told' = TRUE
    /\ UNCHANGED <<viewVars, rotating, heading, speed, pathVars>>

(* stop(cleanup)                                                            *)
Stop(cleanup) ==
    /\ moving' = FALSE /\ rotating' = FALSE /\ told' = FALSE
    /\ IF cleanup THEN generator' = FALSE /\ bezier' = NoCurve /\ t' = 0
                  ELSE UNCHANGED pathVars
    /\ UNCHANGED <<viewVars, heading, speed>>

(* Without speed a path has no next point to look at.                       *)
SetSpeed(v) ==
    /\ OnPath => v > 0
    /\ speed' = v
    /\ UNCHANGED <<viewVars, moving, rotating, heading, pathVars, told>>

(* forward(speed) starts and ends a rotation, forward(vec3) turns at once.  *)
Forward(turning, h) ==
    /\ rotating' = turning /\ heading' = h
    /\ UNCHANGED <<viewVars, moving, speed, pathVars, told>>

(* generator(new RandomMovement()), which does not delete the one before.   *)
SetGenerator ==
    /\ generator' = TRUE /\ bezier' = NoCurve /\ t' = 0
    /\ UNCHANGED <<viewVars, moving, rotating, heading, speed, told>>

InTheMap ==
    /\ OnAdded \/ OnRemoved
    /\ UNCHANGED <<moving, rotating, heading, speed, pathVars, told>>

MotionNext ==
    \/ Update \/ InTheMap \/ Move \/ SetGenerator
    \/ \E p \in Sites : Teleported(p)
    \/ \E cleanup \in BOOLEAN : Stop(cleanup)
    \/ \E v \in 0..MaxSpeed : SetSpeed(v)
    \/ \E turning \in BOOLEAN : Forward(turning, heading)
    \/ \E h \in 0..5 : Forward(rotating, h)

MotionSpec == MotionInit /\ [][MotionNext]_motionVars

-----------------------------------------------------------------------------
(* Bezier curves.                                                           *)

(* Bezier::calc at i / n, times n^3.                                        *)
Calc(c, i, n) ==
    LET u == n - i
    IN  u * u * u * c[1] + 3 * u * u * i * c[2] + 3 * u * i * i * c[3] + i * i * i * c[4]

(* The coefficients of DerivativeBezier, and what increase divides by at    *)
(* i / n, times n^2.                                                        *)
Dv(c) ==
    <<3 * (c[4] - c[1]) + 9 * (c[2] - c[3]), 6 * c[1] - 12 * c[2] + 6 * c[3], 3 * (c[2] - c[1])>>
Slope(c, i, n) == i * i * Dv(c)[1] + i * n * Dv(c)[2] + n * n * Dv(c)[3]

(* SegmentedBezier's _segments, times Parts^3.                              *)
Segments(c) ==
    LET len[i \in 0..Parts] ==
            IF i = 0 THEN 0
            ELSE len[i - 1] + AbsDiff(Calc(c, i, Parts), Calc(c, i - 1, Parts))
    IN  len

(* SegmentedBezier::map for k / n of the whole length: the binary search,   *)
(* with low, high and index in w, and the entry at or before that length.   *)
LastProbe(seg, k, n) ==
    LET search[w \in (0..Parts) \X (0..Parts) \X (0..Parts)] ==
            LET mid == w[1] + (w[2] - w[1]) \div 2
            IN  IF w[1] >= w[2] THEN w[3]
                ELSE IF seg[mid] * n < k * seg[Parts] THEN search[<<mid + 1, w[2], mid>>]
                                                      ELSE search[<<w[1], mid, mid>>]
    IN  search[<<0, Parts, 0>>]
MapIndexAbove(seg, k, n) == LastProbe(seg, k, n)  \* mutant: the step back is forgotten
MapIndex(seg, k, n) ==
    LET found == LastProbe(seg, k, n)
    IN  IF seg[found] * n > k * seg[Parts] THEN found - 1 ELSE found
-----------------------------------------------------------------------------
(* An entity that nobody has told to move does not go on by itself when its *)
(* path has ended, was replaced or was cut short.                           *)
StopsAfterPath == moving /\ ~generator => told

(* DerivativeBezier divides by the derivative of the curve it follows:      *)
(* twice the slope is the symmetric difference up to the cubic term.        *)
SlopeIsDerivative ==
    OnPath => \A n \in Nat \ {0} : \A i \in 0..n :
        Calc(bezier, i + 1, n) - Calc(bezier, i - 1, n) =
            2 * Slope(bezier, i, n)
            + 2 * (bezier[4] - bezier[1] + 3 * (bezier[2] - bezier[3]))

(* SegmentedBezier::map finds, for every length up to that of the whole     *)
(* curve, the two entries it lies between, so that neither the index nor    *)
(* the division of the interpolation goes wrong.                            *)
MapInvertsLengths ==
    OnPath => LET seg == Segments(bezier)
              IN  \A n \in 3..4 : \A k \in 0..n :
                        LET i == MapIndex(seg, k, n)
                        IN  /\ i \in 0..Parts
                            /\ seg[i] * n <= k * seg[Parts]
                            /\ seg[i] * n < k * seg[Parts] =>
                                   i < Parts /\ k * seg[Parts] <= seg[i + 1] * n
=============================================================================
