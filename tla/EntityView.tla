----------------------------- MODULE EntityView -----------------------------
(***************************************************************************)
(* What one client is told to see while it walks over the map: Map::onMove *)
(* turns a position into a cell, MapAwareEntity::onRemoved asks the cells  *)
(* left behind for DESPAWN packets and MapAwareEntity::onAdded the cells   *)
(* ahead for SPAWN packets (src/map/map.cpp, src/map/map_aware_entity.cpp).*)
(* Both lists come from Map::getCellsExcluding, which indexes directions[] *)
(* with the result of directionIdxs; for cells further than one step apart *)
(* that index is out of range, which the model records in wild.            *)
(***************************************************************************)
EXTENDS HexOffset

CONSTANTS Scale,    \* positions are multiples of 1 / Scale of an axial unit
          MaxStep,  \* the longest displacement of one update, in 1 / Scale
          Extent    \* bound: positions stay in -Extent..Extent

ASSUME ViewAssumption ==
    /\ Scale \in Nat \ {0}
    /\ MaxStep \in Nat
    /\ Extent \in Nat

VARIABLES pos,   \* the position of the motion master, <<a, b>> / Scale
          cell,  \* the cell of the entity; meaningful while inMap
          inMap, \* whether the entity has a cell at all
          view,  \* the offsets whose entities the client holds as spawned
          wild   \* directions[] was read out of range

vars == <<pos, cell, inMap, view, wild>>

Positions == ((0 - Extent)..Extent) \X ((0 - Extent)..Extent)

CellAt(p) == OffsetOf(p[1], p[2], Scale)

Init ==
    /\ pos = <<0, 0>>
    /\ cell = <<0, 0>>
    /\ inMap = FALSE
    /\ view = {}
    /\ wild = FALSE

(* ADD_ENTITY with no old cell: the whole neighbourhood is requested. *)
OnAdded ==
    /\ ~inMap
    /\ inMap' = TRUE
    /\ cell' = CellAt(pos)
    /\ view' = view \cup Around(CellAt(pos))
    /\ UNCHANGED <<pos, wild>>

(* REMOVE_ENTITY followed by ADD_ENTITY, as Map::onMove queues them. *)
ChangeCell(to) ==
    IF DirectionIdxs(Minus(to, cell)) = -1
    THEN wild' = TRUE /\ UNCHANGED <<cell, view>>
    ELSE /\ cell' = to
         /\ view' = (view \ CellsExcluding(cell, to)) \cup CellsExcluding(to, cell)
         /\ UNCHANGED wild

OnMove(p) ==
    /\ inMap /\ ~wild
    /\ p \in Positions
    /\ Distance(p, pos) <= MaxStep
    /\ pos' = p
    /\ IF CellAt(p) = cell THEN UNCHANGED <<cell, view, wild>>
                           ELSE ChangeCell(CellAt(p))
    /\ UNCHANGED inMap

(* REMOVE_ENTITY on disconnection: no DESPAWN is requested, the client is   *)
(* gone and with it what it saw.                                            *)
OnRemoved ==
    /\ inMap /\ ~wild
    /\ inMap' = FALSE
    /\ view' = {}
    /\ UNCHANGED <<pos, cell, wild>>

(* MotionMaster::teleport does not call onMove: the tests place an entity    *)
(* before they add it to the map, or where it stays in its cell.            *)
Teleport(p) ==
    /\ inMap => CellAt(p) = cell
    /\ pos' = p
    /\ UNCHANGED <<cell, inMap, view, wild>>

Next ==
    \/ OnAdded \/ OnRemoved
    \/ \E p \in Positions : OnMove(p) \/ Teleport(p)

Spec == Init /\ [][Next]_vars
-----------------------------------------------------------------------------
TypeOK ==
    /\ pos \in Positions
    /\ cell \in Offset
    /\ inMap \in BOOLEAN
    /\ view \subseteq Offset
    /\ wild \in BOOLEAN

(* After any walk, the client holds exactly the cell it is in and the six   *)
(* around it: getCellsExcluding never leaves a stale cell or misses one.    *)
ViewIsNeighbourhood == inMap /\ ~wild => view = Around(cell)

(* As long as no update moves an entity by two thirds of a cell or more, the *)
(* cell changes one step at a time and directions[] is never read out of    *)
(* range by getCellsExcluding.                                              *)
NeverWild == ~wild

(* offsetOf picks the cell whose centre is nearest to the position.         *)
SquaredDistance(p, o) ==
    LET dq == p[1] - o[1] * Scale
        dr == p[2] - o[2] * Scale
    IN  dq * dq + dr * dr + dq * dr

CellIsNearest ==
    \A o \in Around(CellAt(pos)) :
        SquaredDistance(pos, CellAt(pos)) <= SquaredDistance(pos, o)

(* Cell::ring visits each offset at the given distance once, and            *)
(* Cell::inRadius those no further away, wherever the cell is.  One position *)
(* in each cell, its centre, is enough to look at.                          *)
QueriesMatchDistance ==
    pos = <<Scale * cell[1], Scale * cell[2]>> => \A radius \in 0..3 :
        LET box == ((cell[1] - 4)..(cell[1] + 4)) \X ((cell[2] - 4)..(cell[2] + 4))
            ring == Ring(cell, radius)
        IN  /\ {ring[n] : n \in DOMAIN ring} =
                 {p \in box : Distance(cell, p) = radius /\ radius > 0}
            /\ \A m, n \in DOMAIN ring : ring[m] = ring[n] => m = n
            /\ InRadius(cell, radius) = {p \in box : Distance(cell, p) <= radius}
=============================================================================
