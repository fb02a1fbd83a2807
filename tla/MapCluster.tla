----------------------------- MODULE MapCluster -----------------------------
(***************************************************************************)
(* The map and its cluster over one server tick after another: Map's cells *)
(* and queue of operations (src/map/map.cpp), the entities in them         *)
(* (src/map/map_aware_entity.cpp) and Cluster's decision of which cells    *)
(* are updated, which are stalled and which are freed                      *)
(* (src/map/map-cluster/cluster.cpp).                                      *)
(*                                                                         *)
(* A cell is named by its offset, an allocated Cell by the membership of   *)
(* its offset in cells.  The loop of Server::update runs through phases:   *)
(*                                                                         *)
(*   mapOps     Map::runScheduledOperations, one pop at a time             *)
(*   update     Cluster::update: the workers update the entities           *)
(*   serverOps  the jobs and operations of the server itself               *)
(*   clusterOps Cluster::cleanup done, Cluster::runScheduledOperations     *)
(*   stalls     Cluster::processStallCells frees the cells on cooldown     *)
(*                                                                         *)
(* Any thread may queue an entity at any moment.  The build is the debug   *)
(* one: a failed LOG_ASSERT ends the process, which fault records, as it   *)
(* records the use of a null or freed cell.                                *)
(***************************************************************************)
EXTENDS Integers, Sequences

CONSTANTS Offsets,    \* the offsets of the map
          Neighbours,   \* the offsets around each offset
          Entities,   \* every map aware entity
          Updaters,   \* the entities with a client: they keep cells alive
          StallTime,  \* time a cell stays stalled before it may be freed
          MaxElapsed, \* longest time between two ticks
          ClusterCap, \* capacity of the queue of cluster operations
          Null

ASSUME NeighboursAssumption ==
    /\ Neighbours \in [Offsets -> SUBSET Offsets]
    /\ \A o \in Offsets : o \notin Neighbours[o]
    /\ \A o, p \in Offsets : p \in Neighbours[o] => o \in Neighbours[p]

ASSUME EntitiesAssumption ==
    /\ Updaters \subseteq Entities
    /\ Null \notin Offsets
    /\ Null \notin Entities

ASSUME BoundsAssumption ==
    /\ StallTime \in Nat \ {0}
    /\ MaxElapsed \in Nat \ {0}
    /\ ClusterCap \in Nat \ {0}

VARIABLES
    cells,      \* Map::_cells
    mapOps,     \* Map::_scheduledOperations
    members,    \* Cell::_entities of every cell
    entCell,    \* MapAwareEntity::_cell
    dangling,   \* entities whose _cell has been freed under them
    current,    \* Cluster::_currentCells, also the keys of _vertices
    old,        \* Cluster::_oldCells
    comp,       \* the cells in _cellsByCluster, in any component
    stallCells, \* Cluster::_stallCells
    registered, \* cells with stall.isRegistered
    cooldown,   \* cells with stall.isOnCooldown
    remaining,  \* stall.remaining
    keepers,    \* how often an updater is in the list Cluster::_keepers
    clusterOps, \* Cluster::_scheduledOperations
    phase,      \* where the server loop is
    todo,       \* entities the workers still have to update in this tick
    unkept,     \* history: time since a keeper last touched the cell
    fault       \* "none", or what ended the process

mapVars == <<cells, mapOps, members, entCell, dangling>>
clusterVars == <<current, old, comp, stallCells, registered, cooldown, remaining,
                 keepers, clusterOps>>
loopVars == <<phase, todo, unkept, fault>>
vars == <<mapVars, clusterVars, loopVars>>

Phases == {"mapOps", "update", "serverOps", "clusterOps", "stalls"}

MapOperation ==
    [type : {"add", "remove"}, offset : Offsets, entity : Entities,
     param : Offsets \cup {Null}]
    \cup [type : {"destroy"}, offset : Offsets, entity : {Null}, param : Offsets]

ClusterOperation == [type : {"keep", "unkeep"}, entity : Updaters]

-----------------------------------------------------------------------------
(* Cells.                                                                   *)

Around(o) == {o} \cup Neighbours[o]

(* Map::getCellsExcluding: the cells getOrCreate is called for.             *)
CellsExcluding(o, exclude) ==
    IF exclude = Null THEN Around(o) ELSE Around(o) \ Around(exclude)

(* The cells Cluster::onCellCreated touches when new are created: each new  *)
(* cell and those around it that exist.                                     *)
TouchedBetweenUpdates(new) ==  \* mutant: cells created by a worker are not touched
    IF phase = "update" THEN {} ELSE new \cup {o \in cells : Neighbours[o] \cap new # {}}
TouchedByCreation(new) == new \cup {o \in cells : Neighbours[o] \cap new # {}}

(* LOG_ASSERT of Cluster::touch: a cell touched for a reason other than     *)
(* being stalled is not on cooldown.                                        *)
TouchUnchecked(touched) == TRUE  \* mutant: touch takes a cell on cooldown like any other
TouchAssert(touched) == touched \cap cooldown = {}

Halt(why) ==
    /\ fault' = why
    /\ UNCHANGED <<mapVars, clusterVars, phase, todo, unkept>>

(* Map::getOrCreate on every offset of new, none of which exists; unstalled *)
(* is what Cluster::checkStall takes off the stalled cells besides.         *)
CreateKeepsStalled(new, unstalled) ==  \* mutant: checkStall forgets _stallCells
    /\ cells' = cells \cup new
    /\ current' = current \cup TouchedByCreation(new)
    /\ registered' = registered \ (TouchedByCreation(new) \cup unstalled)
    /\ stallCells' = stallCells \ TouchedByCreation(new)
    /\ unkept' = [o \in Offsets |-> IF o \in new THEN 0 ELSE unkept[o]]
    /\ UNCHANGED cooldown
Create(new, unstalled) ==
    /\ cells' = cells \cup new
    /\ current' = current \cup TouchedByCreation(new)
    /\ registered' = registered \ (TouchedByCreation(new) \cup unstalled)
    /\ stallCells' = stallCells \ (TouchedByCreation(new) \cup unstalled)
    /\ unkept' = [o \in Offsets |-> IF o \in new THEN 0 ELSE unkept[o]]
    /\ UNCHANGED cooldown

(* boost::lockfree::queue of fixed capacity: a failed push goes unnoticed.  *)
PushClusterOpShort(type, e) ==  \* mutant: the queue has one slot less
    clusterOps' = IF e \in Updaters /\ Len(clusterOps) + 1 < ClusterCap
                  THEN Append(clusterOps, [type |-> type, entity |-> e])
                  ELSE clusterOps
PushKeepOnly(type, e) ==  \* mutant: REMOVE_ENTITY does not tell the cluster
    clusterOps' = IF e \in Updaters /\ Len(clusterOps) < ClusterCap /\ type = "keep"
                  THEN Append(clusterOps, [type |-> type, entity |-> e])
                  ELSE clusterOps
PushClusterOp(type, e) ==
    clusterOps' = IF e \in Updaters /\ Len(clusterOps) < ClusterCap
                  THEN Append(clusterOps, [type |-> type, entity |-> e])
                  ELSE clusterOps

-----------------------------------------------------------------------------
(* Map::runScheduledOperations.                                             *)

Init ==
    /\ cells = {} /\ mapOps = << >>
    /\ members = [o \in Offsets |-> {}]
    /\ entCell = [e \in Entities |-> Null]
    /\ dangling = {}
    /\ current = {} /\ old = {} /\ comp = {} /\ stallCells = {}
    /\ registered = {} /\ cooldown = {}
    /\ remaining = [o \in Offsets |-> 0]
    /\ keepers = [e \in Updaters |-> 0]
    /\ clusterOps = << >>
    /\ phase = "mapOps" /\ todo = {}
    /\ unkept = [o \in Offsets |-> 0]
    /\ fault = "none"

Running(ph) == fault = "none" /\ phase = ph

(* Cluster::checkStall: the cell entered is no longer stalled if the cell   *)
(* left is not, both seen after the touches of the same operation.          *)
CheckStall(from, to, touched) ==
    IF /\ from # Null
       /\ to \in registered \ touched /\ to \notin cooldown
       /\ from \notin (registered \ touched) \cup cooldown
    THEN {to} ELSE {}

AddEntity ==
    /\ Running("mapOps")
    /\ mapOps # << >> /\ Head(mapOps).type = "add"
    /\ LET o == Head(mapOps).offset
           e == Head(mapOps).entity
           from == Head(mapOps).param
           new == ({o} \cup CellsExcluding(o, from)
                       \cup (IF e \in Updaters THEN Neighbours[o] ELSE {})) \ cells
       IN  IF ~TouchAssert(TouchedByCreation(new)) THEN Halt("assert")
           ELSE /\ Create(new, CheckStall(from, o, TouchedByCreation(new)))
                /\ mapOps' = Tail(mapOps)
                /\ members' = [members EXCEPT ![o] = @ \cup {e}]
                /\ entCell' = [entCell EXCEPT ![e] = o]
                /\ dangling' = dangling \ {e}
                /\ PushClusterOp("keep", e)
                /\ UNCHANGED <<old, comp, remaining, keepers, phase, todo, fault>>

RemoveEntity ==
    /\ Running("mapOps")
    /\ mapOps # << >> /\ Head(mapOps).type = "remove"
    /\ Head(mapOps).offset \in cells
    /\ LET o == Head(mapOps).offset
           e == Head(mapOps).entity
           new == CellsExcluding(o, Head(mapOps).param) \ cells
       IN  IF ~TouchAssert(TouchedByCreation(new)) THEN Halt("assert")
           ELSE /\ Create(new, {})
                /\ mapOps' = Tail(mapOps)
                /\ members' = [members EXCEPT ![o] = @ \ {e}]
                /\ entCell' = [entCell EXCEPT ![e] = Null]
                /\ dangling' = dangling \ {e}
                /\ PushClusterOp("unkeep", e)
                /\ UNCHANGED <<old, comp, remaining, keepers, phase, todo, fault>>

(* The cell is gone: the operation is dropped, the entity never told.       *)
RemoveFromNowhere ==
    /\ Running("mapOps")
    /\ mapOps # << >> /\ Head(mapOps).type = "remove"
    /\ Head(mapOps).offset \notin cells
    /\ mapOps' = Tail(mapOps)
    /\ UNCHANGED <<cells, members, entCell, dangling, clusterVars, loopVars>>

(* The Cell is freed with whatever it holds; entities inside keep a pointer *)
(* to it.                                                                   *)
Destroy ==
    /\ Running("mapOps")
    /\ mapOps # << >> /\ Head(mapOps).type = "destroy"
    /\ LET o == Head(mapOps).offset
       IN  /\ cells' = cells \ {o}
           /\ members' = [members EXCEPT ![o] = {}]
           /\ dangling' = dangling \cup {e \in Entities : entCell[e] = o}
           /\ registered' = registered \ {o}
           /\ cooldown' = cooldown \ {o}
    /\ mapOps' = Tail(mapOps)
    /\ UNCHANGED <<entCell, current, old, comp, stallCells, remaining, keepers,
                   clusterOps, loopVars>>

-----------------------------------------------------------------------------
(* Cluster::update and what runs during it.                                 *)

BeginUpdate ==
    /\ Running("mapOps")
    /\ mapOps = << >>
    /\ comp' = current
    /\ todo' = UNION {members[o] : o \in current}
    /\ phase' = "update"
    /\ UNCHANGED <<mapVars, current, old, stallCells, registered, cooldown,
                   remaining, keepers, clusterOps, unkept, fault>>

(* Map::onMove queues the departure before the arrival.                     *)
AddBeforeRemove(e, from, to) ==  \* mutant: the two in the other order
    << [type |-> "add", offset |-> to, entity |-> e, param |-> from],
       [type |-> "remove", offset |-> from, entity |-> e, param |-> to] >>
MoveOperations(e, from, to) ==
    << [type |-> "remove", offset |-> from, entity |-> e, param |-> to],
       [type |-> "add", offset |-> to, entity |-> e, param |-> from] >>

(* MotionMaster::update takes the entity over a border: Map::onMove, which  *)
(* follows the pointer to the cell the entity is in.                        *)
OnMove(e, to) ==
    /\ Running("update")
    /\ e \in todo
    /\ IF entCell[e] = Null THEN Halt("null")
       ELSE /\ to \in Neighbours[entCell[e]]
            /\ IF ~TouchAssert(TouchedByCreation({to} \ cells)) THEN Halt("assert")
               ELSE /\ Create({to} \ cells, {})
                    /\ LET ops == MoveOperations(e, entCell[e], to)
                       IN  mapOps' = Append(Append(mapOps, ops[1]), ops[2])
                    /\ todo' = todo \ {e}
                    /\ UNCHANGED <<members, entCell, dangling, old, comp, remaining,
                                   keepers, clusterOps, phase, fault>>

(* The entities left in todo do not change cell in this tick.               *)
EndUpdate ==
    /\ Running("update")
    /\ phase' = "serverOps"
    /\ todo' = {}
    /\ UNCHANGED <<mapVars, clusterVars, unkept, fault>>

-----------------------------------------------------------------------------
(* Callers of Map::addTo and Map::removeFrom.                               *)

Queued(e) == \E i \in 1..Len(mapOps) : mapOps[i].entity = e

(* Any thread queues an entity that is nowhere.                             *)
AddTo(e, o) ==
    /\ fault = "none"
    /\ entCell[e] = Null /\ ~Queued(e)
    /\ mapOps' = Append(mapOps,
                    [type |-> "add", offset |-> o, entity |-> e, param |-> Null])
    /\ UNCHANGED <<cells, members, entCell, dangling, clusterVars, loopVars>>

(* A job of the server removes an entity that is not changing cell, by its  *)
(* position: this works for an entity whose cell is gone, too.              *)
RemoveFrom(e) ==
    /\ Running("serverOps")
    /\ entCell[e] # Null /\ ~Queued(e)
    /\ mapOps' = Append(mapOps, [type |-> "remove", offset |-> entCell[e],
                                 entity |-> e, param |-> Null])
    /\ UNCHANGED <<cells, members, entCell, dangling, clusterVars, loopVars>>

-----------------------------------------------------------------------------
(* Cluster::cleanup and Cluster::runScheduledOperations.                    *)

(* The stalled cells whose time is up.                                      *)
ExpiredAtZero(elapsed) ==  \* mutant: the elapsed time is not compared
    {o \in comp \cap registered : remaining[o] = 0}
ExpiredEarly(elapsed) ==  \* mutant: off by one
    {o \in comp \cap registered : elapsed + 1 >= remaining[o]}
Expired(elapsed) == {o \in comp \cap registered : elapsed >= remaining[o]}

Cleanup(elapsed) ==
    /\ Running("serverOps")
    /\ remaining' = [o \in Offsets |->
                        IF o \in (comp \cap registered) \ Expired(elapsed)
                        THEN remaining[o] - elapsed ELSE remaining[o]]
    /\ registered' = registered \ Expired(elapsed)
    /\ cooldown' = cooldown \cup Expired(elapsed)
    /\ old' = current
    /\ current' = {} /\ comp' = {}
    /\ unkept' = [o \in Offsets |-> IF unkept[o] + elapsed > StallTime
                                    THEN StallTime ELSE unkept[o] + elapsed]
    /\ phase' = "clusterOps"
    /\ UNCHANGED <<mapVars, stallCells, keepers, clusterOps, todo, fault>>

Keep ==
    /\ Running("clusterOps")
    /\ clusterOps # << >> /\ Head(clusterOps).type = "keep"
    /\ keepers' = [keepers EXCEPT ![Head(clusterOps).entity] = @ + 1]
    /\ clusterOps' = Tail(clusterOps)
    /\ UNCHANGED <<mapVars, current, old, comp, stallCells, registered, cooldown,
                   remaining, loopVars>>

(* list::erase of a keeper that is not there is undefined.                  *)
Unkeep ==
    /\ Running("clusterOps")
    /\ clusterOps # << >> /\ Head(clusterOps).type = "unkeep"
    /\ IF keepers[Head(clusterOps).entity] = 0 THEN Halt("erase")
       ELSE /\ keepers' = [keepers EXCEPT ![Head(clusterOps).entity] = @ - 1]
            /\ clusterOps' = Tail(clusterOps)
            /\ UNCHANGED <<mapVars, current, old, comp, stallCells, registered,
                           cooldown, remaining, loopVars>>

Keepers == {e \in Updaters : keepers[e] > 0}

(* Cells with the allocated cells around them: touchWithNeighbours.         *)
LiveAround(S) == S \cup {o \in cells : Neighbours[o] \cap S # {}}

(* Cells updated in the last tick that nobody keeps and that are not yet    *)
(* among the stalled ones.                                                  *)
RestartedStall(kept) ==  \* mutant: the result of the insertion is not looked at
    old \ (current \cup kept)
NewStall(kept) == old \ (current \cup kept \cup stallCells)

(* Cluster::touch of stalled cells adds those that are not on cooldown.     *)
TouchesCooling(S, cooling) ==  \* mutant: cells on cooldown are added too
    S
TouchesNone(S, cooling) ==  \* mutant: no stalled cell is added
    {}
TouchedAsStall(S, cooling) == S \ cooling

(* The keepers' cells and those around them are touched, cells that were    *)
(* updated before and are not kept become stalled, and every stalled cell   *)
(* that is not on cooldown is touched with those around it.                 *)
TouchKept(kept) ==
    LET newStall == NewStall(kept)
        stalled  == (stallCells \ kept) \cup newStall
        cooling  == cooldown \ newStall
    IN  /\ stallCells' = stalled
        /\ registered' = (registered \ kept) \cup newStall
        /\ cooldown' = cooling
        /\ remaining' = [o \in Offsets |->
                            IF o \in newStall THEN StallTime ELSE remaining[o]]
        /\ current' = current \cup kept \cup TouchedAsStall(LiveAround(stalled \ cooling), cooling)
        /\ unkept' = [o \in Offsets |-> IF o \in kept THEN 0 ELSE unkept[o]]

TouchKeepers ==
    /\ Running("clusterOps")
    /\ clusterOps = << >>
    /\ IF \E e \in Keepers : entCell[e] = Null THEN Halt("null")
       ELSE IF Keepers \cap dangling # {} THEN Halt("freed")
       ELSE LET kept == LiveAround({entCell[e] : e \in Keepers})
            IN  IF ~TouchAssert(kept) THEN Halt("assert")
                ELSE /\ TouchKept(kept)
                     /\ phase' = "stalls"
                     /\ UNCHANGED <<mapVars, old, comp, keepers, clusterOps, todo,
                                    fault>>

(* Map::destroyCell, in any order of the unordered set.                     *)
DestroyCellKeeps(o) ==  \* mutant: the cell stays among the stalled ones
    /\ Running("stalls")
    /\ o \in stallCells \cap cooldown
    /\ mapOps' = Append(mapOps, [type |-> "destroy", offset |-> o,
                                 entity |-> Null, param |-> o])
    /\ UNCHANGED <<cells, members, entCell, dangling, clusterVars, loopVars>>
DestroyCell(o) ==
    /\ Running("stalls")
    /\ o \in stallCells \cap cooldown
    /\ mapOps' = Append(mapOps, [type |-> "destroy", offset |-> o,
                                 entity |-> Null, param |-> o])
    /\ stallCells' = stallCells \ {o}
    /\ UNCHANGED <<cells, members, entCell, dangling, current, old, comp, registered,
                   cooldown, remaining, keepers, clusterOps, loopVars>>

EndTick ==
    /\ Running("stalls")
    /\ stallCells \cap cooldown = {}
    /\ phase' = "mapOps"
    /\ UNCHANGED <<mapVars, clusterVars, todo, unkept, fault>>

(* The process has ended.                                                   *)
Halted == fault # "none" /\ UNCHANGED vars

-----------------------------------------------------------------------------
ServerLoop ==
    \/ AddEntity \/ RemoveEntity \/ RemoveFromNowhere \/ Destroy
    \/ BeginUpdate
    \/ \E e \in Entities : \E to \in Offsets : OnMove(e, to)
    \/ EndUpdate
    \/ \E elapsed \in 0..MaxElapsed : Cleanup(elapsed)
    \/ Keep \/ Unkeep \/ TouchKeepers
    \/ \E o \in Offsets : DestroyCell(o)
    \/ EndTick

Callers ==
    \/ \E e \in Entities : \E o \in Offsets : AddTo(e, o)
    \/ \E e \in Entities : RemoveFrom(e)

Next == ServerLoop \/ Callers \/ Halted

Spec == Init /\ [][Next]_vars

(* The server thread loops for ever; nobody has to call it.  A tick may be  *)
(* too short to count, but the heart beat of Server::update sleeps, so that *)
(* time does pass from tick to tick.                                        *)
TimePasses == \E elapsed \in 1..MaxElapsed : Cleanup(elapsed)

FairSpec == Spec /\ WF_vars(ServerLoop) /\ SF_vars(TimePasses)
-----------------------------------------------------------------------------
(* Properties.                                                              *)

TypeOK ==
    /\ cells \subseteq Offsets
    /\ mapOps \in Seq(MapOperation)
    /\ members \in [Offsets -> SUBSET Entities]
    /\ entCell \in [Entities -> Offsets \cup {Null}]
    /\ dangling \subseteq Entities
    /\ current \subseteq Offsets /\ old \subseteq Offsets /\ comp \subseteq Offsets
    /\ stallCells \subseteq Offsets
    /\ registered \subseteq Offsets /\ cooldown \subseteq Offsets
    /\ remaining \in [Offsets -> 0..StallTime]
    /\ keepers \in [Updaters -> Nat]
    /\ clusterOps \in Seq(ClusterOperation)
    /\ phase \in Phases
    /\ todo \subseteq Entities
    /\ unkept \in [Offsets -> 0..StallTime]
    /\ fault \in {"none", "assert", "null", "freed", "erase"}

(* The cells a queue of operations will free. *)
DestroysIn(q) == {q[i].offset : i \in {j \in 1..Len(q) : q[j].type = "destroy"}}

Destroying == DestroysIn(mapOps)

NoDoubleDestroyIn(q) ==
    \A i, j \in 1..Len(q) :
        q[i].type = "destroy" /\ q[j].type = "destroy" /\ q[i].offset = q[j].offset
            => i = j

(* Every allocated cell is known to the cluster or about to be freed: none  *)
(* is forgotten by the hand-over between _currentCells, _oldCells and       *)
(* _stallCells, which would leak it for ever.                               *)
NoCellForgotten ==
    cells \subseteq stallCells \cup Destroying
                    \cup (IF phase = "clusterOps" THEN old ELSE current)

(* A cell is freed once: it has at most one DESTROY queued, it is allocated *)
(* and no longer among the stalled cells, so no second one will follow.     *)
FreedOnce ==
    /\ NoDoubleDestroyIn(mapOps)
    /\ Destroying \subseteq cells \ stallCells

(* The cluster never holds a pointer to a freed cell where it follows it:   *)
(* in the cells to update, in the stalled ones, and in _oldCells while      *)
(* runScheduledOperations reads that.                                       *)
NoFreedCellInCluster ==
    /\ current \cup comp \cup stallCells \subseteq cells
    /\ phase = "clusterOps" => old \subseteq cells

(* "If it is registered, it is on vector": the erase calls of touch and     *)
(* checkStall find their cell, because the flags of a cell and _stallCells  *)
(* never disagree.                                                          *)
StallFlagsAgree ==
    /\ registered \cap cooldown = {}
    /\ registered \cup cooldown = stallCells \cup Destroying

(* A stalled cell keeps being updated, so that its timer runs on.           *)
StalledCellTicks ==
    /\ phase = "clusterOps" => registered \subseteq old
    /\ phase \in {"update", "serverOps"} => registered \subseteq comp
    /\ phase \in {"mapOps", "stalls"} => registered \subseteq current

(* Cluster's list of keepers is, whenever it is used, exactly the updaters  *)
(* that are in a cell, each once: no KEEP or UNKEEP is lost or doubled.     *)
KeepersAreTheUpdatersInside ==
    phase = "stalls" =>
        \A e \in Updaters : keepers[e] = IF entCell[e] = Null THEN 0 ELSE 1

(* An entity is in the cell it points to and in no other.                   *)
MembershipAgrees ==
    \A e \in Entities, o \in Offsets :
        e \in members[o] <=> entCell[e] = o /\ e \notin dangling

(* A cell that is to be freed has been out of reach of every keeper for the *)
(* whole stall time.                                                        *)
FreedOnlyAfterStallTime == \A o \in Destroying : unkept[o] = StallTime

(* Neither a move, nor the touch of a keeper, nor UNKEEP finds an entity    *)
(* that is not where it should be.                                          *)
NoStrayEntity == fault \notin {"null", "erase"}

(* The inductive strengthening of the properties of cells: where in the     *)
(* tick cells can be on cooldown, and that none of those is updated again.  *)
CooldownInv ==
    /\ Destroying \subseteq cooldown
    /\ current \cap cooldown = {}
    /\ comp \subseteq current
    /\ phase \notin {"mapOps", "stalls"} => Destroying = {}
    /\ phase \notin {"clusterOps", "stalls"} => stallCells \cap cooldown = {}
    /\ phase = "clusterOps" => current = {}

(* An entity points to an allocated cell, to none, or is known to dangle.   *)
PointersLive ==
    \A e \in Entities : entCell[e] # Null /\ e \notin dangling => entCell[e] \in cells

(* The time left and the time out of reach add up to the stall time.        *)
TimerInv ==
    /\ \A o \in registered : unkept[o] + remaining[o] >= StallTime
    /\ \A o \in cooldown : unkept[o] = StallTime

CellsInv ==
    /\ NoCellForgotten
    /\ FreedOnce
    /\ NoFreedCellInCluster
    /\ StallFlagsAgree
    /\ StalledCellTicks
    /\ CooldownInv
    /\ PointersLive

(* The map implements CellLifetime: whatever the order in which entities    *)
(* enter, move and leave, every cell is created, kept, condemned after the  *)
(* whole stall time and freed, in this order; a keeper that comes near      *)
(* between DestroyCell and Destroy does not find it in its way.             *)
Life == INSTANCE CellLifetime WITH
            life <- [o \in Offsets |-> IF o \in Destroying THEN "condemned"
                                       ELSE IF o \in cells THEN "live" ELSE "absent"],
            idle <- [o \in Offsets |-> IF o \in cells THEN unkept[o] ELSE 0]
ImplementsCellLifetime == Life!LifeSpec

(* Once nobody enters, leaves or moves and no keeper is left, every cell is *)
(* freed in the end.                                                        *)
Idle == /\ \A e \in Updaters : keepers[e] = 0
        /\ \A i \in 1..Len(mapOps) : mapOps[i].type = "destroy"
        /\ clusterOps = << >>
IdleMapIsFreed == (<>[](Idle /\ fault = "none")) => <>[](cells = {})

(* cluster.cpp: a cell on cooldown is one whose "memory can be freed up":   *)
(* no updater is in it when that happens.                                   *)
NoUpdaterInFreedCell == Updaters \cap dangling = {}
=============================================================================
