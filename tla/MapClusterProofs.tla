-------------------------- MODULE MapClusterProofs --------------------------
(***************************************************************************)
(* Proofs about MapCluster for every grid, every set of entities and every *)
(* stall time.  The grid may be infinite: the offsets are only assumed to  *)
(* have symmetric, irreflexive siblings.                                   *)
(***************************************************************************)
EXTENDS MapCluster, FiniteSetTheorems, TLAPS

(* What a queue frees after one more operation is pushed, and whether it    *)
(* still frees every cell at most once.                                     *)
LEMMA PushOperation ==
    ASSUME NEW q \in Seq(MapOperation), NEW op \in MapOperation
    PROVE  /\ Append(q, op) \in Seq(MapOperation)
           /\ op.type # "destroy" => DestroysIn(Append(q, op)) = DestroysIn(q)
           /\ op.type = "destroy" =>
                DestroysIn(Append(q, op)) = DestroysIn(q) \cup {op.offset}
           /\ NoDoubleDestroyIn(q) /\ (op.type = "destroy" => op.offset \notin DestroysIn(q))
                => NoDoubleDestroyIn(Append(q, op))
<1> DEFINE r == Append(q, op)
<1>1. /\ r \in Seq(MapOperation)
      /\ Len(r) = Len(q) + 1
      /\ Len(q) \in Nat
      /\ r[Len(q) + 1] = op
      /\ \A i \in 1..Len(q) : r[i] = q[i]
  OBVIOUS
<1> HIDE DEF r
<1>2. op.type # "destroy" => DestroysIn(r) = DestroysIn(q)
  BY <1>1 DEF DestroysIn
<1>3. op.type = "destroy" => DestroysIn(r) = DestroysIn(q) \cup {op.offset}
  BY <1>1 DEF DestroysIn
<1>4. ASSUME NoDoubleDestroyIn(q), op.type = "destroy" => op.offset \notin DestroysIn(q)
      PROVE  NoDoubleDestroyIn(r)
  BY <1>1, <1>4 DEF DestroysIn, NoDoubleDestroyIn
<1> QED BY <1>1, <1>2, <1>3, <1>4 DEF r

(* The same after the first operation is popped.                            *)
LEMMA PopOperation ==
    ASSUME NEW q \in Seq(MapOperation), q # << >>
    PROVE  /\ Head(q) \in MapOperation
           /\ Tail(q) \in Seq(MapOperation)
           /\ Head(q).type # "destroy" => DestroysIn(Tail(q)) = DestroysIn(q)
           /\ Head(q).type = "destroy" => Head(q).offset \in DestroysIn(q)
           /\ Head(q).type = "destroy" /\ NoDoubleDestroyIn(q) =>
                DestroysIn(Tail(q)) = DestroysIn(q) \ {Head(q).offset}
           /\ NoDoubleDestroyIn(q) => NoDoubleDestroyIn(Tail(q))
<1> DEFINE r == Tail(q)
<1>1. /\ r \in Seq(MapOperation)
      /\ Len(q) \in Nat /\ Len(q) > 0
      /\ Len(r) = Len(q) - 1
      /\ Head(q) = q[1] /\ q[1] \in MapOperation
      /\ \A i \in 1..Len(r) : r[i] = q[i + 1]
  OBVIOUS
<1> HIDE DEF r
<1>2. \A i \in 2..Len(q) : i - 1 \in 1..Len(r) /\ r[i - 1] = q[i]
  BY <1>1
<1>3. Head(q).type # "destroy" => DestroysIn(r) = DestroysIn(q)
  <2> SUFFICES ASSUME q[1].type # "destroy" PROVE DestroysIn(r) = DestroysIn(q)
    BY <1>1
  <2>1. DestroysIn(r) \subseteq DestroysIn(q)
    BY <1>1 DEF DestroysIn
  <2>2. ASSUME NEW i \in 1..Len(q), q[i].type = "destroy"
        PROVE  q[i].offset \in DestroysIn(r)
    <3>1. i \in 2..Len(q) BY <2>2, <1>1
    <3> QED BY <3>1, <2>2, <1>2 DEF DestroysIn
  <2> QED BY <2>1, <2>2 DEF DestroysIn
<1>4. Head(q).type = "destroy" => Head(q).offset \in DestroysIn(q)
  BY <1>1 DEF DestroysIn
<1>5. ASSUME Head(q).type = "destroy", NoDoubleDestroyIn(q)
      PROVE  DestroysIn(r) = DestroysIn(q) \ {Head(q).offset}
  <2>1. ASSUME NEW i \in 1..Len(r), r[i].type = "destroy"
        PROVE  r[i].offset \in DestroysIn(q) \ {Head(q).offset}
    BY <1>1, <1>5, <2>1 DEF DestroysIn, NoDoubleDestroyIn
  <2>2. ASSUME NEW i \in 1..Len(q), q[i].type = "destroy", q[i].offset # Head(q).offset
        PROVE  q[i].offset \in DestroysIn(r)
    <3>1. i \in 2..Len(q) BY <2>2, <1>1
    <3> QED BY <3>1, <2>2, <1>2 DEF DestroysIn
  <2> QED BY <2>1, <2>2 DEF DestroysIn
<1>6. ASSUME NoDoubleDestroyIn(q) PROVE NoDoubleDestroyIn(r)
  <2> SUFFICES ASSUME NEW i \in 1..Len(r), NEW j \in 1..Len(r),
                      r[i].type = "destroy", r[j].type = "destroy",
                      r[i].offset = r[j].offset
               PROVE  i = j
    BY DEF NoDoubleDestroyIn
  <2>1. i + 1 \in 1..Len(q) /\ j + 1 \in 1..Len(q)
    BY <1>1
  <2>2. i + 1 = j + 1
    BY <2>1, <1>1, <1>6 DEF NoDoubleDestroyIn
  <2> QED BY <2>2
<1> QED BY <1>1, <1>3, <1>4, <1>5, <1>6 DEF r

-----------------------------------------------------------------------------
(* Facts about the sets an action computes.                                 *)

LEMMA SiblingsInOffsets ==
    ASSUME NEW o \in Offsets
    PROVE  Neighbours[o] \subseteq Offsets /\ o \notin Neighbours[o]
  BY NeighboursAssumption

LEMMA CellsExcludingInOffsets ==
    ASSUME NEW o \in Offsets, NEW x \in Offsets \cup {Null}
    PROVE  CellsExcluding(o, x) \subseteq Offsets
  BY SiblingsInOffsets DEF CellsExcluding, Around

(* Creating cells and halting keep the types.                               *)
LEMMA CreateType ==
    ASSUME TypeOK, NEW new \in SUBSET Offsets, NEW unstalled, Create(new, unstalled)
    PROVE  /\ cells' \subseteq Offsets /\ current' \subseteq Offsets
           /\ registered' \subseteq Offsets /\ stallCells' \subseteq Offsets
           /\ cooldown' \subseteq Offsets
           /\ unkept' \in [Offsets -> 0..StallTime]
  BY BoundsAssumption DEF TypeOK, Create, TouchedByCreation

LEMMA HaltType ==
    ASSUME TypeOK, NEW why \in {"assert", "null", "freed", "erase"}, Halt(why)
    PROVE  TypeOK'
  BY DEF TypeOK, Halt, mapVars, clusterVars

LEMMA PushClusterOpType ==
    ASSUME TypeOK, NEW type \in {"keep", "unkeep"}, NEW e, PushClusterOp(type, e)
    PROVE  clusterOps' \in Seq(ClusterOperation)
<1>1. e \in Updaters => [type |-> type, entity |-> e] \in ClusterOperation
  BY DEF ClusterOperation
<1>2. clusterOps \in Seq(ClusterOperation)
  BY DEF TypeOK
<1> QED BY <1>1, <1>2 DEF PushClusterOp

LEMMA PopClusterOp ==
    ASSUME TypeOK, clusterOps # << >>
    PROVE  /\ Head(clusterOps).entity \in Updaters
           /\ Tail(clusterOps) \in Seq(ClusterOperation)
<1>1. clusterOps \in Seq(ClusterOperation)
  BY DEF TypeOK
<1>2. Head(clusterOps) \in ClusterOperation /\ Tail(clusterOps) \in Seq(ClusterOperation)
  BY <1>1
<1> QED BY <1>2 DEF ClusterOperation

(* What the two operations that carry an entity do, with the type of what   *)
(* they pop.                                                                *)
LEMMA AddEntityStep ==
    ASSUME TypeOK, AddEntity
    PROVE  \/ Halt("assert")
           \/ \E o \in Offsets, e \in Entities, from \in Offsets \cup {Null},
                 new \in SUBSET (Offsets \ cells) :
                /\ o \in cells \cup new
                /\ TouchAssert(TouchedByCreation(new))
                /\ Create(new, CheckStall(from, o, TouchedByCreation(new)))
                /\ mapOps # << >> /\ Head(mapOps).type = "add"
                /\ Head(mapOps).entity = e
                /\ mapOps' = Tail(mapOps)
                /\ members' = [members EXCEPT ![o] = @ \cup {e}]
                /\ entCell' = [entCell EXCEPT ![e] = o]
                /\ dangling' = dangling \ {e}
                /\ PushClusterOp("keep", e)
                /\ UNCHANGED <<old, comp, remaining, keepers, phase, todo, fault>>
<1> DEFINE o == Head(mapOps).offset
           e == Head(mapOps).entity
           from == Head(mapOps).param
           new == ({o} \cup CellsExcluding(o, from)
                       \cup (IF e \in Updaters THEN Neighbours[o] ELSE {})) \ cells
<1>1. /\ mapOps # << >> /\ Head(mapOps).type = "add" /\ Head(mapOps) \in MapOperation
      /\ Head(mapOps).entity = e
  BY PopOperation DEF AddEntity, TypeOK
<1>2. o \in Offsets /\ e \in Entities /\ from \in Offsets \cup {Null}
  BY <1>1 DEF MapOperation
<1>3. new \in SUBSET (Offsets \ cells) /\ o \in cells \cup new
  BY <1>2, CellsExcludingInOffsets, SiblingsInOffsets
<1>4. \/ Halt("assert")
      \/ /\ TouchAssert(TouchedByCreation(new))
         /\ Create(new, CheckStall(from, o, TouchedByCreation(new)))
         /\ mapOps' = Tail(mapOps)
         /\ members' = [members EXCEPT ![o] = @ \cup {e}]
         /\ entCell' = [entCell EXCEPT ![e] = o]
         /\ dangling' = dangling \ {e}
         /\ PushClusterOp("keep", e)
         /\ UNCHANGED <<old, comp, remaining, keepers, phase, todo, fault>>
  BY DEF AddEntity
<1> HIDE DEF o, e, from, new
<1> QED BY <1>1, <1>2, <1>3, <1>4

LEMMA RemoveEntityStep ==
    ASSUME TypeOK, RemoveEntity
    PROVE  \/ Halt("assert")
           \/ \E o \in Offsets, e \in Entities, new \in SUBSET (Offsets \ cells) :
                /\ TouchAssert(TouchedByCreation(new))
                /\ Create(new, {})
                /\ mapOps # << >> /\ Head(mapOps).type = "remove"
                /\ Head(mapOps).entity = e /\ Head(mapOps).offset = o
                /\ mapOps' = Tail(mapOps)
                /\ members' = [members EXCEPT ![o] = @ \ {e}]
                /\ entCell' = [entCell EXCEPT ![e] = Null]
                /\ dangling' = dangling \ {e}
                /\ PushClusterOp("unkeep", e)
                /\ UNCHANGED <<old, comp, remaining, keepers, phase, todo, fault>>
<1> DEFINE o == Head(mapOps).offset
           e == Head(mapOps).entity
           new == CellsExcluding(o, Head(mapOps).param) \ cells
<1>1. /\ mapOps # << >> /\ Head(mapOps).type = "remove" /\ Head(mapOps) \in MapOperation
      /\ Head(mapOps).entity = e /\ Head(mapOps).offset = o
  BY PopOperation DEF RemoveEntity, TypeOK
<1>2. o \in Offsets /\ e \in Entities /\ Head(mapOps).param \in Offsets \cup {Null}
  BY <1>1 DEF MapOperation
<1>3. new \in SUBSET (Offsets \ cells)
  BY <1>2, CellsExcludingInOffsets
<1>4. \/ Halt("assert")
      \/ /\ TouchAssert(TouchedByCreation(new))
         /\ Create(new, {})
         /\ mapOps' = Tail(mapOps)
         /\ members' = [members EXCEPT ![o] = @ \ {e}]
         /\ entCell' = [entCell EXCEPT ![e] = Null]
         /\ dangling' = dangling \ {e}
         /\ PushClusterOp("unkeep", e)
         /\ UNCHANGED <<old, comp, remaining, keepers, phase, todo, fault>>
  BY DEF RemoveEntity
<1> HIDE DEF o, e, new
<1> QED BY <1>1, <1>2, <1>3, <1>4

(* A move has queued the departure op1 and the arrival op2 of e.            *)
MovesBy(e, to, op1, op2) ==
    /\ op1.type = "remove" /\ op1.entity = e /\ op1.offset = entCell[e]
    /\ op2.type = "add" /\ op2.entity = e
    /\ TouchAssert(TouchedByCreation({to} \ cells))
    /\ Create({to} \ cells, {})
    /\ mapOps' = Append(Append(mapOps, op1), op2)
    /\ todo' = todo \ {e}
    /\ UNCHANGED <<members, entCell, dangling, old, comp, remaining,
                   keepers, clusterOps, phase, fault>>

LEMMA OnMoveStep ==
    ASSUME TypeOK, NEW e \in Entities, NEW to \in Offsets, OnMove(e, to)
    PROVE  \/ Halt("assert") \/ Halt("null")
           \/ \E op1 \in MapOperation, op2 \in MapOperation : MovesBy(e, to, op1, op2)
<1> SUFFICES ASSUME ~Halt("assert"), ~Halt("null")
             PROVE  \E op1 \in MapOperation, op2 \in MapOperation : MovesBy(e, to, op1, op2)
  OBVIOUS
<1> DEFINE op1 == [type |-> "remove", offset |-> entCell[e], entity |-> e, param |-> to]
           op2 == [type |-> "add", offset |-> to, entity |-> e, param |-> entCell[e]]
<1>1. entCell[e] \in Offsets
  BY DEF OnMove, TypeOK
<1>2. op1 \in MapOperation /\ op2 \in MapOperation
  BY <1>1 DEF MapOperation
<1>3. /\ op1.type = "remove" /\ op1.entity = e /\ op1.offset = entCell[e]
      /\ op2.type = "add" /\ op2.entity = e
  OBVIOUS
<1>4. /\ TouchAssert(TouchedByCreation({to} \ cells))
      /\ Create({to} \ cells, {})
      /\ mapOps' = Append(Append(mapOps, op1), op2)
      /\ todo' = todo \ {e}
      /\ UNCHANGED <<members, entCell, dangling, old, comp, remaining,
                     keepers, clusterOps, phase, fault>>
  BY DEF OnMove, MoveOperations
<1> HIDE DEF op1, op2
<1>5. MovesBy(e, to, op1, op2)
  BY <1>3, <1>4 DEF MovesBy
<1> QED BY <1>2, <1>5

LEMMA TouchKeptType ==
    ASSUME TypeOK, NEW kept \in SUBSET Offsets, TouchKept(kept)
    PROVE  /\ stallCells' \subseteq Offsets /\ registered' \subseteq Offsets
           /\ cooldown' \subseteq Offsets /\ current' \subseteq Offsets
           /\ remaining' \in [Offsets -> 0..StallTime]
           /\ unkept' \in [Offsets -> 0..StallTime]
  BY BoundsAssumption DEF TypeOK, TouchKept, NewStall, TouchedAsStall, LiveAround

LEMMA TouchKeepersStep ==
    ASSUME TypeOK, TouchKeepers
    PROVE  \/ \E why \in {"null", "freed", "assert"} : Halt(why)
           \/ \E kept \in SUBSET Offsets :
                /\ PointersLive => kept \subseteq cells
                /\ TouchAssert(kept) /\ TouchKept(kept)
                /\ phase = "clusterOps" /\ phase' = "stalls"
                /\ UNCHANGED <<mapVars, old, comp, keepers, clusterOps, todo, fault>>
<1> SUFFICES ASSUME \A why \in {"null", "freed", "assert"} : ~Halt(why)
             PROVE  \E kept \in SUBSET Offsets :
                /\ PointersLive => kept \subseteq cells
                /\ TouchAssert(kept) /\ TouchKept(kept)
                /\ phase = "clusterOps" /\ phase' = "stalls"
                /\ UNCHANGED <<mapVars, old, comp, keepers, clusterOps, todo, fault>>
  OBVIOUS
<1> DEFINE kept == LiveAround({entCell[e] : e \in Keepers})
<1>1. /\ TouchAssert(kept) /\ TouchKept(kept)
      /\ phase = "clusterOps" /\ phase' = "stalls"
      /\ UNCHANGED <<mapVars, old, comp, keepers, clusterOps, todo, fault>>
      /\ \A e \in Keepers : entCell[e] # Null /\ e \notin dangling
  BY DEF TouchKeepers, Running
<1>2. kept \in SUBSET Offsets
  BY <1>1, EntitiesAssumption DEF LiveAround, Keepers, TypeOK
<1>3. PointersLive => kept \subseteq cells
  BY <1>1, EntitiesAssumption DEF LiveAround, Keepers, PointersLive
<1> HIDE DEF kept
<1> QED BY <1>1, <1>2, <1>3

-----------------------------------------------------------------------------
LEMMA NextTypes == TypeOK /\ [Next]_vars => TypeOK'
<1> SUFFICES ASSUME TypeOK, [Next]_vars PROVE TypeOK'
  OBVIOUS
<1>1. CASE AddEntity
  <2>1. CASE Halt("assert")
    BY <2>1, HaltType
  <2>2. CASE ~Halt("assert")
    <3>1. PICK o \in Offsets, e \in Entities, from \in Offsets \cup {Null},
               new \in SUBSET (Offsets \ cells) :
              /\ Create(new, CheckStall(from, o, TouchedByCreation(new)))
              /\ mapOps # << >>
              /\ mapOps' = Tail(mapOps)
              /\ members' = [members EXCEPT ![o] = @ \cup {e}]
              /\ entCell' = [entCell EXCEPT ![e] = o]
              /\ dangling' = dangling \ {e}
              /\ PushClusterOp("keep", e)
              /\ UNCHANGED <<old, comp, remaining, keepers, phase, todo, fault>>
      BY <1>1, <2>2, AddEntityStep
    <3>2. clusterOps' \in Seq(ClusterOperation)
      BY <3>1, PushClusterOpType
    <3>3. mapOps' \in Seq(MapOperation)
      BY <3>1, PopOperation DEF TypeOK
    <3>4. members' \in [Offsets -> SUBSET Entities]
      BY <3>1 DEF TypeOK
    <3>5. entCell' \in [Entities -> Offsets \cup {Null}]
      BY <3>1 DEF TypeOK
    <3> QED BY <3>1, <3>2, <3>3, <3>4, <3>5, CreateType DEF TypeOK
  <2> QED BY <2>1, <2>2
<1>2. CASE RemoveEntity
  <2>1. CASE Halt("assert")
    BY <2>1, HaltType
  <2>2. CASE ~Halt("assert")
    <3>1. PICK o \in Offsets, e \in Entities, new \in SUBSET (Offsets \ cells) :
              /\ Create(new, {})
              /\ mapOps # << >>
              /\ mapOps' = Tail(mapOps)
              /\ members' = [members EXCEPT ![o] = @ \ {e}]
              /\ entCell' = [entCell EXCEPT ![e] = Null]
              /\ dangling' = dangling \ {e}
              /\ PushClusterOp("unkeep", e)
              /\ UNCHANGED <<old, comp, remaining, keepers, phase, todo, fault>>
      BY <1>2, <2>2, RemoveEntityStep
    <3>2. clusterOps' \in Seq(ClusterOperation)
      BY <3>1, PushClusterOpType
    <3>3. mapOps' \in Seq(MapOperation)
      BY <3>1, PopOperation DEF TypeOK
    <3>4. members' \in [Offsets -> SUBSET Entities]
      BY <3>1 DEF TypeOK
    <3>5. entCell' \in [Entities -> Offsets \cup {Null}]
      BY <3>1 DEF TypeOK
    <3> QED BY <3>1, <3>2, <3>3, <3>4, <3>5, CreateType DEF TypeOK
  <2> QED BY <2>1, <2>2
<1>3. CASE RemoveFromNowhere
  BY <1>3, PopOperation DEF RemoveFromNowhere, TypeOK, clusterVars, loopVars
<1>4. CASE Destroy
  BY <1>4, PopOperation DEF Destroy, TypeOK, loopVars
<1>5. CASE BeginUpdate
  BY <1>5 DEF BeginUpdate, TypeOK, Phases, mapVars
<1>6. ASSUME NEW e \in Entities, NEW to \in Offsets, OnMove(e, to) PROVE TypeOK'
  <2>1. CASE Halt("assert") \/ Halt("null")
    BY <2>1, HaltType
  <2>2. ASSUME ~Halt("assert"), ~Halt("null") PROVE TypeOK'
    <3>0. PICK op1 \in MapOperation, op2 \in MapOperation : MovesBy(e, to, op1, op2)
      BY <1>6, <2>2, OnMoveStep
    <3>1. /\ op1.type = "remove" /\ op1.entity = e /\ op1.offset = entCell[e]
          /\ op2.type = "add" /\ op2.entity = e
          /\ TouchAssert(TouchedByCreation({to} \ cells))
          /\ Create({to} \ cells, {})
          /\ mapOps' = Append(Append(mapOps, op1), op2)
          /\ todo' = todo \ {e}
          /\ UNCHANGED <<members, entCell, dangling, old, comp, remaining,
                         keepers, clusterOps, phase, fault>>
      BY <3>0 DEF MovesBy
    <3>2. mapOps' \in Seq(MapOperation)
      BY <3>1 DEF TypeOK
    <3> QED BY <3>1, <3>2, CreateType DEF TypeOK
  <2> QED BY <2>1, <2>2
<1>7. CASE EndUpdate
  BY <1>7 DEF EndUpdate, TypeOK, Phases, mapVars, clusterVars
<1>8. ASSUME NEW elapsed \in 0..MaxElapsed, Cleanup(elapsed) PROVE TypeOK'
  <2>1. remaining' \in [Offsets -> 0..StallTime]
    BY <1>8, BoundsAssumption DEF Cleanup, TypeOK, Expired
  <2>2. unkept' \in [Offsets -> 0..StallTime]
    BY <1>8, BoundsAssumption DEF Cleanup, TypeOK
  <2> QED BY <1>8, <2>1, <2>2 DEF Cleanup, TypeOK, Phases, mapVars, Expired
<1>9. CASE Keep
  <2>1. keepers' \in [Updaters -> Nat] /\ clusterOps' \in Seq(ClusterOperation)
    BY <1>9, PopClusterOp DEF Keep, TypeOK
  <2> QED BY <1>9, <2>1 DEF Keep, TypeOK, mapVars, loopVars
<1>10. CASE Unkeep
  <2>1. CASE Halt("erase")
    BY <2>1, HaltType
  <2>2. CASE ~Halt("erase")
    <3> DEFINE x == Head(clusterOps).entity
    <3>2. /\ x \in Updaters /\ keepers[x] # 0
          /\ keepers' = [keepers EXCEPT ![x] = @ - 1]
          /\ clusterOps' \in Seq(ClusterOperation)
      BY <1>10, <2>2, PopClusterOp DEF Unkeep
    <3> HIDE DEF x
    <3>1. keepers' \in [Updaters -> Nat] /\ clusterOps' \in Seq(ClusterOperation)
      BY <3>2 DEF TypeOK
    <3> QED BY <1>10, <2>2, <3>1 DEF Unkeep, TypeOK, mapVars, loopVars
  <2> QED BY <2>1, <2>2
<1>11. CASE TouchKeepers
  <2>1. ASSUME NEW why \in {"null", "freed", "assert"}, Halt(why) PROVE TypeOK'
    BY <2>1, HaltType
  <2>2. ASSUME NEW kept \in SUBSET Offsets, TouchKept(kept), phase' = "stalls",
               UNCHANGED <<mapVars, old, comp, keepers, clusterOps, todo, fault>>
        PROVE  TypeOK'
    BY <2>2, TouchKeptType DEF TypeOK, Phases, mapVars
  <2> QED BY <1>11, <2>1, <2>2, TouchKeepersStep
<1>12. ASSUME NEW o \in Offsets, DestroyCell(o) PROVE TypeOK'
  <2>1. [type |-> "destroy", offset |-> o, entity |-> Null, param |-> o] \in MapOperation
    BY DEF MapOperation
  <2> QED BY <1>12, <2>1 DEF DestroyCell, TypeOK, loopVars
<1>13. CASE EndTick
  BY <1>13 DEF EndTick, TypeOK, Phases, mapVars, clusterVars
<1>14. ASSUME NEW e \in Entities, NEW o \in Offsets, AddTo(e, o) PROVE TypeOK'
  <2>1. [type |-> "add", offset |-> o, entity |-> e, param |-> Null] \in MapOperation
    BY DEF MapOperation
  <2> QED BY <1>14, <2>1 DEF AddTo, TypeOK, clusterVars, loopVars
<1>15. ASSUME NEW e \in Entities, RemoveFrom(e) PROVE TypeOK'
  <2>1. entCell[e] \in Offsets
    BY <1>15 DEF RemoveFrom, TypeOK
  <2>2. [type |-> "remove", offset |-> entCell[e], entity |-> e, param |-> Null]
          \in MapOperation
    BY <2>1 DEF MapOperation
  <2> QED BY <1>15, <2>2 DEF RemoveFrom, TypeOK, clusterVars, loopVars
<1>16. CASE UNCHANGED vars
  BY <1>16 DEF vars, TypeOK, mapVars, clusterVars, loopVars
<1> QED
  BY <1>1, <1>2, <1>3, <1>4, <1>5, <1>6, <1>7, <1>8, <1>9, <1>10, <1>11, <1>12,
     <1>13, <1>14, <1>15, <1>16 DEF Next, ServerLoop, Callers, Halted

(* Every variable keeps its type, for any grid and any entities.            *)
THEOREM TypeCorrect == Spec => []TypeOK
<1>1. Init => TypeOK
  BY BoundsAssumption, EntitiesAssumption DEF Init, TypeOK, Phases
<1> QED BY <1>1, NextTypes, PTL DEF Spec

-----------------------------------------------------------------------------
(* The life of a cell.                                                      *)

LEMMA HaltCells ==
    ASSUME CellsInv, NEW why, Halt(why)
    PROVE  CellsInv'
  BY DEF Halt, mapVars, clusterVars, CellsInv, NoCellForgotten, FreedOnce, Destroying,
         NoFreedCellInCluster, StallFlagsAgree, StalledCellTicks, CooldownInv,
         PointersLive

(* Creating cells, with the touches that come with it, while the queue of   *)
(* operations frees the same cells as before.                               *)
LEMMA CreateCells ==
    ASSUME TypeOK, CellsInv,
           NEW new \in SUBSET (Offsets \ cells), NEW unstalled \in SUBSET registered,
           phase = "mapOps" \/ (phase = "update" /\ unstalled = {}),
           TouchAssert(TouchedByCreation(new)),
           Create(new, unstalled),
           DestroysIn(mapOps') = DestroysIn(mapOps), NoDoubleDestroyIn(mapOps'),
           UNCHANGED <<old, comp, phase>>, PointersLive'
    PROVE  CellsInv'
<1>1. /\ Destroying' = Destroying
      /\ phase # "clusterOps" /\ phase' = phase
  BY DEF Destroying
<1> DEFINE T == TouchedByCreation(new)
<1>2. /\ cells' = cells \cup new /\ current' = current \cup T
      /\ registered' = registered \ (T \cup unstalled)
      /\ stallCells' = stallCells \ (T \cup unstalled)
      /\ cooldown' = cooldown /\ comp' = comp
      /\ T \cap cooldown = {}
      /\ new \subseteq T /\ T \subseteq cells \cup new
  BY DEF Create, TouchAssert, TouchedByCreation
<1> HIDE DEF T
<1>3. NoCellForgotten'
  BY <1>1, <1>2 DEF CellsInv, NoCellForgotten, StalledCellTicks, CooldownInv
<1>4. FreedOnce'
  BY <1>1, <1>2 DEF CellsInv, FreedOnce, CooldownInv
<1>5. NoFreedCellInCluster'
  BY <1>1, <1>2 DEF CellsInv, NoFreedCellInCluster
<1>6. StallFlagsAgree'
  BY <1>1, <1>2 DEF CellsInv, StallFlagsAgree, CooldownInv
<1>7. StalledCellTicks'
  BY <1>1, <1>2 DEF CellsInv, StalledCellTicks
<1>8. CooldownInv'
  BY <1>1, <1>2 DEF CellsInv, CooldownInv
<1> QED BY <1>3, <1>4, <1>5, <1>6, <1>7, <1>8 DEF CellsInv

LEMMA TouchKeptCells ==
    ASSUME TypeOK, CellsInv, NEW kept \in SUBSET cells, phase = "clusterOps",
           TouchAssert(kept), TouchKept(kept), phase' = "stalls",
           UNCHANGED <<mapVars, old, comp>>
    PROVE  CellsInv'
<1> DEFINE newStall == old \ (current \cup kept \cup stallCells)
           stalled  == (stallCells \ kept) \cup newStall
           cooling  == cooldown \ newStall
           again    == LiveAround(stalled \ cooling) \ cooling
<1>1. /\ stallCells' = stalled
      /\ registered' = (registered \ kept) \cup newStall
      /\ cooldown' = cooling
      /\ current' = current \cup kept \cup again
      /\ cells' = cells /\ mapOps' = mapOps /\ comp' = comp
  BY DEF TouchKept, NewStall, TouchedAsStall, mapVars
<1>2. /\ Destroying' = Destroying /\ Destroying = {}
      /\ NoDoubleDestroyIn(mapOps)'
      /\ current = {} /\ comp = {}
      /\ cells \subseteq stallCells \cup old
      /\ old \subseteq cells /\ stallCells \subseteq cells
      /\ registered \cap cooldown = {} /\ registered \cup cooldown = stallCells
      /\ kept \cap cooldown = {}
  BY <1>1 DEF CellsInv, CooldownInv, NoCellForgotten, NoFreedCellInCluster, FreedOnce,
              StallFlagsAgree, TouchAssert, Destroying
<1>3. /\ stalled \subseteq cells /\ again \subseteq cells
      /\ stalled \ cooling \subseteq again /\ again \cap cooling = {}
  BY <1>2 DEF LiveAround
<1>4. cooling = cooldown
  BY <1>2
<1> HIDE DEF again
<1>5. NoCellForgotten'
  BY <1>1, <1>2, <1>3, <1>4 DEF NoCellForgotten
<1>6. FreedOnce'
  BY <1>1, <1>2 DEF FreedOnce
<1>7. NoFreedCellInCluster'
  BY <1>1, <1>2, <1>3 DEF NoFreedCellInCluster
<1>8. StallFlagsAgree'
  BY <1>1, <1>2, <1>4 DEF StallFlagsAgree
<1>9. StalledCellTicks'
  BY <1>1, <1>2, <1>3, <1>4 DEF StalledCellTicks
<1>10. CooldownInv'
  BY <1>1, <1>2, <1>3, <1>4 DEF CooldownInv
<1>11. PointersLive'
  BY DEF CellsInv, PointersLive, mapVars
<1> QED BY <1>5, <1>6, <1>7, <1>8, <1>9, <1>10, <1>11 DEF CellsInv

LEMMA CleanupCells ==
    ASSUME TypeOK, CellsInv, NEW elapsed \in 0..MaxElapsed, Cleanup(elapsed)
    PROVE  CellsInv'
<1>1. /\ phase = "serverOps" /\ phase' = "clusterOps"
      /\ mapOps' = mapOps /\ cells' = cells /\ stallCells' = stallCells
      /\ old' = current /\ current' = {} /\ comp' = {}
      /\ registered' = registered \ Expired(elapsed)
      /\ cooldown' = cooldown \cup Expired(elapsed)
      /\ Expired(elapsed) \subseteq registered
  BY DEF Cleanup, Running, mapVars, Expired
<1>2. Destroying' = Destroying /\ Destroying = {}
  BY <1>1 DEF Destroying, CellsInv, CooldownInv
<1>3. PointersLive'
  BY DEF CellsInv, PointersLive, mapVars, Cleanup
<1> QED
  BY <1>1, <1>2, <1>3 DEF CellsInv, NoCellForgotten, FreedOnce, NoFreedCellInCluster,
                          StallFlagsAgree, StalledCellTicks, CooldownInv

(* An operation is queued that frees no cell.                               *)
LEMMA PushCells ==
    ASSUME TypeOK, CellsInv, NEW op \in MapOperation, op.type # "destroy",
           mapOps' = Append(mapOps, op),
           UNCHANGED <<cells, members, entCell, dangling, clusterVars, loopVars>>
    PROVE  CellsInv'
<1>1. Destroying' = Destroying /\ NoDoubleDestroyIn(mapOps)'
  BY PushOperation DEF Destroying, TypeOK, CellsInv, FreedOnce
<1> QED
  BY <1>1
  DEF CellsInv, NoCellForgotten, FreedOnce, NoFreedCellInCluster, clusterVars, loopVars,
      StallFlagsAgree, StalledCellTicks, CooldownInv, PointersLive

LEMMA InitCells == Init => CellsInv
<1> SUFFICES ASSUME Init PROVE CellsInv
  OBVIOUS
<1>1. Destroying = {} /\ NoDoubleDestroyIn(mapOps)
  BY DEF Init, Destroying, DestroysIn, NoDoubleDestroyIn
<1> QED
  BY <1>1 DEF Init, CellsInv, NoCellForgotten, FreedOnce, NoFreedCellInCluster,
              StallFlagsAgree, StalledCellTicks, CooldownInv, PointersLive

LEMMA NextCells == TypeOK /\ TypeOK' /\ CellsInv /\ [Next]_vars => CellsInv'
<1> SUFFICES ASSUME TypeOK, TypeOK', CellsInv, [Next]_vars PROVE CellsInv'
  OBVIOUS
<1> USE DEF Running
<1>1. CASE AddEntity
  <2>1. CASE Halt("assert")
    BY <2>1, HaltCells
  <2>2. CASE ~Halt("assert")
    <3>1. PICK o \in Offsets, e \in Entities, from \in Offsets \cup {Null},
               new \in SUBSET (Offsets \ cells) :
              /\ o \in cells \cup new
              /\ TouchAssert(TouchedByCreation(new))
              /\ Create(new, CheckStall(from, o, TouchedByCreation(new)))
              /\ mapOps # << >> /\ Head(mapOps).type = "add"
              /\ mapOps' = Tail(mapOps)
              /\ entCell' = [entCell EXCEPT ![e] = o]
              /\ dangling' = dangling \ {e}
              /\ UNCHANGED <<old, comp, phase>>
      BY <1>1, <2>2, AddEntityStep
    <3>2. CheckStall(from, o, TouchedByCreation(new)) \in SUBSET registered
      BY DEF CheckStall
    <3>3. DestroysIn(mapOps') = DestroysIn(mapOps) /\ NoDoubleDestroyIn(mapOps')
      BY <3>1, PopOperation DEF TypeOK, CellsInv, FreedOnce
    <3>4. PointersLive'
      BY <3>1 DEF CellsInv, PointersLive, Create, TypeOK
    <3>5. phase = "mapOps"
      BY <1>1 DEF AddEntity
    <3> DEFINE unstalled == CheckStall(from, o, TouchedByCreation(new))
    <3>6. unstalled \in SUBSET registered /\ Create(new, unstalled)
      BY <3>1, <3>2
    <3>7. /\ TouchAssert(TouchedByCreation(new))
          /\ UNCHANGED <<old, comp, phase>>
          /\ phase = "mapOps" \/ (phase = "update" /\ unstalled = {})
      BY <3>1, <3>5
    <3> HIDE DEF unstalled
    <3> QED BY <3>3, <3>4, <3>6, <3>7, CreateCells
  <2> QED BY <2>1, <2>2
<1>2. CASE RemoveEntity
  <2>1. CASE Halt("assert")
    BY <2>1, HaltCells
  <2>2. CASE ~Halt("assert")
    <3>1. PICK e \in Entities, new \in SUBSET (Offsets \ cells) :
              /\ TouchAssert(TouchedByCreation(new))
              /\ Create(new, {})
              /\ mapOps # << >> /\ Head(mapOps).type = "remove"
              /\ mapOps' = Tail(mapOps)
              /\ entCell' = [entCell EXCEPT ![e] = Null]
              /\ dangling' = dangling \ {e}
              /\ UNCHANGED <<old, comp, phase>>
      BY <1>2, <2>2, RemoveEntityStep
    <3>2. DestroysIn(mapOps') = DestroysIn(mapOps) /\ NoDoubleDestroyIn(mapOps')
      BY <3>1, PopOperation DEF TypeOK, CellsInv, FreedOnce
    <3>3. PointersLive'
      BY <3>1 DEF CellsInv, PointersLive, Create, TypeOK
    <3>4. phase = "mapOps"
      BY <1>2 DEF RemoveEntity
    <3> QED BY <3>1, <3>2, <3>3, <3>4, CreateCells
  <2> QED BY <2>1, <2>2
<1>3. CASE RemoveFromNowhere
  <2>1. /\ Destroying' = Destroying /\ NoDoubleDestroyIn(mapOps)'
        /\ UNCHANGED <<cells, entCell, dangling, clusterVars, phase>>
    BY <1>3, PopOperation
    DEF RemoveFromNowhere, Destroying, TypeOK, CellsInv, FreedOnce, loopVars
  <2> QED
    BY <2>1 DEF CellsInv, NoCellForgotten, FreedOnce, NoFreedCellInCluster,
                StallFlagsAgree, StalledCellTicks, CooldownInv, PointersLive, clusterVars
<1>4. CASE Destroy
  <2> DEFINE o == Head(mapOps).offset
  <2>1. /\ Destroying' = Destroying \ {o} /\ NoDoubleDestroyIn(mapOps)'
        /\ o \in Destroying
        /\ phase = "mapOps"
    BY <1>4, PopOperation DEF Destroy, Destroying, TypeOK, CellsInv, FreedOnce
  <2>2. /\ cells' = cells \ {o}
        /\ registered' = registered \ {o} /\ cooldown' = cooldown \ {o}
        /\ dangling' = dangling \cup {e \in Entities : entCell[e] = o}
        /\ UNCHANGED <<entCell, current, old, comp, stallCells, phase>>
    BY <1>4 DEF Destroy, loopVars
  <2> HIDE DEF o
  <2>3. o \notin current /\ o \notin stallCells /\ o \in cooldown
    BY <2>1 DEF CellsInv, CooldownInv, FreedOnce
  <2>4. PointersLive'
    BY <2>2 DEF CellsInv, PointersLive
  <2> QED
    BY <2>1, <2>2, <2>3, <2>4
    DEF CellsInv, NoCellForgotten, FreedOnce, NoFreedCellInCluster,
        StallFlagsAgree, StalledCellTicks, CooldownInv
<1>5. CASE BeginUpdate
  <2>1. Destroying' = Destroying /\ Destroying = {} /\ NoDoubleDestroyIn(mapOps)'
    BY <1>5 DEF BeginUpdate, Destroying, DestroysIn, NoDoubleDestroyIn, mapVars
  <2> QED
    BY <1>5, <2>1
    DEF BeginUpdate, mapVars, CellsInv, NoCellForgotten, FreedOnce, NoFreedCellInCluster,
        StallFlagsAgree, StalledCellTicks, CooldownInv, PointersLive
<1>6. ASSUME NEW e \in Entities, NEW to \in Offsets, OnMove(e, to) PROVE CellsInv'
  <2>1. CASE Halt("assert") \/ Halt("null")
    BY <2>1, HaltCells
  <2>2. ASSUME ~Halt("assert"), ~Halt("null") PROVE CellsInv'
    <3>0. PICK op1 \in MapOperation, op2 \in MapOperation : MovesBy(e, to, op1, op2)
      BY <1>6, <2>2, OnMoveStep
    <3>1. /\ op1.type = "remove" /\ op1.entity = e /\ op1.offset = entCell[e]
          /\ op2.type = "add" /\ op2.entity = e
          /\ TouchAssert(TouchedByCreation({to} \ cells))
          /\ Create({to} \ cells, {})
          /\ mapOps' = Append(Append(mapOps, op1), op2)
          /\ todo' = todo \ {e}
          /\ UNCHANGED <<members, entCell, dangling, old, comp, remaining,
                         keepers, clusterOps, phase, fault>>
      BY <3>0 DEF MovesBy
    <3>2. /\ Append(mapOps, op1) \in Seq(MapOperation)
          /\ DestroysIn(Append(mapOps, op1)) = DestroysIn(mapOps)
          /\ NoDoubleDestroyIn(Append(mapOps, op1))
      BY <3>1, PushOperation DEF TypeOK, CellsInv, FreedOnce
    <3>3. DestroysIn(mapOps') = DestroysIn(mapOps) /\ NoDoubleDestroyIn(mapOps')
      BY <3>1, <3>2, PushOperation
    <3>4. PointersLive'
      BY <3>1 DEF CellsInv, PointersLive, Create
    <3>5. phase = "update"
      BY <1>6 DEF OnMove
    <3> QED BY <3>1, <3>3, <3>4, <3>5, CreateCells
  <2> QED BY <2>1, <2>2
<1>7. CASE EndUpdate
  BY <1>7
  DEF EndUpdate, mapVars, clusterVars, Destroying, CellsInv, NoCellForgotten, FreedOnce,
      NoFreedCellInCluster, StallFlagsAgree, StalledCellTicks, CooldownInv, PointersLive
<1>8. ASSUME NEW elapsed \in 0..MaxElapsed, Cleanup(elapsed) PROVE CellsInv'
  BY <1>8, CleanupCells
<1>9. CASE Keep
  BY <1>9
  DEF Keep, mapVars, loopVars, Destroying, CellsInv, NoCellForgotten, FreedOnce,
      NoFreedCellInCluster, StallFlagsAgree, StalledCellTicks, CooldownInv, PointersLive
<1>10. CASE Unkeep
  <2>1. CASE Halt("erase")
    BY <2>1, HaltCells
  <2>2. CASE ~Halt("erase")
    BY <1>10, <2>2
    DEF Unkeep, mapVars, loopVars, Destroying, CellsInv, NoCellForgotten, FreedOnce,
        NoFreedCellInCluster, StallFlagsAgree, StalledCellTicks, CooldownInv, PointersLive
  <2> QED BY <2>1, <2>2
<1>11. CASE TouchKeepers
  <2>1. ASSUME NEW why \in {"null", "freed", "assert"}, Halt(why) PROVE CellsInv'
    BY <2>1, HaltCells
  <2>2. ASSUME NEW kept \in SUBSET Offsets, PointersLive => kept \subseteq cells,
               TouchAssert(kept), TouchKept(kept),
               phase = "clusterOps", phase' = "stalls", UNCHANGED <<mapVars, old, comp>>
        PROVE  CellsInv'
    BY <2>2, TouchKeptCells DEF CellsInv
  <2> QED BY <1>11, <2>1, <2>2, TouchKeepersStep
<1>12. ASSUME NEW o \in Offsets, DestroyCell(o) PROVE CellsInv'
  <2> DEFINE op == [type |-> "destroy", offset |-> o, entity |-> Null, param |-> o]
  <2>1. op \in MapOperation /\ op.type = "destroy" /\ op.offset = o
    BY DEF MapOperation
  <2>2. /\ phase = "stalls" /\ o \in stallCells /\ o \in cooldown
        /\ mapOps' = Append(mapOps, op)
        /\ stallCells' = stallCells \ {o}
        /\ UNCHANGED <<cells, entCell, dangling, current, old, comp, registered, cooldown,
                       phase>>
    BY <1>12 DEF DestroyCell, loopVars
  <2> HIDE DEF op
  <2>3. o \notin Destroying
    BY <2>2 DEF CellsInv, FreedOnce
  <2>4. Destroying' = Destroying \cup {o} /\ NoDoubleDestroyIn(mapOps)'
    BY <2>1, <2>2, <2>3, PushOperation DEF Destroying, TypeOK, CellsInv, FreedOnce
  <2> QED
    BY <2>2, <2>4
    DEF CellsInv, NoCellForgotten, FreedOnce, NoFreedCellInCluster,
        StallFlagsAgree, StalledCellTicks, CooldownInv, PointersLive
<1>13. CASE EndTick
  BY <1>13
  DEF EndTick, mapVars, clusterVars, Destroying, CellsInv, NoCellForgotten, FreedOnce,
      NoFreedCellInCluster, StallFlagsAgree, StalledCellTicks, CooldownInv, PointersLive
<1>14. ASSUME NEW e \in Entities, NEW o \in Offsets, AddTo(e, o) PROVE CellsInv'
  <2>1. [type |-> "add", offset |-> o, entity |-> e, param |-> Null] \in MapOperation
    BY DEF MapOperation
  <2> QED BY <1>14, <2>1, PushCells DEF AddTo
<1>15. ASSUME NEW e \in Entities, RemoveFrom(e) PROVE CellsInv'
  <2>1. [type |-> "remove", offset |-> entCell[e], entity |-> e, param |-> Null]
          \in MapOperation
    BY <1>15 DEF MapOperation, RemoveFrom, TypeOK
  <2> QED BY <1>15, <2>1, PushCells DEF RemoveFrom
<1>16. CASE UNCHANGED vars
  BY <1>16
  DEF vars, mapVars, clusterVars, loopVars, Destroying, CellsInv, NoCellForgotten, FreedOnce,
      NoFreedCellInCluster, StallFlagsAgree, StalledCellTicks, CooldownInv, PointersLive
<1> QED
  BY <1>1, <1>2, <1>3, <1>4, <1>5, <1>6, <1>7, <1>8, <1>9, <1>10, <1>11, <1>12, <1>13,
     <1>14, <1>15, <1>16 DEF Next, ServerLoop, Callers, Halted

LEMMA CellsInvariant == Spec => []CellsInv
  BY InitCells, NextCells, TypeCorrect, PTL DEF Spec

(* No allocated cell is lost between the three sets of the cluster and the  *)
(* queue of cells to free: Map::_cells leaks nothing.                       *)
THEOREM CellsNotForgotten == Spec => []NoCellForgotten
<1>1. CellsInv => NoCellForgotten
  BY DEF CellsInv
<1> QED BY <1>1, CellsInvariant, PTL

(* Map::destroyCell is never called twice for one cell.                     *)
THEOREM CellsFreedOnce == Spec => []FreedOnce
<1>1. CellsInv => FreedOnce
  BY DEF CellsInv
<1> QED BY <1>1, CellsInvariant, PTL

(* The cluster follows no pointer to a freed cell.                          *)
THEOREM ClusterCellsLive == Spec => []NoFreedCellInCluster
<1>1. CellsInv => NoFreedCellInCluster
  BY DEF CellsInv
<1> QED BY <1>1, CellsInvariant, PTL

(* The erase calls on _stallCells always find their cell.                   *)
THEOREM StallFlagsSound == Spec => []StallFlagsAgree
<1>1. CellsInv => StallFlagsAgree
  BY DEF CellsInv
<1> QED BY <1>1, CellsInvariant, PTL

(* The timer of a stalled cell is never forgotten.                          *)
THEOREM StallTimersRun == Spec => []StalledCellTicks
<1>1. CellsInv => StalledCellTicks
  BY DEF CellsInv
<1> QED BY <1>1, CellsInvariant, PTL

-----------------------------------------------------------------------------
(* The stall timer.                                                         *)

LEMMA CreateTimer ==
    ASSUME TypeOK, CellsInv, TimerInv, NEW new \in SUBSET (Offsets \ cells), NEW unstalled,
           Create(new, unstalled), remaining' = remaining
    PROVE  TimerInv'
<1>1. registered \cup cooldown \subseteq cells
  BY DEF CellsInv, StallFlagsAgree, NoFreedCellInCluster, FreedOnce
<1>2. /\ registered' \subseteq registered /\ cooldown' = cooldown
      /\ \A o \in registered \cup cooldown : unkept'[o] = unkept[o]
  BY <1>1 DEF Create, TypeOK
<1> QED BY <1>2 DEF TimerInv

LEMMA TouchKeptTimer ==
    ASSUME TypeOK, TimerInv, NEW kept \in SUBSET Offsets, TouchAssert(kept), TouchKept(kept)
    PROVE  TimerInv'
<1> DEFINE newStall == old \ (current \cup kept \cup stallCells)
<1>1. /\ registered' = (registered \ kept) \cup newStall
      /\ cooldown' = cooldown \ newStall
      /\ remaining' = [o \in Offsets |-> IF o \in newStall THEN StallTime ELSE remaining[o]]
      /\ unkept' = [o \in Offsets |-> IF o \in kept THEN 0 ELSE unkept[o]]
      /\ newStall \cap kept = {} /\ newStall \subseteq Offsets
      /\ kept \cap cooldown = {}
  BY DEF TouchKept, NewStall, TouchAssert, TypeOK
<1> HIDE DEF newStall
<1>2. ASSUME NEW o \in registered' PROVE unkept'[o] + remaining'[o] >= StallTime
  <2>1. o \in Offsets /\ unkept[o] \in 0..StallTime /\ remaining[o] \in 0..StallTime
    BY <1>1 DEF TypeOK
  <2>2. CASE o \in newStall
    BY <1>1, <2>1, <2>2, BoundsAssumption
  <2>3. CASE o \in registered \ kept /\ o \notin newStall
    BY <1>1, <2>1, <2>3 DEF TimerInv
  <2> QED BY <1>1, <2>2, <2>3
<1>3. ASSUME NEW o \in cooldown' PROVE unkept'[o] = StallTime
  BY <1>1 DEF TimerInv, TypeOK
<1> QED BY <1>2, <1>3 DEF TimerInv

LEMMA CleanupTimer ==
    ASSUME TypeOK, TimerInv, NEW elapsed \in 0..MaxElapsed, Cleanup(elapsed),
           StalledCellTicks
    PROVE  TimerInv'
<1>1. /\ registered' = registered \ Expired(elapsed)
      /\ cooldown' = cooldown \cup Expired(elapsed)
      /\ remaining' = [o \in Offsets |->
                          IF o \in (comp \cap registered) \ Expired(elapsed)
                          THEN remaining[o] - elapsed ELSE remaining[o]]
      /\ unkept' = [o \in Offsets |-> IF unkept[o] + elapsed > StallTime
                                      THEN StallTime ELSE unkept[o] + elapsed]
  BY DEF Cleanup
<1>2. ASSUME NEW o \in Offsets
      PROVE  /\ unkept[o] \in 0..StallTime /\ remaining[o] \in 0..StallTime
             /\ elapsed \in Nat /\ StallTime \in Nat
  BY BoundsAssumption DEF TypeOK
<1>3. ASSUME NEW o \in registered' PROVE unkept'[o] + remaining'[o] >= StallTime
  <2>1. o \in Offsets /\ o \in registered /\ o \notin Expired(elapsed)
    BY <1>1 DEF TypeOK
  <2>2. unkept[o] + remaining[o] >= StallTime
    BY <2>1 DEF TimerInv
  <2>3. remaining'[o] = remaining[o] - elapsed \/ remaining'[o] = remaining[o]
    BY <1>1, <2>1
  <2>4. unkept'[o] = StallTime \/ unkept'[o] = unkept[o] + elapsed
    BY <1>1, <2>1
  <2>5. elapsed < remaining[o] \/ remaining'[o] = remaining[o]
    BY <1>1, <1>2, <2>1 DEF Expired
  <2> QED BY <1>1, <1>2, <2>1, <2>2, <2>3, <2>4, <2>5
<1>4. ASSUME NEW o \in cooldown' PROVE unkept'[o] = StallTime
  <2>1. o \in Offsets
    BY <1>1 DEF TypeOK, Expired
  <2>2. unkept[o] + elapsed >= StallTime
    BY <1>1, <1>2, <2>1 DEF TimerInv, Expired
  <2> QED BY <1>1, <1>2, <2>1, <2>2
<1> QED BY <1>3, <1>4 DEF TimerInv

LEMMA NextTimer == TypeOK /\ CellsInv /\ TimerInv /\ [Next]_vars => TimerInv'
<1> SUFFICES ASSUME TypeOK, CellsInv, TimerInv, [Next]_vars PROVE TimerInv'
  OBVIOUS
<1>1. ASSUME NEW why, Halt(why) PROVE TimerInv'
  BY <1>1 DEF Halt, clusterVars, TimerInv
<1>2. ASSUME NEW new \in SUBSET (Offsets \ cells), NEW unstalled,
             Create(new, unstalled), remaining' = remaining
      PROVE  TimerInv'
  BY <1>2, CreateTimer
<1>3. CASE AddEntity
  BY <1>1, <1>2, <1>3, AddEntityStep
<1>4. CASE RemoveEntity
  BY <1>1, <1>2, <1>4, RemoveEntityStep
<1>5. ASSUME NEW e \in Entities, NEW to \in Offsets, OnMove(e, to) PROVE TimerInv'
  <2>1. {to} \ cells \in SUBSET (Offsets \ cells)
    OBVIOUS
  <2> QED BY <1>1, <1>2, <1>5, <2>1, OnMoveStep DEF MovesBy
<1>6. CASE Destroy
  BY <1>6 DEF Destroy, loopVars, TimerInv
<1>7. ASSUME NEW elapsed \in 0..MaxElapsed, Cleanup(elapsed) PROVE TimerInv'
  BY <1>7, CleanupTimer DEF CellsInv
<1>8. CASE TouchKeepers
  BY <1>1, <1>8, TouchKeepersStep, TouchKeptTimer
<1>9. CASE UNCHANGED <<registered, cooldown, remaining, unkept>>
  BY <1>9 DEF TimerInv
<1>10. RemoveFromNowhere \/ BeginUpdate \/ EndUpdate \/ Keep \/ EndTick
         \/ (\E o \in Offsets : DestroyCell(o)) \/ Callers \/ Halted \/ UNCHANGED vars
         => UNCHANGED <<registered, cooldown, remaining, unkept>>
  BY DEF RemoveFromNowhere, BeginUpdate, EndUpdate, Keep, EndTick, DestroyCell, Callers,
         AddTo, RemoveFrom, Halted, vars, mapVars, clusterVars, loopVars
<1>11. Unkeep => Halt("erase") \/ UNCHANGED <<registered, cooldown, remaining, unkept>>
  BY DEF Unkeep, loopVars
<1> QED
  BY <1>1, <1>3, <1>4, <1>5, <1>6, <1>7, <1>8, <1>9, <1>10, <1>11 DEF Next, ServerLoop

(* A cell that is to be freed has been out of reach of every keeper for the *)
(* whole stall time.                                                        *)
THEOREM CellsFreedLate == Spec => []FreedOnlyAfterStallTime
<1>1. Init => TimerInv
  BY DEF Init, TimerInv
<1>2. CellsInv /\ TimerInv => FreedOnlyAfterStallTime
  BY DEF CellsInv, CooldownInv, TimerInv, FreedOnlyAfterStallTime
<1> QED BY <1>1, <1>2, NextTimer, TypeCorrect, CellsInvariant, PTL DEF Spec

-----------------------------------------------------------------------------
(* The map implements CellLifetime.                                         *)

(* The refinement mapping: what has become of a cell, and how long it has   *)
(* been out of reach.                                                       *)
LifeOf == [o \in Offsets |-> IF o \in Destroying THEN "condemned"
                             ELSE IF o \in cells THEN "live" ELSE "absent"]

IdleOf == [o \in Offsets |-> IF o \in cells THEN unkept[o] ELSE 0]

(* A step that changes neither what is allocated, nor what is to be freed,  *)
(* nor the time out of reach, stutters.                                     *)
LEMMA LifeStutters ==
    ASSUME UNCHANGED <<cells, unkept>>, Destroying' = Destroying
    PROVE  UNCHANGED Life!lifeVars
  BY DEF Life!lifeVars

(* Map::getOrCreate creates cells and touches nothing else.                 *)
LEMMA CreateIsCreateCells ==
    ASSUME TypeOK, CellsInv, NEW new \in SUBSET (Offsets \ cells), NEW unstalled,
           Create(new, unstalled), Destroying' = Destroying
    PROVE  Life!CreateCells(new)
<1>1. Destroying \subseteq cells
  BY DEF CellsInv, FreedOnce
<1>2. /\ cells' = cells \cup new
      /\ unkept' = [o \in Offsets |-> IF o \in new THEN 0 ELSE unkept[o]]
  BY DEF Create
<1>3. \A o \in new : LifeOf[o] = "absent"
  BY <1>1 DEF LifeOf
<1>4. LifeOf' = [o \in Offsets |-> IF o \in new THEN "live" ELSE LifeOf[o]]
  BY <1>1, <1>2 DEF LifeOf
<1>5. IdleOf' = IdleOf
  BY <1>2 DEF IdleOf
<1> QED BY <1>3, <1>4, <1>5 DEF Life!CreateCells, Life!Cells, LifeOf, IdleOf

(* Cluster::cleanup lets time pass.                                         *)
LEMMA CleanupIsLetTimePass ==
    ASSUME TypeOK, CellsInv, NEW elapsed \in 0..MaxElapsed, Cleanup(elapsed)
    PROVE  Life!LetTimePass(elapsed)
<1>1. /\ cells' = cells /\ Destroying' = Destroying
      /\ unkept' = [o \in Offsets |-> IF unkept[o] + elapsed > StallTime
                                      THEN StallTime ELSE unkept[o] + elapsed]
  BY DEF Cleanup, mapVars, Destroying
<1>2. LifeOf' = LifeOf
  BY <1>1 DEF LifeOf
<1>3. \A o \in Offsets : LifeOf[o] = "absent" <=> o \notin cells
  BY DEF LifeOf, CellsInv, FreedOnce
<1>4. IdleOf' = [o \in Offsets |->
                    IF LifeOf[o] = "absent" THEN 0
                    ELSE IF IdleOf[o] + elapsed > StallTime THEN StallTime
                    ELSE IdleOf[o] + elapsed]
  BY <1>1, <1>3 DEF IdleOf
<1> QED BY <1>2, <1>4 DEF Life!LetTimePass, LifeOf, IdleOf

(* The cells a keeper reaches are not condemned: the assertion of           *)
(* Cluster::touch stands between them.                                      *)
LEMMA TouchKeptIsKeepCells ==
    ASSUME TypeOK, CellsInv, NEW kept \in SUBSET cells, TouchAssert(kept), TouchKept(kept),
           UNCHANGED mapVars
    PROVE  Life!KeepCells(kept)
<1>1. /\ cells' = cells /\ Destroying' = Destroying
      /\ unkept' = [o \in Offsets |-> IF o \in kept THEN 0 ELSE unkept[o]]
  BY DEF TouchKept, mapVars, Destroying
<1>2. LifeOf' = LifeOf
  BY <1>1 DEF LifeOf
<1>3. \A o \in kept : o \in Offsets /\ LifeOf[o] = "live"
  BY DEF LifeOf, TouchAssert, CellsInv, CooldownInv, TypeOK
<1>4. IdleOf' = [o \in Offsets |-> IF o \in kept THEN 0 ELSE IdleOf[o]]
  BY <1>1 DEF IdleOf
<1> QED BY <1>2, <1>3, <1>4 DEF Life!KeepCells, Life!Cells, LifeOf, IdleOf

(* Map::destroyCell condemns a cell whose time is up.                       *)
LEMMA DestroyCellIsCondemn ==
    ASSUME TypeOK, CellsInv, TimerInv, NEW o \in Offsets, DestroyCell(o)
    PROVE  Life!Condemn(o)
<1> DEFINE op == [type |-> "destroy", offset |-> o, entity |-> Null, param |-> o]
<1>1. op \in MapOperation /\ op.type = "destroy" /\ op.offset = o
  BY DEF MapOperation
<1>2. /\ o \in stallCells /\ o \in cooldown
      /\ mapOps' = Append(mapOps, op)
      /\ UNCHANGED <<cells, unkept>>
  BY DEF DestroyCell, loopVars
<1> HIDE DEF op
<1>3. o \in cells /\ o \notin Destroying /\ unkept[o] = StallTime
  BY <1>2 DEF CellsInv, FreedOnce, NoFreedCellInCluster, TimerInv
<1>4. Destroying' = Destroying \cup {o}
  BY <1>1, <1>2, PushOperation DEF Destroying, TypeOK
<1>5. LifeOf[o] = "live" /\ IdleOf[o] = StallTime
  BY <1>3 DEF LifeOf, IdleOf
<1>6. LifeOf' = [LifeOf EXCEPT ![o] = "condemned"] /\ IdleOf' = IdleOf
  BY <1>2, <1>4 DEF LifeOf, IdleOf
<1> QED BY <1>5, <1>6 DEF Life!Condemn, LifeOf, IdleOf

(* The DESTROY operation frees a condemned cell.                            *)
LEMMA DestroyIsFree ==
    ASSUME TypeOK, CellsInv, Destroy
    PROVE  Life!LifeNext
<1>1. Head(mapOps).offset \in Destroying
  BY PopOperation DEF Destroy, Destroying, TypeOK
<1>2. PICK o \in Offsets : o = Head(mapOps).offset
  BY <1>1 DEF CellsInv, FreedOnce, TypeOK
<1>3. Destroying' = Destroying \ {o} /\ o \in Destroying
  BY <1>1, <1>2, PopOperation DEF Destroy, Destroying, TypeOK, CellsInv, FreedOnce
<1>4. cells' = cells \ {o} /\ unkept' = unkept
  BY <1>2 DEF Destroy, loopVars
<1>5. LifeOf[o] = "condemned"
  BY <1>3 DEF LifeOf
<1>6. LifeOf' = [LifeOf EXCEPT ![o] = "absent"] /\ IdleOf' = [IdleOf EXCEPT ![o] = 0]
  BY <1>3, <1>4 DEF LifeOf, IdleOf
<1>7. Life!Free(o)
  BY <1>5, <1>6 DEF Life!Free, LifeOf, IdleOf
<1> QED BY <1>7 DEF Life!LifeNext

LEMMA NextImplementsLife ==
    TypeOK /\ CellsInv /\ TimerInv /\ [Next]_vars => [Life!LifeNext]_Life!lifeVars
<1> SUFFICES ASSUME TypeOK, CellsInv, TimerInv, [Next]_vars
             PROVE  Life!LifeNext \/ UNCHANGED Life!lifeVars
  OBVIOUS
<1>1. ASSUME NEW why, Halt(why) PROVE UNCHANGED Life!lifeVars
  BY <1>1, LifeStutters DEF Halt, mapVars, Destroying
<1>2. ASSUME NEW new \in SUBSET (Offsets \ cells), NEW unstalled, Create(new, unstalled),
             Destroying' = Destroying
      PROVE  Life!LifeNext
  <2>1. new \in SUBSET Offsets /\ Life!CreateCells(new)
    BY <1>2, CreateIsCreateCells
  <2> QED BY <2>1 DEF Life!LifeNext
<1>3. CASE AddEntity
  <2>1. mapOps # << >> /\ Head(mapOps).type = "add" /\ mapOps' = Tail(mapOps)
          => Destroying' = Destroying
    BY PopOperation DEF Destroying, TypeOK
  <2> QED BY <1>1, <1>2, <1>3, <2>1, AddEntityStep
<1>4. CASE RemoveEntity
  <2>1. mapOps # << >> /\ Head(mapOps).type = "remove" /\ mapOps' = Tail(mapOps)
          => Destroying' = Destroying
    BY PopOperation DEF Destroying, TypeOK
  <2> QED BY <1>1, <1>2, <1>4, <2>1, RemoveEntityStep
<1>5. CASE RemoveFromNowhere
  <2>1. Destroying' = Destroying
    BY <1>5, PopOperation DEF RemoveFromNowhere, Destroying, TypeOK
  <2> QED BY <1>5, <2>1, LifeStutters DEF RemoveFromNowhere, loopVars
<1>6. CASE Destroy
  BY <1>6, DestroyIsFree
<1>7. ASSUME NEW e \in Entities, NEW to \in Offsets, OnMove(e, to)
      PROVE  Life!LifeNext \/ UNCHANGED Life!lifeVars
  <2>1. CASE Halt("assert") \/ Halt("null")
    BY <1>1, <2>1
  <2>2. ASSUME ~Halt("assert"), ~Halt("null") PROVE Life!LifeNext \/ UNCHANGED Life!lifeVars
    <3>0. PICK op1 \in MapOperation, op2 \in MapOperation : MovesBy(e, to, op1, op2)
      BY <1>7, <2>2, OnMoveStep
    <3>1. /\ op1.type = "remove" /\ op1.entity = e /\ op1.offset = entCell[e]
          /\ op2.type = "add" /\ op2.entity = e
          /\ TouchAssert(TouchedByCreation({to} \ cells))
          /\ Create({to} \ cells, {})
          /\ mapOps' = Append(Append(mapOps, op1), op2)
          /\ todo' = todo \ {e}
          /\ UNCHANGED <<members, entCell, dangling, old, comp, remaining,
                         keepers, clusterOps, phase, fault>>
      BY <3>0 DEF MovesBy
    <3>2. /\ Append(mapOps, op1) \in Seq(MapOperation)
          /\ DestroysIn(Append(mapOps, op1)) = DestroysIn(mapOps)
      BY <3>1, PushOperation DEF TypeOK
    <3>3. Destroying' = Destroying
      BY <3>1, <3>2, PushOperation DEF Destroying
    <3> QED BY <1>2, <3>1, <3>3
  <2> QED BY <2>1, <2>2
<1>8. ASSUME NEW elapsed \in 0..MaxElapsed, Cleanup(elapsed) PROVE Life!LifeNext
  BY <1>8, CleanupIsLetTimePass DEF Life!LifeNext
<1>9. CASE Unkeep
  <2>1. Halt("erase") \/ (UNCHANGED <<cells, unkept>> /\ Destroying' = Destroying)
    BY <1>9 DEF Unkeep, mapVars, loopVars, Destroying
  <2> QED BY <1>1, <2>1, LifeStutters
<1>10. CASE TouchKeepers
  <2>1. ASSUME NEW kept \in SUBSET Offsets, PointersLive => kept \subseteq cells,
               TouchAssert(kept), TouchKept(kept), UNCHANGED mapVars
        PROVE  Life!LifeNext
    <3>1. kept \in SUBSET cells
      BY <2>1 DEF CellsInv
    <3> QED BY <2>1, <3>1, TouchKeptIsKeepCells DEF Life!LifeNext
  <2> QED BY <1>1, <1>10, <2>1, TouchKeepersStep
<1>11. ASSUME NEW o \in Offsets, DestroyCell(o) PROVE Life!LifeNext
  BY <1>11, DestroyCellIsCondemn DEF Life!LifeNext
<1>12. ASSUME NEW e \in Entities, NEW o \in Offsets, AddTo(e, o)
       PROVE  UNCHANGED Life!lifeVars
  <2>1. [type |-> "add", offset |-> o, entity |-> e, param |-> Null] \in MapOperation
    BY DEF MapOperation
  <2>2. Destroying' = Destroying
    BY <1>12, <2>1, PushOperation DEF AddTo, Destroying, TypeOK
  <2> QED BY <1>12, <2>2, LifeStutters DEF AddTo, loopVars
<1>13. ASSUME NEW e \in Entities, RemoveFrom(e) PROVE UNCHANGED Life!lifeVars
  <2>1. [type |-> "remove", offset |-> entCell[e], entity |-> e, param |-> Null]
          \in MapOperation
    BY <1>13 DEF MapOperation, RemoveFrom, TypeOK
  <2>2. Destroying' = Destroying
    BY <1>13, <2>1, PushOperation DEF RemoveFrom, Destroying, TypeOK
  <2> QED BY <1>13, <2>2, LifeStutters DEF RemoveFrom, loopVars
<1>14. BeginUpdate \/ EndUpdate \/ Keep \/ EndTick \/ Halted \/ UNCHANGED vars
         => UNCHANGED <<cells, unkept, mapOps>>
  BY DEF BeginUpdate, EndUpdate, Keep, EndTick, Halted, vars, mapVars, loopVars
<1>15. UNCHANGED <<cells, unkept, mapOps>> => UNCHANGED Life!lifeVars
  BY LifeStutters DEF Destroying
<1> QED
  BY <1>3, <1>4, <1>5, <1>6, <1>7, <1>8, <1>9, <1>10, <1>11, <1>12, <1>13, <1>14, <1>15
  DEF Next, ServerLoop, Callers

(* The map and its cluster implement CellLifetime: every cell is created,   *)
(* kept, condemned after the whole stall time and freed in this order,      *)
(* whatever entities, workers and callers do in between.                    *)
THEOREM MapImplementsLifetime == Spec => ImplementsCellLifetime
<1>1. Init => Life!LifeInit
  BY DEF Init, Life!LifeInit, Destroying, DestroysIn
<1>2. Init => TimerInv
  BY DEF Init, TimerInv
<1>3. Spec => []TimerInv
  BY <1>2, NextTimer, TypeCorrect, CellsInvariant, PTL DEF Spec
<1> QED
  BY <1>1, <1>3, NextImplementsLife, TypeCorrect, CellsInvariant, PTL
  DEF Spec, ImplementsCellLifetime, Life!LifeSpec

-----------------------------------------------------------------------------
(* Entities: where they are and what is queued for them.                    *)

(* What a queue of operations says of its entities, with their cells ent    *)
(* and the dangling ones dang: an entity has at most a departure and then   *)
(* an arrival queued, and then its cell is allocated and stays so until the *)
(* departure; it departs from the cell it is in, and arrives only when it   *)
(* is in none.                                                              *)
QueueAgrees(q, ent, dang) ==
    /\ \A i, j \in 1..Len(q) :
          i < j /\ q[i].entity = q[j].entity /\ q[i].entity # Null =>
             /\ q[i].type = "remove" /\ q[j].type = "add"
             /\ q[i].entity \notin dang
             /\ \A k \in 1..(i - 1) : ~(q[k].type = "destroy" /\ q[k].offset = q[i].offset)
    /\ \A i \in 1..Len(q) : q[i].type = "remove" => ent[q[i].entity] = q[i].offset
    /\ \A j \in 1..Len(q) : q[j].type = "add" /\ ent[q[j].entity] # Null =>
          \E i \in 1..(j - 1) : q[i].entity = q[j].entity

(* The inductive strengthening of MembershipAgrees.  Entities that are      *)
(* being updated are in an allocated cell and nothing is queued for them.   *)
EntitiesInv ==
    /\ MembershipAgrees
    /\ QueueAgrees(mapOps, entCell, dangling)
    /\ \A e \in dangling : entCell[e] # Null
    /\ \A e \in todo : /\ phase = "update"
                       /\ entCell[e] # Null /\ e \notin dangling /\ ~Queued(e)

(* The queue of the cluster is large enough for a departure and an arrival  *)
(* of every updater in one tick.                                            *)
RoomForUpdaters == IsFiniteSet(Updaters) /\ 2 * Cardinality(Updaters) <= ClusterCap

Awaits(q, type, e) == \E i \in 1..Len(q) : q[i].type = type /\ q[i].entity = e

(* What has been counted in keep and what the queue q holds for an updater  *)
(* add up to where it is, which is ent.                                     *)
CountsAgree(q, ent, keep) ==
    /\ \A i, j \in 1..Len(q) :
          i < j /\ q[i].entity = q[j].entity => q[i].type = "unkeep" /\ q[j].type = "keep"
    /\ \A e \in Updaters :
          /\ Awaits(q, "keep", e) => ent[e] # Null
          /\ Awaits(q, "unkeep", e) /\ ~Awaits(q, "keep", e) => ent[e] = Null
          /\ keep[e] = IF Awaits(q, "unkeep", e) THEN 1
                       ELSE IF Awaits(q, "keep", e) \/ ent[e] = Null THEN 0 ELSE 1

(* The inductive strengthening of KeepersAreTheUpdatersInside.  An updater  *)
(* for which the cluster has something queued is not leaving yet.           *)
KeepersInv ==
    /\ CountsAgree(clusterOps, entCell, keepers)
    /\ phase = "mapOps" =>
          \A i \in 1..Len(clusterOps), j \in 1..Len(mapOps) :
             mapOps[j].type = "remove" => mapOps[j].entity # clusterOps[i].entity
    /\ phase = "stalls" => clusterOps = << >>
    /\ NoStrayEntity

(* Pushing an operation for an entity that has none queued.                 *)
LEMMA PushAgrees ==
    ASSUME NEW q \in Seq(MapOperation), NEW op \in MapOperation, NEW ent, NEW dang,
           QueueAgrees(q, ent, dang),
           op.type # "destroy" => \A i \in 1..Len(q) : q[i].entity # op.entity,
           op.type = "remove" => ent[op.entity] = op.offset,
           op.type = "add" => ent[op.entity] = Null
    PROVE  QueueAgrees(Append(q, op), ent, dang)
<1> DEFINE r == Append(q, op)
           n == Len(q)
<1>1. /\ Len(r) = n + 1 /\ n \in Nat
      /\ r[n + 1] = op
      /\ \A i \in 1..n : r[i] = q[i] /\ r[i] \in MapOperation
  OBVIOUS
<1>2. op.type = "destroy" => op.entity = Null
  BY DEF MapOperation
<1> HIDE DEF r, n
<1>3. \A i \in 1..n : \A k \in 1..(i - 1) : k \in 1..n
  BY <1>1
<1>4. ASSUME NEW i \in 1..Len(r), NEW j \in 1..Len(r), i < j,
             r[i].entity = r[j].entity, r[i].entity # Null
      PROVE  /\ i \in 1..n /\ j \in 1..n
  BY <1>1, <1>2, <1>4 DEF n
<1>5. ASSUME NEW i \in 1..Len(r), NEW j \in 1..Len(r), i < j,
             r[i].entity = r[j].entity, r[i].entity # Null
      PROVE  /\ r[i].type = "remove" /\ r[j].type = "add"
             /\ r[i].entity \notin dang
             /\ \A k \in 1..(i - 1) : ~(r[k].type = "destroy" /\ r[k].offset = r[i].offset)
  BY <1>1, <1>3, <1>4, <1>5 DEF QueueAgrees, n
<1>6. ASSUME NEW i \in 1..Len(r), r[i].type = "remove"
      PROVE  ent[r[i].entity] = r[i].offset
  BY <1>1, <1>6 DEF QueueAgrees, n
<1>7. ASSUME NEW j \in 1..Len(r), r[j].type = "add", ent[r[j].entity] # Null
      PROVE  \E i \in 1..(j - 1) : r[i].entity = r[j].entity
  <2>1. j \in 1..n
    BY <1>1, <1>7
  <2>2. PICK i \in 1..(j - 1) : q[i].entity = q[j].entity
    BY <1>1, <1>7, <2>1 DEF QueueAgrees, n
  <2> QED BY <1>1, <1>3, <2>1, <2>2
<1>8. QueueAgrees(r, ent, dang)
  BY <1>5, <1>6, <1>7 DEF QueueAgrees
<1> QED BY <1>8 DEF r

(* Pushing the two operations of a move, while no cell is to be freed.      *)
LEMMA PushMoveAgrees ==
    ASSUME NEW q \in Seq(MapOperation), NEW op1 \in MapOperation, NEW op2 \in MapOperation,
           NEW ent, NEW dang,
           QueueAgrees(q, ent, dang), DestroysIn(q) = {},
           op1.type = "remove", op2.type = "add", op1.entity = op2.entity,
           \A i \in 1..Len(q) : q[i].entity # op1.entity,
           ent[op1.entity] = op1.offset, op1.entity \notin dang
    PROVE  QueueAgrees(Append(Append(q, op1), op2), ent, dang)
<1> DEFINE r == Append(Append(q, op1), op2)
           n == Len(q)
<1>1. /\ Len(r) = n + 2 /\ n \in Nat
      /\ r[n + 1] = op1 /\ r[n + 2] = op2
      /\ \A i \in 1..n : r[i] = q[i]
  OBVIOUS
<1>2. \A k \in 1..n : q[k].type # "destroy"
  BY DEF DestroysIn
<1> HIDE DEF r, n
<1>3. \A i \in 1..(n + 1) : \A k \in 1..(i - 1) : k \in 1..n
  BY <1>1
<1>4. ASSUME NEW i \in 1..Len(r), NEW j \in 1..Len(r), i < j,
             r[i].entity = r[j].entity, r[i].entity # Null
      PROVE  (i \in 1..n /\ j \in 1..n) \/ (i = n + 1 /\ j = n + 2)
  BY <1>1, <1>4 DEF n
<1>5. ASSUME NEW i \in 1..Len(r), NEW j \in 1..Len(r), i < j,
             r[i].entity = r[j].entity, r[i].entity # Null
      PROVE  /\ r[i].type = "remove" /\ r[j].type = "add"
             /\ r[i].entity \notin dang
             /\ \A k \in 1..(i - 1) : ~(r[k].type = "destroy" /\ r[k].offset = r[i].offset)
  <2>1. CASE i \in 1..n /\ j \in 1..n
    <3>1. r[i] = q[i] /\ r[j] = q[j] /\ i \in 1..(n + 1)
      BY <1>1, <2>1
    <3>2. r[i].type = "remove" /\ r[j].type = "add" /\ r[i].entity \notin dang
      BY <1>5, <2>1, <3>1 DEF QueueAgrees, n
    <3> QED BY <1>1, <1>2, <1>3, <3>1, <3>2
  <2>2. CASE i = n + 1 /\ j = n + 2
    BY <1>1, <1>2, <1>3, <2>2
  <2> QED BY <1>4, <1>5, <2>1, <2>2
<1>6. ASSUME NEW i \in 1..Len(r), r[i].type = "remove"
      PROVE  ent[r[i].entity] = r[i].offset
  BY <1>1, <1>6 DEF QueueAgrees, n
<1>7. ASSUME NEW j \in 1..Len(r), r[j].type = "add", ent[r[j].entity] # Null
      PROVE  \E i \in 1..(j - 1) : r[i].entity = r[j].entity
  <2>1. CASE j \in 1..n
    <3>1. PICK i \in 1..(j - 1) : q[i].entity = q[j].entity
      BY <1>1, <1>7, <2>1 DEF QueueAgrees, n
    <3> QED BY <1>1, <1>3, <2>1, <3>1
  <2>2. CASE j = n + 2
    <3>1. n + 1 \in 1..(j - 1)
      BY <1>1, <2>2
    <3> QED BY <1>1, <2>2, <3>1
  <2> QED BY <1>1, <1>7, <2>1, <2>2
<1>8. QueueAgrees(r, ent, dang)
  BY <1>5, <1>6, <1>7 DEF QueueAgrees
<1> QED BY <1>8 DEF r

(* Popping an operation, which may change cells and dangling entities as    *)
(* far as the operations left allow.                                        *)
LEMMA PopAgrees ==
    ASSUME NEW q \in Seq(MapOperation), q # << >>, NEW ent, NEW dang, NEW ent2, NEW dang2,
           QueueAgrees(q, ent, dang),
           \A i \in 2..Len(q) : q[i].type = "remove" => ent2[q[i].entity] = ent[q[i].entity],
           \A i \in 2..Len(q) : q[i].type = "add" /\ ent2[q[i].entity] # Null =>
               ent[q[i].entity] # Null /\ q[1].entity # q[i].entity,
           \A i, j \in 2..Len(q) :
               i < j /\ q[i].entity = q[j].entity /\ q[i].entity # Null =>
                   q[i].entity \notin dang2
    PROVE  QueueAgrees(Tail(q), ent2, dang2)
<1> DEFINE r == Tail(q)
<1>1. /\ Len(q) \in Nat /\ Len(r) \in Nat /\ Len(r) = Len(q) - 1
      /\ \A i \in 1..Len(r) : r[i] = q[i + 1] /\ i + 1 \in 2..Len(q) /\ i + 1 \in 1..Len(q)
  OBVIOUS
<1> HIDE DEF r
<1>2. \A i \in 1..Len(r) : \A k \in 1..(i - 1) : k \in 1..Len(r) /\ k + 1 \in 1..((i + 1) - 1)
  BY <1>1
<1>3. ASSUME NEW i \in 1..Len(r), NEW j \in 1..Len(r), i < j,
             r[i].entity = r[j].entity, r[i].entity # Null
      PROVE  /\ r[i].type = "remove" /\ r[j].type = "add"
             /\ r[i].entity \notin dang2
             /\ \A k \in 1..(i - 1) : ~(r[k].type = "destroy" /\ r[k].offset = r[i].offset)
  <2>1. /\ i + 1 \in 1..Len(q) /\ j + 1 \in 1..Len(q) /\ i + 1 < j + 1
        /\ i + 1 \in 2..Len(q) /\ j + 1 \in 2..Len(q)
        /\ q[i + 1].entity = q[j + 1].entity /\ q[i + 1].entity # Null
        /\ r[i] = q[i + 1] /\ r[j] = q[j + 1]
    BY <1>1, <1>3
  <2>2. /\ q[i + 1].type = "remove" /\ q[j + 1].type = "add"
        /\ \A k \in 1..((i + 1) - 1) :
              ~(q[k].type = "destroy" /\ q[k].offset = q[i + 1].offset)
    BY <2>1 DEF QueueAgrees
  <2>3. \A k \in 1..(i - 1) : ~(r[k].type = "destroy" /\ r[k].offset = r[i].offset)
    BY <1>1, <1>2, <2>1, <2>2
  <2> QED BY <2>1, <2>2, <2>3
<1>4. ASSUME NEW i \in 1..Len(r), r[i].type = "remove"
      PROVE  ent2[r[i].entity] = r[i].offset
  BY <1>1, <1>4 DEF QueueAgrees
<1>5. ASSUME NEW j \in 1..Len(r), r[j].type = "add", ent2[r[j].entity] # Null
      PROVE  \E i \in 1..(j - 1) : r[i].entity = r[j].entity
  <2>1. /\ j + 1 \in 1..Len(q) /\ j + 1 \in 2..Len(q) /\ r[j] = q[j + 1]
        /\ q[j + 1].type = "add" /\ ent2[q[j + 1].entity] # Null
    BY <1>1, <1>5
  <2>2. ent[q[j + 1].entity] # Null /\ q[1].entity # q[j + 1].entity
    BY <2>1
  <2>3. PICK i \in 1..((j + 1) - 1) : q[i].entity = q[j + 1].entity
    BY <2>1, <2>2 DEF QueueAgrees
  <2>4. i # 1 /\ i - 1 \in 1..(j - 1) /\ i - 1 \in 1..Len(r)
    BY <1>1, <2>2, <2>3
  <2>5. r[i - 1] = q[i]
    BY <1>1, <2>4
  <2> QED BY <2>1, <2>3, <2>4, <2>5
<1>6. QueueAgrees(r, ent2, dang2)
  BY <1>3, <1>4, <1>5 DEF QueueAgrees
<1> QED BY <1>6 DEF r

(* MembershipAgrees and what it rests on, step by step.                     *)
LEMMA AddEntities ==
    ASSUME TypeOK, EntitiesInv, AddEntity, ~Halt("assert")
    PROVE  EntitiesInv'
<1>1. PICK o \in Offsets, e \in Entities :
          /\ mapOps # << >> /\ Head(mapOps).type = "add" /\ Head(mapOps).entity = e
          /\ mapOps' = Tail(mapOps)
          /\ members' = [members EXCEPT ![o] = @ \cup {e}]
          /\ entCell' = [entCell EXCEPT ![e] = o]
          /\ dangling' = dangling \ {e}
          /\ UNCHANGED <<phase, todo>>
  BY AddEntityStep
<1>2. /\ mapOps \in Seq(MapOperation) /\ Len(mapOps) \in Nat /\ 1 \in 1..Len(mapOps)
      /\ mapOps[1] = Head(mapOps)
  BY <1>1 DEF TypeOK
<1>3. entCell[e] = Null
  BY <1>1, <1>2 DEF EntitiesInv, QueueAgrees
<1>4. \A i \in 2..Len(mapOps) : mapOps[i].entity # e
  <2>1. e # Null
    BY EntitiesAssumption
  <2>2. \A i \in 2..Len(mapOps) : i \in 1..Len(mapOps) /\ 1 < i
    BY <1>2
  <2> QED BY <1>1, <1>2, <2>1, <2>2 DEF EntitiesInv, QueueAgrees
<1>5. \A f \in Entities \ {e} : entCell'[f] = entCell[f]
  BY <1>1 DEF TypeOK
<1>6. MembershipAgrees'
  <2> SUFFICES ASSUME NEW f \in Entities, NEW p \in Offsets
               PROVE  f \in members'[p] <=> entCell'[f] = p /\ f \notin dangling'
    BY DEF MembershipAgrees
  <2>1. CASE f = e
    BY <1>1, <1>3, <2>1, EntitiesAssumption DEF EntitiesInv, MembershipAgrees, TypeOK
  <2>2. CASE f # e
    BY <1>1, <1>5, <2>2 DEF EntitiesInv, MembershipAgrees, TypeOK
  <2> QED BY <2>1, <2>2
<1>7. QueueAgrees(mapOps, entCell, dangling)'
  <2>1. \A i \in 2..Len(mapOps) : mapOps[i].type \in {"add", "remove"} =>
            mapOps[i].entity \in Entities \ {e}
    BY <1>2, <1>4 DEF MapOperation
  <2>2. \A i, j \in 2..Len(mapOps) :
            i < j /\ mapOps[i].entity = mapOps[j].entity /\ mapOps[i].entity # Null =>
                mapOps[i].entity \notin dangling'
    <3>1. \A i \in 2..Len(mapOps) : i \in 1..Len(mapOps)
      BY <1>2
    <3> QED BY <1>1, <3>1 DEF EntitiesInv, QueueAgrees
  <2>3. \A i \in 2..Len(mapOps) : mapOps[i].type = "remove" =>
            entCell'[mapOps[i].entity] = entCell[mapOps[i].entity]
    BY <1>5, <2>1
  <2>4. \A i \in 2..Len(mapOps) : mapOps[i].type = "add" /\ entCell'[mapOps[i].entity] # Null =>
            entCell[mapOps[i].entity] # Null /\ mapOps[1].entity # mapOps[i].entity
    BY <1>1, <1>2, <1>4, <1>5, <2>1
  <2>5. mapOps # << >> /\ QueueAgrees(mapOps, entCell, dangling)
    BY <1>1 DEF EntitiesInv
  <2>6. QueueAgrees(Tail(mapOps), entCell', dangling')
    BY <1>2, <2>2, <2>3, <2>4, <2>5, PopAgrees
  <2> QED BY <1>1, <2>6
<1>8. \A f \in dangling' : entCell'[f] # Null
  BY <1>1, <1>5 DEF EntitiesInv, TypeOK
<1>9. \A f \in todo' : FALSE
  BY <1>1 DEF EntitiesInv, AddEntity, Running
<1> QED BY <1>6, <1>7, <1>8, <1>9 DEF EntitiesInv

LEMMA RemoveEntities ==
    ASSUME TypeOK, EntitiesInv, RemoveEntity, ~Halt("assert")
    PROVE  EntitiesInv'
<1>1. PICK o \in Offsets, e \in Entities :
          /\ mapOps # << >> /\ Head(mapOps).type = "remove"
          /\ Head(mapOps).entity = e /\ Head(mapOps).offset = o
          /\ mapOps' = Tail(mapOps)
          /\ members' = [members EXCEPT ![o] = @ \ {e}]
          /\ entCell' = [entCell EXCEPT ![e] = Null]
          /\ dangling' = dangling \ {e}
          /\ UNCHANGED <<phase, todo>>
  BY RemoveEntityStep
<1>2. /\ mapOps \in Seq(MapOperation) /\ Len(mapOps) \in Nat /\ 1 \in 1..Len(mapOps)
      /\ mapOps[1] = Head(mapOps)
  BY <1>1 DEF TypeOK
<1>3. entCell[e] = o
  BY <1>1, <1>2 DEF EntitiesInv, QueueAgrees
<1>4. \A i \in 2..Len(mapOps) : i \in 1..Len(mapOps) /\ 1 < i
  BY <1>2
<1>5. \A i \in 2..Len(mapOps) : mapOps[i].entity = e => mapOps[i].type = "add"
  <2>1. e # Null
    BY EntitiesAssumption
  <2> QED BY <1>1, <1>2, <1>4, <2>1 DEF EntitiesInv, QueueAgrees
<1>6. \A f \in Entities \ {e} : entCell'[f] = entCell[f]
  BY <1>1 DEF TypeOK
<1>7. entCell'[e] = Null
  BY <1>1 DEF TypeOK
<1>8. MembershipAgrees'
  <2> SUFFICES ASSUME NEW f \in Entities, NEW p \in Offsets
               PROVE  f \in members'[p] <=> entCell'[f] = p /\ f \notin dangling'
    BY DEF MembershipAgrees
  <2>1. CASE f = e
    BY <1>1, <1>3, <1>7, <2>1, EntitiesAssumption DEF EntitiesInv, MembershipAgrees, TypeOK
  <2>2. CASE f # e
    BY <1>1, <1>6, <2>2 DEF EntitiesInv, MembershipAgrees, TypeOK
  <2> QED BY <2>1, <2>2
<1>9. QueueAgrees(mapOps, entCell, dangling)'
  <2>1. \A i \in 2..Len(mapOps) : mapOps[i].type \in {"add", "remove"} =>
            mapOps[i].entity \in Entities
    BY <1>2, <1>4 DEF MapOperation
  <2>2. \A i, j \in 2..Len(mapOps) :
            i < j /\ mapOps[i].entity = mapOps[j].entity /\ mapOps[i].entity # Null =>
                mapOps[i].entity \notin dangling'
    BY <1>1, <1>4 DEF EntitiesInv, QueueAgrees
  <2>3. \A i \in 2..Len(mapOps) : mapOps[i].type = "remove" =>
            entCell'[mapOps[i].entity] = entCell[mapOps[i].entity]
    BY <1>5, <1>6, <2>1
  <2>4. \A i \in 2..Len(mapOps) : mapOps[i].type = "add" /\ entCell'[mapOps[i].entity] # Null =>
            entCell[mapOps[i].entity] # Null /\ mapOps[1].entity # mapOps[i].entity
    BY <1>1, <1>2, <1>6, <1>7, <2>1
  <2>5. mapOps # << >> /\ QueueAgrees(mapOps, entCell, dangling)
    BY <1>1 DEF EntitiesInv
  <2>6. QueueAgrees(Tail(mapOps), entCell', dangling')
    BY <1>2, <2>2, <2>3, <2>4, <2>5, PopAgrees
  <2> QED BY <1>1, <2>6
<1>10. \A f \in dangling' : entCell'[f] # Null
  BY <1>1, <1>6 DEF EntitiesInv, TypeOK
<1>11. \A f \in todo' : FALSE
  BY <1>1 DEF EntitiesInv, RemoveEntity, Running
<1> QED BY <1>8, <1>9, <1>10, <1>11 DEF EntitiesInv

(* An operation is dropped because its cell is gone: then its entity        *)
(* dangles, and was not on its way to another cell.                         *)
LEMMA DropEntities ==
    ASSUME TypeOK, CellsInv, EntitiesInv, RemoveFromNowhere
    PROVE  EntitiesInv'
<1> DEFINE e == mapOps[1].entity
<1>1. /\ mapOps \in Seq(MapOperation) /\ mapOps # << >>
      /\ Len(mapOps) \in Nat /\ 1 \in 1..Len(mapOps) /\ mapOps[1] = Head(mapOps)
      /\ mapOps[1] \in MapOperation
      /\ mapOps[1].type = "remove" /\ mapOps[1].offset \notin cells
      /\ mapOps' = Tail(mapOps)
      /\ UNCHANGED <<members, entCell, dangling, phase, todo>>
      /\ phase = "mapOps"
  BY DEF RemoveFromNowhere, TypeOK, loopVars, Running
<1>2. e \in Entities /\ e # Null /\ mapOps[1].offset \in Offsets
  BY <1>1, EntitiesAssumption DEF MapOperation
<1>3. entCell[e] = mapOps[1].offset
  BY <1>1 DEF EntitiesInv, QueueAgrees
<1>4. e \in dangling
  BY <1>1, <1>2, <1>3, EntitiesAssumption DEF CellsInv, PointersLive
<1>5. \A i \in 2..Len(mapOps) : i \in 1..Len(mapOps) /\ 1 < i
  BY <1>1
<1>6. \A i \in 2..Len(mapOps) : mapOps[i].entity # e
  BY <1>1, <1>2, <1>4, <1>5 DEF EntitiesInv, QueueAgrees
<1>7. QueueAgrees(mapOps, entCell, dangling)'
  <2>1. \A i, j \in 2..Len(mapOps) :
            i < j /\ mapOps[i].entity = mapOps[j].entity /\ mapOps[i].entity # Null =>
                mapOps[i].entity \notin dangling
    BY <1>5 DEF EntitiesInv, QueueAgrees
  <2> QED BY <1>1, <1>6, <2>1, PopAgrees DEF EntitiesInv
<1> QED BY <1>1, <1>7 DEF EntitiesInv, MembershipAgrees

(* A cell is freed with what it holds; no entity on its way from there to   *)
(* another cell is behind it in the queue.                                  *)
LEMMA DestroyEntities ==
    ASSUME TypeOK, EntitiesInv, Destroy
    PROVE  EntitiesInv'
<1> DEFINE o == mapOps[1].offset
<1>1. /\ mapOps \in Seq(MapOperation) /\ mapOps # << >>
      /\ Len(mapOps) \in Nat /\ 1 \in 1..Len(mapOps) /\ mapOps[1] = Head(mapOps)
      /\ mapOps[1] \in MapOperation
  BY DEF Destroy, TypeOK
<1>2. /\ mapOps[1].type = "destroy"
      /\ mapOps' = Tail(mapOps)
      /\ members' = [members EXCEPT ![o] = {}]
      /\ dangling' = dangling \cup {e \in Entities : entCell[e] = o}
      /\ UNCHANGED <<entCell, phase, todo>>
      /\ phase = "mapOps"
  BY <1>1 DEF Destroy, loopVars, Running
<1>3. o \in Offsets /\ o # Null /\ mapOps[1].entity = Null
  BY <1>1, <1>2, EntitiesAssumption DEF MapOperation
<1>4. \A i \in 2..Len(mapOps) : /\ i \in 1..Len(mapOps) /\ 1 \in 1..(i - 1)
                                /\ mapOps[i] \in MapOperation
  BY <1>1
<1>5. MembershipAgrees'
  BY <1>1, <1>2, <1>3 DEF EntitiesInv, MembershipAgrees, TypeOK
<1>6. QueueAgrees(mapOps, entCell, dangling)'
  <2>1. ASSUME NEW i \in 2..Len(mapOps), NEW j \in 2..Len(mapOps), i < j,
               mapOps[i].entity = mapOps[j].entity, mapOps[i].entity # Null
        PROVE  mapOps[i].entity \notin dangling'
    <3>1. /\ mapOps[i].type = "remove" /\ mapOps[i].entity \notin dangling
          /\ mapOps[i].offset # o
          /\ entCell[mapOps[i].entity] = mapOps[i].offset
      BY <1>1, <1>2, <1>4, <2>1 DEF EntitiesInv, QueueAgrees
    <3> QED BY <1>2, <3>1
  <2>2. \A i \in 2..Len(mapOps) : mapOps[i].type = "add" => mapOps[i].entity # Null
    BY <1>4, EntitiesAssumption DEF MapOperation
  <2> QED BY <1>1, <1>2, <1>3, <2>1, <2>2, PopAgrees DEF EntitiesInv
<1> QED BY <1>1, <1>2, <1>3, <1>5, <1>6 DEF EntitiesInv

LEMMA MoveEntities ==
    ASSUME TypeOK, CellsInv, EntitiesInv, NEW e \in Entities, NEW to \in Offsets, OnMove(e, to),
           ~Halt("assert"), ~Halt("null")
    PROVE  EntitiesInv'
<1>0. PICK op1 \in MapOperation, op2 \in MapOperation : MovesBy(e, to, op1, op2)
  BY OnMoveStep
<1>1. /\ op1.type = "remove" /\ op1.entity = e /\ op1.offset = entCell[e]
      /\ op2.type = "add" /\ op2.entity = e
      /\ TouchAssert(TouchedByCreation({to} \ cells))
      /\ Create({to} \ cells, {})
      /\ mapOps' = Append(Append(mapOps, op1), op2)
      /\ todo' = todo \ {e}
      /\ UNCHANGED <<members, entCell, dangling, old, comp, remaining,
                     keepers, clusterOps, phase, fault>>
  BY <1>0 DEF MovesBy
<1>2. phase = "update" /\ e \in todo
  BY DEF OnMove, Running
<1>3. /\ mapOps \in Seq(MapOperation)
      /\ DestroysIn(mapOps) = {}
  BY <1>2 DEF TypeOK, CellsInv, CooldownInv, Destroying
<1>4. e \notin dangling /\ \A i \in 1..Len(mapOps) : mapOps[i].entity # e
  BY <1>2 DEF EntitiesInv, Queued
<1>5. QueueAgrees(mapOps, entCell, dangling)'
  BY <1>1, <1>3, <1>4, PushMoveAgrees DEF EntitiesInv
<1>6. ASSUME NEW f \in todo' PROVE ~Queued(f)'
  <2> DEFINE n == Len(mapOps)
  <2>1. /\ Len(mapOps') = n + 2 /\ n \in Nat
        /\ mapOps'[n + 1] = op1 /\ mapOps'[n + 2] = op2
        /\ \A i \in 1..n : mapOps'[i] = mapOps[i]
    BY <1>1, <1>3
  <2>2. f # e /\ \A i \in 1..n : mapOps[i].entity # f
    BY <1>1, <1>6 DEF EntitiesInv, Queued
  <2> HIDE DEF n
  <2> QED BY <1>1, <2>1, <2>2 DEF Queued
<1> QED BY <1>1, <1>5, <1>6 DEF EntitiesInv, MembershipAgrees

(* An operation is queued that frees a cell or is for an entity without     *)
(* any.                                                                     *)
LEMMA PushEntities ==
    ASSUME TypeOK, EntitiesInv, NEW op \in MapOperation,
           mapOps' = Append(mapOps, op), UNCHANGED <<members, entCell, dangling, phase, todo>>,
           op.type # "destroy" => op.entity \in Entities \ todo /\ ~Queued(op.entity),
           op.type = "remove" => entCell[op.entity] = op.offset,
           op.type = "add" => entCell[op.entity] = Null
    PROVE  EntitiesInv'
<1>1. mapOps \in Seq(MapOperation)
  BY DEF TypeOK
<1>2. QueueAgrees(mapOps, entCell, dangling)'
  BY <1>1, PushAgrees DEF EntitiesInv, Queued
<1>3. ASSUME NEW f \in todo' PROVE ~Queued(f)'
  <2> DEFINE n == Len(mapOps)
  <2>1. /\ Len(mapOps') = n + 1 /\ n \in Nat
        /\ mapOps'[n + 1] = op
        /\ \A i \in 1..n : mapOps'[i] = mapOps[i]
    BY <1>1
  <2>2. op.entity # f
    <3>1. op.type = "destroy" => op.entity = Null
      BY DEF MapOperation
    <3>2. f \in todo /\ f # Null
      BY <1>3, EntitiesAssumption DEF TypeOK
    <3> QED BY <3>1, <3>2
  <2>3. \A i \in 1..n : mapOps[i].entity # f
    BY <1>3 DEF EntitiesInv, Queued
  <2> HIDE DEF n
  <2> QED BY <2>1, <2>2, <2>3 DEF Queued
<1> QED BY <1>2, <1>3 DEF EntitiesInv, MembershipAgrees

LEMMA NextEntities == TypeOK /\ CellsInv /\ EntitiesInv /\ [Next]_vars => EntitiesInv'
<1> SUFFICES ASSUME TypeOK, CellsInv, EntitiesInv, [Next]_vars PROVE EntitiesInv'
  OBVIOUS
<1>1. ASSUME UNCHANGED mapVars, UNCHANGED <<phase, todo>> \/ todo' = {} PROVE EntitiesInv'
  <2>1. UNCHANGED <<members, entCell, dangling, mapOps>>
    BY <1>1 DEF mapVars
  <2> QED BY <1>1, <2>1 DEF EntitiesInv, MembershipAgrees, QueueAgrees, Queued
<1>2. ASSUME NEW why, Halt(why) PROVE EntitiesInv'
  BY <1>1, <1>2 DEF Halt
<1>3. CASE AddEntity
  BY <1>2, <1>3, AddEntities
<1>4. CASE RemoveEntity
  BY <1>2, <1>4, RemoveEntities
<1>5. CASE RemoveFromNowhere
  BY <1>5, DropEntities
<1>6. CASE Destroy
  BY <1>6, DestroyEntities
<1>7. CASE BeginUpdate
  <2>1. /\ UNCHANGED <<members, entCell, dangling, mapOps>>
        /\ mapOps = << >> /\ phase' = "update"
        /\ todo' = UNION {members[o] : o \in current}
    BY <1>7 DEF BeginUpdate, mapVars
  <2>2. ASSUME NEW e \in todo' PROVE entCell[e] # Null /\ e \notin dangling /\ ~Queued(e)'
    <3>1. PICK o \in Offsets : e \in members[o]
      BY <2>1 DEF TypeOK
    <3>2. e \in Entities
      BY <3>1 DEF TypeOK
    <3> QED BY <2>1, <3>1, <3>2, EntitiesAssumption DEF EntitiesInv, MembershipAgrees, Queued
  <2> QED BY <2>1, <2>2 DEF EntitiesInv, MembershipAgrees, QueueAgrees
<1>8. ASSUME NEW e \in Entities, NEW to \in Offsets, OnMove(e, to) PROVE EntitiesInv'
  BY <1>2, <1>8, MoveEntities
<1>9. CASE TouchKeepers
  <2>1. todo = {} \/ phase = "update"
    BY DEF EntitiesInv
  <2>2. phase = "clusterOps"
    BY <1>9 DEF TouchKeepers, Running
  <2> QED BY <1>1, <1>2, <1>9, <2>1, <2>2, TouchKeepersStep
<1>10. CASE Unkeep
  <2>1. Halt("erase") \/ (UNCHANGED mapVars /\ UNCHANGED loopVars)
    BY <1>10 DEF Unkeep
  <2> QED BY <1>1, <1>2, <2>1 DEF loopVars
<1>11. ASSUME NEW o \in Offsets, DestroyCell(o) PROVE EntitiesInv'
  <2> DEFINE op == [type |-> "destroy", offset |-> o, entity |-> Null, param |-> o]
  <2>1. op \in MapOperation /\ op.type = "destroy"
    BY DEF MapOperation
  <2>2. mapOps' = Append(mapOps, op) /\ UNCHANGED <<members, entCell, dangling, phase, todo>>
    BY <1>11 DEF DestroyCell, loopVars
  <2> HIDE DEF op
  <2> QED BY <2>1, <2>2, PushEntities
<1>12. ASSUME NEW e \in Entities, NEW o \in Offsets, AddTo(e, o) PROVE EntitiesInv'
  <2> DEFINE op == [type |-> "add", offset |-> o, entity |-> e, param |-> Null]
  <2>1. op \in MapOperation /\ op.type = "add" /\ op.entity = e
    BY DEF MapOperation
  <2>2. /\ mapOps' = Append(mapOps, op) /\ UNCHANGED <<members, entCell, dangling, phase, todo>>
        /\ entCell[e] = Null /\ ~Queued(e)
    BY <1>12 DEF AddTo, loopVars
  <2>3. e \notin todo
    BY <2>2 DEF EntitiesInv
  <2> HIDE DEF op
  <2> QED BY <2>1, <2>2, <2>3, PushEntities
<1>13. ASSUME NEW e \in Entities, RemoveFrom(e) PROVE EntitiesInv'
  <2> DEFINE op == [type |-> "remove", offset |-> entCell[e], entity |-> e, param |-> Null]
  <2>1. op \in MapOperation /\ op.type = "remove" /\ op.entity = e /\ op.offset = entCell[e]
    BY <1>13 DEF MapOperation, RemoveFrom, TypeOK
  <2>2. /\ mapOps' = Append(mapOps, op) /\ UNCHANGED <<members, entCell, dangling, phase, todo>>
        /\ ~Queued(e) /\ phase = "serverOps"
    BY <1>13 DEF RemoveFrom, loopVars, Running
  <2>3. e \notin todo
    BY <2>2 DEF EntitiesInv
  <2> HIDE DEF op
  <2> QED BY <2>1, <2>2, <2>3, PushEntities
<1>14. ASSUME EndUpdate \/ (\E elapsed \in 0..MaxElapsed : Cleanup(elapsed)) \/ Keep \/ EndTick
              \/ Halted \/ UNCHANGED vars
       PROVE  EntitiesInv'
  <2>1. todo = {} \/ phase = "update"
    BY DEF EntitiesInv
  <2>2. UNCHANGED mapVars /\ (UNCHANGED <<phase, todo>> \/ todo' = {})
    BY <1>14, <2>1 DEF EndUpdate, Cleanup, Keep, EndTick, Halted, vars, loopVars, Running
  <2> QED BY <1>1, <2>2
<1> QED
  BY <1>3, <1>4, <1>5, <1>6, <1>7, <1>8, <1>9, <1>10, <1>11, <1>12, <1>13, <1>14
  DEF Next, ServerLoop, Callers

LEMMA EntitiesInvariant == Spec => []EntitiesInv
<1>1. Init => EntitiesInv
  BY EntitiesAssumption DEF Init, EntitiesInv, MembershipAgrees, QueueAgrees
<1> QED BY <1>1, NextEntities, TypeCorrect, CellsInvariant, PTL DEF Spec

(* An entity is in the cell it points to and in no other, whatever moves,   *)
(* arrivals, departures and freed cells have been queued and in which order *)
(* Map::runScheduledOperations meets them.                                  *)
THEOREM MembershipSound == Spec => []MembershipAgrees
<1>1. EntitiesInv => MembershipAgrees
  BY DEF EntitiesInv
<1> QED BY <1>1, EntitiesInvariant, PTL

-----------------------------------------------------------------------------
(* Keepers.                                                                 *)

(* Operations that are all different and differ from one more leave room    *)
(* for it.                                                                  *)
LEMMA RoomLeft ==
    ASSUME RoomForUpdaters, NEW q \in Seq(ClusterOperation), NEW op \in ClusterOperation,
           \A i, j \in 1..Len(q) : i < j /\ q[i].entity = q[j].entity => q[i].type # q[j].type,
           \A i \in 1..Len(q) : q[i].type = op.type => q[i].entity # op.entity
    PROVE  Len(q) < ClusterCap
<1> DEFINE n == Len(q)
           T == {"keep", "unkeep"} \X Updaters
           r == Append(q, op)
           f == [i \in 1..(n + 1) |-> <<r[i].type, r[i].entity>>]
<1>1. n \in Nat /\ r[n + 1] = op /\ \A i \in 1..n : r[i] = q[i] /\ q[i] \in ClusterOperation
  OBVIOUS
<1> HIDE DEF n, r
<1>2. \A i \in 1..(n + 1) : r[i] \in ClusterOperation
  BY <1>1
<1>3. f \in [1..(n + 1) -> T]
  BY <1>2 DEF ClusterOperation
<1>4. ASSUME NEW i \in 1..(n + 1), NEW j \in 1..(n + 1), i < j PROVE f[i] # f[j]
  <2>1. i \in 1..n
    BY <1>1, <1>4
  <2>2. r[i].entity = r[j].entity => r[i].type # r[j].type
    <3>1. CASE j \in 1..n
      BY <1>1, <1>4, <2>1, <3>1 DEF n
    <3>2. CASE j = n + 1
      BY <1>1, <2>1, <3>2 DEF n
    <3> QED BY <1>1, <3>1, <3>2
  <2> QED BY <2>2
<1>5. f \in Injection(1..(n + 1), T)
  <2>1. \A i, j \in 1..(n + 1) : i # j => i < j \/ j < i
    BY <1>1
  <2>2. \A i, j \in 1..(n + 1) : f[i] = f[j] => i = j
    BY <1>4, <2>1
  <2> HIDE DEF f, T
  <2> QED BY <1>3, <2>2 DEF Injection, IsInjective
<1>6. IsFiniteSet({"keep", "unkeep"}) /\ Cardinality({"keep", "unkeep"}) = 2
  <2>1. {"keep", "unkeep"} = {"keep"} \cup {"unkeep"} /\ "unkeep" \notin {"keep"}
    OBVIOUS
  <2>2. IsFiniteSet({"keep"}) /\ Cardinality({"keep"}) = 1
    BY FS_Singleton
  <2>3. /\ IsFiniteSet({"keep"} \cup {"unkeep"})
        /\ Cardinality({"keep"} \cup {"unkeep"}) = Cardinality({"keep"}) + 1
    BY <2>1, <2>2, FS_AddElement
  <2> QED BY <2>1, <2>2, <2>3
<1>7. IsFiniteSet(T) /\ Cardinality(T) = 2 * Cardinality(Updaters)
  BY <1>6, FS_Product DEF RoomForUpdaters
<1>8. Cardinality(1..(n + 1)) = n + 1
  <2>1. 1 \in Int /\ n + 1 \in Int /\ ~(1 > n + 1) /\ (n + 1) - 1 + 1 = n + 1
    BY <1>1
  <2> QED BY <2>1, FS_Interval
<1> HIDE DEF f, T
<1>9. Cardinality(1..(n + 1)) <= Cardinality(T)
  BY <1>5, <1>7, FS_Injection
<1>10. Cardinality(Updaters) \in Nat
  BY FS_CardinalityType DEF RoomForUpdaters
<1> QED BY <1>1, <1>7, <1>8, <1>9, <1>10, BoundsAssumption DEF RoomForUpdaters, n

(* Pushing the arrival of an updater that was nowhere.                      *)
LEMMA PushKeepCounts ==
    ASSUME NEW q \in Seq(ClusterOperation), NEW op \in ClusterOperation,
           NEW ent, NEW ent2, NEW keep,
           CountsAgree(q, ent, keep), op.type = "keep",
           ent[op.entity] = Null, ent2[op.entity] # Null,
           \A e \in Updaters \ {op.entity} : ent2[e] = ent[e]
    PROVE  /\ \A i \in 1..Len(q) : q[i].type = "keep" => q[i].entity # op.entity
           /\ CountsAgree(Append(q, op), ent2, keep)
<1> DEFINE r == Append(q, op)
           n == Len(q)
<1>1. /\ n \in Nat /\ Len(r) = n + 1 /\ r[n + 1] = op
      /\ \A i \in 1..n : r[i] = q[i] /\ q[i] \in ClusterOperation
  OBVIOUS
<1>2. op.entity \in Updaters
  BY DEF ClusterOperation
<1> HIDE DEF r
<1>3. ~Awaits(q, "keep", op.entity)
  BY <1>2 DEF CountsAgree
<1>4. \A i \in 1..n : q[i].entity = op.entity => q[i].type = "unkeep"
  BY <1>1, <1>3 DEF Awaits, ClusterOperation
<1>5. \A t, e : Awaits(r, t, e) <=> Awaits(q, t, e) \/ (op.type = t /\ op.entity = e)
  BY <1>1 DEF Awaits
<1>6. ASSUME NEW i \in 1..Len(r), NEW j \in 1..Len(r), i < j, r[i].entity = r[j].entity
      PROVE  r[i].type = "unkeep" /\ r[j].type = "keep"
  <2>1. i \in 1..n
    BY <1>1, <1>6
  <2>2. CASE j \in 1..n
    BY <1>1, <1>6, <2>1, <2>2 DEF CountsAgree
  <2>3. CASE j = n + 1
    BY <1>1, <1>4, <1>6, <2>1, <2>3
  <2> QED BY <1>1, <2>2, <2>3
<1> HIDE DEF n
<1>7. ASSUME NEW e \in Updaters
      PROVE  /\ Awaits(r, "keep", e) => ent2[e] # Null
             /\ Awaits(r, "unkeep", e) /\ ~Awaits(r, "keep", e) => ent2[e] = Null
             /\ keep[e] = IF Awaits(r, "unkeep", e) THEN 1
                          ELSE IF Awaits(r, "keep", e) \/ ent2[e] = Null THEN 0 ELSE 1
  <2>1. CASE e = op.entity
    BY <1>3, <1>5, <2>1 DEF CountsAgree
  <2>2. CASE e # op.entity
    BY <1>5, <2>2 DEF CountsAgree
  <2> QED BY <2>1, <2>2
<1>8. CountsAgree(r, ent2, keep)
  BY <1>6, <1>7 DEF CountsAgree
<1> QED BY <1>4, <1>8 DEF r, n

(* Pushing the departure of an updater for which nothing is queued.         *)
LEMMA PushUnkeepCounts ==
    ASSUME NEW q \in Seq(ClusterOperation), NEW op \in ClusterOperation,
           NEW ent, NEW ent2, NEW keep,
           CountsAgree(q, ent, keep), op.type = "unkeep",
           \A i \in 1..Len(q) : q[i].entity # op.entity,
           ent[op.entity] # Null, ent2[op.entity] = Null,
           \A e \in Updaters \ {op.entity} : ent2[e] = ent[e]
    PROVE  CountsAgree(Append(q, op), ent2, keep)
<1> DEFINE r == Append(q, op)
           n == Len(q)
<1>1. /\ n \in Nat /\ Len(r) = n + 1 /\ r[n + 1] = op
      /\ \A i \in 1..n : r[i] = q[i] /\ q[i] \in ClusterOperation
  OBVIOUS
<1>2. op.entity \in Updaters
  BY DEF ClusterOperation
<1> HIDE DEF r
<1>3. ~Awaits(q, "keep", op.entity) /\ ~Awaits(q, "unkeep", op.entity)
  BY DEF Awaits
<1>4. \A t, e : Awaits(r, t, e) <=> Awaits(q, t, e) \/ (op.type = t /\ op.entity = e)
  BY <1>1 DEF Awaits
<1>5. ASSUME NEW i \in 1..Len(r), NEW j \in 1..Len(r), i < j, r[i].entity = r[j].entity
      PROVE  r[i].type = "unkeep" /\ r[j].type = "keep"
  <2>1. i \in 1..n /\ j \in 1..n
    BY <1>1, <1>5
  <2> QED BY <1>1, <1>5, <2>1 DEF CountsAgree
<1> HIDE DEF n
<1>6. ASSUME NEW e \in Updaters
      PROVE  /\ Awaits(r, "keep", e) => ent2[e] # Null
             /\ Awaits(r, "unkeep", e) /\ ~Awaits(r, "keep", e) => ent2[e] = Null
             /\ keep[e] = IF Awaits(r, "unkeep", e) THEN 1
                          ELSE IF Awaits(r, "keep", e) \/ ent2[e] = Null THEN 0 ELSE 1
  <2>1. CASE e = op.entity
    BY <1>3, <1>4, <2>1 DEF CountsAgree
  <2>2. CASE e # op.entity
    BY <1>4, <2>2 DEF CountsAgree
  <2> QED BY <2>1, <2>2
<1>7. CountsAgree(r, ent2, keep)
  BY <1>5, <1>6 DEF CountsAgree
<1> QED BY <1>7 DEF r

(* Popping an operation and counting it.                                    *)
LEMMA PopCounts ==
    ASSUME NEW q \in Seq(ClusterOperation), q # << >>, NEW ent, NEW keep, NEW keep2,
           CountsAgree(q, ent, keep)
    PROVE  /\ q[1].type = "unkeep" => keep[q[1].entity] = 1
           /\ /\ keep2[q[1].entity] = IF q[1].type = "keep" THEN keep[q[1].entity] + 1
                                      ELSE keep[q[1].entity] - 1
              /\ \A e \in Updaters \ {q[1].entity} : keep2[e] = keep[e]
              => CountsAgree(Tail(q), ent, keep2)
<1> DEFINE r == Tail(q)
           n == Len(r)
           op == q[1]
<1>1. /\ n \in Nat /\ Len(q) = n + 1 /\ q[1] \in ClusterOperation
      /\ \A i \in 1..n : r[i] = q[i + 1] /\ i + 1 \in 1..Len(q) /\ 1 < i + 1 /\ 1 \in 1..Len(q)
      /\ \A i \in 2..Len(q) : i - 1 \in 1..n /\ r[i - 1] = q[i]
      /\ \A i \in 1..Len(q) : i = 1 \/ i \in 2..Len(q)
      /\ 1 \in 1..Len(q)
  OBVIOUS
<1>2. op.entity \in Updaters /\ op.type \in {"keep", "unkeep"}
  BY <1>1 DEF ClusterOperation
<1> HIDE DEF r
<1>3. \A i \in 1..n : r[i].entity = op.entity => op.type = "unkeep" /\ r[i].type = "keep"
  BY <1>1 DEF CountsAgree
<1>4. \A t, e : Awaits(q, t, e) <=> Awaits(r, t, e) \/ (op.type = t /\ op.entity = e)
  <2> SUFFICES ASSUME NEW t, NEW e
               PROVE  Awaits(q, t, e) <=> Awaits(r, t, e) \/ (op.type = t /\ op.entity = e)
    OBVIOUS
  <2>1. ASSUME NEW i \in 1..Len(q), q[i].type = t, q[i].entity = e
        PROVE  Awaits(r, t, e) \/ (op.type = t /\ op.entity = e)
    <3>1. CASE i = 1
      BY <2>1, <3>1
    <3>2. CASE i \in 2..Len(q)
      BY <1>1, <2>1, <3>2 DEF Awaits
    <3> QED BY <1>1, <3>1, <3>2
  <2>2. ASSUME NEW i \in 1..n, r[i].type = t, r[i].entity = e PROVE Awaits(q, t, e)
    BY <1>1, <2>2 DEF Awaits
  <2> QED BY <1>1, <2>1, <2>2 DEF Awaits
<1>5. ASSUME NEW i \in 1..n, NEW j \in 1..n, i < j, r[i].entity = r[j].entity
      PROVE  r[i].type = "unkeep" /\ r[j].type = "keep"
  <2>1. /\ i + 1 \in 1..Len(q) /\ j + 1 \in 1..Len(q) /\ i + 1 < j + 1
        /\ r[i] = q[i + 1] /\ r[j] = q[j + 1]
    BY <1>1, <1>5
  <2> QED BY <1>5, <2>1 DEF CountsAgree
<1>6. ~Awaits(r, "unkeep", op.entity) /\ (op.type = "keep" => ~Awaits(r, "keep", op.entity))
  BY <1>3 DEF Awaits
<1> HIDE DEF n, op
<1>7. op.type = "unkeep" => keep[op.entity] = 1
  BY <1>2, <1>4 DEF CountsAgree
<1>8. op.type = "keep" => keep[op.entity] = 0 /\ ent[op.entity] # Null
  BY <1>2, <1>4, <1>6 DEF CountsAgree
<1>9. ASSUME keep2[op.entity] = IF op.type = "keep" THEN keep[op.entity] + 1
                                ELSE keep[op.entity] - 1,
             \A e \in Updaters \ {op.entity} : keep2[e] = keep[e]
      PROVE  CountsAgree(r, ent, keep2)
  <2>1. keep2[op.entity] = IF op.type = "keep" THEN 1 ELSE 0
    BY <1>2, <1>7, <1>8, <1>9
  <2>2. ASSUME NEW e \in Updaters
        PROVE  /\ Awaits(r, "keep", e) => ent[e] # Null
               /\ Awaits(r, "unkeep", e) /\ ~Awaits(r, "keep", e) => ent[e] = Null
               /\ keep2[e] = IF Awaits(r, "unkeep", e) THEN 1
                             ELSE IF Awaits(r, "keep", e) \/ ent[e] = Null THEN 0 ELSE 1
    <3>1. CASE e = op.entity
      BY <1>2, <1>4, <1>6, <1>8, <2>1, <3>1 DEF CountsAgree
    <3>2. CASE e # op.entity
      BY <1>4, <1>9, <3>2 DEF CountsAgree
    <3> QED BY <3>1, <3>2
  <2> QED BY <1>5, <2>2 DEF CountsAgree, n
<1> QED BY <1>7, <1>9 DEF r, op

(* An updater that arrives is counted, one that leaves is no longer; both   *)
(* find room in the queue of the cluster.                                   *)
LEMMA AddKeepers ==
    ASSUME RoomForUpdaters, TypeOK, EntitiesInv, KeepersInv, AddEntity, ~Halt("assert")
    PROVE  KeepersInv'
<1>1. PICK o \in Offsets, e \in Entities :
          /\ mapOps # << >> /\ Head(mapOps).type = "add" /\ Head(mapOps).entity = e
          /\ mapOps' = Tail(mapOps)
          /\ entCell' = [entCell EXCEPT ![e] = o]
          /\ PushClusterOp("keep", e)
          /\ UNCHANGED <<keepers, phase, fault>>
  BY AddEntityStep
<1>2. /\ mapOps \in Seq(MapOperation) /\ Len(mapOps) \in Nat /\ 1 \in 1..Len(mapOps)
      /\ mapOps[1] = Head(mapOps)
      /\ Len(mapOps') = Len(mapOps) - 1
      /\ \A i \in 1..Len(mapOps') : mapOps'[i] = mapOps[i + 1] /\ i + 1 \in 1..Len(mapOps)
      /\ \A i \in 1..Len(mapOps') : i + 1 \in 2..Len(mapOps) /\ 1 < i + 1
      /\ clusterOps \in Seq(ClusterOperation)
  BY <1>1 DEF TypeOK
<1>3. entCell[e] = Null
  BY <1>1, <1>2 DEF EntitiesInv, QueueAgrees
<1>4. \A i \in 1..Len(mapOps') : mapOps'[i].entity # e
  <2>1. e # Null
    BY EntitiesAssumption
  <2> QED BY <1>1, <1>2, <2>1 DEF EntitiesInv, QueueAgrees
<1>5. entCell'[e] = o /\ o # Null /\ \A f \in Entities \ {e} : entCell'[f] = entCell[f]
  BY <1>1, EntitiesAssumption DEF TypeOK
<1>6. phase = "mapOps" /\ phase' = "mapOps"
  BY <1>1 DEF AddEntity, Running
<1>7. NoStrayEntity'
  BY <1>1 DEF KeepersInv, NoStrayEntity
<1>8. CASE e \notin Updaters
  <2>1. clusterOps' = clusterOps
    BY <1>1, <1>8 DEF PushClusterOp
  <2>2. \A f \in Updaters : entCell'[f] = entCell[f]
    BY <1>5, <1>8, EntitiesAssumption
  <2>3. CountsAgree(clusterOps, entCell, keepers)'
    BY <1>1, <2>1, <2>2 DEF KeepersInv, CountsAgree
  <2>4. \A i \in 1..Len(clusterOps'), j \in 1..Len(mapOps') :
            mapOps'[j].type = "remove" => mapOps'[j].entity # clusterOps'[i].entity
    BY <1>2, <1>6, <2>1 DEF KeepersInv
  <2> QED BY <1>6, <1>7, <2>3, <2>4 DEF KeepersInv
<1>9. CASE e \in Updaters
  <2> DEFINE op == [type |-> "keep", entity |-> e]
  <2>1. op \in ClusterOperation /\ op.type = "keep" /\ op.entity = e
    BY <1>9 DEF ClusterOperation
  <2>2. clusterOps' = IF Len(clusterOps) < ClusterCap THEN Append(clusterOps, op) ELSE clusterOps
    BY <1>1, <1>9 DEF PushClusterOp
  <2> HIDE DEF op
  <2>3. CountsAgree(clusterOps, entCell, keepers)
    BY DEF KeepersInv
  <2>4. \A f \in Updaters \ {op.entity} : entCell'[f] = entCell[f]
    BY <1>5, <2>1, EntitiesAssumption
  <2>5. entCell[op.entity] = Null /\ entCell'[op.entity] # Null
    BY <1>3, <1>5, <2>1
  <2>6. /\ \A i \in 1..Len(clusterOps) :
               clusterOps[i].type = "keep" => clusterOps[i].entity # op.entity
        /\ CountsAgree(Append(clusterOps, op), entCell', keepers)
    BY <1>2, <2>1, <2>3, <2>4, <2>5, PushKeepCounts
  <2>7. \A i, j \in 1..Len(clusterOps) :
            i < j /\ clusterOps[i].entity = clusterOps[j].entity
              => clusterOps[i].type # clusterOps[j].type
    BY <2>3 DEF CountsAgree
  <2>8. Len(clusterOps) < ClusterCap
    BY <1>2, <2>1, <2>6, <2>7, RoomLeft
  <2>9. clusterOps' = Append(clusterOps, op)
    BY <2>2, <2>8
  <2>10. CountsAgree(clusterOps, entCell, keepers)'
    BY <1>1, <2>6, <2>9
  <2>11. \A i \in 1..Len(clusterOps'), j \in 1..Len(mapOps') :
            mapOps'[j].type = "remove" => mapOps'[j].entity # clusterOps'[i].entity
    <3>1. /\ Len(clusterOps) \in Nat /\ Len(clusterOps') = Len(clusterOps) + 1
          /\ clusterOps'[Len(clusterOps) + 1] = op
          /\ \A i \in 1..Len(clusterOps) : clusterOps'[i] = clusterOps[i]
      BY <1>2, <2>9
    <3>2. \A i \in 1..Len(clusterOps), j \in 1..Len(mapOps') :
            mapOps'[j].type = "remove" => mapOps'[j].entity # clusterOps[i].entity
      BY <1>2, <1>6 DEF KeepersInv
    <3> QED BY <1>4, <2>1, <3>1, <3>2
  <2> QED BY <1>6, <1>7, <2>10, <2>11 DEF KeepersInv
<1> QED BY <1>8, <1>9

LEMMA RemoveKeepers ==
    ASSUME RoomForUpdaters, TypeOK, EntitiesInv, KeepersInv, RemoveEntity, ~Halt("assert")
    PROVE  KeepersInv'
<1>1. PICK o \in Offsets, e \in Entities :
          /\ mapOps # << >> /\ Head(mapOps).type = "remove"
          /\ Head(mapOps).entity = e /\ Head(mapOps).offset = o
          /\ mapOps' = Tail(mapOps)
          /\ entCell' = [entCell EXCEPT ![e] = Null]
          /\ PushClusterOp("unkeep", e)
          /\ UNCHANGED <<keepers, phase, fault>>
  BY RemoveEntityStep
<1>2. /\ mapOps \in Seq(MapOperation) /\ Len(mapOps) \in Nat /\ 1 \in 1..Len(mapOps)
      /\ mapOps[1] = Head(mapOps)
      /\ Len(mapOps') = Len(mapOps) - 1
      /\ \A i \in 1..Len(mapOps') : mapOps'[i] = mapOps[i + 1] /\ i + 1 \in 1..Len(mapOps)
      /\ \A i \in 1..Len(mapOps') : i + 1 \in 2..Len(mapOps) /\ 1 < i + 1
      /\ clusterOps \in Seq(ClusterOperation)
  BY <1>1 DEF TypeOK
<1>3. entCell[e] # Null
  BY <1>1, <1>2, EntitiesAssumption DEF EntitiesInv, QueueAgrees
<1>4. \A i \in 1..Len(mapOps') : mapOps'[i].type = "remove" => mapOps'[i].entity # e
  <2>1. e # Null
    BY EntitiesAssumption
  <2> QED BY <1>1, <1>2, <2>1 DEF EntitiesInv, QueueAgrees
<1>5. entCell'[e] = Null /\ \A f \in Entities \ {e} : entCell'[f] = entCell[f]
  BY <1>1 DEF TypeOK
<1>6. phase = "mapOps" /\ phase' = "mapOps"
  BY <1>1 DEF RemoveEntity, Running
<1>7. NoStrayEntity'
  BY <1>1 DEF KeepersInv, NoStrayEntity
<1>8. CASE e \notin Updaters
  <2>1. clusterOps' = clusterOps
    BY <1>1, <1>8 DEF PushClusterOp
  <2>2. \A f \in Updaters : entCell'[f] = entCell[f]
    BY <1>5, <1>8, EntitiesAssumption
  <2>3. CountsAgree(clusterOps, entCell, keepers)'
    BY <1>1, <2>1, <2>2 DEF KeepersInv, CountsAgree
  <2>4. \A i \in 1..Len(clusterOps'), j \in 1..Len(mapOps') :
            mapOps'[j].type = "remove" => mapOps'[j].entity # clusterOps'[i].entity
    BY <1>2, <1>6, <2>1 DEF KeepersInv
  <2> QED BY <1>6, <1>7, <2>3, <2>4 DEF KeepersInv
<1>9. CASE e \in Updaters
  <2> DEFINE op == [type |-> "unkeep", entity |-> e]
  <2>1. op \in ClusterOperation /\ op.type = "unkeep" /\ op.entity = e
    BY <1>9 DEF ClusterOperation
  <2>2. clusterOps' = IF Len(clusterOps) < ClusterCap THEN Append(clusterOps, op) ELSE clusterOps
    BY <1>1, <1>9 DEF PushClusterOp
  <2> HIDE DEF op
  <2>3. CountsAgree(clusterOps, entCell, keepers)
    BY DEF KeepersInv
  <2>4. \A f \in Updaters \ {op.entity} : entCell'[f] = entCell[f]
    BY <1>5, <2>1, EntitiesAssumption
  <2>5. entCell[op.entity] # Null /\ entCell'[op.entity] = Null
    BY <1>3, <1>5, <2>1
  <2>6. \A i \in 1..Len(clusterOps) : clusterOps[i].entity # op.entity
    BY <1>1, <1>2, <1>6, <2>1 DEF KeepersInv
  <2>7. CountsAgree(Append(clusterOps, op), entCell', keepers)
    BY <1>2, <2>1, <2>3, <2>4, <2>5, <2>6, PushUnkeepCounts
  <2>8. \A i, j \in 1..Len(clusterOps) :
            i < j /\ clusterOps[i].entity = clusterOps[j].entity
              => clusterOps[i].type # clusterOps[j].type
    BY <2>3 DEF CountsAgree
  <2>9. clusterOps' = Append(clusterOps, op)
    BY <1>2, <2>1, <2>2, <2>6, <2>8, RoomLeft
  <2>10. CountsAgree(clusterOps, entCell, keepers)'
    BY <1>1, <2>7, <2>9
  <2>11. \A i \in 1..Len(clusterOps'), j \in 1..Len(mapOps') :
            mapOps'[j].type = "remove" => mapOps'[j].entity # clusterOps'[i].entity
    <3>1. /\ Len(clusterOps) \in Nat /\ Len(clusterOps') = Len(clusterOps) + 1
          /\ clusterOps'[Len(clusterOps) + 1] = op
          /\ \A i \in 1..Len(clusterOps) : clusterOps'[i] = clusterOps[i]
      BY <1>2, <2>9
    <3>2. \A i \in 1..Len(clusterOps), j \in 1..Len(mapOps') :
            mapOps'[j].type = "remove" => mapOps'[j].entity # clusterOps[i].entity
      BY <1>2, <1>6 DEF KeepersInv
    <3> QED BY <1>4, <2>1, <3>1, <3>2
  <2> QED BY <1>6, <1>7, <2>10, <2>11 DEF KeepersInv
<1> QED BY <1>8, <1>9

(* The cluster counts an operation of its queue.                            *)
LEMMA CountKeepers ==
    ASSUME TypeOK, KeepersInv, Keep \/ Unkeep
    PROVE  KeepersInv'
<1> DEFINE op == clusterOps[1]
<1>1. /\ clusterOps \in Seq(ClusterOperation) /\ clusterOps # << >>
      /\ op = Head(clusterOps) /\ op \in ClusterOperation
      /\ CountsAgree(clusterOps, entCell, keepers)
      /\ phase = "clusterOps"
  BY DEF Keep, Unkeep, TypeOK, KeepersInv, Running
<1>2. op.entity \in Updaters
  BY <1>1 DEF ClusterOperation
<1>3. op.type = "unkeep" => keepers[op.entity] = 1
  BY <1>1, PopCounts
<1>4. /\ keepers' = [keepers EXCEPT ![op.entity] =
                        IF op.type = "keep" THEN @ + 1 ELSE @ - 1]
      /\ clusterOps' = Tail(clusterOps)
      /\ UNCHANGED <<entCell, phase, fault>>
  <2>1. CASE Keep
    BY <1>1, <2>1 DEF Keep, mapVars, loopVars
  <2>2. CASE Unkeep
    BY <1>1, <1>3, <2>2 DEF Unkeep, mapVars, loopVars
  <2> QED BY <2>1, <2>2
<1>5. /\ keepers'[op.entity] = IF op.type = "keep" THEN keepers[op.entity] + 1
                               ELSE keepers[op.entity] - 1
      /\ \A e \in Updaters \ {op.entity} : keepers'[e] = keepers[e]
  BY <1>2, <1>4 DEF TypeOK
<1>6. CountsAgree(Tail(clusterOps), entCell, keepers')
  BY <1>1, <1>5, PopCounts
<1>7. CountsAgree(clusterOps, entCell, keepers)'
  BY <1>4, <1>6
<1> QED BY <1>1, <1>4, <1>7 DEF KeepersInv, NoStrayEntity

LEMMA NextKeepers ==
    ASSUME RoomForUpdaters, TypeOK, EntitiesInv, KeepersInv, [Next]_vars
    PROVE  KeepersInv'
<1>1. ASSUME UNCHANGED <<clusterOps, entCell, keepers, fault>>,
             phase' = "mapOps" => clusterOps = << >> \/
                (phase = "mapOps" /\ \A j \in 1..Len(mapOps') :
                    mapOps'[j].type = "remove" => \E i \in 1..Len(mapOps) : mapOps'[j] = mapOps[i]),
             phase' = "stalls" => clusterOps = << >>
      PROVE  KeepersInv'
  <2>1. CountsAgree(clusterOps, entCell, keepers)'
    BY <1>1 DEF KeepersInv, CountsAgree, Awaits
  <2>2. ASSUME phase' = "mapOps", NEW i \in 1..Len(clusterOps'), NEW j \in 1..Len(mapOps'),
               mapOps'[j].type = "remove"
        PROVE  mapOps'[j].entity # clusterOps'[i].entity
    <3>1. clusterOps # << >>
      BY <1>1, <2>2
    <3> QED BY <1>1, <2>2, <3>1 DEF KeepersInv
  <2>3. phase' = "stalls" => clusterOps' = << >>
    BY <1>1
  <2> QED BY <1>1, <2>1, <2>2, <2>3 DEF KeepersInv, NoStrayEntity
<1>2. ASSUME UNCHANGED mapVars, UNCHANGED clusterVars, UNCHANGED phase,
             fault' \notin {"null", "erase"}
      PROVE  KeepersInv'
  BY <1>2 DEF KeepersInv, CountsAgree, Awaits, NoStrayEntity, mapVars, clusterVars
<1>3. Halt("assert") \/ Halt("freed") => KeepersInv'
  BY <1>2 DEF Halt
<1>4. CASE AddEntity
  BY <1>3, <1>4, AddKeepers
<1>5. CASE RemoveEntity
  BY <1>3, <1>5, RemoveKeepers
<1>6. CASE RemoveFromNowhere \/ Destroy
  <2>1. /\ mapOps' = Tail(mapOps) /\ mapOps # << >> /\ mapOps \in Seq(MapOperation)
        /\ UNCHANGED <<clusterOps, entCell, keepers, fault, phase>> /\ phase = "mapOps"
    BY <1>6 DEF RemoveFromNowhere, Destroy, TypeOK, clusterVars, loopVars, Running
  <2>2. \A j \in 1..Len(mapOps') : j + 1 \in 1..Len(mapOps) /\ mapOps'[j] = mapOps[j + 1]
    BY <2>1
  <2> QED BY <1>1, <2>1, <2>2
<1>7. ASSUME NEW e \in Entities, NEW to \in Offsets, OnMove(e, to) PROVE KeepersInv'
  <2>1. entCell[e] # Null /\ fault = "none" /\ phase = "update"
    BY <1>7 DEF OnMove, EntitiesInv, Running
  <2>2. ~Halt("null")
    BY <1>7, <2>1 DEF OnMove, Halt
  <2>3. Halt("assert") \/ UNCHANGED <<clusterOps, entCell, keepers, fault, phase>>
    BY <1>7, <2>2, OnMoveStep DEF MovesBy
  <2> QED BY <1>1, <1>3, <2>1, <2>3
<1>8. CASE Keep \/ Unkeep
  BY <1>8, CountKeepers
<1>9. CASE TouchKeepers
  <2>1. clusterOps = << >>
    BY <1>9 DEF TouchKeepers
  <2>2. \A e \in Updaters : ~Awaits(clusterOps, "keep", e) /\ ~Awaits(clusterOps, "unkeep", e)
    BY <2>1 DEF Awaits
  <2>3. \A e \in Keepers : entCell[e] # Null
    BY <2>2 DEF Keepers, KeepersInv, CountsAgree
  <2>4. Halt("null") => FALSE
    BY <1>9, <2>3 DEF TouchKeepers, Halt, Running
  <2>5. Halt("assert") \/ Halt("freed") \/ UNCHANGED <<mapVars, keepers, clusterOps, fault>>
    BY <1>9, <2>4, TouchKeepersStep
  <2>6. UNCHANGED <<mapVars, keepers, clusterOps, fault>> => phase' # "mapOps"
    BY <1>9, <2>4, TouchKeepersStep DEF Halt, TouchKeepers, Running
  <2> QED BY <1>1, <1>3, <2>1, <2>5, <2>6 DEF mapVars
<1>10. ASSUME NEW e \in Entities, NEW o \in Offsets, AddTo(e, o) PROVE KeepersInv'
  <2>1. /\ mapOps' = Append(mapOps, [type |-> "add", offset |-> o, entity |-> e, param |-> Null])
        /\ UNCHANGED <<clusterOps, entCell, keepers, fault, phase>>
        /\ mapOps \in Seq(MapOperation)
    BY <1>10 DEF AddTo, TypeOK, clusterVars, loopVars
  <2>2. \A j \in 1..Len(mapOps') : mapOps'[j].type = "remove" =>
            j \in 1..Len(mapOps) /\ mapOps'[j] = mapOps[j]
    BY <2>1
  <2>3. phase = "stalls" => clusterOps = << >>
    BY DEF KeepersInv
  <2> QED BY <1>1, <2>1, <2>2, <2>3
<1>11. CASE BeginUpdate \/ EndUpdate \/ (\E elapsed \in 0..MaxElapsed : Cleanup(elapsed))
              \/ (\E e \in Entities : RemoveFrom(e))
  <2>1. UNCHANGED <<clusterOps, entCell, keepers, fault>> /\ phase' \notin {"mapOps", "stalls"}
    BY <1>11 DEF BeginUpdate, EndUpdate, Cleanup, RemoveFrom, mapVars, clusterVars, loopVars,
                 Running
  <2> QED BY <1>1, <2>1
<1>12. CASE EndTick \/ (\E o \in Offsets : DestroyCell(o))
  <2>1. UNCHANGED <<clusterOps, entCell, keepers, fault>> /\ phase = "stalls"
    BY <1>12 DEF EndTick, DestroyCell, mapVars, clusterVars, loopVars, Running
  <2>2. clusterOps = << >>
    BY <2>1 DEF KeepersInv
  <2> QED BY <1>1, <2>1, <2>2
<1>13. CASE Halted \/ UNCHANGED vars
  <2>1. UNCHANGED vars
    BY <1>13 DEF Halted
  <2> QED BY <1>2, <2>1 DEF vars, loopVars, KeepersInv, NoStrayEntity
<1> QED
  BY <1>4, <1>5, <1>6, <1>7, <1>8, <1>9, <1>10, <1>11, <1>12, <1>13
  DEF Next, ServerLoop, Callers

LEMMA KeepersInvariant ==
    ASSUME RoomForUpdaters
    PROVE  Spec => []KeepersInv
<1>1. Init => KeepersInv
  BY EntitiesAssumption DEF Init, KeepersInv, CountsAgree, Awaits, NoStrayEntity
<1>2. TypeOK /\ EntitiesInv /\ KeepersInv /\ [Next]_vars => KeepersInv'
  BY NextKeepers
<1> QED BY <1>1, <1>2, TypeCorrect, EntitiesInvariant, PTL DEF Spec

(* Whenever Cluster uses its list of keepers it holds exactly the updaters  *)
(* that are in a cell, each once: no KEEP or UNKEEP is lost or doubled, if  *)
(* the queue has room for two operations of every updater.                  *)
THEOREM KeepersCounted ==
    ASSUME RoomForUpdaters
    PROVE  Spec => []KeepersAreTheUpdatersInside
<1>1. KeepersInv => KeepersAreTheUpdatersInside
  BY DEF KeepersInv, KeepersAreTheUpdatersInside, CountsAgree, Awaits
<1> QED BY <1>1, KeepersInvariant, PTL

(* Neither a move, nor the touch of a keeper, nor an UNKEEP ever finds an   *)
(* entity that is not where it should be, with the same room in the queue.  *)
THEOREM EntitiesNeverStray ==
    ASSUME RoomForUpdaters
    PROVE  Spec => []NoStrayEntity
<1>1. KeepersInv => NoStrayEntity
  BY DEF KeepersInv
<1> QED BY <1>1, KeepersInvariant, PTL
=============================================================================
