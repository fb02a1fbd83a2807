------------------------ MODULE CellBroadcastProofs ------------------------
(***************************************************************************)
(* Proofs about CellBroadcast for any grid, any entities and whatever      *)
(* Cell::_clientsCount holds in a new cell.                                *)
(***************************************************************************)
EXTENDS CellBroadcast, FiniteSetTheorems, TLAPS

Operation == [type : {"add", "remove"}, offset : Offsets, entity : Entities,
              param : Offsets \cup {None}]

Packet == [type : {"spawn", "despawn", "call"}, entity : Entities \cup {None}]

(* The types the arguments below rest on.                                   *)
BroadcastTypes ==
    /\ members \in [Offsets -> SUBSET Entities]
    /\ where \in [Entities -> Offsets \cup {None}]
    /\ ops \in Seq(Operation)
    /\ filling \in [Offsets -> Seq(Packet)] /\ sending \in [Offsets -> Seq(Packet)]
    /\ phase \in {"mapOps", "update", "after"}
    /\ fresh \subseteq Offsets
    /\ cell \in Offsets \cup {None} /\ left \subseteq Entities
    /\ heard \in [Clients -> Nat] /\ audience \subseteq Clients

LEMMA NoneIsNoOffset == None \notin Offsets
  BY BroadcastAssumption

LEMMA FirstOperation ==
    ASSUME NEW q \in Seq(Operation), q # << >>
    PROVE  /\ Head(q) = q[1] /\ Head(q).offset \in Offsets /\ Head(q).entity \in Entities
           /\ Tail(q) \in Seq(Operation)
<1>1. Head(q) \in Operation /\ Tail(q) \in Seq(Operation) /\ Head(q) = q[1]
  OBVIOUS
<1> QED BY <1>1 DEF Operation

LEMMA BroadcastType ==
    ASSUME NEW area, NEW packet \in Packet, NEW cnt, BroadcastTypes, Broadcast(area, packet, cnt)
    PROVE  filling' \in [Offsets -> Seq(Packet)]
  BY DEF Broadcast, BroadcastTypes

LEMMA CallIsPacket == Call \in Packet
  BY DEF Call, Packet

LEMMA NextBroadcastTypes == BroadcastTypes /\ [Next]_vars => BroadcastTypes'
<1> SUFFICES ASSUME BroadcastTypes, [Next]_vars PROVE BroadcastTypes'
  OBVIOUS
<1>1. CASE AddEntity
  <2> DEFINE o == Head(ops).offset
             e == Head(ops).entity
             p == [type |-> "spawn", entity |-> e]
  <2>1. o \in Offsets /\ e \in Entities /\ Tail(ops) \in Seq(Operation)
    <3>1. ops \in Seq(Operation) /\ ops # << >>
      BY <1>1 DEF AddEntity, BroadcastTypes
    <3> QED BY <3>1, FirstOperation
  <2>2. p \in Packet
    BY <2>1 DEF Packet
  <2>3. filling' \in [Offsets -> Seq(Packet)]
    BY <1>1, <2>2, BroadcastType DEF AddEntity
  <2>4. members' \in [Offsets -> SUBSET Entities]
    BY <1>1, <2>1 DEF AddEntity, BroadcastTypes
  <2>5. where' \in [Entities -> Offsets \cup {None}]
    BY <1>1, <2>1 DEF AddEntity, BroadcastTypes
  <2>6. audience' \subseteq Clients
    BY <1>1 DEF AddEntity, BroadcastTypes
  <2> QED BY <1>1, <2>1, <2>3, <2>4, <2>5, <2>6 DEF AddEntity, BroadcastTypes, tickVars
<1>2. CASE RemoveEntity
  <2> DEFINE o == Head(ops).offset
             e == Head(ops).entity
             p == [type |-> "despawn", entity |-> e]
  <2>1. o \in Offsets /\ e \in Entities /\ Tail(ops) \in Seq(Operation)
    <3>1. ops \in Seq(Operation) /\ ops # << >>
      BY <1>2 DEF RemoveEntity, BroadcastTypes
    <3> QED BY <3>1, FirstOperation
  <2>2. p \in Packet
    BY <2>1 DEF Packet
  <2>3. filling' \in [Offsets -> Seq(Packet)]
    BY <1>2, <2>2, BroadcastType DEF RemoveEntity
  <2>4. members' \in [Offsets -> SUBSET Entities]
    BY <1>2, <2>1 DEF RemoveEntity, BroadcastTypes
  <2>5. where' \in [Entities -> Offsets \cup {None}]
    BY <1>2, <2>1 DEF RemoveEntity, BroadcastTypes
  <2>6. audience' \subseteq Clients
    BY <1>2 DEF RemoveEntity, BroadcastTypes
  <2> QED BY <1>2, <2>1, <2>3, <2>4, <2>5, <2>6 DEF RemoveEntity, BroadcastTypes, tickVars
<1>3. CASE BeginUpdate \/ EndUpdate
  BY <1>3 DEF BeginUpdate, EndUpdate, BroadcastTypes, cellVars, calls
<1>4. CASE Cleanup
  BY <1>4 DEF Cleanup, ClearQueues, BroadcastTypes, calls
<1>5. ASSUME NEW o \in Offsets, BeginCell(o) PROVE BroadcastTypes'
  BY <1>5 DEF BeginCell, SwapQueues, BroadcastTypes, calls
<1>6. ASSUME NEW o \in Offsets, Announce(o)
      PROVE  filling' \in [Offsets -> Seq(Packet)] /\ audience' \subseteq Clients
  BY <1>6, BroadcastType, CallIsPacket DEF Announce
<1>7. ASSUME NEW o \in Offsets, AnnounceAfter(o) PROVE BroadcastTypes'
  BY <1>6, <1>7 DEF AnnounceAfter, BroadcastTypes, tickVars
<1>8. ASSUME NEW e \in Entities, RemoveFrom(e) PROVE BroadcastTypes'
  <2> DEFINE op == [type |-> "remove", offset |-> where[e], entity |-> e, param |-> None]
  <2>1. op \in Operation
    BY <1>8 DEF RemoveFrom, BroadcastTypes, Operation
  <2>2. ops' \in Seq(Operation)
    BY <1>8, <2>1 DEF RemoveFrom, BroadcastTypes
  <2> QED BY <1>8, <2>2 DEF RemoveFrom, BroadcastTypes, cellVars, tickVars, calls
<1>9. ASSUME NEW e \in Entities, NEW o \in Offsets, AddTo(e, o) PROVE BroadcastTypes'
  <2> DEFINE op == [type |-> "add", offset |-> o, entity |-> e, param |-> None]
  <2>1. op \in Operation
    BY DEF Operation
  <2>2. ops' \in Seq(Operation)
    BY <1>9, <2>1 DEF AddTo, BroadcastTypes
  <2> QED BY <1>9, <2>2 DEF AddTo, BroadcastTypes, cellVars, tickVars, calls
<1>10. ASSUME NEW e \in Entities, NEW to \in Offsets, NEW a \in BOOLEAN, UpdateEntity(e, to, a)
       PROVE  BroadcastTypes'
  <2> DEFINE leave == [type |-> "remove", offset |-> cell, entity |-> e, param |-> to]
             come == [type |-> "add", offset |-> to, entity |-> e, param |-> cell]
  <2>1. cell \in Offsets
    BY <1>10 DEF UpdateEntity, BroadcastTypes
  <2>2. leave \in Operation /\ come \in Operation
    BY <2>1 DEF Operation
  <2>3. ops' = ops \/ ops' = ops \o <<leave, come>>
    BY <1>10 DEF UpdateEntity
  <2>4. <<leave, come>> \in Seq(Operation)
    BY <2>2
  <2>5. ops' \in Seq(Operation)
    <3>1. ops \in Seq(Operation)
      BY DEF BroadcastTypes
    <3> DEFINE two == <<leave, come>>
    <3> HIDE DEF two
    <3>2. ops \o two \in Seq(Operation)
      BY <2>4, <3>1 DEF two
    <3> QED BY <2>3, <3>1, <3>2 DEF two
  <2>6. filling' \in [Offsets -> Seq(Packet)] /\ audience' \subseteq Clients
    <3>1. CASE a
      <4>1. Announce(cell)
        BY <1>10, <3>1 DEF UpdateEntity
      <4> QED BY <1>6, <2>1, <4>1
    <3>2. CASE ~a
      BY <1>10, <3>2 DEF UpdateEntity, BroadcastTypes
    <3> QED BY <3>1, <3>2
  <2>7. heard' \in [Clients -> Nat]
    <3>1. CASE a
      BY <1>10, <3>1 DEF UpdateEntity
    <3>2. CASE ~a
      <4>1. PICK q : heard' = [c \in Clients |-> IF c = e /\ Contains(q, Call) THEN heard[c] + 1
                                                                               ELSE heard[c]]
        BY <1>10, <3>2 DEF UpdateEntity
      <4> QED BY <4>1 DEF BroadcastTypes
    <3> QED BY <3>1, <3>2
  <2>8. /\ left' = left \ {e} /\ (cell' = None \/ cell' = cell)
        /\ UNCHANGED <<members, where, sending, phase, fresh>>
    BY <1>10 DEF UpdateEntity
  <2> QED BY <2>5, <2>6, <2>7, <2>8 DEF BroadcastTypes
<1>11. CASE UNCHANGED vars
  BY <1>11 DEF vars, cellVars, tickVars, calls, BroadcastTypes
<1> QED BY <1>1, <1>2, <1>3, <1>4, <1>5, <1>7, <1>8, <1>9, <1>10, <1>11 DEF Next

-----------------------------------------------------------------------------
(* What is queued for the map suits where the entities are: a remove names  *)
(* the cell of its entity, an add is of an entity that is in no cell or     *)
(* will have left it by then, and there is no more than that for anybody.   *)
QueueInv(q, w) ==
    /\ \A i \in 1..Len(q) : q[i].type = "remove" => w[q[i].entity] = q[i].offset
    /\ \A i, j \in 1..Len(q) :
          i < j /\ q[i].entity = q[j].entity => q[i].type = "remove" /\ q[j].type = "add"
    /\ \A i \in 1..Len(q) : q[i].type = "add" /\ w[q[i].entity] # None =>
          \E j \in 1..(i - 1) : q[j].entity = q[i].entity

HasQueued(q, e) == \E i \in 1..Len(q) : q[i].entity = e

(* Cells and entities agree, and those still to be updated have nothing     *)
(* queued: they are where the operations of the tick have left them.        *)
PlacesInv ==
    /\ \A o \in Offsets, e \in Entities : e \in members[o] <=> where[e] = o
    /\ QueueInv(ops, where)
    /\ phase # "update" => cell = None /\ fresh = {}
    /\ cell # None => cell \notin fresh /\ \A e \in left : where[e] = cell /\ ~HasQueued(ops, e)
    /\ \A o \in fresh : \A e \in members[o] : ~HasQueued(ops, e)

LEMMA QueuedIsHasQueued ==
    ASSUME NEW e, BroadcastTypes
    PROVE  Queued(e) <=> HasQueued(ops, e)
<1>1. DOMAIN ops = 1..Len(ops)
  BY DEF BroadcastTypes
<1> QED BY <1>1 DEF Queued, HasQueued

(* The first operation of the queue can be run, and what is left suits what *)
(* it does.                                                                 *)
LEMMA QueueTail ==
    ASSUME NEW q \in Seq(Operation), q # << >>, NEW w \in [Entities -> Offsets \cup {None}],
           QueueInv(q, w)
    PROVE  LET e == Head(q).entity
           IN  /\ Head(q).type = "add" =>
                     /\ w[e] = None
                     /\ QueueInv(Tail(q), [w EXCEPT ![e] = Head(q).offset])
               /\ Head(q).type = "remove" =>
                     /\ w[e] = Head(q).offset
                     /\ QueueInv(Tail(q), [w EXCEPT ![e] = None])
<1> DEFINE t == Tail(q)
           n == Len(q)
           e == Head(q).entity
<1>1. /\ n \in Nat /\ n > 0 /\ Len(t) = n - 1 /\ \A i \in 1..(n - 1) : t[i] = q[i + 1]
      /\ Head(q) = q[1]
  OBVIOUS
<1>2. \A i \in 1..n : q[i].entity \in Entities /\ q[i].offset \in Offsets
  <2>1. \A i \in 1..n : q[i] \in Operation
    OBVIOUS
  <2> QED BY <2>1 DEF Operation
<1>3. e \in Entities /\ Head(q).offset \in Offsets
  BY <1>1, <1>2
<1> HIDE DEF t, n, e
<1>4. \A i \in 1..Len(t) : i + 1 \in 1..n /\ t[i] = q[i + 1] /\ i + 1 # 1
  BY <1>1
<1>5. ASSUME NEW i \in 1..Len(t), NEW j \in 1..Len(t), i < j, t[i].entity = t[j].entity
      PROVE  t[i].type = "remove" /\ t[j].type = "add"
  <2>1. i + 1 \in 1..n /\ j + 1 \in 1..n /\ i + 1 < j + 1
    BY <1>4, <1>5
  <2> QED BY <1>4, <1>5, <2>1 DEF QueueInv, n
<1>6. \A i \in 1..Len(t) : t[i].entity = e => Head(q).type = "remove" /\ t[i].type = "add"
  <2> SUFFICES ASSUME NEW i \in 1..Len(t), t[i].entity = e
               PROVE  Head(q).type = "remove" /\ t[i].type = "add"
    OBVIOUS
  <2>1. 1 \in 1..n /\ i + 1 \in 1..n /\ 1 < i + 1 /\ q[1].entity = q[i + 1].entity
    BY <1>1, <1>4 DEF e
  <2> QED BY <1>1, <1>4, <2>1 DEF QueueInv, n
<1>7. ASSUME NEW at \in Offsets \cup {None}, at = None \/ Head(q).type = "add"
      PROVE  QueueInv(t, [w EXCEPT ![e] = at])
  <2> DEFINE v == [w EXCEPT ![e] = at]
  <2>1. v[e] = at /\ \A f \in Entities : f # e => v[f] = w[f]
    BY <1>3
  <2> HIDE DEF v
  <2>2. ASSUME NEW i \in 1..Len(t), t[i].type = "remove" PROVE v[t[i].entity] = t[i].offset
    <3>1. t[i].entity # e
      BY <1>6, <2>2
    <3>2. w[t[i].entity] = t[i].offset
      BY <1>4, <2>2 DEF QueueInv, n
    <3> QED BY <1>2, <1>4, <2>1, <3>1, <3>2
  <2>3. ASSUME NEW i \in 1..Len(t), t[i].type = "add", v[t[i].entity] # None
        PROVE  \E j \in 1..(i - 1) : t[j].entity = t[i].entity
    <3>1. t[i].entity # e
      BY <1>6, <1>7, <2>1, <2>3
    <3>2. w[t[i].entity] # None
      BY <1>2, <1>4, <2>1, <2>3, <3>1
    <3>3. PICK j \in 1..((i + 1) - 1) : q[j].entity = q[i + 1].entity
      BY <1>4, <2>3, <3>2 DEF QueueInv, n
    <3>4. j # 1
      BY <1>1, <1>4, <3>1, <3>3 DEF e
    <3>5. j - 1 \in 1..(i - 1) /\ j - 1 \in 1..Len(t) /\ (j - 1) + 1 = j
      BY <1>1, <3>3, <3>4
    <3>6. t[j - 1] = q[j]
      BY <1>4, <3>5
    <3> QED BY <1>4, <3>3, <3>5, <3>6
  <2> QED BY <1>5, <2>2, <2>3 DEF QueueInv, v
<1>8. ASSUME Head(q).type = "add" PROVE w[e] = None
  <2>1. 1 \in 1..n /\ ~\E j \in 1..(1 - 1) : TRUE
    BY <1>1
  <2> QED BY <1>1, <1>8, <2>1 DEF QueueInv, n, e
<1>9. ASSUME Head(q).type = "remove" PROVE w[e] = Head(q).offset
  <2>1. 1 \in 1..n
    BY <1>1
  <2> QED BY <1>1, <1>9, <2>1 DEF QueueInv, n, e
<1> QED BY <1>3, <1>7, <1>8, <1>9 DEF t, e

(* An entity for which nothing is queued may leave its cell or enter one.   *)
LEMMA QueueAppend ==
    ASSUME NEW q \in Seq(Operation), NEW op \in Operation,
           NEW w \in [Entities -> Offsets \cup {None}], QueueInv(q, w),
           \A i \in 1..Len(q) : q[i].entity = op.entity =>
               q[i].type = "remove" /\ op.type = "add",
           op.type = "remove" => w[op.entity] = op.offset,
           op.type = "add" => w[op.entity] = None \/ HasQueued(q, op.entity)
    PROVE  QueueInv(Append(q, op), w)
<1> DEFINE r == Append(q, op)
           n == Len(q)
<1>1. /\ n \in Nat /\ Len(r) = n + 1 /\ r[n + 1] = op
      /\ \A i \in 1..n : r[i] = q[i]
      /\ \A i \in 1..(n + 1) : i \in 1..n \/ i = n + 1
  OBVIOUS
<1> HIDE DEF r, n
<1>2. ASSUME NEW i \in 1..Len(r), r[i].type = "remove" PROVE w[r[i].entity] = r[i].offset
  BY <1>1, <1>2 DEF QueueInv, n
<1>3. ASSUME NEW i \in 1..Len(r), NEW j \in 1..Len(r), i < j, r[i].entity = r[j].entity
      PROVE  r[i].type = "remove" /\ r[j].type = "add"
  <2>1. i \in 1..n
    BY <1>1, <1>3
  <2>2. CASE j \in 1..n
    BY <1>1, <1>3, <2>1, <2>2 DEF QueueInv, n
  <2>3. CASE j = n + 1
    BY <1>1, <1>3, <2>1, <2>3 DEF n
  <2> QED BY <1>1, <2>2, <2>3
<1>4. ASSUME NEW i \in 1..Len(r), r[i].type = "add", w[r[i].entity] # None
      PROVE  \E j \in 1..(i - 1) : r[j].entity = r[i].entity
  <2>1. CASE i \in 1..n
    <3>1. PICK j \in 1..(i - 1) : q[j].entity = q[i].entity
      BY <1>1, <1>4, <2>1 DEF QueueInv, n
    <3>2. j \in 1..n
      BY <1>1, <2>1
    <3> QED BY <1>1, <2>1, <3>1, <3>2
  <2>2. CASE i = n + 1
    <3>1. PICK j \in 1..n : q[j].entity = op.entity
      BY <1>1, <1>4, <2>2 DEF HasQueued, n
    <3>2. i - 1 = n
      BY <1>1, <2>2
    <3> QED BY <1>1, <2>2, <3>1, <3>2
  <2> QED BY <1>1, <2>1, <2>2
<1>5. QueueInv(r, w)
  BY <1>2, <1>3, <1>4 DEF QueueInv
<1> QED BY <1>5 DEF r

LEMMA HasQueuedAppend ==
    ASSUME NEW q \in Seq(Operation), NEW op \in Operation, NEW e
    PROVE  HasQueued(Append(q, op), e) <=> (HasQueued(q, e) \/ op.entity = e)
<1> DEFINE r == Append(q, op)
           n == Len(q)
<1>1. /\ n \in Nat /\ Len(r) = n + 1 /\ r[n + 1] = op
      /\ \A i \in 1..n : r[i] = q[i]
      /\ \A i \in 1..(n + 1) : i \in 1..n \/ i = n + 1
      /\ n + 1 \in 1..(n + 1) /\ \A i \in 1..n : i \in 1..(n + 1)
  OBVIOUS
<1> HIDE DEF r, n
<1>2. HasQueued(r, e) <=> (HasQueued(q, e) \/ op.entity = e)
  BY <1>1 DEF HasQueued, n
<1> QED BY <1>2 DEF r

(* What the two operations of the map do to cells and entities.             *)
LEMMA AddPlaces ==
    ASSUME BroadcastTypes, PlacesInv, AddEntity
    PROVE  LET o == Head(ops).offset
               e == Head(ops).entity
           IN  /\ o \in Offsets /\ e \in Entities /\ where[e] = None /\ e \notin members[o]
               /\ where'[e] = o /\ (\A f \in Entities : f # e => where'[f] = where[f])
               /\ members'[o] = members[o] \cup {e}
               /\ \A p \in Offsets : p # o => members'[p] = members[p]
               /\ QueueInv(ops', where')
               /\ \A p \in Offsets, f \in Entities : f \in members'[p] <=> where'[f] = p
               /\ cell = None /\ fresh = {}
<1> DEFINE o == Head(ops).offset
           e == Head(ops).entity
<1>1. ops \in Seq(Operation) /\ ops # << >> /\ Head(ops).type = "add"
  BY DEF AddEntity, BroadcastTypes
<1>2. o \in Offsets /\ e \in Entities
  BY <1>1, FirstOperation
<1>3. where \in [Entities -> Offsets \cup {None}] /\ QueueInv(ops, where)
  BY DEF BroadcastTypes, PlacesInv
<1>4. where[e] = None /\ QueueInv(Tail(ops), [where EXCEPT ![e] = o])
  BY <1>1, <1>3, QueueTail
<1>5. /\ members' = [members EXCEPT ![o] = @ \cup {e}] /\ where' = [where EXCEPT ![e] = o]
      /\ ops' = Tail(ops)
  BY DEF AddEntity
<1>6. cell = None /\ fresh = {}
  BY DEF AddEntity, PlacesInv
<1> HIDE DEF o, e
<1>7. /\ where'[e] = o /\ (\A f \in Entities : f # e => where'[f] = where[f])
      /\ members'[o] = members[o] \cup {e}
      /\ \A p \in Offsets : p # o => members'[p] = members[p]
  BY <1>2, <1>5 DEF BroadcastTypes
<1>8. \A p \in Offsets, f \in Entities : f \in members[p] <=> where[f] = p
  BY DEF PlacesInv
<1>9. e \notin members[o]
  BY <1>2, <1>4, <1>8, NoneIsNoOffset
<1>10. ASSUME NEW p \in Offsets, NEW f \in Entities
       PROVE  f \in members'[p] <=> where'[f] = p
  BY <1>2, <1>4, <1>7, <1>8, NoneIsNoOffset
<1>11. QueueInv(ops', where')
  BY <1>4, <1>5 DEF o, e
<1> QED BY <1>2, <1>4, <1>6, <1>7, <1>9, <1>10, <1>11 DEF o, e

LEMMA RemovePlaces ==
    ASSUME BroadcastTypes, PlacesInv, RemoveEntity
    PROVE  LET o == Head(ops).offset
               e == Head(ops).entity
           IN  /\ o \in Offsets /\ e \in Entities /\ e \in members[o]
               /\ where'[e] = None /\ (\A f \in Entities : f # e => where'[f] = where[f])
               /\ members'[o] = members[o] \ {e}
               /\ \A p \in Offsets : p # o => members'[p] = members[p]
               /\ QueueInv(ops', where')
               /\ \A p \in Offsets, f \in Entities : f \in members'[p] <=> where'[f] = p
               /\ cell = None /\ fresh = {}
<1> DEFINE o == Head(ops).offset
           e == Head(ops).entity
<1>1. ops \in Seq(Operation) /\ ops # << >> /\ Head(ops).type = "remove"
  BY DEF RemoveEntity, BroadcastTypes
<1>2. o \in Offsets /\ e \in Entities
  BY <1>1, FirstOperation
<1>3. where \in [Entities -> Offsets \cup {None}] /\ QueueInv(ops, where)
  BY DEF BroadcastTypes, PlacesInv
<1>4. where[e] = o /\ QueueInv(Tail(ops), [where EXCEPT ![e] = None])
  BY <1>1, <1>3, QueueTail
<1>5. /\ members' = [members EXCEPT ![o] = @ \ {e}] /\ where' = [where EXCEPT ![e] = None]
      /\ ops' = Tail(ops)
  BY DEF RemoveEntity
<1>6. cell = None /\ fresh = {}
  BY DEF RemoveEntity, PlacesInv
<1> HIDE DEF o, e
<1>7. /\ where'[e] = None /\ (\A f \in Entities : f # e => where'[f] = where[f])
      /\ members'[o] = members[o] \ {e}
      /\ \A p \in Offsets : p # o => members'[p] = members[p]
  BY <1>2, <1>5 DEF BroadcastTypes
<1>8. \A p \in Offsets, f \in Entities : f \in members[p] <=> where[f] = p
  BY DEF PlacesInv
<1>9. e \in members[o]
  BY <1>2, <1>4, <1>8
<1>10. ASSUME NEW p \in Offsets, NEW f \in Entities
       PROVE  f \in members'[p] <=> where'[f] = p
  BY <1>2, <1>4, <1>7, <1>8, NoneIsNoOffset
<1>11. QueueInv(ops', where')
  BY <1>4, <1>5 DEF e
<1> QED BY <1>2, <1>6, <1>7, <1>9, <1>10, <1>11 DEF o, e

(* UpdateEntity queues nothing, or a departure and an arrival.              *)
LEMMA UpdateQueues ==
    ASSUME BroadcastTypes, PlacesInv,
           NEW e \in Entities, NEW to \in Offsets, NEW a \in BOOLEAN, UpdateEntity(e, to, a)
    PROVE  /\ cell \in Offsets /\ cell \notin fresh /\ where[e] = cell /\ ~HasQueued(ops, e)
           /\ QueueInv(ops', where)
           /\ \A f : HasQueued(ops', f) => HasQueued(ops, f) \/ f = e
<1> DEFINE leave == [type |-> "remove", offset |-> cell, entity |-> e, param |-> to]
           come == [type |-> "add", offset |-> to, entity |-> e, param |-> cell]
           q == Append(ops, leave)
<1>1. cell \in Offsets /\ cell # None
  BY DEF UpdateEntity, BroadcastTypes
<1>2. cell \notin fresh /\ where[e] = cell /\ ~HasQueued(ops, e)
  BY <1>1 DEF UpdateEntity, PlacesInv
<1>3. /\ leave \in Operation /\ leave.type = "remove" /\ leave.offset = cell /\ leave.entity = e
      /\ come \in Operation /\ come.type = "add" /\ come.entity = e
  BY <1>1 DEF Operation
<1>4. ops \in Seq(Operation) /\ QueueInv(ops, where)
      /\ where \in [Entities -> Offsets \cup {None}]
  BY DEF BroadcastTypes, PlacesInv
<1>5. ops' = ops \/ ops' = ops \o <<leave, come>>
  BY DEF UpdateEntity
<1> HIDE DEF leave, come
<1>6. ops \o <<leave, come>> = Append(q, come)
  BY <1>3, <1>4
<1>7. q \in Seq(Operation) /\ q # << >>
  BY <1>3, <1>4
<1>8. QueueInv(q, where)
  <2>1. \A i \in 1..Len(ops) : ops[i].entity # leave.entity
    BY <1>2, <1>3 DEF HasQueued
  <2> QED BY <1>2, <1>3, <1>4, <2>1, QueueAppend
<1>9. \A f : HasQueued(q, f) <=> HasQueued(ops, f) \/ f = e
  BY <1>3, <1>4, HasQueuedAppend
<1>10. QueueInv(Append(q, come), where)
  <2>1. HasQueued(q, come.entity)
    BY <1>3, <1>9
  <2>2. \A i \in 1..Len(q) : q[i].entity = come.entity => q[i].type = "remove"
    <3>1. /\ Len(q) = Len(ops) + 1 /\ Len(ops) \in Nat /\ q[Len(ops) + 1] = leave
          /\ \A i \in 1..Len(ops) : q[i] = ops[i]
      BY <1>3, <1>4
    <3>2. \A i \in 1..Len(ops) : ops[i].entity # e
      BY <1>2 DEF HasQueued
    <3> HIDE DEF q
    <3> QED BY <1>3, <3>1, <3>2
  <2> HIDE DEF q
  <2> QED BY <1>3, <1>4, <1>7, <1>8, <2>1, <2>2, QueueAppend
<1>11. \A f : HasQueued(Append(q, come), f) => HasQueued(ops, f) \/ f = e
  <2> HIDE DEF q
  <2> QED BY <1>3, <1>7, <1>9, HasQueuedAppend
<1> HIDE DEF q
<1> QED BY <1>1, <1>2, <1>4, <1>5, <1>6, <1>10, <1>11

LEMMA NextPlaces == BroadcastTypes /\ PlacesInv /\ [Next]_vars => PlacesInv'
<1> SUFFICES ASSUME BroadcastTypes, PlacesInv, [Next]_vars PROVE PlacesInv'
  OBVIOUS
<1>1. CASE AddEntity
  <2>1. /\ QueueInv(ops', where')
        /\ \A p \in Offsets, f \in Entities : f \in members'[p] <=> where'[f] = p
        /\ cell = None /\ fresh = {}
    BY <1>1, AddPlaces
  <2>2. cell' = cell /\ fresh' = fresh
    BY <1>1 DEF AddEntity, tickVars
  <2> QED BY <2>1, <2>2 DEF PlacesInv
<1>2. CASE RemoveEntity
  <2>1. /\ QueueInv(ops', where')
        /\ \A p \in Offsets, f \in Entities : f \in members'[p] <=> where'[f] = p
        /\ cell = None /\ fresh = {}
    BY <1>2, RemovePlaces
  <2>2. cell' = cell /\ fresh' = fresh
    BY <1>2 DEF RemoveEntity, tickVars
  <2> QED BY <2>1, <2>2 DEF PlacesInv
<1>3. CASE BeginUpdate
  <2>1. \A f : ~HasQueued(ops, f)
    BY <1>3 DEF BeginUpdate, HasQueued
  <2>2. /\ phase' = "update" /\ fresh' = Offsets /\ cell = None
        /\ UNCHANGED <<members, where, ops, cell, left>>
    BY <1>3 DEF BeginUpdate, cellVars, PlacesInv
  <2>3. \A f : ~HasQueued(ops', f)
    BY <2>1, <2>2 DEF HasQueued
  <2>4. QueueInv(ops', where')
    BY <2>2 DEF PlacesInv, QueueInv
  <2> QED BY <2>2, <2>3, <2>4 DEF PlacesInv
<1>4. CASE EndUpdate
  <2>1. /\ phase = "update" /\ phase' = "after" /\ cell = None /\ fresh = {}
        /\ UNCHANGED <<members, where, ops, fresh, cell, left>>
    BY <1>4 DEF EndUpdate, cellVars
  <2>2. QueueInv(ops', where')
    BY <2>1 DEF PlacesInv, QueueInv
  <2> QED BY <2>1, <2>2 DEF PlacesInv
<1>5. CASE Cleanup
  <2>1. /\ phase = "after" /\ phase' = "mapOps"
        /\ UNCHANGED <<members, where, ops, fresh, cell, left>>
    BY <1>5 DEF Cleanup
  <2>2. QueueInv(ops', where')
    BY <2>1 DEF PlacesInv, QueueInv
  <2>3. cell = None /\ fresh = {}
    BY <2>1 DEF PlacesInv
  <2> QED BY <2>1, <2>2, <2>3 DEF PlacesInv
<1>6. ASSUME NEW o \in Offsets, BeginCell(o) PROVE PlacesInv'
  <2>1. /\ phase = "update" /\ cell = None /\ o \in fresh /\ fresh' = fresh \ {o}
        /\ (cell' = None \/ cell' = o) /\ left' = members[o]
        /\ UNCHANGED <<members, where, ops, phase>>
    BY <1>6 DEF BeginCell
  <2>2. QueueInv(ops', where')
    BY <2>1 DEF PlacesInv, QueueInv
  <2>3. \A f : HasQueued(ops', f) <=> HasQueued(ops, f)
    BY <2>1 DEF HasQueued
  <2>4. \A e \in members[o] : e \in Entities /\ where[e] = o /\ ~HasQueued(ops, e)
    BY <2>1 DEF PlacesInv, BroadcastTypes
  <2>5. \A e \in left' : where'[e] = o /\ ~HasQueued(ops', e)
    BY <2>1, <2>3, <2>4
  <2>6. \A p \in fresh' : \A e \in members'[p] : ~HasQueued(ops', e)
    BY <2>1, <2>3 DEF PlacesInv
  <2>7. \A p \in Offsets, f \in Entities : f \in members'[p] <=> where'[f] = p
    BY <2>1 DEF PlacesInv
  <2>8. o \notin fresh' /\ phase' = "update"
    BY <2>1
  <2> QED BY <2>1, <2>2, <2>5, <2>6, <2>7, <2>8 DEF PlacesInv
<1>7. ASSUME NEW o \in Offsets, AnnounceAfter(o) PROVE PlacesInv'
  <2>1. UNCHANGED <<members, where, ops, phase, fresh, cell, left>>
    BY <1>7 DEF AnnounceAfter, tickVars
  <2> QED BY <2>1 DEF PlacesInv, QueueInv, HasQueued
<1>8. ASSUME NEW e \in Entities, RemoveFrom(e) PROVE PlacesInv'
  <2> DEFINE op == [type |-> "remove", offset |-> where[e], entity |-> e, param |-> None]
  <2>1. op \in Operation /\ op.type = "remove" /\ op.offset = where[e] /\ op.entity = e
    BY <1>8 DEF RemoveFrom, BroadcastTypes, Operation
  <2>2. /\ ops' = Append(ops, op) /\ phase = "after" /\ ~HasQueued(ops, e)
        /\ UNCHANGED <<members, where, phase, fresh, cell, left>>
    BY <1>8, QueuedIsHasQueued DEF RemoveFrom, cellVars, tickVars
  <2>3. ops \in Seq(Operation) /\ QueueInv(ops, where)
        /\ where \in [Entities -> Offsets \cup {None}]
    BY DEF BroadcastTypes, PlacesInv
  <2> HIDE DEF op
  <2>4. QueueInv(ops', where)
    BY <2>1, <2>2, <2>3, QueueAppend DEF HasQueued
  <2>5. QueueInv(ops', where')
    BY <2>2, <2>4
  <2>6. cell = None /\ fresh = {}
    BY <2>2 DEF PlacesInv
  <2> QED BY <2>2, <2>5, <2>6 DEF PlacesInv
<1>9. ASSUME NEW e \in Entities, NEW o \in Offsets, AddTo(e, o) PROVE PlacesInv'
  <2> DEFINE op == [type |-> "add", offset |-> o, entity |-> e, param |-> None]
  <2>1. op \in Operation /\ op.type = "add" /\ op.entity = e
    BY DEF Operation
  <2>2. /\ ops' = Append(ops, op) /\ where[e] = None /\ ~HasQueued(ops, e)
        /\ UNCHANGED <<members, where, phase, fresh, cell, left>>
    BY <1>9, QueuedIsHasQueued DEF AddTo, cellVars, tickVars
  <2>3. ops \in Seq(Operation) /\ QueueInv(ops, where)
        /\ where \in [Entities -> Offsets \cup {None}]
    BY DEF BroadcastTypes, PlacesInv
  <2> HIDE DEF op
  <2>4. QueueInv(ops', where)
    BY <2>1, <2>2, <2>3, QueueAppend DEF HasQueued
  <2>5. QueueInv(ops', where')
    BY <2>2, <2>4
  <2>6. \A f : HasQueued(ops', f) => HasQueued(ops, f) \/ f = e
    BY <2>1, <2>2, <2>3, HasQueuedAppend
  <2>7. cell # None => e \notin left
    BY <2>2 DEF PlacesInv
  <2>8. \A p \in fresh : e \notin members[p]
    BY <2>2, NoneIsNoOffset DEF PlacesInv, BroadcastTypes
  <2>9. cell' # None =>
          cell' \notin fresh' /\ \A f \in left' : where'[f] = cell' /\ ~HasQueued(ops', f)
    BY <2>2, <2>6, <2>7 DEF PlacesInv
  <2>10. \A p \in fresh' : \A f \in members'[p] : ~HasQueued(ops', f)
    BY <2>2, <2>6, <2>8 DEF PlacesInv
  <2> QED BY <2>2, <2>5, <2>9, <2>10 DEF PlacesInv
<1>10. ASSUME NEW e \in Entities, NEW to \in Offsets, NEW a \in BOOLEAN, UpdateEntity(e, to, a)
       PROVE  PlacesInv'
  <2>1. /\ cell \in Offsets /\ cell \notin fresh /\ where[e] = cell /\ ~HasQueued(ops, e)
        /\ QueueInv(ops', where)
        /\ \A f : HasQueued(ops', f) => HasQueued(ops, f) \/ f = e
    BY <1>10, UpdateQueues
  <2>2. /\ phase = "update" /\ cell # None /\ e \in left
        /\ left' = left \ {e} /\ (cell' = None \/ cell' = cell)
        /\ UNCHANGED <<members, where, phase, fresh>>
    BY <1>10 DEF UpdateEntity
  <2>3. \A p \in fresh : p \in Offsets /\ e \notin members[p]
    BY <2>1 DEF PlacesInv, BroadcastTypes
  <2>4. cell' # None =>
          cell' \notin fresh' /\ \A f \in left' : where'[f] = cell' /\ ~HasQueued(ops', f)
    BY <2>1, <2>2 DEF PlacesInv
  <2>5. \A p \in fresh' : \A f \in members'[p] : ~HasQueued(ops', f)
    BY <2>1, <2>2, <2>3 DEF PlacesInv
  <2>6. QueueInv(ops', where')
    BY <2>1, <2>2
  <2> QED BY <2>2, <2>4, <2>5, <2>6 DEF PlacesInv
<1>11. CASE UNCHANGED vars
  BY <1>11 DEF vars, cellVars, tickVars, PlacesInv, QueueInv, HasQueued
<1> QED BY <1>1, <1>2, <1>3, <1>4, <1>5, <1>6, <1>7, <1>8, <1>9, <1>10, <1>11 DEF Next

-----------------------------------------------------------------------------
(* The counter of clients.                                                  *)

(* A counter is a number of 16 bits, and no cell ever holds infinitely many *)
(* entities, since they come one by one.                                    *)
Word == {n \in Nat : n < 65536}

CountTypes ==
    /\ count \in [Offsets -> Word]
    /\ \A o \in Offsets : IsFiniteSet(members[o])

(* The counter of o has been changed as the number of clients in it.        *)
Follows(o) == ((count'[o] - count[o]) - (ClientsIn(o)' - ClientsIn(o))) % 65536 = 0

LEMMA CountWraps ==
    ASSUME NEW n \in Word
    PROVE  /\ (n + 1) % 65536 \in Word /\ (n + -1) % 65536 \in Word
           /\ ((((n + 1) % 65536) - n) - 1) % 65536 = 0
           /\ ((((n + -1) % 65536) - n) - (-1)) % 65536 = 0
<1>1. n \in Nat /\ n < 65536
  BY DEF Word
<1>2. (n + 1) % 65536 = IF n = 65535 THEN 0 ELSE n + 1
  BY <1>1
<1>3. (n + -1) % 65536 = IF n = 0 THEN 65535 ELSE n - 1
  BY <1>1
<1>4. (-65536) % 65536 = 0 /\ 65536 % 65536 = 0 /\ 0 % 65536 = 0
  OBVIOUS
<1>5. ((((n + 1) % 65536) - n) - 1) \in {0, -65536}
  BY <1>1, <1>2
<1>6. ((((n + -1) % 65536) - n) - (-1)) \in {0, 65536}
  BY <1>1, <1>3
<1>7. (n + 1) % 65536 \in Word /\ (n + -1) % 65536 \in Word
  BY <1>1, <1>2, <1>3 DEF Word
<1> QED BY <1>4, <1>5, <1>6, <1>7

(* Nothing changes in a cell.                                               *)
LEMMA CountKept ==
    ASSUME CountTypes, NEW o \in Offsets, count'[o] = count[o],
           members'[o] \cap Clients = members[o] \cap Clients
    PROVE  Follows(o)
<1>1. ClientsIn(o)' = ClientsIn(o)
  BY DEF ClientsIn
<1>2. IsFiniteSet(members[o] \cap Clients)
  BY FS_Subset DEF CountTypes
<1>3. ClientsIn(o) \in Nat /\ count[o] \in Nat
  BY <1>2, FS_CardinalityType DEF CountTypes, ClientsIn, Word
<1>4. (count[o] - count[o]) - (ClientsIn(o) - ClientsIn(o)) = 0
  BY <1>3
<1>5. 0 % 65536 = 0
  OBVIOUS
<1> QED BY <1>1, <1>4, <1>5 DEF Follows

(* An entity comes into the cell or leaves it, and is counted as Counted    *)
(* has it.                                                                  *)
LEMMA CountChanged ==
    ASSUME CountTypes, NEW o \in Offsets, NEW e, NEW by \in {1, -1},
           count' = Counted(o, e, by),
           by = 1 => e \notin members[o] /\ members'[o] = members[o] \cup {e},
           by = -1 => e \in members[o] /\ members'[o] = members[o] \ {e},
           \A p \in Offsets : p # o => members'[p] = members[p]
    PROVE  CountTypes' /\ \A p \in Offsets : Follows(p)
<1>1. IsFiniteSet(members[o]) /\ count[o] \in Word
  BY DEF CountTypes
<1>2. IsFiniteSet(members'[o])
  BY <1>1, FS_AddElement, FS_RemoveElement
<1>3. \A p \in Offsets : IsFiniteSet(members'[p])
  BY <1>2 DEF CountTypes
<1>4. CASE e \notin Clients
  <2>1. count' = count
    BY <1>4 DEF Counted
  <2>2. \A p \in Offsets : members'[p] \cap Clients = members[p] \cap Clients
    BY <1>4
  <2> QED BY <1>3, <2>1, <2>2, CountKept DEF CountTypes
<1>5. CASE e \in Clients
  <2> DEFINE before == members[o] \cap Clients
             after == members'[o] \cap Clients
  <2>1. IsFiniteSet(before) /\ Cardinality(before) \in Nat
    BY <1>1, FS_Subset, FS_CardinalityType
  <2>2. /\ by = 1 => after = before \cup {e} /\ e \notin before
        /\ by = -1 => after = before \ {e} /\ e \in before
    BY <1>5
  <2>3. ClientsIn(o)' = Cardinality(after) /\ ClientsIn(o) = Cardinality(before)
    BY DEF ClientsIn
  <2> HIDE DEF before, after
  <2>4. by = 1 => Cardinality(after) = Cardinality(before) + 1
    BY <2>1, <2>2, FS_AddElement
  <2>5. by = -1 => Cardinality(after) = Cardinality(before) - 1
    <3>1. e \in before => Cardinality(before \ {e}) = Cardinality(before) - 1
      BY <2>1, FS_RemoveElement
    <3> QED BY <2>2, <3>1
  <2>6. count' = [count EXCEPT ![o] = (count[o] + by) % 65536]
    BY <1>5 DEF Counted
  <2>7. /\ (count[o] + by) % 65536 \in Word
        /\ ((((count[o] + by) % 65536) - count[o]) - by) % 65536 = 0
    BY <1>1, CountWraps
  <2>8. /\ count'[o] = (count[o] + by) % 65536
        /\ \A p \in Offsets : p # o => count'[p] = count[p]
        /\ count' \in [Offsets -> Word]
    BY <2>6, <2>7 DEF CountTypes
  <2>9. ClientsIn(o)' - ClientsIn(o) = by
    BY <2>1, <2>3, <2>4, <2>5
  <2>10. Follows(o)
    BY <2>7, <2>8, <2>9 DEF Follows
  <2>11. \A p \in Offsets : p # o => Follows(p)
    BY <2>8, CountKept
  <2> QED BY <1>3, <2>8, <2>10, <2>11 DEF CountTypes
<1> QED BY <1>4, <1>5

LEMMA NextCount ==
    ASSUME BroadcastTypes, PlacesInv, CountTypes, [Next]_vars
    PROVE  CountTypes' /\ \A o \in Offsets : Follows(o)
<1>1. CASE AddEntity
  <2> DEFINE o == Head(ops).offset
             e == Head(ops).entity
  <2>1. /\ o \in Offsets /\ e \notin members[o] /\ members'[o] = members[o] \cup {e}
        /\ \A p \in Offsets : p # o => members'[p] = members[p]
    BY <1>1, AddPlaces
  <2>2. count' = Counted(o, e, 1)
    BY <1>1 DEF AddEntity
  <2> HIDE DEF o, e
  <2> QED BY <2>1, <2>2, CountChanged
<1>2. CASE RemoveEntity
  <2> DEFINE o == Head(ops).offset
             e == Head(ops).entity
  <2>1. /\ o \in Offsets /\ e \in members[o] /\ members'[o] = members[o] \ {e}
        /\ \A p \in Offsets : p # o => members'[p] = members[p]
    BY <1>2, RemovePlaces
  <2>2. count' = Counted(o, e, -1)
    BY <1>2 DEF RemoveEntity, Uncounted
  <2> HIDE DEF o, e
  <2> QED BY <2>1, <2>2, CountChanged
<1>3. CASE UNCHANGED <<count, members>>
  BY <1>3, CountKept DEF CountTypes
<1>4. CASE BeginUpdate \/ EndUpdate \/ Cleanup \/ UNCHANGED vars
  BY <1>3, <1>4 DEF BeginUpdate, EndUpdate, Cleanup, vars, cellVars
<1>5. ASSUME NEW o \in Offsets, BeginCell(o) \/ AnnounceAfter(o)
      PROVE  UNCHANGED <<count, members>>
  BY <1>5 DEF BeginCell, AnnounceAfter
<1>6. ASSUME NEW e \in Entities,
             \/ RemoveFrom(e)
             \/ \E o \in Offsets : AddTo(e, o)
             \/ \E to \in Offsets, a \in BOOLEAN : UpdateEntity(e, to, a)
      PROVE  UNCHANGED <<count, members>>
  BY <1>6 DEF RemoveFrom, AddTo, UpdateEntity, cellVars
<1> QED BY <1>1, <1>2, <1>3, <1>4, <1>5, <1>6 DEF Next

(* The invariants hold at the start.                                        *)
LEMMA InitBroadcast == Init => BroadcastTypes /\ PlacesInv /\ CountTypes
<1> SUFFICES ASSUME Init PROVE BroadcastTypes /\ PlacesInv /\ CountTypes
  OBVIOUS
<1>1. BroadcastTypes
  BY DEF Init, BroadcastTypes
<1>2. PlacesInv
  BY NoneIsNoOffset DEF Init, PlacesInv, QueueInv
<1>3. CountTypes
  <2>1. \A n \in Garbage : n \in Word
    BY BroadcastAssumption DEF Word
  <2>2. count \in [Offsets -> Garbage] /\ \A o \in Offsets : members[o] = {}
    BY DEF Init
  <2> QED BY <2>1, <2>2, FS_EmptySet DEF CountTypes
<1> QED BY <1>1, <1>2, <1>3

(* Cell::addEntity and Cell::removeEntity keep _clientsCount in step with   *)
(* the clients in the cell, modulo 2^16, whatever the constructor left in   *)
(* it, on any grid, for any entities and whatever is queued: they are only  *)
(* called for an entity that is not in the cell, and for one that is.       *)
THEOREM CountersFollow == Spec => CounterFollows
<1> DEFINE Inv == BroadcastTypes /\ PlacesInv /\ CountTypes
<1>1. Init => Inv
  BY InitBroadcast
<1>2. Inv /\ [Next]_vars => Inv' /\ \A o \in Offsets : Follows(o)
  BY NextBroadcastTypes, NextPlaces, NextCount
<1>3. Inv /\ [Next]_vars =>
        Inv' /\ [\A o \in Offsets : ((count'[o] - count[o]) - (ClientsIn(o)' - ClientsIn(o)))
                                       % 65536 = 0]_vars
  BY <1>2 DEF Follows
<1> QED BY <1>1, <1>3, PTL DEF Spec, CounterFollows

-----------------------------------------------------------------------------
(* The last call.                                                           *)

InFilling(o) == Contains(filling[o], Call)
InSending(o) == Contains(sending[o], Call)

(* For a client that has stayed within reach of the last call: the call     *)
(* waits in its cell for the queues to change places, or                    *)
Awaited(c) ==
    heard[c] = 0 /\ InFilling(where[c]) /\ ~InSending(where[c])

(* it is being sent in its cell, where the client's turn is to come, or     *)
Arriving(c) ==
    /\ heard[c] = 0 /\ InSending(where[c]) /\ ~InFilling(where[c])
    /\ phase = "update" /\ cell = where[c] /\ c \in left

(* it has been sent, and is cleared before the queues change places again.  *)
Arrived(c) ==
    /\ heard[c] = 1 /\ ~InFilling(where[c])
    /\ InSending(where[c]) => /\ phase # "mapOps" /\ where[c] \notin fresh
                              /\ ~(cell = where[c] /\ c \in left)

HearInv ==
    \A c \in audience : where[c] \in Offsets /\ (Awaited(c) \/ Arriving(c) \/ Arrived(c))

LEMMA CallAppended ==
    ASSUME NEW s \in Seq(Packet), NEW p \in Packet
    PROVE  Contains(Append(s, p), Call) <=> (Contains(s, Call) \/ p = Call)
<1> DEFINE r == Append(s, p)
           n == Len(s)
<1>1. /\ n \in Nat /\ Len(r) = n + 1 /\ r[n + 1] = p
      /\ \A i \in 1..n : r[i] = s[i]
      /\ \A i \in 1..(n + 1) : i \in 1..n \/ i = n + 1
      /\ n + 1 \in 1..(n + 1) /\ \A i \in 1..n : i \in 1..(n + 1)
  OBVIOUS
<1> HIDE DEF r, n
<1>2. Contains(r, Call) <=> (Contains(s, Call) \/ p = Call)
  BY <1>1 DEF Contains, n
<1> QED BY <1>2 DEF r

(* Where a packet is broadcast to, it is queued.                            *)
LEMMA CallsAfterBroadcast ==
    ASSUME BroadcastTypes, NEW area, NEW p \in Packet, NEW cnt, Broadcast(area, p, cnt),
           NEW o \in Offsets
    PROVE  InFilling(o)' <=> InFilling(o) \/ (p = Call /\ o \in area /\ cnt[o] > 0)
<1>1. filling'[o] = IF o \in area /\ cnt[o] > 0 THEN Append(filling[o], p) ELSE filling[o]
  BY DEF Broadcast
<1>2. filling[o] \in Seq(Packet)
  BY DEF BroadcastTypes
<1> QED BY <1>1, <1>2, CallAppended DEF InFilling

(* Everybody in its audience waits for a call that is just made.            *)
LEMMA AnnounceAwaited ==
    ASSUME BroadcastTypes, PlacesInv, CountTypes, SilentOnlyIfEmpty,
           NEW o \in Offsets, Announce(o),
           UNCHANGED <<where, sending>>, heard' = [c \in Clients |-> 0]
    PROVE  HearInv'
<1> SUFFICES ASSUME NEW c \in audience' PROVE where'[c] \in Offsets /\ Awaited(c)'
  BY DEF HearInv
<1> DEFINE w == where[c]
<1>1. c \in Clients /\ w \in Around(o)
  BY DEF Announce
<1>2. c \in Entities /\ o \in Offset
  BY <1>1, BroadcastAssumption
<1>3. Around(o) \subseteq Offset
  BY <1>2 DEF Around, Siblings, Offset
<1>4. w \in Offsets
  BY <1>1, <1>2, <1>3, BroadcastAssumption DEF BroadcastTypes
<1>5. c \in members[w]
  BY <1>2, <1>4 DEF PlacesInv
<1>6. count[w] > 0
  <2>1. count[w] # 0
    BY <1>1, <1>4, <1>5 DEF SilentOnlyIfEmpty
  <2> QED BY <1>4, <2>1 DEF CountTypes, Word
<1>7. InFilling(w)'
  BY <1>1, <1>4, <1>6, CallIsPacket, CallsAfterBroadcast DEF Announce
<1>8. ~InSending(w)'
  BY <1>4 DEF Announce, CallsQueued, InSending
<1>9. heard'[c] = 0 /\ where'[c] = w
  BY <1>1
<1>10. InFilling(where[c])' /\ ~InSending(where[c])'
  BY <1>7, <1>8 DEF InFilling, InSending
<1> QED BY <1>4, <1>9, <1>10 DEF Awaited

(* Whoever enters or leaves a cell drops out of the audience; the others    *)
(* hear nothing of the spawns and despawns that are broadcast.              *)
LEMMA HearOperation ==
    ASSUME BroadcastTypes, PlacesInv, HearInv, AddEntity \/ RemoveEntity
    PROVE  HearInv'
<1> DEFINE e == Head(ops).entity
<1>1. /\ e \in Entities /\ \A f \in Entities : f # e => where'[f] = where[f]
      /\ cell = None /\ fresh = {}
  BY AddPlaces, RemovePlaces
<1>2. /\ audience' = audience \ {e}
      /\ UNCHANGED <<phase, fresh, cell, left, sending, heard>>
  BY DEF AddEntity, RemoveEntity, tickVars
<1>3. \E area, t, cnt : t # "call" /\ [type |-> t, entity |-> e] \in Packet
                        /\ Broadcast(area, [type |-> t, entity |-> e], cnt)
  <2>1. CASE AddEntity
    <3>1. [type |-> "spawn", entity |-> e] \in Packet
      BY <1>1 DEF Packet
    <3> QED BY <2>1, <3>1 DEF AddEntity
  <2>2. CASE RemoveEntity
    <3>1. [type |-> "despawn", entity |-> e] \in Packet
      BY <1>1 DEF Packet
    <3> QED BY <2>2, <3>1 DEF RemoveEntity
  <2> QED BY <2>1, <2>2
<1>4. \A o \in Offsets : InFilling(o)' <=> InFilling(o)
  <2>1. PICK area, t, cnt : t # "call" /\ [type |-> t, entity |-> e] \in Packet
                            /\ Broadcast(area, [type |-> t, entity |-> e], cnt)
    BY <1>3
  <2>2. [type |-> t, entity |-> e] # Call
    BY <2>1 DEF Call
  <2> HIDE DEF e
  <2> QED BY <2>1, <2>2, CallsAfterBroadcast
<1> HIDE DEF e
<1> SUFFICES ASSUME NEW c \in audience'
             PROVE  where'[c] \in Offsets /\ (Awaited(c) \/ Arriving(c) \/ Arrived(c))'
  BY DEF HearInv
<1>5. c \in audience /\ c \in Entities /\ c # e
  BY <1>2, BroadcastAssumption DEF BroadcastTypes
<1>6. where'[c] = where[c] /\ where[c] \in Offsets
  BY <1>1, <1>5 DEF HearInv
<1>7. InFilling(where[c])' <=> InFilling(where[c])
  BY <1>4, <1>6 DEF InFilling
<1>8. InSending(where[c])' <=> InSending(where[c])
  BY <1>2, <1>6 DEF InSending
<1>9. Awaited(c) \/ Arriving(c) \/ Arrived(c)
  BY <1>5 DEF HearInv
<1> QED BY <1>2, <1>6, <1>7, <1>8, <1>9 DEF Awaited, Arriving, Arrived

(* A call that waits in a cell is sent to the clients in it, and what was   *)
(* sent before has been cleared.                                            *)
LEMMA HearSwap ==
    ASSUME BroadcastTypes, PlacesInv, HearInv, NEW o \in Offsets, BeginCell(o)
    PROVE  HearInv'
<1>1. /\ phase = "update" /\ cell = None /\ o \in fresh /\ fresh' = fresh \ {o}
      /\ cell' = IF members[o] = {} THEN None ELSE o
      /\ left' = members[o]
      /\ UNCHANGED <<members, where, phase, heard, audience>>
  BY DEF BeginCell, calls
<1>2. /\ filling'[o] = sending[o] /\ sending'[o] = filling[o]
      /\ \A p \in Offsets : p # o => filling'[p] = filling[p] /\ sending'[p] = sending[p]
  BY DEF BeginCell, SwapQueues, BroadcastTypes
<1> SUFFICES ASSUME NEW c \in audience
             PROVE  where'[c] \in Offsets /\ (Awaited(c) \/ Arriving(c) \/ Arrived(c))'
  BY <1>1 DEF HearInv
<1>3. where'[c] = where[c] /\ where[c] \in Offsets /\ where[c] # None
  BY <1>1, NoneIsNoOffset DEF HearInv
<1>4. Awaited(c) \/ Arrived(c)
  BY <1>1, <1>3 DEF HearInv, Arriving
<1>5. CASE where[c] = o
  <2>1. c \in members[o]
    BY <1>5, BroadcastAssumption DEF PlacesInv, BroadcastTypes
  <2>2. /\ InFilling(where[c])' <=> InSending(where[c])
        /\ InSending(where[c])' <=> InFilling(where[c])
    BY <1>2, <1>3, <1>5 DEF InFilling, InSending
  <2>3. cell' = o /\ c \in left'
    BY <1>1, <2>1
  <2>4. CASE Awaited(c)
    BY <1>1, <1>3, <1>5, <2>2, <2>3, <2>4 DEF Awaited, Arriving
  <2>5. CASE Arrived(c)
    BY <1>1, <1>3, <1>5, <2>2, <2>5 DEF Arrived
  <2> QED BY <1>3, <1>4, <2>4, <2>5
<1>6. CASE where[c] # o
  <2>1. /\ InFilling(where[c])' <=> InFilling(where[c])
        /\ InSending(where[c])' <=> InSending(where[c])
    BY <1>2, <1>3, <1>6 DEF InFilling, InSending
  <2>2. cell' # where[c]
    BY <1>1, <1>3, <1>6
  <2>3. CASE Awaited(c)
    BY <1>1, <1>3, <2>1, <2>3 DEF Awaited
  <2>4. CASE Arrived(c)
    BY <1>1, <1>3, <2>1, <2>2, <2>4 DEF Arrived
  <2> QED BY <1>3, <1>4, <2>3, <2>4
<1> QED BY <1>5, <1>6

(* The client whose turn it is hears the call, the others do not.           *)
LEMMA HearUpdate ==
    ASSUME BroadcastTypes, PlacesInv, HearInv,
           NEW e \in Entities, NEW to \in Offsets, UpdateEntity(e, to, FALSE)
    PROVE  HearInv'
<1>1. cell \in Offsets /\ cell \notin fresh /\ where[e] = cell
  BY UpdateQueues
<1>2. /\ phase = "update" /\ e \in left /\ left' = left \ {e}
      /\ cell' = IF left = {e} THEN None ELSE cell
      /\ UNCHANGED <<where, phase, fresh, filling, sending, audience>>
  BY DEF UpdateEntity
<1>3. ASSUME NEW c \in Clients
      PROVE  heard'[c] = IF c = e /\ InSending(cell) THEN heard[c] + 1 ELSE heard[c]
  BY DEF UpdateEntity, InSending
<1> SUFFICES ASSUME NEW c \in audience
             PROVE  where'[c] \in Offsets /\ (Awaited(c) \/ Arriving(c) \/ Arrived(c))'
  BY <1>2 DEF HearInv
<1>4. where'[c] = where[c] /\ where[c] \in Offsets /\ c \in Clients /\ where[c] # None
  BY <1>2, NoneIsNoOffset DEF HearInv, BroadcastTypes
<1>5. /\ InFilling(where[c])' <=> InFilling(where[c])
      /\ InSending(where[c])' <=> InSending(where[c])
  BY <1>2 DEF InFilling, InSending
<1>6. CASE Awaited(c)
  <2>1. heard'[c] = 0
    BY <1>1, <1>3, <1>4, <1>6 DEF Awaited
  <2> QED BY <1>4, <1>5, <1>6, <2>1 DEF Awaited
<1>7. CASE Arriving(c) /\ c = e
  <2>1. heard'[c] = 1
    BY <1>1, <1>3, <1>4, <1>7 DEF Arriving
  <2> QED BY <1>1, <1>2, <1>4, <1>5, <1>7, <2>1 DEF Arriving, Arrived
<1>8. CASE Arriving(c) /\ c # e
  <2>1. heard'[c] = heard[c] /\ left # {e}
    BY <1>3, <1>4, <1>8 DEF Arriving
  <2> QED BY <1>2, <1>4, <1>5, <1>8, <2>1 DEF Arriving
<1>9. CASE Arrived(c)
  <2>1. heard'[c] = heard[c]
    BY <1>1, <1>2, <1>3, <1>4, <1>9 DEF Arrived
  <2> QED BY <1>2, <1>4, <1>5, <1>9, <2>1 DEF Arrived
<1> QED BY <1>4, <1>6, <1>7, <1>8, <1>9 DEF HearInv

LEMMA NextHear ==
    ASSUME BroadcastTypes, PlacesInv, CountTypes, SilentOnlyIfEmpty, HearInv, [Next]_vars
    PROVE  HearInv'
<1>1. CASE AddEntity \/ RemoveEntity
  BY <1>1, HearOperation
<1>2. ASSUME UNCHANGED <<filling, sending, where, heard, audience, cell, left>>,
             \/ UNCHANGED <<phase, fresh>>
             \/ phase = "mapOps"
             \/ phase' = "after" /\ cell = None /\ UNCHANGED fresh
      PROVE  HearInv'
  <2> SUFFICES ASSUME NEW c \in audience
               PROVE  where'[c] \in Offsets /\ (Awaited(c) \/ Arriving(c) \/ Arrived(c))'
    BY <1>2 DEF HearInv
  <2>1. where[c] \in Offsets /\ where[c] # None
    BY NoneIsNoOffset DEF HearInv
  <2>2. /\ InFilling(where[c])' <=> InFilling(where[c])
        /\ InSending(where[c])' <=> InSending(where[c])
    BY <1>2 DEF InFilling, InSending
  <2>3. Awaited(c) \/ Arriving(c) \/ Arrived(c)
    BY DEF HearInv
  <2> QED BY <1>2, <2>1, <2>2, <2>3 DEF Awaited, Arriving, Arrived
<1>3. CASE BeginUpdate \/ EndUpdate \/ UNCHANGED vars
  BY <1>2, <1>3 DEF BeginUpdate, EndUpdate, vars, cellVars, tickVars, calls
<1>4. CASE Cleanup
  <2>1. /\ phase = "after" /\ UNCHANGED <<filling, where, heard, audience>>
        /\ sending' = [o \in Offsets |-> << >>]
    BY <1>4 DEF Cleanup, ClearQueues, calls
  <2> SUFFICES ASSUME NEW c \in audience
               PROVE  where'[c] \in Offsets /\ (Awaited(c) \/ Arriving(c) \/ Arrived(c))'
    BY <2>1 DEF HearInv
  <2>2. where[c] \in Offsets /\ (Awaited(c) \/ Arrived(c))
    BY <2>1 DEF HearInv, Arriving
  <2>3. (InFilling(where[c])' <=> InFilling(where[c])) /\ ~InSending(where[c])'
    BY <2>1, <2>2 DEF InFilling, InSending, Contains
  <2> QED BY <2>1, <2>2, <2>3 DEF Awaited, Arrived
<1>5. ASSUME NEW o \in Offsets, BeginCell(o) PROVE HearInv'
  BY <1>5, HearSwap
<1>6. ASSUME NEW o \in Offsets, AnnounceAfter(o) PROVE HearInv'
  BY <1>6, AnnounceAwaited DEF AnnounceAfter
<1>7. ASSUME NEW e \in Entities, NEW o \in Offsets, AddTo(e, o) PROVE HearInv'
  BY <1>2, <1>7 DEF AddTo, cellVars, tickVars, calls
<1>8. ASSUME NEW e \in Entities, RemoveFrom(e) PROVE HearInv'
  BY <1>2, <1>8 DEF RemoveFrom, cellVars, tickVars, calls
<1>9. ASSUME NEW e \in Entities, NEW to \in Offsets, NEW a \in BOOLEAN, UpdateEntity(e, to, a)
      PROVE  HearInv'
  <2>1. CASE a = TRUE
    <3>1. /\ cell \in Offsets /\ Announce(cell) /\ UNCHANGED <<where, sending>>
          /\ heard' = [c \in Clients |-> 0]
      BY <1>9, <2>1 DEF UpdateEntity, BroadcastTypes
    <3> QED BY <3>1, AnnounceAwaited
  <2>2. CASE a = FALSE
    BY <1>9, <2>2, HearUpdate
  <2> QED BY <2>1, <2>2
<1> QED BY <1>1, <1>3, <1>4, <1>5, <1>6, <1>7, <1>8, <1>9 DEF Next

(* "Use double lists to avoid locking and/or non-desired cleanups"          *)
(* (cell.hpp): with the two queues of Cell::update, a client that stays     *)
(* within reach of a call is sent it once and never twice, on any grid, in  *)
(* whatever order the cells are updated and whoever makes the call, as long *)
(* as Cell::broadcast drops a packet only where there is no client.         *)
THEOREM CallsHeardOnce ==
    Spec /\ []SilentOnlyIfEmpty => []StayersHearOnce
<1> DEFINE Inv == BroadcastTypes /\ PlacesInv /\ CountTypes /\ HearInv
<1>1. Init => Inv
  <2> SUFFICES ASSUME Init PROVE HearInv
    BY InitBroadcast
  <2> QED BY DEF Init, HearInv
<1>2. Inv /\ SilentOnlyIfEmpty /\ [Next]_vars => Inv'
  BY NextBroadcastTypes, NextPlaces, NextCount, NextHear
<1>3. HearInv => StayersHearOnce
  <2> SUFFICES ASSUME HearInv, NEW c \in audience
               PROVE  heard[c] <= 1 /\ (~CallsQueued => heard[c] = 1)
    BY DEF StayersHearOnce
  <2>1. where[c] \in Offsets /\ (Awaited(c) \/ Arriving(c) \/ Arrived(c))
    BY DEF HearInv
  <2>2. heard[c] \in {0, 1} /\ (~CallsQueued => Arrived(c))
    BY <2>1 DEF Awaited, Arriving, Arrived, CallsQueued, InFilling, InSending
  <2> QED BY <2>2 DEF Arrived
<1> QED BY <1>1, <1>2, <1>3, PTL DEF Spec
=============================================================================
