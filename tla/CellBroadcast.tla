---------------------------- MODULE CellBroadcast ----------------------------
(***************************************************************************)
(* What the clients are sent: the two broadcast queues and the spawn       *)
(* requests of every cell (src/map/cell.cpp), filled when entities enter,  *)
(* move and leave (src/map/map_aware_entity.cpp) and when somebody         *)
(* broadcasts (src/map/map.cpp), emptied by Cell::update and Cell::cleanup.*)
(*                                                                         *)
(* The cells are updated one after the other, in any order, and so are the *)
(* entities of a cell, as in the task of one component of the cluster.     *)
(* Cells outside Offsets never hold a client, so nothing is queued there.  *)
(***************************************************************************)
EXTENDS HexOffset, FiniteSets, SequencesExt

CONSTANTS Offsets,  \* the offsets entities walk on
          Entities, \* every entity
          Clients,  \* those with a client
          Garbage,  \* what _clientsCount may hold in a new cell
          MaxOps,   \* bound: operations queued for the map
          None

ASSUME BroadcastAssumption ==
    /\ Offsets \subseteq Offset
    /\ Clients \subseteq Entities
    /\ \A n \in Garbage : n \in Nat /\ n < 65536
    /\ None \notin Offset

VARIABLES
    members,  \* Cell::_entities
    count,    \* Cell::_clientsCount, 16 bits, not initialised
    where,    \* MapAwareEntity::_cell
    ops,      \* Map::_scheduledOperations
    filling,  \* the queue Cell::_broadcast points to
    sending,  \* the other one
    requests, \* Cell::_requests
    phase,    \* "mapOps", "update" or "after"
    fresh,    \* cells still to be updated in this tick
    cell,     \* the cell being updated, and its entities still to come
    left,
    known,    \* history: what each client has been shown and not taken away
    changed,  \* history: who came into and went out of a cell in this tick
    muddled,  \* history: clients that changed cell together with another entity
    heard,    \* history: how often each client was sent the last call
    audience  \* history: the clients that have stayed within its reach

cellVars == <<members, count, where, filling, sending, requests>>
tickVars == <<phase, fresh, cell, left>>
shown == <<known, changed, muddled>>
calls == <<heard, audience>>
vars == <<cellVars, tickVars, ops, shown, calls>>

Call == [type |-> "call", entity |-> None]

Init ==
    /\ members = [o \in Offsets |-> {}]
    /\ count \in [Offsets -> Garbage]
    /\ where = [e \in Entities |-> None]
    /\ ops = << >>
    /\ filling = [o \in Offsets |-> << >>] /\ sending = [o \in Offsets |-> << >>]
    /\ requests = [o \in Offsets |-> << >>]
    /\ phase = "mapOps" /\ fresh = {} /\ cell = None /\ left = {}
    /\ known = [c \in Clients |-> {}] /\ changed = {} /\ muddled = {}
    /\ heard = [c \in Clients |-> 0] /\ audience = {}

-----------------------------------------------------------------------------
(* Queues.                                                                  *)

(* Cell::broadcast on each of the cells of area, with the counters cnt: a   *)
(* cell without clients drops the packet.                                   *)
Broadcast(area, packet, cnt) ==
    filling' = [o \in Offsets |->
                   IF o \in area /\ cnt[o] > 0 THEN Append(filling[o], packet) ELSE filling[o]]

(* Cell::request on each of the cells of area.                              *)
RequestSpawn(area, who, type) ==  \* mutant: what is asked for is forgotten
    requests' = [o \in Offsets |->
                    IF o \in area THEN Append(requests[o], [who |-> who, type |-> "spawn"])
                               ELSE requests[o]]
Request(area, who, type) ==
    requests' = [o \in Offsets |->
                    IF o \in area THEN Append(requests[o], [who |-> who, type |-> type])
                               ELSE requests[o]]

(* Map::getCellsExcluding.                                                  *)
CellsBeside(o, exclude) == IF exclude = None THEN Around(o) ELSE CellsExcluding(o, exclude)

Counted(o, e, by) ==
    IF e \in Clients THEN [count EXCEPT ![o] = (@ + by) % 65536] ELSE count

(* What a client makes of the packets it is sent.                           *)
Shown(c, held, packets) ==
    FoldLeft(LAMBDA acc, p :
                CASE p.entity = c \/ p.type = "call" -> acc
                  [] p.type = "spawn" -> acc \cup {p.entity}
                  [] p.type = "despawn" -> acc \ {p.entity},
             held, packets)

-----------------------------------------------------------------------------
(* Map::runScheduledOperations.                                             *)

AddEntity ==
    /\ phase = "mapOps" /\ ops # << >> /\ Head(ops).type = "add"
    /\ LET o == Head(ops).offset
           e == Head(ops).entity
           old == Head(ops).param
       IN  /\ members' = [members EXCEPT ![o] = @ \cup {e}]
           /\ count' = Counted(o, e, 1)
           /\ where' = [where EXCEPT ![e] = o]
           /\ Broadcast(CellsBeside(o, old), [type |-> "spawn", entity |-> e], count')
           /\ IF e \in Clients THEN Request(CellsBeside(o, old), e, "spawn")
                               ELSE UNCHANGED requests
           /\ changed' = changed \cup {<<e, "in">>}
           /\ audience' = audience \ {e}
    /\ ops' = Tail(ops)
    /\ UNCHANGED <<tickVars, sending, known, muddled, heard>>

(* A client that leaves for good is shown nothing any more.                 *)
CountEveryone(o, e) == [count EXCEPT ![o] = (@ - 1) % 65536]  \* mutant: mobs count too
Uncounted(o, e) == Counted(o, e, -1)

RemoveEntity ==
    /\ phase = "mapOps" /\ ops # << >> /\ Head(ops).type = "remove"
    /\ LET o == Head(ops).offset
           e == Head(ops).entity
           to == Head(ops).param
       IN  /\ members' = [members EXCEPT ![o] = @ \ {e}]
           /\ count' = Uncounted(o, e)
           /\ where' = [where EXCEPT ![e] = None]
           /\ Broadcast(CellsBeside(o, to), [type |-> "despawn", entity |-> e], count')
           /\ IF to # None /\ e \in Clients THEN Request(CellsBeside(o, to), e, "despawn")
                                            ELSE UNCHANGED requests
           /\ changed' = changed \cup {<<e, "out">>}
           /\ known' = IF to = None /\ e \in Clients THEN [known EXCEPT ![e] = {}] ELSE known
           /\ muddled' = IF to = None THEN muddled \ {e} ELSE muddled
           /\ audience' = audience \ {e}
    /\ ops' = Tail(ops)
    /\ UNCHANGED <<tickVars, sending, heard>>

BeginUpdate ==
    /\ phase = "mapOps" /\ ops = << >>
    /\ phase' = "update"
    /\ fresh' = Offsets
    /\ muddled' = muddled \cup
           {c \in Clients : /\ where[c] # None
                           /\ \E mine, other \in changed :
                                 /\ mine[1] = c /\ other[1] # c
                                 /\ "out" \in {mine[2], other[2]}}
    /\ changed' = {}
    /\ UNCHANGED <<cellVars, cell, left, ops, known, calls>>

-----------------------------------------------------------------------------
(* Cell::update.                                                            *)

(* The queues change places.                                                *)
SwapQueues(o) ==
    /\ filling' = [filling EXCEPT ![o] = sending[o]]
    /\ sending' = [sending EXCEPT ![o] = filling[o]]

BeginCell(o) ==
    /\ phase = "update" /\ cell = None /\ o \in fresh
    /\ SwapQueues(o)
    /\ fresh' = fresh \ {o}
    /\ cell' = IF members[o] = {} THEN None ELSE o
    /\ left' = members[o]
    /\ UNCHANGED <<members, count, where, requests, phase, ops, shown, calls>>

CallsQueued == \E o \in Offsets : Contains(filling[o], Call) \/ Contains(sending[o], Call)

(* Map::broadcastToSiblings of one packet at a time.                        *)
Announce(o) ==
    /\ ~CallsQueued
    /\ Broadcast(Around(o), Call, count)
    /\ audience' = {c \in Clients : where[c] \in Around(o)}

(* Cell::processRequests: e answers the requests of the others.             *)
Answers(o, e, c) ==
    LET mine == SelectSeq(requests[o], LAMBDA r : r.who = c /\ c # e)
    IN  [i \in DOMAIN mine |-> [type |-> mine[i].type, entity |-> e]]

(* MapAwareEntity::update may move the entity or announce something; then   *)
(* its client is sent the queue and the requests are answered.              *)
UpdateEntity(e, to, announces) ==
    /\ phase = "update" /\ cell # None /\ e \in left
    /\ LET o == cell
           queue == IF e \in Clients THEN sending[o] ELSE << >>
           toClient(c) == IF c = e THEN queue ELSE Answers(o, e, c)
       IN  /\ IF to = o THEN UNCHANGED ops
              ELSE /\ to \in Siblings(o) \cap Offsets
                   /\ Len(ops) + 2 <= MaxOps
                   /\ ops' = ops \o
                        << [type |-> "remove", offset |-> o, entity |-> e, param |-> to],
                           [type |-> "add", offset |-> to, entity |-> e, param |-> o] >>
           /\ known' = [c \in Clients |-> Shown(c, known[c], toClient(c))]
           /\ IF announces
              THEN /\ Announce(o)
                   /\ heard' = [c \in Clients |-> 0]
              ELSE /\ UNCHANGED <<filling, audience>>
                   /\ heard' = [c \in Clients |->
                                   IF c = e /\ Contains(queue, Call) THEN heard[c] + 1
                                                                     ELSE heard[c]]
    /\ left' = left \ {e}
    /\ cell' = IF left = {e} THEN None ELSE cell
    /\ UNCHANGED <<members, count, where, sending, requests, phase, fresh, changed, muddled>>

EndUpdate ==
    /\ phase = "update" /\ cell = None /\ fresh = {}
    /\ phase' = "after"
    /\ UNCHANGED <<cellVars, fresh, cell, left, ops, shown, calls>>

-----------------------------------------------------------------------------
(* Between update and cleanup, and at any time.                             *)

(* A job of the server announces something around a cell.                   *)
AnnounceAfter(o) ==
    /\ phase = "after"
    /\ Announce(o)
    /\ heard' = [c \in Clients |-> 0]
    /\ UNCHANGED <<members, count, where, sending, requests, tickVars, ops, shown>>

Queued(e) == \E i \in DOMAIN ops : ops[i].entity = e

AddTo(e, o) ==
    /\ where[e] = None /\ ~Queued(e) /\ Len(ops) < MaxOps
    /\ ops' = Append(ops, [type |-> "add", offset |-> o, entity |-> e, param |-> None])
    /\ UNCHANGED <<cellVars, tickVars, shown, calls>>

RemoveFrom(e) ==
    /\ phase = "after" /\ where[e] # None /\ ~Queued(e) /\ Len(ops) < MaxOps
    /\ ops' = Append(ops, [type |-> "remove", offset |-> where[e], entity |-> e,
                           param |-> None])
    /\ UNCHANGED <<cellVars, tickVars, shown, calls>>

(* Cell::clearQueues clears the queue that was sent, and the requests.      *)
ClearFilling ==  \* mutant: the wrong one of the two queues is cleared
    /\ filling' = [o \in Offsets |-> << >>]
    /\ requests' = [o \in Offsets |-> << >>]
    /\ UNCHANGED sending
ClearQueues ==
    /\ sending' = [o \in Offsets |-> << >>]
    /\ requests' = [o \in Offsets |-> << >>]
    /\ UNCHANGED filling

Cleanup ==
    /\ phase = "after"
    /\ ClearQueues
    /\ phase' = "mapOps"
    /\ UNCHANGED <<members, count, where, fresh, cell, left, ops, shown, calls>>

Next ==
    \/ AddEntity \/ RemoveEntity \/ BeginUpdate \/ EndUpdate \/ Cleanup
    \/ \E o \in Offsets : BeginCell(o) \/ AnnounceAfter(o)
    \/ \E e \in Entities : \/ RemoveFrom(e)
                           \/ \E o \in Offsets : AddTo(e, o)
                           \/ \E to \in Offsets, a \in BOOLEAN : UpdateEntity(e, to, a)

Spec == Init /\ [][Next]_vars
-----------------------------------------------------------------------------
(* At the end of a tick a client has been shown the entities in its cell    *)
(* and the six around it and no other, by the broadcasts of those that came *)
(* and went and by the answers to its own requests, in whatever order cells *)
(* were updated; unless it moved in a tick in which another entity changed  *)
(* cell, too.                                                               *)
KnowsItsSurroundings ==
    phase = "after" => \A c \in Clients \ muddled :
        where[c] # None =>
            known[c] = {e \in Entities \ {c} : where[e] # None /\ where[e] \in Around(where[c])}

(* "Use double lists to avoid locking and/or non-desired cleanups":         *)
(* whoever stays within reach of a call is sent it once, although some of   *)
(* the cells have been updated when it is made and others have not.         *)
StayersHearOnce ==
    \A c \in audience : heard[c] <= 1 /\ (~CallsQueued => heard[c] = 1)

ClientsIn(o) == Cardinality(members[o] \cap Clients)

(* Whatever the constructor left in _clientsCount, a step changes it by as  *)
(* much as the number of clients in the cell, modulo 2^16: no client is     *)
(* counted twice or forgotten when cells are entered, crossed and left, so  *)
(* that the counter of an empty cell is always what it was at first.        *)
CounterFollows ==
    [][\A o \in Offsets :
          ((count'[o] - count[o]) - (ClientsIn(o)' - ClientsIn(o))) % 65536 = 0]_vars

(* cell.cpp: "There is nothing to broadcast if there is no plalyer at all": *)
(* a cell whose counter is zero has no client in it.                        *)
SilentOnlyIfEmpty ==
    \A o \in Offsets : count[o] = 0 => members[o] \cap Clients = {}
=============================================================================
