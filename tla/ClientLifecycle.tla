--------------------------- MODULE ClientLifecycle ---------------------------
(***************************************************************************)
(* The life of a connection (src/server/client.cpp, src/server/server.cpp) *)
(* on top of the map: a client is created, accepted, read from, closed by  *)
(* whoever notices first, taken out of the map and destroyed.              *)
(*                                                                         *)
(* Two threads take part besides the workers of the map.  The I/O thread   *)
(* runs one completion handler at a time; the server thread closes a       *)
(* client when one of its works fails, and destroys it between two updates *)
(* of the map.  Client::close is not atomic: it is four steps of whichever *)
(* thread calls it.  The clients are the updaters of MapCluster.           *)
(*                                                                         *)
(* asio is external: a handler that is already due when its timer or       *)
(* socket is cancelled runs all the same, without an error.                *)
(***************************************************************************)
EXTENDS MapCluster, FiniteSets

CONSTANTS
    OpsCap,   \* capacity of Server::_operations
    Players   \* clients that send, fail or enter the map; others only connect

ASSUME OpsCapAssumption == OpsCap \in Nat \ {0}
ASSUME PlayersAssumption == Players \subseteq Updaters

Threads == {"io", "server"}

VARIABLES
    conn,     \* "none", "listening", "accepted", "serving" or "destroyed"
    status,   \* Client::_status
    reading,  \* the pending async_read: "off", "waiting", "data" or "eof"
    armed,    \* clients whose timer runs
    due,      \* clients whose timer has expired and whose handler is queued
    closer,   \* where each thread is inside Client::close
    ops,      \* Server::_operations
    pending,  \* the operations of this tick that are pushed back
    stage,    \* of serverOps: "jobs" run, "ops" are consumed, "push", "done"
    lost,     \* history: clients of operations that a full queue refused
    raced     \* history: what else happened to a client while it was closed

sessionVars == <<conn, status, reading, armed, due>>
clientVars == <<sessionVars, closer, ops, pending, stage, lost, raced>>
allVars == <<vars, clientVars>>

NotClosing == [at |-> "idle", client |-> Null, cell |-> Null]

ClientInit ==
    /\ Init
    /\ \E c \in Updaters :
          conn = [d \in Updaters |-> IF d = c THEN "listening" ELSE "none"]
    /\ status = [c \in Updaters |-> "initialized"]
    /\ reading = [c \in Updaters |-> "off"]
    /\ armed = {} /\ due = {}
    /\ closer = [t \in Threads |-> NotClosing]
    /\ ops = << >> /\ pending = << >>
    /\ stage = "jobs" /\ lost = {}
    /\ raced = [c \in Updaters |-> {}]

Up == fault = "none"
IoIdle == Up /\ closer["io"].at = "idle"
ServerIdle == Up /\ closer["server"].at = "idle"

(* A member of a client that has been destroyed is used.                    *)
Crash(why) == fault' = why /\ UNCHANGED <<mapVars, clusterVars, phase, todo, unkept, clientVars>>

(* boost::lockfree::queue of fixed capacity: a push to a full queue fails,  *)
(* and nobody looks at the result.                                          *)
PushServerOp(type, c) ==
    IF Len(ops) < OpsCap
    THEN ops' = Append(ops, [type |-> type, client |-> c]) /\ UNCHANGED lost
    ELSE lost' = lost \cup {c} /\ UNCHANGED ops

-----------------------------------------------------------------------------
(* Accepting and reading.                                                   *)

(* The handler of async_accept: the client is handed to the server thread   *)
(* and the next one is created to listen, if the bound allows another.      *)
Accept(c) ==
    /\ IoIdle /\ conn[c] = "listening"
    /\ PushServerOp("accept", c)
    /\ LET fresh == {d \in Updaters : conn[d] = "none"}
       IN  \E d \in IF fresh = {} THEN {c} ELSE fresh :
              conn' = [conn EXCEPT ![d] = "listening", ![c] = "accepted"]
    /\ UNCHANGED <<vars, status, reading, armed, due, closer, pending, stage, raced>>

(* Client::scheduleRead: the old timer is cancelled, a read is started and  *)
(* the timer set again.  It does not look at the status.                    *)
ScheduleRead(c) ==
    /\ reading' = [reading EXCEPT ![c] = "waiting"]
    /\ armed' = armed \cup {c}

(* The socket or the timer completes: a handler is queued.                  *)
Complete(c) ==
    /\ Up
    /\ \/ /\ reading[c] = "waiting"
          /\ \E result \in {"data", "eof"} : reading' = [reading EXCEPT ![c] = result]
          /\ UNCHANGED <<armed, due>>
       \/ /\ c \in armed
          /\ armed' = armed \ {c}
          /\ due' = due \cup {c}
          /\ UNCHANGED reading
    /\ UNCHANGED <<vars, conn, status, closer, ops, pending, stage, lost, raced>>

(* The read handler with data: Server::handleRead asks for the next packet. *)
HandleRead(c) ==
    /\ IoIdle /\ reading[c] = "data"
    /\ IF conn[c] = "destroyed" THEN Crash("late")
       ELSE /\ IF status[c] = "closed"   \* the socket is closed: the read is aborted
               THEN reading' = [reading EXCEPT ![c] = "off"] /\ armed' = armed \cup {c}
               ELSE ScheduleRead(c)
            /\ UNCHANGED <<vars, conn, status, due, closer, ops, pending, stage, lost, raced>>

(* The game puts a client that is not closed into the map, or takes it out. *)
Closing(c) == status[c] = "closed" \/ \E t \in Threads : closer[t].client = c

EnterOrLeave(c) ==
    /\ conn[c] = "serving" /\ status[c] # "closed"
    /\ \/ \E o \in Offsets : AddTo(c, o)
       \/ ServerIdle /\ stage = "jobs" /\ RemoveFrom(c)
    /\ raced' = IF Closing(c) THEN [raced EXCEPT ![c] = @ \cup {"moved"}] ELSE raced
    /\ UNCHANGED <<sessionVars, closer, ops, pending, stage, lost>>

-----------------------------------------------------------------------------
(* Client::close, in steps.                                                 *)

(* The status is checked here and set at the end.                           *)
CloseUnchecked(t, c) ==  \* mutant: close does not look at the status
    closer' = [closer EXCEPT ![t] = [at |-> "cancel", client |-> c, cell |-> Null]]
BeginClose(t, c) ==
    closer' = IF status[c] = "closed" THEN closer
              ELSE [closer EXCEPT ![t] = [at |-> "cancel", client |-> c, cell |-> Null]]

Overlap(t, c) == \E u \in Threads \ {t} : closer[u].client = c

NoteOverlap(t, c) ==
    raced' = IF Overlap(t, c) THEN [raced EXCEPT ![c] = @ \cup {"twice"}] ELSE raced

(* The read handler meets the end of the stream.                            *)
HandleEof(c) ==
    /\ IoIdle /\ reading[c] = "eof"
    /\ IF conn[c] = "destroyed" THEN Crash("late")
       ELSE /\ reading' = [reading EXCEPT ![c] = "off"]
            /\ BeginClose("io", c) /\ NoteOverlap("io", c)
            /\ UNCHANGED <<vars, conn, status, armed, due, ops, pending, stage, lost>>

(* The handler of the timer, which may have been cancelled too late.        *)
HandleTimeout(c) ==
    /\ IoIdle /\ c \in due
    /\ IF conn[c] = "destroyed" THEN Crash("late")
       ELSE /\ due' = due \ {c}
            /\ BeginClose("io", c) /\ NoteOverlap("io", c)
            /\ UNCHANGED <<vars, conn, status, reading, armed, ops, pending, stage, lost>>

(* A work of the client fails, among the jobs of the server or among those  *)
(* its entity runs before it moves: Server::onWorkError.                    *)
WorkError(c) ==
    /\ ServerIdle
    /\ \/ phase = "serverOps" /\ stage = "jobs"
       \/ phase = "update" /\ c \in todo
    /\ conn[c] = "serving"
    /\ BeginClose("server", c) /\ NoteOverlap("server", c)
    /\ UNCHANGED <<vars, sessionVars, ops, pending, stage, lost>>

(* The timer and the socket are cancelled and the cell is read.             *)
CloseCancel(t) ==
    /\ Up /\ closer[t].at = "cancel"
    /\ LET c == closer[t].client
       IN  /\ armed' = armed \ {c}
           /\ reading' = [reading EXCEPT ![c] = IF @ = "waiting" THEN "off" ELSE @]
           /\ closer' = [closer EXCEPT ![t].at = "remove", ![t].cell = entCell[c]]
           /\ raced' = IF Queued(c) THEN [raced EXCEPT ![c] = @ \cup {"moved"}] ELSE raced
    /\ UNCHANGED <<vars, conn, status, due, ops, pending, stage, lost>>

(* Map::removeFrom through the pointer that was read.                       *)
CloseRemove(t) ==
    /\ Up /\ closer[t].at = "remove"
    /\ LET c == closer[t].client
           o == closer[t].cell
       IN  IF o # Null /\ (o \notin cells \/ c \in dangling) THEN Crash("freed")
           ELSE /\ mapOps' = IF o = Null THEN mapOps
                             ELSE Append(mapOps, [type |-> "remove", offset |-> o,
                                                  entity |-> c, param |-> Null])
                /\ closer' = [closer EXCEPT ![t].at = "flag"]
                /\ UNCHANGED <<cells, members, entCell, dangling, clusterVars, loopVars,
                               sessionVars, ops, pending, stage, lost, raced>>

HandleClose(c) == PushServerOp("close", c)

(* The status is set and Server::handleClose queues the recycling.          *)
CloseUnflagged(t) ==  \* mutant: the status is not set
    /\ Up /\ closer[t].at = "flag"
    /\ HandleClose(closer[t].client)
    /\ closer' = [closer EXCEPT ![t] = NotClosing]
    /\ UNCHANGED <<vars, sessionVars, pending, stage, raced>>
CloseFlag(t) ==
    /\ Up /\ closer[t].at = "flag"
    /\ status' = [status EXCEPT ![closer[t].client] = "closed"]
    /\ HandleClose(closer[t].client)
    /\ closer' = [closer EXCEPT ![t] = NotClosing]
    /\ UNCHANGED <<vars, conn, reading, armed, due, pending, stage, raced>>

-----------------------------------------------------------------------------
(* Server::runScheduledOperations.                                          *)

InOps == ServerIdle /\ phase = "serverOps" /\ stage = "ops" /\ ops # << >>

(* Executor::executeJobs is over.                                           *)
EndJobs ==
    /\ ServerIdle /\ phase = "serverOps" /\ stage = "jobs"
    /\ stage' = "ops"
    /\ UNCHANGED <<vars, sessionVars, closer, ops, pending, lost, raced>>

(* Server::handleAccept: the game starts to read from the client.           *)
HandleAccept ==
    /\ InOps /\ Head(ops).type = "accept"
    /\ ops' = Tail(ops)
    /\ conn' = [conn EXCEPT ![Head(ops).client] = "serving"]
    /\ ScheduleRead(Head(ops).client)
    /\ UNCHANGED <<vars, status, due, closer, pending, stage, lost, raced>>

(* Client::inMap: its entity has a cell.                                    *)
NeverInMap(c) == FALSE  \* mutant: the map is not looked at
InMap(c) == entCell[c] # Null

StillInMap ==
    /\ InOps /\ Head(ops).type = "close"
    /\ InMap(Head(ops).client)
    /\ ops' = Tail(ops)
    /\ pending' = Append(pending, Head(ops))
    /\ UNCHANGED <<vars, sessionVars, closer, stage, lost, raced>>

(* destroyClient frees the client and its entity; the timer and the socket  *)
(* cancel what they still wait for.                                         *)
DestroyClient ==
    /\ InOps /\ Head(ops).type = "close"
    /\ ~InMap(Head(ops).client)
    /\ IF conn[Head(ops).client] = "destroyed" THEN Crash("double")
       ELSE /\ conn' = [conn EXCEPT ![Head(ops).client] = "destroyed"]
            /\ reading' = [reading EXCEPT ![Head(ops).client] =
                                              IF @ = "waiting" THEN "off" ELSE @]
            /\ armed' = armed \ {Head(ops).client}
            /\ ops' = Tail(ops)
            /\ UNCHANGED <<vars, status, due, closer, pending, stage, lost, raced>>

(* All is consumed.                                                         *)
EndOps ==
    /\ ServerIdle /\ phase = "serverOps" /\ stage = "ops" /\ ops = << >>
    /\ stage' = "push"
    /\ UNCHANGED <<vars, sessionVars, closer, ops, pending, lost, raced>>

(* An operation that was not done is pushed back.                           *)
DropPending ==  \* mutant: the pending operations are forgotten
    /\ ServerIdle /\ phase = "serverOps" /\ stage = "push" /\ pending # << >>
    /\ pending' = Tail(pending)
    /\ UNCHANGED <<vars, sessionVars, closer, ops, stage, lost, raced>>
PushPending ==
    /\ ServerIdle /\ phase = "serverOps" /\ stage = "push" /\ pending # << >>
    /\ PushServerOp(Head(pending).type, Head(pending).client)
    /\ pending' = Tail(pending)
    /\ UNCHANGED <<vars, sessionVars, closer, stage, raced>>

EndPush ==
    /\ ServerIdle /\ phase = "serverOps" /\ stage = "push" /\ pending = << >>
    /\ stage' = "done"
    /\ UNCHANGED <<vars, sessionVars, closer, ops, pending, lost, raced>>

-----------------------------------------------------------------------------
(* The map goes on; a step of a client that is being closed is noted.       *)
MapStep ==
    /\ ServerIdle
    /\ phase = "serverOps" => stage = "done"
    /\ ServerLoop
    /\ stage' = "jobs"
    /\ raced' = [c \in Updaters |->
                    IF /\ phase = "update" /\ mapOps' # mapOps /\ c \in todo \ todo'
                       /\ Closing(c)
                    THEN raced[c] \cup {"moved"} ELSE raced[c]]
    /\ UNCHANGED <<sessionVars, closer, ops, pending, lost>>

IoStep ==
    \E c \in Updaters :
        \/ Accept(c) \/ HandleRead(c) \/ HandleEof(c) \/ HandleTimeout(c)

CloseStep(t) == CloseCancel(t) \/ CloseRemove(t) \/ CloseFlag(t)

ServerStep ==
    \/ EndJobs \/ HandleAccept \/ StillInMap \/ DestroyClient
    \/ EndOps \/ PushPending \/ EndPush \/ CloseStep("server") \/ MapStep

ClientNext ==
    \/ IoStep \/ CloseStep("io") \/ ServerStep
    \/ \E c \in Players : Complete(c) \/ WorkError(c) \/ EnterOrLeave(c)
    \/ fault # "none" /\ UNCHANGED allVars

ClientSpec == ClientInit /\ [][ClientNext]_allVars

(* Both threads run; nobody has to send, to fail or to enter the map.       *)
FairClientSpec ==
    ClientSpec /\ WF_allVars(ServerStep) /\ WF_allVars(CloseStep("io"))
-----------------------------------------------------------------------------
CloseOps(c) ==
    LET q == ops \o pending
    IN  Cardinality({i \in 1..Len(q) : q[i] = [type |-> "close", client |-> c]})

(* A client whose close nothing interfered with is destroyed only after it  *)
(* has left the map: no cell holds its entity, no operation of the map      *)
(* names it, and the cluster has forgotten it before it next follows the    *)
(* pointers of its keepers.                                                 *)
DestroyedOutsideMap ==
    \A c \in Updaters : conn[c] = "destroyed" /\ raced[c] = {} =>
        /\ \A o \in Offsets : c \notin members[o]
        /\ ~Queued(c) /\ entCell[c] = Null
        /\ phase = "stalls" => keepers[c] = 0

(* Unless two threads are inside close at once, a client is recycled once:  *)
(* CLOSE is never queued twice, nor for a client that is destroyed.         *)
RecycledOnce ==
    \A c \in Updaters : "twice" \notin raced[c] =>
        CloseOps(c) + (IF conn[c] = "destroyed" THEN 1 ELSE 0) <= 1

(* A closed client is destroyed in the end, unless a full queue refused its *)
(* CLOSE, it moved meanwhile or the process ended.                          *)
ClosedIsRecycled ==
    \A c \in Players :
        (status[c] = "closed") ~>
            (conn[c] = "destroyed" \/ c \in lost \/ raced[c] # {} \/ fault # "none")

(* The CLOSE of a client is never forgotten on its way through the queue    *)
(* and back: as long as the client is closed and not destroyed, it is       *)
(* queued or about to be pushed back, unless a full queue has refused it.   *)
RefusedOrQueued ==
    \A c \in Updaters : status[c] = "closed" /\ conn[c] # "destroyed" =>
        CloseOps(c) >= 1 \/ c \in lost

(* server.cpp: "Still in the map": when the server decides whether a closed *)
(* client may be destroyed, a client that is in some cell has a cell.       *)
InMapIsTrue ==
    phase = "serverOps" =>
        \A c \in Updaters : (\E o \in Offsets : c \in members[o]) => InMap(c)
=============================================================================
