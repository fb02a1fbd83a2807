# Shinzui: TLA+ models, model checking and proofs

Shinzui is the core of a game server: a map of hexagonal cells on which
entities move, a cluster that decides which cells are updated (in parallel, one
connected component per task), an executor of works and timed tasks in every
entity and in the server, a network layer of clients and packets, and a pool of
database threads. This directory models the parts of it in which order, timing
and competition decide whether it is correct. Paths below are relative to the
repository (`src/map/map.cpp` is the file of the map).

## 1. The system

| part | state | operations | interacts with |
|---|---|---|---|
| Server loop (`server/server.cpp`) | time of the tick, queue of accept/close operations, sleep time | `update`, `runScheduledOperations`, accept, close | drives map, executor, clients |
| Client (`server/client.cpp`) | status, socket, timer, entity | `scheduleRead`, `send`, `close` | I/O threads call it; removes its entity from the map |
| Map (`map/map.cpp`) | cells by offset, lock-free queue of ADD / REMOVE / DESTROY | `addTo`, `removeFrom`, `onMove`, `destroyCell`, `getOrCreate`, `runScheduledOperations` | any thread queues, the server thread executes; calls the cluster and the entities back |
| Cluster (`map/map-cluster/cluster.cpp`) | current, old and stalled cells, keepers, graph, components, queue of KEEP / UNKEEP | `update`, `cleanup`, `runScheduledOperations`, `checkStall`, `touch` | thread pool updates components; queues DESTROY on the map |
| Cell (`map/cell.cpp`) | entities, stall flags, two broadcast queues, spawn requests, quadtree | `update`, `physics`, `cleanup`, `broadcast`, `ring`, `inRadius` | updates entities, inserts them in sibling cells |
| Map aware entity (`map/map_aware_entity.cpp`) | its cell, motion, executor | `update`, `onAdded`, `onRemoved` | moved by its motion master; asks cells for spawns |
| Hexagonal addressing (`map/offset.hpp`) | none | `offsetOf`, `distance`, `directionIdxs` | used by map and cell |
| Executor (`executor/`) | bounded queue of works, heap of tasks | `schedule` (twice), `executeJobs` | I/O and database threads fill it |
| Database (`database/`) | queue of works, condition variable, stop flag | `query`, `stop`, `run`, destructor | callers get futures |
| Packet (`io/`) | buffer of 1024 bytes, read, size and write cursors | `<<`, `read`, `peek`, `sendBuffer`, `recvBuffer` | clients send and receive it, cells broadcast it |
| Motion (`movement/`) | position, heading, speed, flags, generator with its curve | `update`, `move`, `stop`, `teleport`, `forward` | entities update it; it calls `Map::onMove` |
| Quadtree, physics (`map/quadtree.hpp`, `physics/`) | nodes and their bodies; boxes with cached extent and normals | `insert`, `retrieve`, `trace`, `clear`, `rotate`, `collides` | filled and searched by cells in every tick |
| Debug terminal (`debug/`) | counters, log | | told of everything, changes nothing |

What is hard here: a decision taken in one phase of a tick and executed in a
later one (a cell is condemned in `processStallCells` and freed at the start of
the next tick, after operations that were queued before); bookkeeping spread
over five containers and two flags per cell; pointers that outlive what they
point to; operations queued by any thread at any time; queues of fixed capacity
whose overflow nobody notices; a condition variable without a predicate; works
that fail while others wait; a client closed by two threads while it moves;
packets queued while cells are being updated; caches of what turns. `PROJECT.json` lists each such place under
`hazards`, with the properties that watch it.

What would make the parts correct:

* map and cluster: a cell in use is never freed, an unused one is in the end; no
  cell is leaked, freed twice or used after it is freed; keepers are exactly the
  clients inside; an entity is in the cell it points to;
* addressing: the cell of a position is the nearest one; a client is shown
  exactly its surroundings, whatever way it took;
* executor: a work is run once and freed once, a pass ends, due tasks run;
* database: a query is executed once, and is executed at all;
* clients: a closed client is out of the map before it is destroyed, and is
  destroyed once;
* cells: a client is shown the entities around it and hears what is broadcast
  near it once;
* packets: what was written is read, and the receiver stays in step;
* motion: a path ends at rest; tables and derivatives of curves are right;
* quadtree and physics: each body is in the tree once, and no overlap is missed.

## 2. Modules

| module | models | used by |
|---|---|---|
| `HexOffset` | `offset.hpp`, `Cell::ring`, `Cell::inRadius`, `getCellsExcluding`, the siblings, as operators on integer pairs | `EntityView`, `CellBroadcast`, `MCMapCluster` |
| `EntityView` | one client walking: `onMove`, `onAdded`, `onRemoved`, `teleport` and what the client has been told to spawn | extended by `Motion` |
| `Motion`, `MCMotion` | motion master, random movement and Bezier curves; it drives `EntityView` | run `entity_view` |
| `MapCluster`, `MCMapCluster` | map, cluster and entities over the phases of `Server::update` | runs `map`, `map_freed_updater` |
| `CellLifetime` | abstract specification: what the map promises of the life of a cell | implemented by `MapCluster` |
| `ClientLifecycle`, `MCClientLifecycle` | clients and the server's operations, composed with `MapCluster` | runs `client`, `client_in_map` |
| `CellBroadcast`, `MCCellBroadcast` | broadcast queues, spawn requests and client counts of cells | runs `broadcast`, `broadcast_silent` |
| `CellPhysics`, `MCCellPhysics` | bounding boxes, quadtree and collisions of one cell | run `physics` |
| `Packet`, `MCPacket` | a packet that is written, sent, received, read and relayed | run `packet` |
| `Database` | the workers and callers of the database | runs `database`, `database_served` |
| `Executor`, `MCExecutor` | one executor, its owner and the threads that fill it | run `executor` |
| `MapClusterProofs`, `ClientLifecycleProofs`, `CellBroadcastProofs`, `EntityViewProofs`, `MotionProofs`, `PacketProofs`, `DatabaseProofs`, `ExecutorProofs` | theorems about the module each is named after | TLAPS |

Definitions marked `\* mutant` are faulty variants of the definition that
follows them; `PROJECT.json` says which property each of them breaks. They are
not part of any specification.

### MapCluster and the code

A cell is named by its offset; `cells` holds the offsets that are allocated. The
variables correspond to members one by one (the comments at their declaration
say which); `registered`, `cooldown` and `remaining` are the stall information
of the cells; `members` is `Cell::_entities`; `dangling` marks the entities
whose `_cell` has been freed. `unkept` is a history variable and influences
nothing. `fault` records what ends the process: the debug build aborts at a
failed `LOG_ASSERT`, and a null or freed pointer or `erase(end())` is undefined;
the model stops there, which every property takes into account.

The loop goes through the phases of `Server::update`. `AddEntity`,
`RemoveEntity`, `RemoveFromNowhere` and `Destroy` are one `pop` of
`Map::runScheduledOperations` each, with every cell that `getOrCreate`,
`createSiblings` and `getCellsExcluding` create on the way, and every touch that
`onCellCreated` makes. `BeginUpdate` fixes the cells the workers update.
`OnMove` is a worker taking an entity over a border; the entities that stay in
their cell are those left in `todo` at `EndUpdate`. `Cleanup` runs the timers and
swaps the buffers. `Keep`, `Unkeep`, `TouchKeepers` and `DestroyCell` are the
stages of `Cluster::runScheduledOperations`. `AddTo` may happen at any moment, from
any thread; `RemoveFrom` in the phase in which the server runs its own jobs.

Abstractions: an entity moves at most one cell per update (see run
`entity_view` for the condition under which this holds); a worker's `onMove` is
atomic; the graph of the cluster is reduced to its set of vertices, since
which component a cell is in matters only for parallelism; the map's queue of
operations is unbounded, as in the code. Callers are well behaved: none queues
an entity that is queued already, and an entity is removed by a job of the
server, between an update and the next, as the tests do. `Client::close` on an
I/O thread does not keep to that (the repository's README says that the
callbacks of asynchronous socket operations are not thread-safe): it can queue a
REMOVE while the entity is changing cell. That is what `ClientLifecycle` adds.
The properties of the cells do not depend on the condition; those of keepers and
membership do. The model is over a
finite set of offsets with any symmetric, irreflexive relation `Neighbours`;
for the hexagonal grid `SiblingsSymmetric` proves the relation has that form, and
`CellsExcludingIsDifference` proves that `getCellsExcluding` is the difference of
neighbourhoods that `MapCluster` uses.

### CellLifetime

A cell is absent, live or condemned, and has been idle for some time. It is
created with no idle time, a keeper nearby sets that to zero, time passes, a cell
that has been idle for the whole stall time may be condemned, and a condemned
cell can only be freed: in particular no keeper ever reaches it again. `MapCluster`
maps a cell with a queued DESTROY to condemned, and `unkept` to the idle time; TLC
checks that each of its steps is one of these or changes neither. What makes this
less than obvious is the order in a tick: a cell goes on cooldown in `cleanup`,
keepers are touched after that, and the cell is condemned last. The assertion of
`Cluster::touch` (`cluster.cpp:260`) stands between the two: if a touch took a cell
on cooldown like any other (`TouchUnchecked`), a cell would be condemned although a
keeper has just reached it. That the assertion fails, and a debug server aborts,
when a client comes near in the very tick in which the time runs out, is possible in
`MapCluster` and ends the process there. A release build, in which the assertion
is empty, is not modelled: there the touch goes on, leaves the cell out of the
current ones (`cluster.cpp:267`) and clears its flags (`279`-`284`), which is not what
the mutant does.

### ClientLifecycle and the code

Two threads run: the I/O thread, which executes the handlers of reads, timers and
`async_accept`, and the server thread, whose loop is that of `MapCluster` with the
jobs and operations of the server in the phase `serverOps` (`stage`).
`Client::close` is split where the other thread can come in between: the status is
checked (`BeginClose`), timer and socket are cancelled and the cell is read
(`CloseCancel`), the removal is queued (`CloseRemove`), the status is set and
CLOSE queued (`CloseFlag`). The server's CLOSE destroys the client or keeps the
operation (`StillInMap`), and what was kept is pushed back one by one when all is
consumed (`EndOps`, `PushPending`, `EndPush`). The queue of operations
has a fixed capacity, 1024 in the code (`server.hpp:95`) and `OpsCap` in the model, and its
three pushes (`server.cpp:77`, `124`, `140`) ignore a refusal: `PushServerOp`
drops the operation and notes the client in the history variable `lost`. The I/O
thread may fill the queue between any two of the steps above. A client whose CLOSE
was refused has its status CLOSED, so that `close` does nothing any more, and is
never recycled: that is what `ClosedIsRecycled` excuses, and `RefusedOrQueued` says
that a CLOSE is lost in no other way. `Players` are the clients that send, fail or enter the
map; the others only connect. A handler that was queued
before it was cancelled still runs; if the client is destroyed by then the
process ends (`Crash`). `raced` remembers that a client moved, or was
closed by the other thread, in the middle of a close: the properties of run
`client` are those that hold when this did not happen, and run `client_in_map`
shows what does when it did. The socket, the timer and the game's own handling
of packets are external.

### CellBroadcast and the code

All cells of a small region exist and are updated in every tick, one after
the other in any order. `filling` is the queue that `_broadcast` points to and
`sending` the other one: `Cell::update` swaps them, sends the one and lets the
entities fill the other, `clearQueues` empties the one that was sent. Spawn and
despawn packets come from `onAdded` and `onRemoved`; the answers to requests from
`processRequests`. A `Call` is a packet of the game, broadcast to a cell and those
around it by an entity during the update or by a job after it.
`known` is what a client must believe after all packets it was sent. A client
that moves in a tick in which another entity changes cell as well is
`muddled` and not claimed to know its surroundings: the other's broadcast goes to
the cell the client has left. The counter `_clientsCount`, of 16 bits, is not
initialised by the constructor: it starts at any value of `Garbage`. Whatever that
is, the counter follows the clients in the cell step by step (`CounterFollows`);
that a cell with a client in it does not drop broadcasts (`SilentOnlyIfEmpty`)
is what the comment at `cell.cpp:221` takes for granted, and it is violated by
a counter that starts at 65535. Run `broadcast` lets it start at 0 or 1, where a
cell is never deaf with one client, and `StayersHearOnce` is about such cells.
`Map::broadcast` gets the siblings that exist; a null among them, which
`getSiblings` returns for a cell that was never created, is outside the model,
in which all cells exist.

### CellPhysics and the code

The bodies of one cell and those of sibling cells (`Visitors`), which are put in
the tree when they are within its radius. `BeginUpdate`, `UpdateBody`, `Physics`
and `Cleanup` are what `Cluster::update` and `cleanup` do with one cell. A node of
the tree is named by the path to it; `Insert` follows `QuadTree::insert`, `Search`
is the recursion that `retrieve` and `trace` share. `seen` is the orientation that
the cached normals and extent of a rectangle were computed for. Coordinates are
integers and turns are right angles, so that geometry is exact. The sides of
rectangles and the distances of centres are at least one unit: an axis shorter
than that shrinks a circle in `CollisionsFramework::project`, which multiplies
the radius with the length of an axis that is not normalised, and an overlap
can be missed. Three more things the code does are in the model, and the
properties say where they stop: `split` gives children their size where the far
corner is meant, so that searches do not find what is in them (`CollisionsFound`
and `TraceFindsHits` are about trees that are not split, and fail for others);
`asRect` and `intersects` of a circle take its height for its depth (`Sized`);
a rectangle that was never turned has no extent at all. Every body has a bounding
box: `Cell::physics` uses it without looking (`cell.cpp:135`, `144`), and an entity that
was given none is not modelled. A cell created by a worker
takes part in no cleanup of that tick and keeps what siblings have put in its
tree; the model begins with the tick after that.

### Packet and the code

Writer and receiver run the same code on a buffer of `Capacity` bytes with its
three cursors. `Write` and `Relay` fill the packet, `Send` fills in the length and
puts the bytes on the wire, `ReceiveHeader` and `ReceiveBody` are the two phases of
`Client::scheduleRead` into a packet that is used again and again, `ReadValue`
asks for a type that may be the wrong one. A float is four bytes; a string has its
length in front, and is shorter than 2^16 bytes since `operator<<` keeps its length
in 16 bits (`Word`). The wire carries whole writes one after the other:
`Client::send` starts an `async_write` without waiting for the one before
(`client.cpp:98`), and the library makes no promise when two of them overlap on one
socket; that their parts mix is not modelled. Writing is not bounded by the code: `overrun` records a write
past the end and ends the model.

### Motion and the code

`Update` is `MotionMaster::update`: with a generator the entity is taken along a
curve, which ends by stopping the motion master, otherwise it goes straight on.
Where on the map a curve goes is left open, any point no further than `MaxStep`;
the algebra of the curves (`Calc`, `Dv`, `Segments`, `MapIndex`) is exact, on
integer control points of one dimension. The calls of the game come between
updates. `SetSpeed` does not stop an entity on a path, and updates take some time:
with no way to go `glm::normalize` divides by zero.

### EntityView and the code

A position is a pair of integers over `Scale`, the axial coordinates of
`offsetOf` before rounding; exact fractions stand for the floats. A move is the
displacement of one `MotionMaster::update`, of at most `MaxStep`. `view` is the
set of cells for which the client has got a SPAWN request and no DESPAWN since.
`wild` records that `directions[]` was read at an index out of range, which
happens when two cells are not neighbours.

### Database and the code

Each step of `Database::run` between two accesses of shared state is an action:
`CheckStop`, `CheckEmpty`, `Pop`, `Execute`, `Wait`. The mutex covers a single
action on either side, so it has no variable. The connection pool, the promise
and the work are left out. The queue starts with 256 places and grows when they are
taken (it has no fixed capacity, `database.hpp:76`), so that in the model it has
no bound.

### Executor and the code

One pass of `executeJobs` is split at every access of the queue, since other
threads push at any time (`Schedule`, `Resolve`). A failed work closes its client
and ends the pass (`FailJob`). The heap is a set with the order of
`SchedulableComparator`; tasks with equal times may come in any order. `PassEnds`
relies on what the model has of them: finitely many works, and tasks with
distinct due times. Two tasks that are due at the same time and schedule each
other for that time would be run for ever. The model
with two clients is the executor of the server; `Destruct` is its destructor; the executor of an entity is the
case of a single client.

## 3. Runs

| run | instance | checks |
|---|---|---|
| `entity_view` | scale 5, steps up to 3/5 of a cell, 11 x 11 positions, 3 curves, 3 teleport sites | `ViewIsNeighbourhood`, `NeverWild`, `CellIsNearest`, `QueriesMatchDistance`, `StopsAfterPath`, `MapInvertsLengths` |
| `map` | 3 cells, a client and a mob, with fairness | nothing leaked, freed twice, freed early or used after it is freed; stalled cells keep ticking; the stall flags agree with the stalled cells (`checkStall` takes a cell off them only when a mob is moved: a client's own cells are kept first); keepers, membership, no stray entity; `ImplementsCellLifetime`; an idle map is freed |
| `map_freed_updater` | 3 cells, one client | violated: a client ends in a freed cell |
| `client` | 2 cells, a client and another one that only connects, two threads, one place for operations, with fairness | `DestroyedOutsideMap`, `RecycledOnce`, `RefusedOrQueued`, `ClosedIsRecycled` |
| `client_in_map` | 2 cells, one client | violated: a client in a cell says it is in none |
| `broadcast` | 3 cells, a client and a mob, counters from 0 or 1 | `KnowsItsSurroundings`, `StayersHearOnce`, `CounterFollows` |
| `broadcast_silent` | 3 cells, a client, counters from 0 or 65535 | violated: a cell with a client drops broadcasts |
| `physics` | 2 rectangles, a circle and a visiting circle, three at a time, 4 places, nodes of 2, depth 2 | `InsertedOnce`, `SplitKeepsMisfits`, `RectIsMinimal`, `CollisionsFound`, `TraceFindsHits` |
| `packet` | 12 bytes, 2 values in a packet, 2 packets on the wire | `ReadsWhatWasWritten`, `StreamInStep`, `NoStaleBytes`, `ThrowsOnlyOnMisread` |
| `database` | 2 workers, 3 queries, with fairness | `WorkInOnePlace`, `AwakeWorkerDrains` |
| `database_served` | 2 workers, 2 queries, with fairness | violated: lost wake-up |
| `executor` | 3 works (one future) for 2 places, 2 tasks, with fairness | `JobInOnePlace`, `OverdueOnlyBehindLater`, `PassEnds`, `ReadyFutureRuns` |

**Bounds.** A stall time of 2 with ticks of 0, 1 or 2 has a timer that runs down
at once, in steps, and not at all. Three cells in a row have cells that are
neighbours and cells that are not, so that a cell can fall out of reach. Three cells
of the grid in a row (`Row`) are enough for a move to bring a cell in sight, to
take one out of it and to leave others. Two
cells are enough for a client to be closed in the middle of a move. With one place
for the server's operations the ACCEPT of one client gets in the way of the CLOSE of the
other, when it is queued and when it is pushed back. One client and one mob
are enough for each action of the map; what several clients do to each other's
cells, keepers and queues is in the theorems, which are about any number of them.
A queue of cluster operations of 2 per client is never full in one tick: that every tick empties it is why no KEEP is
lost, as long as there are fewer than 2048 clients changing cell. In
`entity_view` the bound of 3/5 is below 2/3: with `Scale = 6` and `MaxStep = 4`
`NeverWild` fails, which is the hazard at `map.cpp:139`. The positions cover
a cell with all borders and corners and most of those around it. The executor's
queue of two places for three works overflows and recovers. In a buffer of 12
bytes the widest values do not fit twice, and a short packet follows a long one.
Three bodies in nodes of two split the root and its children; the tree is at (8, 8)
and one place is outside its radius.

**Fairness.** The server thread and the workers of the database run
whenever they can (`WF`); the owner of an executor is updated in every tick; an
I/O thread that is inside `close` goes on.
`TimePasses` is strongly fair: `diff` may be 0 in a tick, but `Server::update`
then sleeps until the heart beat of 50 ms. Nothing is assumed of clients, of
callers of `query` before they push, or of futures.

**What the violations show.**

* `NoUpdaterInFreedCell`: ADD_ENTITY for a cell is queued, then the cluster
  queues DESTROY for it; both are executed in this order.
* `EveryQueryServed`: the worker has seen an empty queue, the caller pushes and
  notifies, the worker waits.
* `InMapIsTrue`: the client crosses a border, and is closed before its own REMOVE
  and ADD are executed; the REMOVE that `close` has queued comes after both
  and clears the pointer of an entity that is in the new cell.
* `SilentOnlyIfEmpty`: a cell is made with 65535 in its counter, a client comes in,
  and the counter is zero.

Known behaviour that the models show and no run asserts: the assertion of
`Cluster::touch` can fail (see `CellLifetime`); two overlapping calls of
`Client::close` recycle a client twice (`fault` is `"double"`); works pushed
back to an executor's full queue are lost (`dropped`); a client whose CLOSE the
server's full queue refuses is never recycled (`lost`); the early return of
`executeJobs` loses works of clients other than the one that failed (`abandoned`);
a task that is due waits behind one that is not (`OverdueOnlyBehindLater` says that it
waits for nothing else); a task that
schedules a later one makes the heap pop the wrong task (`RunTask` ends in
`"freed"`).

## 4. Theorems

All of them hold for every value of the constants that satisfies the named
assumptions, where the runs check one instance each. A hypothesis that is not an
assumption of the module is part of the theorem's statement.

**`MapClusterProofs`** (`NeighboursAssumption`, `EntitiesAssumption`,
`BoundsAssumption`).

* `TypeCorrect` is inductive by itself.
* The properties of cells are not: that `FreedOnce` survives `DestroyCell` needs
  the cell to be allocated and flagged, that `NoFreedCellInCluster` survives
  `Destroy` needs condemned cells to be outside `current` and `comp`, and all of it
  depends on the phase of the tick. `CellsInv` is their conjunction with
  `CooldownInv` (condemned cells are on cooldown, no cell to update is, and in
  which phases either can exist) and `PointersLive` (an entity that does not
  dangle points to an allocated cell). `CellsFreedLate` adds `TimerInv`: the time a
  cell still has and the time it has been out of reach add up to at least the
  stall time.
* `MapImplementsLifetime`: the refinement of `CellLifetime`, from `CellsInv` and
  `TimerInv`. There is one lemma for each kind of step (`CreateIsCreateCells`,
  `CleanupIsLetTimePass`, `TouchKeptIsKeepCells`, `DestroyCellIsCondemn`,
  `DestroyIsFree`); every other step leaves the mapped state alone.
* `MembershipSound` needs `EntitiesInv`, which says what the queue of the map may
  hold: a REMOVE names the cell its entity is in, an ADD is of an entity that is
  nowhere or will have left by then, nobody has more than that queued, and whoever
  is still to be updated has nothing queued. `PushAgrees`, `PushMoveAgrees` and
  `PopAgrees` are the facts about that queue.
* `KeepersCounted` and `EntitiesNeverStray` suppose `RoomForUpdaters`: the
  queue of the cluster holds two operations of every updater. The code has 4096
  places (`cluster.hpp:70`), so the theorems are about up to 2048 updaters; beyond
  that a KEEP can be lost. `KeepersInv` balances the list of keepers, the
  operations still queued and the cells of the updaters, and `RoomLeft` counts
  the queue.

**`ClientLifecycleProofs`** (`OpsCapAssumption` and `PlayersAssumption` besides).
`ClientsRecycledOnce` needs `OnceInv`: for a client
nobody raced, CLOSE is queued, about to be queued by the one thread inside
`close`, or executed, and only one of these. `SessionTypes` are the types it rests on.
The theorem is about any number of clients and handlers and makes no use of the
map.

`ClosesNeverForgotten` is about the queue of the server, of any capacity. `KeptInv`
says that nobody reads from, times or closes a client before its ACCEPT is executed,
that an ACCEPT is queued at most once, and that a closed client's CLOSE is queued, kept
or lost (`Pushed`, `KeptPopped` and `KeptPushed` are the facts about the two
queues). It also holds for clients that were closed by two threads at once.

`ClientsDestroyedOutsideMap` supposes `[]NeverFull`: the queue of the cluster,
of 4096 places (`cluster.hpp:70`), is never full. `Cluster::add` and
`Cluster::remove` ignore the result of the push (`cluster.cpp:301`, `312`), so a
departure pushed to a full queue is lost. `RoomForUpdaters` does not bound the
queue here, because a client that two threads close at once may be removed more
than once. `LeavesInv` says of every client nobody raced:

* `Placed`: the cells that hold it and the operations queued for it agree with
  the cell it believes it is in, the one-client form of `EntitiesInv`;
* `Alternates`: its KEEP and UNKEEP operations take turns, the first suits the
  list of keepers and the last where the client is. There may be more of them than
  `KeepersInv` allows, since `close` may queue a departure while the map
  works through its operations;
* `Departs`: how far `close` has come. The cell it read is still the client's cell,
  and no arrival is queued once the departure is.

Beside these it needs `TypeOK` and `CellsInv` of the map while the process runs,
from `NextTypes` and `NextCells` of `MapClusterProofs`, and `OnceInv`.

**`CellBroadcastProofs`** (`BroadcastAssumption`).

* `CountersFollow`: `PlacesInv` (cells and entities agree, and the queue suits
  them as in `EntitiesInv`) makes every arrival and departure count once. Nothing is
  supposed of what the counters hold at first, nor of the number of clients;
  `CountWraps` is the arithmetic of 16 bits.
* `CallsHeardOnce` supposes `[]SilentOnlyIfEmpty`: no cell drops broadcasts while
  a client is in it, which the code expects (`cell.cpp:221`) and does not ensure
  (run `broadcast_silent`). `HearInv` follows a call through the two queues. For a client
  that has stayed within reach, it waits in the queue that is filled (`Awaited`),
  is in the queue that is sent while the client's turn is to come (`Arriving`), or
  has been sent and is cleared before the cell swaps its queues again (`Arrived`).

**`EntityViewProofs`** (`ViewAssumption`).

* `CellsExcludingIsDifference` shows for each of the six directions that the three
  cells computed from `directions[]` are those around one cell and not around its
  neighbour; with `SiblingsSymmetric` this makes `ViewIsNeighbourhood` inductive
  (`ViewStaysExact`).
* `CellsAreNearest`: rounding two coordinates and repairing the one with the largest
  error leaves a point within the hexagon of its cell (`OffsetOfInHexagon`), and
  in a hexagon no neighbour's centre is nearer (`NearestInHexagon`).
* `ShortStepsNeverWild` supposes `3 * MaxStep < 2 * Scale`: two points in hexagons
  that do not touch are at least two thirds of a cell apart along some axis. The
  bound is sharp (section 3).
* `InRadiusIsBall` and `RingIsSphere` relate the two nested loops and the walk of
  `Cell::ring` to the distance, for every radius; `QueriesRight` follows.

**`MotionProofs`** (`MotionAssumption` besides). `MotionImplementsView`: every
step of the motion master is a step of `EntityView` or leaves it alone, because
a curve stays within `MaxStep` and `MaxSpeed * MaxElapsed` does not exceed it; so
`MovedViewExact` follows from the theorems of `EntityViewProofs`. `PathsEndAtRest` is
inductive as it stands: a generator is only taken away by an action that also
stops the entity. `SlopesRight` is algebra (`SymmetricDifference`), and only proved: no
run checks it.
`LengthsInverted` rests on `SegmentsFilled` and `SegmentsSorted`, what the
constructor's loop leaves in the table, and `SearchFinds`, the correctness of the
binary search on any sorted table: whatever is below `low` is less than the
target, whatever is at `high` or above is not, and the last probe is one of the
two entries at the border.

**`PacketProofs`** (`PacketAssumption`: the buffer has room for a header and its
size can be expressed in 16 bits, and values have the size of their type). The
theorems are about any values, any number of them and of packets, and any number of
relays.

* `ConveyedInvariant` is what the four properties follow from. None of them is
  inductive: that the stream is in step after a packet needs the length in the
  header to be that of the body, and that a value is read back needs its bytes to be
  at the cursor. `Conveyed` says what a packet being written holds (`HoldsValues`:
  the opcode and the bytes of the values, up to the cursor), that the packets on the
  wire fit a buffer, and what wire and receiver hold at each stage: whole packets
  (`AtHeader`), the body the header has announced (`AtBody`), or a body in the buffer
  with the cursor between its ends (`AtReading`) and, if nothing was misread, right
  after the values read (`InPlace`).
* `PlaceFacts`, `PlaceKeeps`, `PutHolds` and `SendHolds` are about the writer,
  `HeaderReceived`, `BodyReceived`, `PayloadFacts` and `CopyFacts` about what
  receiving and relaying leave in a buffer that is used again. `ReadAdvances` bounds
  every read, also one of a string whose length is arbitrary bytes; `ReadFound` says
  that a value at the cursor is returned as it was written.
* What values look like as bytes is `FlattenSeq` of the community modules, defined by
  recursion over the index. `FlattenConcat` and, from it, `BodyFacts` and
  `StreamFacts` are proved as described under recursive functions.

A write past the end of the buffer is outside these theorems: the code does not
prevent it, and the model ends there.

**`DatabaseProofs`** (`DatabaseAssumption`). `WorkConserved` is proved from
`Inv`: types, the place of each work, and that a worker about to execute holds a
work.

**`ExecutorProofs`** (`ExecutorAssumption`). `JobsInOnePlace` counts occurrences in
both queues (`TimesAppend`, `TimesTail`) and shows for each step of a pass that what
leaves one place enters another. `OverdueTasksBehindLater` needs that the loop
ends only when the top of the heap, the task due last (`TopExists`), is not due.

**Recursive functions.** The library's induction theorems cannot be
instantiated by the installed provers, but a least counterexample can be had from the
well-foundedness of the natural numbers for a set (`LeastNat`). The facts about
`Cell::ring`, the table of lengths, the binary search and `FlattenSeq` are proved that way:
first that a function satisfying the recursive equation exists, then, by the
least argument at which it fails, that it has the property. The functions have a
single argument for it, which is why the search takes its three variables as a
triple.

**Only model-checked.**

* Everything under fairness (`IdleMapIsFreed`, `ClosedIsRecycled`,
  `AwakeWorkerDrains`, `PassEnds`, `ReadyFutureRuns`), which the prover does not
  support.
* `KnowsItsSurroundings`: it relates what was shown to the packets still queued, to
  the requests still to be answered and to who moved in the same tick.
* The properties of `CellPhysics`: `QuadTree::insert` calls itself for
  every child, which the model does with a recursive operator, and the prover does
  not accept a module that reaches one.

## 5. Plan

The graph of the cluster and the cells each of its tasks writes to.

## 6. Not modelled

* The connected components of the cluster's graph: they decide which cells
  are updated in parallel, and the models let cells be updated in any order, one
  step at a time. Data races on the containers of the map and on quadtrees
  of sibling cells have no next state that could be checked.
* The release build, in which a failed assertion is not noticed (`CellLifetime`
  above), null siblings in `Map::broadcast` and null bounding boxes in
  `Cell::physics`, and `async_write` operations that overlap on one socket.
* The length of the sleep in the heart beat, the pool and the (not atomic) reference
  count of packets, and the distance that `BoundingBox::intersects` returns.
* Floating point: positions, curves and boxes are exact.
* The debug terminal (output only), forward headers and macros,
  `map-slow-radius` (an earlier version that the build does not include), and
  `main.cpp` (a placeholder).
