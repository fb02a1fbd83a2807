\* A client is read from, closed and moved in any order; another one connects.
CONSTANTS
    Offsets <- Pair
    Neighbours <- PairNeighbours
    Entities = {c, d}
    Updaters = {c, d}
    Players = {c}
    StallTime = 1
    MaxElapsed = 1
    ClusterCap = 3
    OpsCap = 1
    Null = Null
SPECIFICATION FairClientSpec
INVARIANTS
    DestroyedOutsideMap
    RecycledOnce
    RefusedOrQueued
PROPERTY ClosedIsRecycled
