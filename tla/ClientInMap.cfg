\* A client that crosses a border in the tick in which it is closed.
CONSTANTS
    Offsets <- Pair
    Neighbours <- PairNeighbours
    Entities = {c}
    Updaters = {c}
    Players = {c}
    StallTime = 1
    MaxElapsed = 1
    ClusterCap = 3
    OpsCap = 1
    Null = Null
SPECIFICATION ClientSpec
INVARIANT InMapIsTrue
