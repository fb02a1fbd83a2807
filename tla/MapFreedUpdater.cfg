\* One client in three cells.
CONSTANTS
    Offsets <- Row
    Neighbours <- RowNeighbours
    Entities = {u}
    Updaters = {u}
    StallTime = 2
    MaxElapsed = 2
    ClusterCap = 2
    Null = Null
SPECIFICATION Spec
INVARIANT
    NoUpdaterInFreedCell
