\* Three cells in a row; a client and a mob come, move and go.
CONSTANTS
    Offsets <- Row
    Neighbours <- RowNeighbours
    Entities = {u, m}
    Updaters = {u}
    StallTime = 2
    MaxElapsed = 2
    ClusterCap = 2
    Null = Null
SPECIFICATION FairSpec
INVARIANTS
    TypeOK
    NoCellForgotten
    FreedOnce
    NoFreedCellInCluster
    StalledCellTicks
    StallFlagsAgree
    FreedOnlyAfterStallTime
    KeepersAreTheUpdatersInside
    MembershipAgrees
    NoStrayEntity
PROPERTIES
    ImplementsCellLifetime
    IdleMapIsFreed
