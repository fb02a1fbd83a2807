\* Steps of at most 3/5 of a cell: below the 2/3 at which a cell can be skipped.
CONSTANTS
    Scale = 5
    MaxStep = 3
    Extent = 5
    MaxSpeed = 1
    MaxElapsed = 3
    Steps = 3
    Sites <- SomeSites
    Curves <- SomeCurves
    Parts = 4
    NoCurve = NoCurve
SPECIFICATION MotionSpec
INVARIANTS
    ViewIsNeighbourhood
    NeverWild
    CellIsNearest
    QueriesMatchDistance
    StopsAfterPath
    MapInvertsLengths
