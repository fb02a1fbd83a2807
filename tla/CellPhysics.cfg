\* Three at a time of four bodies at four places in nodes of two.
CONSTANTS
    pole = pole
    tile = tile
    disc = disc
    ball = ball
    Rects = {pole, tile}
    Circles = {disc, ball}
    Shape <- Shapes
    Visitors = {disc}
    Places <- SomePlaces
    Center <- Middle8
    Radius = 8
    Rays <- SomeRays
    MaxBodies = 3
    MaxEntities = 2
    MaxDepth = 2
    Junk <- SomeJunk
    None = None
SPECIFICATION Spec
INVARIANTS
    InsertedOnce
    SplitKeepsMisfits
    RectIsMinimal
    CollisionsFound
    TraceFindsHits
