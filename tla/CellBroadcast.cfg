\* A client and a mob walk over three cells; a new counter holds 0 or 1.
CONSTANTS
    Offsets <- Row
    Entities = {p, m}
    Clients = {p}
    Garbage = {0, 1}
    MaxOps = 4
    None = None
SPECIFICATION Spec
INVARIANTS
    KnowsItsSurroundings
    StayersHearOnce
PROPERTY
    CounterFollows
