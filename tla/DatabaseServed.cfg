CONSTANTS
    Workers = {w1, w2}
    Queries = {q1, q2}
    NoWork = NoWork
SPECIFICATION FairSpec
PROPERTY EveryQueryServed
