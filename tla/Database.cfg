\* Two workers compete for three queries.
CONSTANTS
    Workers = {w1, w2}
    Queries = {q1, q2, q3}
    NoWork = NoWork
SPECIFICATION FairSpec
INVARIANTS
    WorkInOnePlace
PROPERTY AwakeWorkerDrains
