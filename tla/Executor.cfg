\* Three works for two places, one of them a future.
CONSTANTS
    a = a  b = b  c = c
    t1 = t1  t2 = t2
    x = x  y = y
    Works = {a, b, c}
    Futures = {c}
    ClientOf <- TwoClients
    Capacity = 2
    Tasks = {t1, t2}
    When <- DueTimes
    MaxNow = 2
    None = None
SPECIFICATION FairSpec
INVARIANTS
    JobInOnePlace
    OverdueOnlyBehindLater
PROPERTIES
    PassEnds
    ReadyFutureRuns
