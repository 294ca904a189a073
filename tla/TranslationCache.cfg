\* Two goroutines, two query shapes, a cache of one entry, two schema changes.
SPECIFICATION FairSpec
CONSTANTS
    Caller = {c1, c2}
    Query = {q1, q2}
    Oversized = {}
    capacity = 1
    MaxGeneration = 2
    MaxCalls = 1
    None = None
INVARIANTS FreshResult NoStaleEntry OneLeader WaiterHasLeader
PROPERTY EveryCallReturns
CHECK_DEADLOCK FALSE
