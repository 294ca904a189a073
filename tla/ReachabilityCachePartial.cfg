CONSTANTS
    p = p
    q = q
    Caller = {p}
    Component = {0, 1, 2, 3}
    Graphs <- Acyclic
    Absent = Absent
    maxCacheSize = 2

SPECIFICATION Spec

INVARIANT ReturnsReach
