CONSTANTS
    p = p
    q = q
    Caller = {p, q}
    Component = {0, 1, 2, 3}
    Graphs <- Meeting
    Absent = Absent
    maxCacheSize = 0

SPECIFICATION Spec
SYMMETRY Symmetry

INVARIANTS ReachSound WholeUnlessCached
