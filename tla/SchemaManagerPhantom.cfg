SPECIFICATION Spec
CONSTANTS
    Actor = {a1, a2}
    Kind = {k1, k2}
    PoolSize = 3
    MaxID = 3
    MaxFailures = 1
    None = None
INVARIANT AssertedIsDefined
SYMMETRY Symmetry
