SPECIFICATION SessionSpec
CONSTANTS
    Actor = {a1, a2}
    Kind = {k1, k2}
    Graph = {g1}
    PoolSize = 3
    MaxID = 2
    MaxFailures = 1
    MaxRollbacks = 1
    None = None
INVARIANTS OneKindPerID AssertedComplete ReturnedIsDefined OneCreator
PROPERTY KnownStaysKnown
CONSTRAINT Bound
SYMMETRY Symmetry
