CONSTANTS
    Key = {k1, k2, k3, k4}
    Value = {v1, v2}
    Absent = Absent
    Nil = Nil
    capacity = 3
SPECIFICATION Spec
INVARIANTS HandInQueue EvictMatchesLoop
PROPERTIES SecondChance RefinesBoundedCache
