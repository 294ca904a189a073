\* Three clients, one switch of the database.
SPECIFICATION FairSpec
CONSTANTS
    Client = {c1, c2, c3}
    Switcher = {s1}
    Initial = db0
    None = None
INVARIANTS LiveOperationOnItsDatabase NoContextLeft
PROPERTIES SwitchEnds
