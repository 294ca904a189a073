CONSTANTS
    n1 = n1
    n2 = n2
    n3 = n3
    n4 = n4
    Origins <- SmallDigraphs

SPECIFICATION GraphSpec
SYMMETRY Symmetry
CONSTRAINT QueriesOverWhole

INVARIANTS ComponentsExact BuiltIsComponentGraph SearchExact CanReachExact
