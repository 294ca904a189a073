\* One or two workers with one or two connections, trees of up to four segments.
SPECIFICATION FairSpec
CONSTANTS
    r = r
    a = a
    b = b
    c = c
    Teams = {{w1}, {w1, w2}}
    Segment = {r, a, b, c}
    Root = r
    Trees <- SmallTrees
    Slots = {1, 2}
    None = None
INVARIANTS CountMatchesWork WholeTreeVisited ErrorsReported NoSendOnClosed
PROPERTY Ends
