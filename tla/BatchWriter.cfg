\* Buffers of more than one call are written; one statement fails.
SPECIFICATION Spec
CONSTANTS
    NodeID = {1, 2}
    Identity <- Identities
    Nodes0 = {1, 2}
    Edges0 <- OneEdge
    BatchWriteSize = 1
    LargeNodeUpdateThreshold = 1
    MaxCalls = 3
    MaxFailures = 1
    None = None
INVARIANTS WrittenOnce UpsertsInOrder EndsAsIdentified
