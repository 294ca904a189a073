\* A dump without interruptions, and one load without faults.
SPECIFICATION WholeSpec
CONSTANTS
    ID = {0, 1, 2, 3}
    Ends <- Pairs
    Sources <- AllSources
    ShardSize = 2
    BatchSize = 3
    Parquet = TRUE
    MaxInterruptions = 0
    MaxChanges = 0
    LoadBatchSize = 2
    Serial <- Sequence
    MaxAttempts = 1
    MaxFaults = 0
    None = None
CONSTRAINT LoadsUndisturbed
INVARIANT RoundTrip
