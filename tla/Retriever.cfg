\* Shards of two records, batches of three, two interruptions and one change of
\* the dump; batches of two, two attempts and one fault of the load.
SPECIFICATION WholeSpec
CONSTANTS
    ID = {0, 1, 2, 3}
    Ends <- Pairs
    Sources <- AllSources
    ShardSize = 2
    BatchSize = 3
    Parquet = TRUE
    MaxInterruptions = 2
    MaxChanges = 1
    LoadBatchSize = 2
    Serial <- Sequence
    MaxAttempts = 2
    MaxFaults = 1
    None = None
CONSTRAINT LoadsUndisturbed
INVARIANTS CommittedOnDisk NeverRefused ExactDump CountChangesDetected LoadedOnce DamageStopsLoad DumpIsLoadable VerifiedRoundTrip
PROPERTY EndsInManifest
