CONSTANTS
    Writer = {w1, w2, w3}
    SchemaWriter = {}
    Unwanted = {w3}
    Hook = {1}
    None = None
    MaxBucket = 1
    BatchSize = 1
    MaxBatches = 2
    Retries = 1
    PageLimit = 1
    ScanBudget = 2
    SlowWriters = TRUE
    AdminActs = TRUE
    LostRuns = TRUE
SPECIFICATION MCSpec
INVARIANTS CommitOrdered PulledOnce NothingSkipped
PROPERTIES QueuedJobDelivers
CHECK_DEADLOCK FALSE
