CONSTANTS
    Writer = {w1, w2}
    SchemaWriter = {}
    Unwanted = {}
    Hook = {1}
    None = None
    MaxBucket = 2
    BatchSize = 1
    MaxBatches = 3
    Retries = 1
    PageLimit = 2
    ScanBudget = 2
    SlowWriters = TRUE
    AdminActs = FALSE
    LostRuns = FALSE
SPECIFICATION MCSpec
PROPERTIES EveryChangeDelivered
CHECK_DEADLOCK FALSE
