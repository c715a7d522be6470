CONSTANTS
    Jobs = {j1}
    Workers = {w1, w2}
    Requests = {r1}
    MaxAttempts = 2
    Nobody = Nobody
    ApiSync = ApiSync
    NoJob = NoJob
    IngestSync = FALSE
    LateHeartbeats = TRUE
    MaxCrashes = 0
SPECIFICATION FairSpec
CHECK_DEADLOCK FALSE
PROPERTY StaleWorkersWriteNothing
