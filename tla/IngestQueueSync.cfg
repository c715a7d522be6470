CONSTANTS
    Jobs = {j1}
    Workers = {w1, w2}
    Requests = {r1}
    MaxAttempts = 2
    Nobody = Nobody
    ApiSync = ApiSync
    NoJob = NoJob
    IngestSync = TRUE
    LateHeartbeats = TRUE
    MaxCrashes = 1
SPECIFICATION FairSpec
CHECK_DEADLOCK FALSE
INVARIANT LeaseExclusive
PROPERTIES JobsSettle ImplementsLeasedJobs
