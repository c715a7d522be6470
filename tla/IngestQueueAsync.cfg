CONSTANTS
    Jobs = {j1}
    Workers = {w1, w2}
    Requests = {r1, r2}
    MaxAttempts = 2
    Nobody = Nobody
    ApiSync = ApiSync
    NoJob = NoJob
    IngestSync = FALSE
    LateHeartbeats = TRUE
    MaxCrashes = 1
SPECIFICATION Spec
CHECK_DEADLOCK FALSE
SYMMETRY Symmetry
INVARIANTS Inductive LeaseExclusive ExecutionBudget
PROPERTY ImplementsLeasedJobs
