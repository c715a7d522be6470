CONSTANTS
    Jobs = {j1}
    Workers = {w1}
    Requests = {r1, r2}
    MaxAttempts = 2
    Nobody = Nobody
    ApiSync = ApiSync
    NoJob = NoJob
    NoDoc = NoDoc
    Api = Api
    IngestSync = FALSE
    LateHeartbeats = FALSE
    MaxCrashes = 0
    SharedInputs = TRUE
    Reuploads = TRUE
    Overlapping = FALSE
    Illustrated = {r1}
SPECIFICATION PSpec
CHECK_DEADLOCK FALSE
INVARIANT AnsweredDocumentStored
