CONSTANTS
    Jobs = {j1}
    Workers = {w1, w2}
    Requests = {r1}
    MaxAttempts = 2
    Nobody = Nobody
    ApiSync = ApiSync
    NoJob = NoJob
    NoDoc = NoDoc
    Api = Api
    IngestSync = FALSE
    LateHeartbeats = TRUE
    MaxCrashes = 1
    SharedInputs = TRUE
    Reuploads = FALSE
    Overlapping = FALSE
    Illustrated = {}
SPECIFICATION PFairSpec
CHECK_DEADLOCK FALSE
INVARIANTS AnsweredDocumentStored SucceededServesStored
PROPERTY JobsSettle
