CONSTANTS
    Jobs = {j1}
    Workers = {}
    Requests = {r1, r2, r3, r4}
    MaxAttempts = 1
    Nobody = Nobody
    ApiSync = ApiSync
    NoJob = NoJob
    NoDoc = NoDoc
    Api = Api
    IngestSync = TRUE
    LateHeartbeats = FALSE
    MaxCrashes = 0
    SharedInputs = FALSE
    Reuploads = TRUE
    Overlapping = FALSE
    Illustrated = {r1, r2}
SPECIFICATION PSpec
CHECK_DEADLOCK FALSE
INVARIANTS PTypeOK AnsweredDocumentStored SucceededServesStored
