SPECIFICATION Spec
CONSTANTS
    Peers = {1, 2}
    BadKeys = {}
    MaxContacts = 2
    MaxBatch = 2
    MaxBatchBytes = 3
    MaxRetries = 2
    Generations = 3
    MaxItems = 2
    MaxProfile = 1
INVARIANTS
    TypeOK
    GuardOwned
    InFlightIsHead
    AnsweredIsGone
    BlockedIsSilent
PROPERTY
    LeavesForAReason
    SendsOnlyWhenAllowed
CHECK_DEADLOCK FALSE
