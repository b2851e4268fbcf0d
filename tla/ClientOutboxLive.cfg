CONSTANTS
    Peers = {1, 2}
    BadKeys = {2}
    MaxContacts = 2
    MaxBatch = 2
    MaxBatchBytes = 2
    MaxRetries = 2
    Generations = 3
    MaxItems = 2
    MaxProfile = 0
SPECIFICATION FairSpec
PROPERTY EveryItemLeaves
CHECK_DEADLOCK FALSE
