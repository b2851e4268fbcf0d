SPECIFICATION Spec
CONSTANTS
    SessionExpiry = 2
    OnlineGossipTtl = 3
    RetryBackoffBase = 1
    RetryBackoffMax = 1
    ForwardFailureMaxAge = 2
    MaxForwardRetries = 2
    MaxDelay = 1
    MaxFailures = 1
    Forks = {1}
    MaxGossip = 1
    MaxStaging = 1
INVARIANTS
    TypeOK
    LatestCallWins
    NoMailLeftBehind
    DeliveredIsStored
