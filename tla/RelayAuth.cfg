SPECIFICATION Spec
CONSTANTS
    k1 = k1
    k2 = k2
    h1 = h1
    h2 = h2
    Keys = {k1, k2}
    Handlers = {h1, h2}
    MaxChallenges = 3
    MaxChallengesPerKey = 2
    MaxSessions = 2
    MaxSessionsPerKey = 2
    ChallengeExpiry = 2
    SessionExpiry = 2
    MaxDraws = 4
    MaxTime = 2
SYMMETRY Symmetry
INVARIANTS
    TypeOK
    RedeemedOnce
    PoolsCapped
    PresentWhileLoggedIn
PROPERTY
    RevocationIsFinal
