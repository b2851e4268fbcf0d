SPECIFICATION Spec
CONSTANTS
    A = A
    B = B
    Relays = {A}
    Default = A
    Nobody = Nobody
    Generations = 3
    MaxCursor = 1
    MaxTimers = 1
    MaxWrites = 1
    MaxPending = 12
    Faults = {"lost", "kill", "read", "write"}
INVARIANTS
    TypeOK
    NeverStranded
    OnlineIsHonest
PROPERTY
    UnreadableIsUntouched
