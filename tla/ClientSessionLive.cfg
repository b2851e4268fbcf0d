SPECIFICATION FairSpec
CONSTANTS
    A = A
    B = B
    Relays = {A}
    Default = A
    Nobody = Nobody
    Generations = 3
    MaxCursor = 1
    MaxTimers = 1
    MaxWrites = 2
    MaxPending = 4
    Faults = {"lost"}
PROPERTY
    KeepsAsking
