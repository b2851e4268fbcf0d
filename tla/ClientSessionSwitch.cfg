SPECIFICATION Spec
CONSTANTS
    A = A
    B = B
    Relays = {A, B}
    Default = A
    Nobody = Nobody
    Generations = 3
    MaxCursor = 1
    MaxTimers = 1
    MaxWrites = 3
    MaxPending = 4
    Faults = {"lost"}
INVARIANTS
    GuardsOwned
    SessionOfRelay
    CursorOfRelay
    DiskOfOneRelay
