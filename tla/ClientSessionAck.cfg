SPECIFICATION Spec
CONSTANTS
    A = A
    B = B
    Relays = {A, B}
    Default = A
    Nobody = Nobody
    Generations = 3
    MaxCursor = 1
    MaxTimers = 1
    MaxWrites = 2
    MaxPending = 12
    Faults = {}
INVARIANTS
    AcksOnlyWhatIsSaved
