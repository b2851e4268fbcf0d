SPECIFICATION Spec
CONSTANTS
    a = a
    b = b
    b1 = b1
    b2 = b2
    b3 = b3
    h1 = h1
    h2 = h2
    Keys = {a, b}
    Pollers = {a}
    Blobs = {b1, b2, b3}
    MaxPerRecipient = 2
    MaxTotal = 2
    MaxPollEvents = 1
    MaxAge = 1
    Handlers = {h1, h2}
    Batches <- MCBatches
    MaxTime = 2
    MaxSeq = 4
SYMMETRY Symmetry
INVARIANTS
    TypeOK
    RowsAreDistinct
    NothingSkipped
    Capped
PROPERTY
    KeepsPromise
