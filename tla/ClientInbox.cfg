SPECIFICATION Spec
CONSTANTS
    P = P
    o = o
    Peers = {P}
    OwnIds = {o}
    Mails <- Mail
    Now = 2
    Skew = 1
    MaxMessages = 2
    MaxSeenIds = 3
    MaxContacts = 1
    MaxPage = 2
    MaxWrites = 4
    MaxBusy = 0
    MaxFailures = 1
INVARIANTS
    TypeOK
    ConversationsInOrder
    DedupCovers
    DurableUnlessTorn
PROPERTIES
    AcksInAnyOrder
CHECK_DEADLOCK FALSE
