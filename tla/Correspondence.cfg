SPECIFICATION Spec
CONSTANTS
    Bytes = {0, 1}
    PrefixOf <- Prefix
    SuffixOf <- Suffix
    KeyLen = 2
    Points <- AllPoints
    MaxBody = 65536
    MaxDisplayName = 128
    MaxBio = 1024
    MaxPhoto = 65536
    MaxId = 128
    MaxAckIds = 1
    WireVersion = 2
    MinBlobLen = 173
    MaxBlobLen = 44040192
    MaxPlaintextLen = 1048576
    LowOrder <- Weak
    Users <- People
    Others <- Strangers
    Ahead <- Clocks
    Skew = 2
    MaxContacts = 2
    Typed <- Names
    Visited <- Chats
    Bodies <- Writings
    Profiles <- Forms
    ForeignMail <- FromC
    MaxTime = 4
INVARIANTS
    TypeOK
    Authentic
    Readable
    NewestProfileWins
CHECK_DEADLOCK FALSE
