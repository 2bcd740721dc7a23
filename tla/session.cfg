SPECIFICATION FairSpec
CONSTANTS
    Leader = Leader
    k1 = k1
    k2 = k2
    Kids = {k1, k2}
    Privileged = {k2}
    MayEscape = TRUE
INVARIANTS
    TypeOK
    WaitIsHonest
    FinishIsAnnounced
    MessageIsRemoved
PROPERTIES
    WaitIsBounded
    SessionEnds
