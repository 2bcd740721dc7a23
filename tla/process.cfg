SPECIFICATION FairSpec
CONSTANTS
    Leader = Leader
    k1 = k1
    k2 = k2
    k3 = k3
    Kids = {k1, k2, k3}
    Privileged = {k3}
    MayEscape = TRUE
INVARIANTS
    TypeOK
    OutputIsComplete
    GroupIsTerminated
PROPERTIES
    AnswerIsHonest
    RunReturnsUnlessEscaped
