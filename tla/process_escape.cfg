SPECIFICATION FairSpec
CONSTANTS
    Leader = Leader
    k1 = k1
    k2 = k2
    k3 = k3
    Kids = {k1, k2}
    Privileged = {}
    MayEscape = TRUE
PROPERTIES
    RunReturns
