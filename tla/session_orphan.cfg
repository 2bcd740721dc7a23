SPECIFICATION Spec
CONSTANTS
    Leader = Leader
    k1 = k1
    k2 = k2
    Kids = {k1, k2}
    Privileged = {}
    MayEscape = FALSE
INVARIANTS
    WriterStopsWithRun
