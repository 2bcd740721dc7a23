SPECIFICATION Spec
CONSTANTS
    NoOwner = NoOwner
    Faults = {"io_error", "crash"}
    Runner = Runner
    d1 = d1
    d2 = d2
    Deciders = {d1, d2}
    good = good
    bad = bad
    Commits = {good, bad}
    Conforming = {good}
    Base = Base
    NoCommit = NoCommit
    Overlap = TRUE
SYMMETRY MCSymmetry
INVARIANTS
    TypeOK
    MutualExclusion
    DecisionIsHuman
    EvidenceMatchesResult
    SnapshotIsLogged
    EffectsAreRecorded
    AmbiguousWorkIsKept
    SuccessIsOnDisk
PROPERTIES
    
    PublishedIsFrozen
    RefinesContract
