SPECIFICATION FairSpec
CONSTANTS
    p1 = p1
    p2 = p2
    c1 = c1
    c2 = c2
    Places = {p1, p2}
    Commits = {c1, c2}
    Branch = Branch
    Works <- MCWorks
    MaxExecution = 3
    NoTask = NoTask
    NoJob = NoJob
INVARIANTS
    TypeOK
    AdmittedIsApproved
    VerbatimTaskMatches
    PacketProvesAcceptance
    EvidenceChain
    PacketIsForApprovedTask
PROPERTIES
    VerificationAdvances
    VerificationEnds
