SPECIFICATION Spec
CONSTANTS
    a = a
    b = b
    MRs <- MCMRs
    Cap = 1
    Commits <- MCCommits
CONSTRAINT OnlySaves
INVARIANTS
    TypeOK
    CapHolds
    ReplayKeepsUnlessStrayed
CHECK_DEADLOCK FALSE
