SPECIFICATION Spec
CONSTANTS
    a = a
    b = b
    MRs <- MCMRs
    Cap = 1
    Commits <- MCCommits
INVARIANT ReplayKeepsTheCommits
CHECK_DEADLOCK FALSE
