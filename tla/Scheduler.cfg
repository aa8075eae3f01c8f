CONSTANTS
    pa1 = pa1  pa2 = pa2  pb = pb  px = px
    ra1 = ra1  ra2 = ra2
    ka = ka  kb = kb  kc = kc
    Nobody = Nobody
    Pipelines <- MCPipelines
    Resumes <- MCResumes
    Keys <- MCKeys
    KeyOf <- MCKeyOf
    MrEvents <- MCMrEvents
    Excluded <- MCExcluded
    MaxParallel = 4
    MaxWorkers = 2
    CrashThreshold = 2
    QuietWindow = TRUE
SPECIFICATION FairSpec
INVARIANTS
    TypeOK
    SerialPerKey
    SlotAccounting
    InflightExact
    NoLostWakeup
PROPERTIES
    ImplementsExecutor
    AcceptedEventuallySettled
    ResumeEventuallyEnds
