CONSTANTS
    Segments <- MCSegments
    MrChanges <- MCMrChanges
    PatchChanges <- MCPatchChanges
    Violations <- MCViolations
    Text <- MCText
    MaxFiles = 2
    Tolerance = 2
SPECIFICATION Spec
INVARIANTS
    TypeOK
    ReadersExact
    LineGateExact
    WideningUnblocks
    OfferedIsAdmitted
CHECK_DEADLOCK FALSE
