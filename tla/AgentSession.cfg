SPECIFICATION Spec
CONSTANTS
    Usages <- MCUsages
    PerTurnLimit = 2
    TotalLimit = 3
    TurnLimit = 2
    ContinueLimit = 2
INVARIANTS
    TypeOK
    BreachNeverPasses
    AbortsAreOwn
    NothingOutlivesTheSession
CHECK_DEADLOCK FALSE
