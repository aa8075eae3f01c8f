SPECIFICATION Spec
CONSTANTS
    e1 = e1
    e2 = e2
    none = none
    Events <- MCEvents
    None = None
    MaxDeliveries = 3
INVARIANTS
    TypeOK
    SteersMeetTheirRun
    LatestSurvives
PROPERTY PendingEventuallyAudited
CHECK_DEADLOCK FALSE
