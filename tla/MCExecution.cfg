CONSTANTS
    FailureCap = 2
    SuccessCap = 2
    AgeCap = 1
    Caller = {c1, c2, c3, c4}
    QueueSize = 2
    Policy <- MCPolicy
SPECIFICATION Spec
CHECK_DEADLOCK FALSE
INVARIANTS
    TypeOK
    ReportedOnce
    HealthFollowsReports
    ShutdownDrains
PROPERTIES
    EveryCallEnds
