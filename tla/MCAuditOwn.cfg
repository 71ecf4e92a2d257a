CONSTANTS
    r1 = r1
    r2 = r2
    r3 = r3
    Request = {r1, r2, r3}
    Mixes <- MCRoutes
    BatchSize = 2
    Capacity = 2
    Rate = 4
    Unit = 3
    MaxTime = 0
    MaxCrashes = 0
SPECIFICATION Spec
CHECK_DEADLOCK FALSE
INVARIANT
    OwnDecisionCommitted
