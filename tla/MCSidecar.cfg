CONSTANTS
    r1 = r1
    r2 = r2
    r3 = r3
    Request = {r1, r2, r3}
    Mixes <- MCMixes
    BatchSize = 2
    Capacity = 2
    Rate = 4
    Unit = 3
    MaxTime = 1
    MaxCrashes = 1
SPECIFICATION Spec
CHECK_DEADLOCK FALSE
INVARIANTS
    TypeOK
    AnswersAreDurable
    RateIsBounded
    CountedOnce
