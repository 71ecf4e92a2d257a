CONSTANTS
    Thread = {t1, t2, t3, t4, t5}
    GlobalLimit = 1
    QueueLimit = 1
    MaxTransitions = 2
    MaxRevision = 8
    Owner = {o1, o2}
    Ttls = {1, 2}
    MaxTime = 3
    MaxEpoch = 4
SYMMETRY MCSymmetry
SPECIFICATION Spec
INVARIANTS
    TypeOK
    CountersMatchHolders
    OvershootIsBounded
    HistoryIsLinked
    LifecycleMatchesCounters
    OneHolder
