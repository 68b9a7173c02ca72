SPECIFICATION Spec
CONSTANTS
    k1 = k1
    k2 = k2
    t1 = t1
    t2 = t2
    Keys = {k1, k2}
    Delays = {0}
    BatchSize = 2
    Limit = 2
    DeadlockRetries = 1
    StartupDelay = 0
    Timers = {t1, t2}
    MaxWrites = 2
    MaxTime = 0
SYMMETRY MCSymmetry
INVARIANTS
    PipelineOrder
    NewestIsKept
    EntityIsKept
    FlushesDrain
    BatchIsWatched
    SlotsBalanced
PROPERTY ImplementsStore
CHECK_DEADLOCK FALSE
