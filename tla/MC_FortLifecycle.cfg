SPECIFICATION LifeSpec
CONSTANTS
    f1 = f1
    f2 = f2
    c1 = c1
    c2 = c2
    w1 = w1
    w2 = w2
    Forts = {f1}
    Cells = {c1, c2}
    Workers = {w1, w2}
    StaleThreshold = 1
    MinMissCount = 1
    Tolerance = 0
    MaxTime = 4
    MayFail = TRUE
    MaxConversions = 1
    MaxMoves = 1
    MaxRestarts = 1
INVARIANTS
    CondemnedIsHandled
    TrackerAgrees
PROPERTY UsesTracker
SYMMETRY MCSymmetry
CHECK_DEADLOCK FALSE
