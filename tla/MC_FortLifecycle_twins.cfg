SPECIFICATION LifeSpec
CONSTANTS
    f1 = f1
    f2 = f2
    c1 = c1
    c2 = c2
    w1 = w1
    w2 = w2
    Forts = {f1}
    Cells = {c1}
    Workers = {w1}
    StaleThreshold = 1
    MinMissCount = 1
    Tolerance = 0
    MaxTime = 3
    MayFail = FALSE
    MaxConversions = 2
    MaxMoves = 0
    MaxRestarts = 0
INVARIANT NoTwins
CHECK_DEADLOCK FALSE
