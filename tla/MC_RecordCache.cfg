SPECIFICATION FairSpec
CONSTANTS
    w1 = w1
    w2 = w2
    w3 = w3
    i1 = i1
    i2 = i2
    Creators = {w1, w2}
    Loaders = {w2, w3}
    Instances = {i1, i2}
    MayFail = TRUE
    MaxUpdates = 2
INVARIANTS
    SameMutex
    ReadsNewest
PROPERTIES IsAtomic CallsReturn
CHECK_DEADLOCK FALSE
