SPECIFICATION Spec
CONSTANTS
    w1 = w1
    w2 = w2
    w3 = w3
    i1 = i1
    i2 = i2
    Creators = {w1}
    Loaders = {w2}
    Instances = {i1, i2}
    MayFail = FALSE
    MaxUpdates = 2
INVARIANT LooksUp
CHECK_DEADLOCK FALSE
