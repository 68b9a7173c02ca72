SPECIFICATION LiveSpec
CONSTANTS
    k1 = k1
    k2 = k2
    t1 = t1
    t2 = t2
    Keys = {k1, k2}
    Delays = {0, 1, 2}
    BatchSize = 2
    Limit = 1
    DeadlockRetries = 0
    StartupDelay = 1
    Timers = {t1}
    MaxWrites = 2
    MaxTime = 3
PROPERTIES
    SaveIsPrompt
    SavesSettle
