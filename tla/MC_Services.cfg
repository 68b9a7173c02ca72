SPECIFICATION FairPartSpec
CONSTANTS
    Parts = {"locks", "webhooks", "forts"}
    Workers = {"w1", "w2"}
    Ids = {1, 2}
    Messages = {"m1", "m2"}
    Receivers = {"r1", "r2"}
    Ticks = {"t1", "t2", "t3"}
    Final = "final"
    Places = {"a", "b"}
    MaxEntries = 2
INVARIANTS
    NoWaitCycle
    Conserved
    FortIsFound
PROPERTIES
    AllPosted
CHECK_DEADLOCK FALSE
