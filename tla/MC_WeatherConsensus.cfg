SPECIFICATION Spec
CONSTANTS
    a1 = a1
    a2 = a2
    a3 = a3
    c1 = c1
    c2 = c2
    c3 = c3
    Accounts = {a1, a2, a3}
    Conditions = {c1, c2, c3}
    Hour = 3
    Second = 3
    Lag = 4
    MayFail = TRUE
    MaxTime = 7
INVARIANTS
    TypeOK
    RecordIsPublished
    CountsAreVotes
    MajorityIsPublished
PROPERTIES
    NeverOlder
    NoChangeOnTie
SYMMETRY MCSymmetry
CHECK_DEADLOCK FALSE
