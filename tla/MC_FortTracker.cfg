SPECIFICATION Spec
CONSTANTS
    f1 = f1
    f2 = f2
    c1 = c1
    c2 = c2
    Forts = {f1, f2}
    Cells = {c1, c2}
    StaleThreshold = 1
    MinMissCount = 2
    Tolerance = 1
    MaxTime = 3
INVARIANTS
    NoOrphans
    NothingForgotten
    NeverWedged
    NoOverstay
PROPERTY NoHaste
SYMMETRY MCSymmetry
