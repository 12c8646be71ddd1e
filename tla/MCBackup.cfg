CONSTANTS
    Rowids = {r1, r2}
    Keys = {k1, k2}
    Vals = {v}
    NoRow = norow
    NoDb = nodb
    NoFile = nofile
    Week = 3
    FullDays = {0}
    Keep = 2
    SameMinute = FALSE
    MaxNow = 5
    MaxWrites = 1
SPECIFICATION Spec
SYMMETRY DataSymmetry
INVARIANTS KeptRestores RetentionHolds LatestRestores
CHECK_DEADLOCK FALSE
