CONSTANTS
    Threads = {t1, t2}
    N = 3
    Pages <- PagesOf
    Chunk = 2
    MayFail = TRUE
    MaxChanges = 1
    MaxEmptied = 2
SPECIFICATION Spec
SYMMETRY ThreadSymmetry
INVARIANTS HeldWasSeen BlankIsOwn
CHECK_DEADLOCK FALSE
