CONSTANTS
    Threads = {t1, t2}
    Bg = bg
    Free = free
    NoValue = none
    MaxIssues = 2
    MaxPokes = 1
    CollectMayRaise = TRUE
    StartMayFail = TRUE
SPECIFICATION Spec
SYMMETRY ThreadSymmetry
INVARIANT SingleFlight
PROPERTY ServesForward
CHECK_DEADLOCK FALSE
