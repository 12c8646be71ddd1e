CONSTANTS
    Threads = {t1, t2}
    Bg = bg
    Free = free
    NoValue = none
    MaxIssues = 0
    MaxPokes = 1
    CollectMayRaise = TRUE
    StartMayFail = FALSE
SPECIFICATION VisitedSpec
PROPERTIES EveryRequestEnds StaleIsReplaced
