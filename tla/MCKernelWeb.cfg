CONSTANTS
    Requests = {r1, r2}
    Worker = worker
    Free = free
    Keys = {k1, k2}
    Empty = empty
    StartMayFail = TRUE
    MaxGrid = 1
    MaxRestarts = 1
SPECIFICATION FairSpec
INVARIANT OneChromium
PROPERTIES ServesForward ExpiredIsReplaced
