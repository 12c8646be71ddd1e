CONSTANTS
    Senders = {weekly}
    ReportDomains <- DR
    Total = 1
    Moving = {"dr"}
    DoneInComposition = FALSE
    PostMayFail = TRUE
    MayStop = FALSE
    NoReport = noReport
    MaxReports = 1
SPECIFICATION SendSpec
INVARIANT RecordedIsSent
\* Refuted too:
\* INVARIANT ShownIsSent
CHECK_DEADLOCK FALSE
