CONSTANTS
    Senders = {weekly, manual}
    ReportDomains <- EoS
    Total = 1
    Moving = {"eos_db"}
    DoneInComposition = TRUE
    PostMayFail = TRUE
    MayStop = TRUE
    NoReport = noReport
    MaxReports = 3
SPECIFICATION FairSendSpec
INVARIANTS DropsAreWarned 
PROPERTIES PostedIsRecorded
CHECK_DEADLOCK FALSE
