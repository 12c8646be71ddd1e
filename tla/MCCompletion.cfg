CONSTANTS
    Domains = {"dr", "capacity", "eos", "kernel"}
    HalfLen = 2
    Targets <- MCTargets
    None = none
    Texts <- MCTexts
    MaxDay = 5
    MaxTickets = 2
    MaxEvents = 2
SPECIFICATION Spec
INVARIANTS PendingIsAskedOrDated AnsweredByWork
PROPERTIES TimeUndoesNothing NewTicketUndoesNothing OutageNeverCompletes ExclusionIsNotRetroactive ModeSettles
CHECK_DEADLOCK FALSE
