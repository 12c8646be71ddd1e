CONSTANTS
    N = 2
    MaxOwners = 2
    Domains = {"dr", "capacity", "eos"}
    Registers <- MCRegisters
    NoTeam = ""
    NoOne = "nobody"
    Editors = {"kim", "boss"}
    Admins = {"boss"}
    Requesters <- MCRequesters
    MaxEvents = 2
SPECIFICATION Spec
INVARIANTS GreetsRecipient InputterIsTold PendingIsAskedOnce SentIsOfKind
CHECK_DEADLOCK FALSE
