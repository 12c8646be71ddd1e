CONSTANTS
    adm = adm
    admTeam = admTeam
    kim = kim
    lee = lee
    Names = {adm, admTeam, kim}
    Admins = {adm}
    Norm <- MCNorm
    RollbackName = rollbackName
    NoOne = noOne
    NoRow = noRow
    Keep = keep
    NoJob = noJob
    Loop = loop
    Form = form
    Script = script
    Writers = {loop, form, script}
    Typed = {"", "date", "X"}
    Excels = {"", "X"}
    Owners = {o1}
    MaxSaves = 3
SPECIFICATION Spec
INVARIANTS AuditCurrent ReasonIsLastGiven InputterOrdinary
PROPERTIES AdminOnlyDone InputterKept
CHECK_DEADLOCK FALSE
