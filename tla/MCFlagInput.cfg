CONSTANTS
    boss = boss
    bossTeam = bossTeam
    kim = kim
    lee = lee
    Names <- MCNames
    Admins <- MCAdmins
    Norm <- MCNorm
    NoOne = noone
    NoRow = norow
    Keep = keep
    Owners = {owner}
    Tables = {"capacity", "eos", "kernel"}
    Sheets <- MCSheets
    FromBefore = TRUE
    MaxSaves = 4
SPECIFICATION Spec
SYMMETRY People
INVARIANTS WebVerdictWins ReasonOfVerdict InputterOrdinary LogTellsRow
PROPERTIES DenominatorGuarded RestartKeepsInputter
CHECK_DEADLOCK FALSE
