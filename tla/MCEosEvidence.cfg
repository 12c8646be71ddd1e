CONSTANTS
    Items = {i1, i2}
    NoRow = noRow
    NoView = noView
    Unknown = unknown
    MaxDay = 1
    MaxEvents = 2
SPECIFICATION FairSpec
INVARIANTS ShownStaysShown FailureIsNotDisposal
PROPERTIES ClearedFades
