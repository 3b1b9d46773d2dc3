SPECIFICATION Spec
CONSTANTS
    Paths = {p1}
    Types = {t1}
    NoType = NoType
    Readers = {r1}
    Policies = {"Discard"}
    Reserves = {0}
    Retentions <- NoBounds
    PendingLimit = 0
    HaveBake = TRUE
    Faults = {}
    Word = 1000
    MaxPolls = 1
    MaxSteps = 3
    MaxEntries = 2
    MaxIndex = 6
INVARIANTS
    ReaderCanOpen
