SPECIFICATION Spec
CONSTANTS
    Paths = {p1}
    Types = {t1}
    NoType = NoType
    Readers = {r1, r2}
    Policies = {"Block", "Discard", "Spill"}
    Reserves = {1}
    Retentions <- KeepFew
    PendingLimit = 0
    HaveBake = FALSE
    Faults = {"storage"}
    Word = 1000
    MaxPolls = 2
    MaxSteps = 3
    MaxEntries = 2
    MaxIndex = 6
SYMMETRY Symmetric
INVARIANTS
    BlockHonoured
    RetentionAccounts
    IndexTellsTruth
PROPERTIES
    DropsOnlyLaggards
    RetentionBound
    PlaceholdersResolve
