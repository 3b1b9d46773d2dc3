SPECIFICATION FairSpec
CONSTANTS
    Paths = {p1}
    Types = {t1}
    NoType = NoType
    Readers = {r1}
    Policies = {"Spill"}
    Reserves = {0}
    Retentions <- NoBounds
    PendingLimit = 0
    HaveBake = TRUE
    Faults = {"double_create", "bake_start", "bake_write", "bake_read", "storage"}
    Word = 1000
    MaxPolls = 1
    MaxSteps = 3
    MaxEntries = 2
    MaxIndex = 6
INVARIANTS
    TypeOK
    StepChain
    NoStepLost
PROPERTIES
    CommittedStays
    EndStepReturns
