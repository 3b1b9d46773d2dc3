SPECIFICATION Spec
CONSTANTS
    Paths = {p1, p2}
    Types = {t1, t2}
    NoType = NoType
    Readers = {}
    Policies = {}
    Reserves = {0}
    Retentions <- NoBounds
    PendingLimit = 2
    HaveBake = TRUE
    Faults = {"double_create"}
    Word = 1000
    MaxPolls = 1
    MaxSteps = 2
    MaxEntries = 3
    MaxIndex = 6
SYMMETRY Symmetric
INVARIANTS
    DecodedAsWritten
    FailureContained
    ResolveLatest
