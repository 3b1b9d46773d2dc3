SPECIFICATION FairSpec
CONSTANTS
    N = 3
    p1 = p1
    p2 = p2
    Paths = {p1, p2}
    Programs <- MCPrograms
    Tracked = {0}
    SetOn <- MCSetOn
    Policies = {"discard", "spill"}
    reserve_slots = 0
    GroupSizes = {1, 2}
    None = None
    MaxSteps = 2
    MaxPolls = 2
CHECK_DEADLOCK FALSE
INVARIANTS Aligned WritesLand OrderKept
PROPERTY EndStepReturns
