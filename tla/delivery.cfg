SPECIFICATION FairSpec
CONSTANTS
    Readers = {r1}
    Paths = {p1, p2}
    StartSteps = {0, 1}
    Faults = {"loss", "failed_replay"}
    MaxSteps = 2
    MaxFails = 1
INVARIANTS DataFirst EveryStepTold
PROPERTIES WriterReturns ImplementsChannel
