SPECIFICATION Spec
CONSTANTS
    Readers = {r1, r2}
    OldReader = old
    Paths = {p1, p2}
    Spans <- MCSpans
    Writes <- MCWrites
    SelectionCb = TRUE
    MaxSteps = 1
    MaxWrites = 2
    MaxLive = 1
    MaxControl = 3
INVARIANTS AnnouncedKnown StepIsWhole
SYMMETRY Symmetric
