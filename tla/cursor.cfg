SPECIFICATION Spec
CONSTANTS
    MaxDim = 3
    FirstExtents = {1}
    LogicalIds = {7, 8}
    IdChoices <- MCIdChoices
    HeadWrites = FALSE
    MaxSteps = 3
    MaxWrites = 1
    MaxResizes = 1
    Nowhere = Nowhere
CHECK_DEADLOCK FALSE
INVARIANT WritesWin
PROPERTY ReadsAsLog
