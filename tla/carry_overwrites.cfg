SPECIFICATION Spec
CONSTANTS
    MaxDim = 3
    LogicalIds = {7, 8}
    IdChoices <- MCIdChoices
    FirstExtents = {1}
    HeadWrites = TRUE
    MaxSteps = 2
    MaxWrites = 1
    MaxResizes = 1
    Nowhere = Nowhere
CHECK_DEADLOCK FALSE
INVARIANT WritesWin
