SPECIFICATION Spec
CONSTANTS
    Rows = 3
    Cols = 3
    MemCols = 4
    MaxPushRuns = 3
    MaxPredRuns = 2
    NarrowMax = 6
    BaseSize = 2
    Writes <- MCWrites
    Mems <- MCMems
    Buffers <- MCBuffers
    Types <- MCTypes
    Subs <- MCSubs
    SubCols = {2, 3}
    Preds <- MCPreds
    Chunks <- MCChunks
    Faults = TRUE
INVARIANTS FileAsWritten PushTruthful FlagsHonest EveryMatchOnce
