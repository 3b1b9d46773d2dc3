SPECIFICATION FairSpec
CONSTANTS
    Readers = {r1}
    Faults = {"crash"}
    MaxSteps = 3
    MaxRuns = 2
    MaxProbes = 2
CHECK_DEADLOCK FALSE
INVARIANTS EosMeansOver NoGap SchemaFresh
PROPERTIES EosFinal EosReached CrashNoticed
