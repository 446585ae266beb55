SPECIFICATION FairSpec
CONSTANTS
    Connections = 2
    NumChunks = 3
    MaxTries = 2
    StreamMode = FALSE
    BufferChunks = 1
    ResumeSets <- FirstChunks
    RestoreAfter = 2
    HedgeMinDone = 1
    HedgeMinLater = 1
    PressureReported = FALSE
INVARIANTS
    PoolTypeOK
    OneGoroutinePerChunk
    RetryBudget
    SuccessMeansComplete
    FailureHasCause
PROPERTIES
    InterruptEnds
