SPECIFICATION Spec
CONSTANTS
    Connections = 2
    NumChunks = 5
    MaxTries = 1
    StreamMode = TRUE
    BufferChunks = 1
    ResumeSets <- NothingDone
    RestoreAfter = 4
    HedgeMinDone = 4
    HedgeMinLater = 2
    PressureReported = FALSE
INVARIANTS
    MemoryLimitsTarget
