SPECIFICATION Spec
CONSTANTS
    Connections = 1
    NumChunks = 1
    MaxTries = 36
    StreamMode = FALSE
    BufferChunks = 1
    ResumeSets <- NothingDone
    RestoreAfter = 4
    HedgeMinDone = 4
    HedgeMinLater = 2
    PressureReported = FALSE
INVARIANTS
    RetriesWait
