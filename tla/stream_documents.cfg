SPECIFICATION StreamSpec
CONSTANTS
    Connections = 2
    NumChunks = 3
    ChunkTotal = 3
    MaxTries = 2
    StreamMode = TRUE
    BufferChunks = 2
    SplitSize = 2
    LastLength = 1
    BufferSize = 4
    ResumeSets <- NothingDone
    RestoreAfter = 4
    HedgeMinDone = 4
    HedgeMinLater = 2
    PressureReported = FALSE
    NetworkFails = FALSE
    OutputFails = FALSE
\* One at a time.
INVARIANT PayloadBounded
\* INVARIANT HealthyJobSucceeds
