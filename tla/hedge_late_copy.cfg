SPECIFICATION StreamSpec
CONSTANTS
    Connections = 2
    NumChunks = 5
    ChunkTotal = 5
    MaxTries = 1
    StreamMode = TRUE
    BufferChunks = 4
    SplitSize = 2
    LastLength = 1
    BufferSize = 9
    ResumeSets <- NothingDone
    RestoreAfter = 4
    HedgeMinDone = 4
    HedgeMinLater = 2
    PressureReported = FALSE
    NetworkFails = FALSE
    OutputFails = FALSE
INVARIANTS
    LateCopyIsHarmless
