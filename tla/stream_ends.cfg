SPECIFICATION FairStreamSpec
CONSTANTS
    Connections = 2
    NumChunks = 2
    MaxTries = 2
    StreamMode = TRUE
    BufferChunks = 2
    ResumeSets <- NothingDone
    RestoreAfter = 4
    HedgeMinDone = 1
    HedgeMinLater = 1
    PressureReported = FALSE
    ChunkTotal = 2
    SplitSize = 2
    LastLength = 1
    BufferSize = 5
    NetworkFails = TRUE
    OutputFails = TRUE
PROPERTIES
    ImplementsPool
    ImplementsPromise
