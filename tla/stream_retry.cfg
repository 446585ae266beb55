SPECIFICATION StreamSpec
CONSTANTS
    Connections = 2
    NumChunks = 3
    MaxTries = 2
    StreamMode = TRUE
    BufferChunks = 2
    ResumeSets <- NothingDone
    RestoreAfter = 4
    HedgeMinDone = 4
    HedgeMinLater = 2
    PressureReported = FALSE
    ChunkTotal = 3
    SplitSize = 2
    LastLength = 1
    BufferSize = 5
    NetworkFails = TRUE
    OutputFails = TRUE
INVARIANTS
    OutputInOrder
    CompletedIsDelivered
    SuccessMeansWritten
    MemoryIsReserved
