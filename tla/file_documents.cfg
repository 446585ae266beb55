SPECIFICATION FileSpec
CONSTANTS
    Connections = 2
    NumChunks = 3
    MaxTries = 1
    StreamMode = FALSE
    BufferChunks = 1
    ResumeSets <- AnyIncomplete
    RestoreAfter = 4
    HedgeMinDone = 4
    HedgeMinLater = 2
    PressureReported = FALSE
    NetworkFails = FALSE
    DiskFails = FALSE
    MaxRuns = 2
\* One at a time.
INVARIANT MarkedIsDurable
\* INVARIANT SuccessIsDurable
