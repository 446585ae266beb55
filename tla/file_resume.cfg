SPECIFICATION FairFileSpec
CONSTANTS
    Connections = 2
    NumChunks = 3
    MaxTries = 1
    StreamMode = FALSE
    BufferChunks = 1
    ResumeSets <- AnyIncomplete
    RestoreAfter = 4
    HedgeMinDone = 4
    HedgeMinLater = 2
    PressureReported = FALSE
    NetworkFails = TRUE
    DiskFails = TRUE
    MaxRuns = 3
INVARIANTS
    SidecarIsTruthful
    CompletedIsRecorded
    SuccessMeansInFile
    SyncedBeforeRemoval
PROPERTIES
    ImplementsResumable
