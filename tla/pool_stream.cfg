SPECIFICATION FairSpec
CONSTANTS
    Connections = 2
    NumChunks = 2
    MaxTries = 2
    StreamMode = TRUE
    BufferChunks = 2
    ResumeSets <- NothingDone
    RestoreAfter = 1
    HedgeMinDone = 1
    HedgeMinLater = 1
    PressureReported = TRUE
INVARIANTS
    ActiveCountMatches
    CompletedCountMatches
    ActiveChunksAreOwned
PROPERTIES
    CompletedIsFinal
    Terminates
