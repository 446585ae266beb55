SPECIFICATION ResumeSpec
CONSTANTS
    MaxSize = 5
    MaxRuns = 3
    MaxVersion = 2
    Splits = {1, 2, 3}
    SplitChanges = FALSE
    ByteBits = 2
INVARIANTS
    BitmapIsExact
    FinishedIsWritten
    PlanTiles
