SPECIFICATION ResumeSpec
CONSTANTS
    MaxSize = 5
    MaxRuns = 2
    MaxVersion = 2
    Splits = {0, 1, 2}
    SplitChanges = TRUE
    ByteBits = 2
\* One at a time.
INVARIANT ResumedIsWhole
\* INVARIANT OneVersion
\* INVARIANT PlanIsReturned
