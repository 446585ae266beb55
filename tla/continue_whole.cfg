SPECIFICATION RunnerSpec
CONSTANTS
    UrlCounts = {1}
    MaxSize = 2
    MaxUnits = 2
    MaxJobs = 2
    Plans <- ContinueFile
    Servers = {"whole"}
    OldFiles = {FALSE}
    Changes = {}
INVARIANTS
    ContinuedIsExact
