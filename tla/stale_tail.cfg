SPECIFICATION RunnerSpec
CONSTANTS
    UrlCounts = {1}
    MaxSize = 2
    MaxUnits = 2
    MaxJobs = 1
    Plans <- PlainFile
    Servers = {"ranges"}
    OldFiles = {TRUE}
    Changes = {}
INVARIANTS
    LengthIsSet
