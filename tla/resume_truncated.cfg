SPECIFICATION RunnerSpec
CONSTANTS
    UrlCounts = {1}
    MaxSize = 2
    MaxUnits = 2
    MaxJobs = 2
    Plans <- PlainSingle
    Servers = {"ranges"}
    OldFiles = {FALSE}
    Changes = {}
INVARIANTS
    ResumeIsComplete
