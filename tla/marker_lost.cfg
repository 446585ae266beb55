SPECIFICATION RunnerSpec
CONSTANTS
    UrlCounts = {1}
    MaxSize = 3
    MaxUnits = 3
    MaxJobs = 3
    Plans <- ContinueFile
    Servers = {"ranges"}
    OldFiles = {FALSE}
    Changes = {"longer"}
INVARIANTS
    OnlyPrefixesAreContinued
