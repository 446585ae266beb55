SPECIFICATION RunnerSpec
CONSTANTS
    UrlCounts = {1, 2}
    MaxSize = 2
    MaxUnits = 4
    MaxJobs = 2
    Plans <- OldSingle
    Servers = {"ranges"}
    OldFiles = {TRUE, FALSE}
    Changes = {}
\* One at a time.
PROPERTY OldFilesAreKept
\* INVARIANT TimestampsAreIgnored
