SPECIFICATION RunnerSpec
CONSTANTS
    UrlCounts = {2}
    MaxSize = 2
    MaxUnits = 4
    MaxJobs = 2
    Plans <- PlainFiles
    Servers = {"ranges", "whole"}
    OldFiles = {FALSE}
    Changes = {}
\* One at a time.
INVARIANT ConcatenationIsExact
\* INVARIANT FilesAreExact
