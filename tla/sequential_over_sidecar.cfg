SPECIFICATION RunnerSpec
CONSTANTS
    UrlCounts = {1}
    MaxSize = 3
    MaxUnits = 3
    MaxJobs = 3
    Plans <- PlainFile
    Servers = {"ranges", "whole"}
    OldFiles = {FALSE}
    Changes = {"kind"}
INVARIANTS
    SidecarsAreTruthful
