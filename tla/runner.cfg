SPECIFICATION RunnerSpec
CONSTANTS
    UrlCounts = {1, 2}
    MaxSize = 3
    MaxUnits = 4
    MaxJobs = 3
    Plans <- EveryPlan
    Servers = {"ranges", "novalidator", "whole", "unsized"}
    OldFiles = {TRUE, FALSE}
    Changes = {"longer"}
INVARIANTS
    StdoutIsConcatenation
    UniformConcatenationIsExact
    ExitTellsAll
    SidecarsAreTruthful
PROPERTIES
    JobIsExact
    MarkedUntilWhole
