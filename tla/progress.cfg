SPECIFICATION ProgressSpec
CONSTANTS
    Kinds <- TwoUrls
    Displays <- SomeDisplays
    Outcomes <- AllOutcomes
    Total = 4
    MaxTwice = 2
INVARIANTS
    CompleteIsTrue
PROPERTIES
    ReportersEnd
