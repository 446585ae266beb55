SPECIFICATION ProgressSpec
CONSTANTS
    Kinds <- TwoUrls
    Displays <- AllDisplays
    Outcomes <- AllOutcomes
    Total = 2
    MaxTwice = 1
\* One at a time.
INVARIANT SuccessIsComplete
\* INVARIANT OneReporter
\* INVARIANT NoVerboseIsNotLive
\* INVARIANT FailureIsNotComplete
\* PROPERTY SummaryIsFinal
