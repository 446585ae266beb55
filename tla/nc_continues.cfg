SPECIFICATION CommandSpec
CONSTANTS
    Words <- NcWords
    MaxWords = 4
    FileUrls <- ListedUrls
    Headers <- SomeHeaders
INVARIANT
    NoClobberIsNotContinue
