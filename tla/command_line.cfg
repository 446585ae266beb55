SPECIFICATION CommandSpec
CONSTANTS
    Words <- SomeWords
    MaxWords = 4
    FileUrls <- ListedUrls
    Headers <- SomeHeaders
INVARIANTS
    ParsedAsMeant
    ChildRunsParentsPlan
    DetachesOnce
