SPECIFICATION CommandSpec
CONSTANTS
    Words <- FewWords
    MaxWords = 5
    FileUrls <- ListedUrls
    Headers <- SomeHeaders
\* One at a time.
INVARIANT ChildAlwaysAgrees
\* INVARIANT ParentSuccessIsMeant
