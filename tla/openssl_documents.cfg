SPECIFICATION FairHttpSpec
CONSTANTS
    Conns <- AllConns
    Backends = {"openssl"}
    Ranges <- OneRange
    Servers <- OnlyHonest
    LimitSets = {{}, {"connect"}}
    MaxVersion = 2
    MaxRedirects = 2
    BodyReads = 2
\* One at a time.
\* INVARIANT WritersAreSafe
PROPERTY InterruptEndsRequests
\* PROPERTY ConnectIsBounded
