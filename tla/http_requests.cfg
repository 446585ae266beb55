SPECIFICATION FairHttpSpec
CONSTANTS
    Conns <- AllConns
    Backends = {"go", "openssl"}
    Ranges <- OneRange
    Servers <- AllKinds
    LimitSets = {{}, {"timeout", "connect"}}
    MaxVersion = 2
    MaxRedirects = 2
    BodyReads = 2
INVARIANTS
    ReadersAreSafe
    RangesAreExact
    OneVersion
PROPERTIES
    RequestsAreBounded
