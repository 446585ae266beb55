SPECIFICATION FairHttpSpec
CONSTANTS
    Conns <- AllConns
    Backends = {"go"}
    Ranges <- OneRange
    Servers <- OnlyCareless
    LimitSets = {{}}
    MaxVersion = 2
    MaxRedirects = 2
    BodyReads = 2
INVARIANTS
    ValidatorIsCompatible
