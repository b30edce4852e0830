SPECIFICATION FairSpec
CONSTANTS
    s = s
    t = t
    n = n
    f = f
    e = e
    client = client
    main = main
    Observables = {s}
    Clients = {main}
    Kind <- SingleKind
    Mode <- SingleMode
    Interval <- SingleInterval
    Caller <- SingleCaller
    Empty = {}
    MayThrow = {}
    Resolver <- SingleResolver
    MayStop = FALSE
PROPERTIES
    AttachedFires
