SPECIFICATION FairSpec
CONSTANTS
    s = s
    t = t
    n = n
    f = f
    e = e
    client = client
    main = main
    Observables = {s, t, n}
    Clients = {main}
    Kind <- CoreKind
    Mode <- CoreMode
    Interval <- CoreInterval
    Caller <- CoreCaller
    Empty = {}
    MayThrow = {s}
    Resolver <- CoreResolver
    MayStop = TRUE
INVARIANTS
    FiresOnce
    OverlapIsBounded
    CallbackOwnerAlive
    ScanVisitsAll
    TimerInvariant
PROPERTIES
    NotifiedOncePerScan
    SpacedByInterval
    ImplementsService
    DueIsLaunched
    StopEndsDispatcher
    SpentIsDestroyed
