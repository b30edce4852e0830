SPECIFICATION Spec
CONSTANTS
    s = s
    t = t
    n = n
    f = f
    e = e
    client = client
    main = main
    Observables = {s, f, e}
    Clients = {main, client}
    Kind <- FutureKind
    Mode <- FutureMode
    Interval <- FutureInterval
    Caller <- FutureCaller
    Empty = {e}
    MayThrow = {f}
    Resolver <- FutureResolver
    MayStop = TRUE
INVARIANTS
    SlotCallbacksSerial
    TerminateOnlyByFuture
PROPERTIES
    SelfWaitIsForever
