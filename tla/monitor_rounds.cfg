SPECIFICATION FairSpec
CONSTANTS
    a = a
    b = b
    c = c
    Sockets = {a, b, c}
    SampleFails = TRUE
    ListenFails = TRUE
    MayStop = TRUE
INVARIANTS
    ServedAreInFront
    ListIsOpenSockets
PROPERTIES
    RoundServesAll
    ServedOncePerRound
    SampleReachesAll
    OpenIsServed
    StopEndsWorker
CHECK_DEADLOCK FALSE
