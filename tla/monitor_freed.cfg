SPECIFICATION Spec
CONSTANTS
    a = a
    b = b
    c = c
    Sockets = {a, b}
    SampleFails = FALSE
    ListenFails = FALSE
    MayStop = FALSE
INVARIANTS
    ObserverIsAttached
