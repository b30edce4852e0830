SPECIFICATION Spec
CONSTANTS
    Pids = {1, 2, 3, 4}
    MaxFiles = 2
INVARIANTS
    LeaksAreSilentCalls
    AppRunsOnce
PROPERTIES
    NotFoundIsAbsent
    KillsFoundOnly
CHECK_DEADLOCK FALSE
