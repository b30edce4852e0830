SPECIFICATION Spec
CONSTANTS
    Cores = {0, 1, 2}
    MayReset = TRUE
    Loads = {{1}}
    MaxChanges = 2
    MaxInits = 2
    MaxTime = 2
INVARIANTS
    NoTickTwice
PROPERTIES
    EveryCoreIsFound
    SkipOnlyAfterFall
CHECK_DEADLOCK FALSE
