SPECIFICATION Spec
CONSTANTS
    Main = main
    Others = {other}
    Stoppers = {stopper}
    cpuSlot = cpuSlot
    memorySlot = memorySlot
    MainSlots <- MainSlotsDef
INVARIANTS
    CallersShareTimer
    DeathsAreKnown
    StopIsPrompt
PROPERTIES
    MainReturns
CHECK_DEADLOCK FALSE
