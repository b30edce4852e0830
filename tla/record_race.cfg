SPECIFICATION Spec
CONSTANTS
    stepSize = 4
    MaxRecords = 10
INVARIANTS
    WindowIsLast
    ReadIsOrdered
    ReadIsRecent
    RecordInvariant
CHECK_DEADLOCK FALSE
