SPECIFICATION SampleSpec
CONSTANTS
    eth0 = eth0
    Devices = {eth0}
    ethDev = eth0
    Alike = {eth0}
    Second = 2
    Modulus = 1024
    Peak = 1
    Flows <- FlowsDef
    Slow = 1
    Busy = {eth0}
    Removable = {}
    Starts = {1022}
    MaxTime = 9
    Interval = 2
    Haste = 1
    Memories <- MemoriesDef
    Keep = 2
INVARIANTS
    BitsAreBytes
