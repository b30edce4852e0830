SPECIFICATION Spec
CONSTANTS
    eth0 = eth0
    veth0 = veth0
    Devices = {eth0, veth0}
    ethDev = eth0
    Alike = {eth0, veth0}
    Second = 2
    Modulus = 64
    Peak = 1
    Flows <- FlowsDef
    Slow = 1
    Busy = {eth0}
    Removable = {eth0}
    Starts = {62}
    MaxTime = 6
PROPERTIES
    RateIsBounded
    FigureIsRecent
CHECK_DEADLOCK FALSE
VIEW ButResult
