SPECIFICATION FairSpec
CONSTANTS
    a = a
    b = b
    c = c
    Workers <- MCWorkers
    Targets <- MCTargets
    Capacity = 3
    MaxSends = 4
    Realms = {0, 1}
    MaxTrackedRealms = 2
    WatermarkPercent = 50
CHECK_DEADLOCK FALSE
INVARIANTS
    FifoExact
    BacklogExact
    NoLostWakeup
PROPERTIES
    Delivered
