SPECIFICATION Spec
CONSTANTS
    Realms = {0, 1}
    MaxTrackedRealms = 1
    WatermarkPercent = 70
    MaxConnections = 3
    DestIds = {1}
    Cnx = {1}
    GenMod = 2
    MaxReuse = 2
    MaxIncarnation = 1
    GroupIds = {1}
    MaxGroupsPerConnection = 1
INVARIANTS
    FreeListExact
    FanOutExact
    CallbackIndexExact
    QuotaExact
    GroupChainsExact
CHECK_DEADLOCK FALSE
