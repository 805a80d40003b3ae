SPECIFICATION Spec
CONSTANTS
    Realms = {0, 1}
    MaxTrackedRealms = 1
    WatermarkPercent = 70
    MaxConnections = 2
    DestIds = {1}
    Cnx = {1}
    GenMod = 2
    MaxReuse = 2
    MaxIncarnation = 2
    GroupIds = {1, 2}
    MaxGroupsPerConnection = 1
INVARIANTS
    TypeOK
    StaleTokenMisses
    EdgePoolExact
PROPERTY ImplementsDirectory
CHECK_DEADLOCK FALSE
