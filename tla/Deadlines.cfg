SPECIFICATION FairSpec
CONSTANTS
    Realms = {0}
    MaxTrackedRealms = 1
    WatermarkPercent = 50
    Sessions = {s1}
    Streams = {0}
    Handles = {h1}
    MaxRequests = 1
    Timeout = 1
    Bindings = {"quic"}
    DestIds = {}
    Conns = {0}
    ConnOf <- MCShared
    AuthRequired = FALSE
    AuthRouted = TRUE
    LifecycleRouted = FALSE
    MaxExchanges = 2
    MaxFrames = 1
    MaxQueue = 1
PROPERTIES
    RequiredAnswered
    EntriesLeave
