SPECIFICATION Spec
CONSTANTS
    Realms = {0}
    MaxTrackedRealms = 1
    WatermarkPercent = 50
    Sessions = {s1}
    Streams = {0, 1}
    Handles = {h1}
    MaxRequests = 1
    Timeout = 1
    Bindings = {"quic"}
    DestIds = {1, 2}
    Conns = {0}
    ConnOf <- MCShared
    AuthRequired = FALSE
    AuthRouted = TRUE
    LifecycleRouted = FALSE
    MaxExchanges = 2
    MaxFrames = 0
    MaxQueue = 1
INVARIANT KickedStaysOut
