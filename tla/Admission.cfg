SPECIFICATION Spec
CONSTANTS
    Realms = {0}
    MaxTrackedRealms = 1
    WatermarkPercent = 50
    Sessions = {s1}
    Streams = {0}
    Handles = {0, 1}
    MaxRequests = 2
    Timeout = 1
    Bindings = {"quic"}
    DestIds = {1, 2}
    Conns = {0, 1}
    ConnOf <- MCSpread
    AuthRequired = TRUE
    AuthRouted = TRUE
    LifecycleRouted = TRUE
    MaxExchanges = 1
    MaxFrames = 0
    MaxQueue = 1
INVARIANTS
    NoForgottenRequest
    EntriesNameLiveSessions
    PresenceMatchesAdmission
PROPERTIES
    OfflineNamesTheIdentity
