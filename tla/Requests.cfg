SPECIFICATION Spec
CONSTANTS
    Realms = {0}
    MaxTrackedRealms = 1
    WatermarkPercent = 50
    Sessions = {s1}
    Streams = {0}
    Handles = {h1, h2}
    MaxRequests = 2
    Timeout = 1
    Bindings = {"quic", "wss"}
    DestIds = {}
    Conns = {0}
    ConnOf <- MCShared
    AuthRequired = FALSE
    AuthRouted = FALSE
    LifecycleRouted = FALSE
    MaxExchanges = 2
    MaxFrames = 1
    MaxQueue = 1
SYMMETRY MCSymmetry
INVARIANTS
    InflightQuotaExact
    ExpiryNeverLate
    OneResponder
    RequestsEndOnce
    AnsweredOnce
    NoForgottenRequest
