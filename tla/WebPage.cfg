SPECIFICATION Spec
CONSTANTS
    Users = {"alice"}
    Groups = {1, 2}
    Joined <- MCJoined
    Modes = {"wss", "raw-quic"}
    MaxSessions = 2
    MaxCalls = 2
    MaxEvents = 2
    MaxClicks = 3
CHECK_DEADLOCK FALSE
INVARIANTS
    WssDataIsCurrent
    CloseIsShown
    EventsInOrder
PROPERTIES
    SettlesIdle
