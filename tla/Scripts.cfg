SPECIFICATION Spec
CONSTANTS
    MaxExchanges = 5
    MaxPushes = 1
    Waiters = {w1}
    Answers <- MCAnswers
    Events <- MCEvents
    MaxFrames = 6
    ReactorCycles = 1
    GatewayCycles = 1
    Tokens = {t1, t2}
    AnyExchanges = 1
    AnyFrames = 3
CHECK_DEADLOCK FALSE
INVARIANTS
    Reassembled
    NoPushMissed
    HonestVerdict
PROPERTIES
    EveryWaitEnds
