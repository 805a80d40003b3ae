SPECIFICATION Spec
CONSTANTS
    MaxExchanges = 2
    MaxPushes = 2
    Answers <- MCAnswers
    Events <- MCEvents
    MaxRecords = 3
    MaxInbox = 1
CHECK_DEADLOCK FALSE
INVARIANTS
    CallsAccounted
    AnswersIntact
    PushesInOrder
PROPERTIES
    FirstReasonStays
    EveryCallEnds
