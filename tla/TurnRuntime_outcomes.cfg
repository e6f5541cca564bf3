SPECIFICATION FairSpec
CONSTANTS
    Rooms = {r1}
    Turns = {t1}
    Requests = {q1}
    NumAgents = 2
    MaxTokens = 2
    Deletable = {r1}
    None = None
INVARIANTS
    ResponsesMatchLog
    DoneMeansAllAgents
    AtMostOneLateEvent
PROPERTIES
    RoomBecomesIdle
    CancelFreesRoom
CHECK_DEADLOCK FALSE
