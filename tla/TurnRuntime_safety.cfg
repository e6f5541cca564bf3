SPECIFICATION Spec
CONSTANTS
    Rooms = {r1}
    Turns = {t1, t2}
    Requests = {q1, q2}
    NumAgents = 1
    MaxTokens = 1
    Deletable = {}
    None = None
SYMMETRY Symmetry
INVARIANTS
    TypeOK
    SingleFlight
    HandleIsRunningTurn
    LogSegmented
    DoneMeansCompleted
    CancelledOnlyOnRequest
    CancelNeverReachesBack
PROPERTIES
    TurnLifecycle
    ImplementsRoomLog
CHECK_DEADLOCK FALSE
