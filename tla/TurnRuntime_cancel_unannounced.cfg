SPECIFICATION Spec
CONSTANTS
    Rooms = {r1}
    Turns = {t1, t2}
    Requests = {q1}
    NumAgents = 1
    MaxTokens = 1
    Deletable = {}
    None = None
INVARIANTS
    EndIsAnnounced
CHECK_DEADLOCK FALSE
