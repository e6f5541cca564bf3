SPECIFICATION Spec
CONSTANTS
    Rooms = {r1}
    Turns = {t1}
    Requests = {q1}
    NumAgents = 1
    MaxTokens = 1
    Deletable = {}
    None = None
INVARIANTS
    NoCompletionAfterCancel
CHECK_DEADLOCK FALSE
