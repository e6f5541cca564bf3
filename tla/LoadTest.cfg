SPECIFICATION FairSpec
CONSTANTS
    Workers = {w1}
    MaxTurns = 2
    MaxTokens = 1
    MaxRetries = 2
    Capacity = 1
INVARIANTS
    SuccessIsServed
    ReadsEachEventOnce
    AllTurnsCounted
PROPERTIES
    EveryTurnEnds
    TestEnds
CHECK_DEADLOCK FALSE
