SPECIFICATION FairSpec
CONSTANTS
    MaxRetries = 3
    MaxTokens = 3
INVARIANTS
    DoneMeansWhole
    AnswerHasTarget
    LeftBehindOnlyByCancel
    LabelTellsCause
    CancelIsNoFailure
    PartialHasTokens
PROPERTIES
    KeepsContract
    ReaderReturns
    ClosedUnlessCancelled
CHECK_DEADLOCK FALSE
