SPECIFICATION FairServerSpec
CONSTANTS
    Clients = {k1, k2}
    UrlClients = {k2}
    Chans = {c1, c2}
    BufferSize = 1
    MaxEvents = 3
    None = None
INVARIANTS
    ListedIffOpen
    PendingInOrder
    LosslessUntilFull
    NoDuplicates
    GapFreeUnlessDropped
    NothingForgotten
    WiringNeverPanics
PROPERTIES
    EventuallyRead
    GoneIsUnsubscribed
    ShutdownEnds
    ExitCutsNobody
CHECK_DEADLOCK FALSE
