SPECIFICATION StreamSpec
CONSTANTS
    Clients = {k1}
    UrlClients = {}
    Chans = {c1}
    BufferSize = 1
    MaxEvents = 3
    None = None
INVARIANTS
    NoEventLost
CHECK_DEADLOCK FALSE
