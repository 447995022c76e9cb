SPECIFICATION Spec
CONSTANTS
    o1 = o1
    Output = {o1}
    NameOf <- OneName
    TAGCOUNT = 2
    UrgentTag = {1}
    Types <- AllRequests
    Peer = {p1}
    MaxQueue = 1
    None = None
CHECK_DEADLOCK FALSE
INVARIANTS
    Mirror
    QueueIsLive
PROPERTIES
    KeepsPromise
    EventuallySeen
