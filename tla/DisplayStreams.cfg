SPECIFICATION FairSpec
CONSTANTS
    k1 = k1  k2 = k2  l1 = l1
    Clients = {k1, k2}
    Complete = {k1}
    Listeners = {l1}
    MaxSessions = 1
    MaxGeneration = 2
    MaxEvents = 1
    NoClient = NoClient
INVARIANTS TypeOK NothingOutlivesItsOwner
PROPERTIES ShutdownReturns StreamCatchesUp
CHECK_DEADLOCK FALSE
