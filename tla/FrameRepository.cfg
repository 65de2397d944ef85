SPECIFICATION FairSpec
CONSTANTS
    t1 = t1  t2 = t2  r1 = r1  r2 = r2  b1 = b1  b2 = b2
    Traces = {t1, t2}
    Watched = {t1}
    Readers = {r1, r2}
    Queries = {r1}
    Bindings = {b1}
    Capacity = 2
    MaxSequence = 3
    MaxGeneration = 2
    MaxUpdates = 2
    MaxCalls = 1
    NoFrame = NoFrame  Unbound = Unbound  NoReader = NoReader
INVARIANTS TypeOK WaitStatesAgree NoFrameAfterLoss
PROPERTIES WaitersReturn
CHECK_DEADLOCK FALSE
