SPECIFICATION FairSpec
CONSTANTS
    Threads = {t1, t2, t3}
    Sessions = {x1}
    MaxOps = 2
    Outcomes = {"Succeeded"}
    MaxSubscriptions = 2
    CallbackCancels <- MCCallbackCancels
INVARIANTS TypeOK NoLostFence QuietOnceReleased
PROPERTIES CancelReturns ImplementsContract
CHECK_DEADLOCK FALSE
