SPECIFICATION FairSpec
CONSTANTS
    c1 = c1  c2 = c2  s1 = s1  s2 = s2
    Clients <- OneClient
    Setups <- TwoSetups
    Counts <- OnceOnly
    Initial <- StartContinuous
    Points = 1
    MaxOps = 1
    MaxRevision = 2
    FreeSweeps = 0
    ForeignGeneration = 0
    SourceMayFail = TRUE
    SourceMayThrow = FALSE
    RepositoryMayReject = TRUE
    OwnerMayStop = FALSE
INVARIANTS HoldIsCurrent OneGeneration
PROPERTIES PlanStableDuringSweep LastCompleteRetained TerminatesOnlyLate AppliedUnlessResting
CHECK_DEADLOCK FALSE
