SPECIFICATION FairSpec
CONSTANTS
    c1 = c1  c2 = c2  s1 = s1  s2 = s2
    Clients <- OneClient
    Setups <- OneSetup
    Counts <- UpToTwo
    Initial <- StartSingleTwo
    Points = 1
    MaxOps = 2
    MaxRevision = 0
    FreeSweeps = 0
    ForeignGeneration = 2
    SourceMayFail = TRUE
    SourceMayThrow = TRUE
    RepositoryMayReject = FALSE
    OwnerMayStop = TRUE
INVARIANTS RoundsPublished FrameIsCurrent
PROPERTIES StopReturns
CHECK_DEADLOCK FALSE
