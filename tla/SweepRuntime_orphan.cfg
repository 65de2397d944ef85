SPECIFICATION Spec
CONSTANTS
    c1 = c1  c2 = c2  s1 = s1  s2 = s2
    Clients <- OneClient
    Setups <- OneSetup
    Counts <- UpToTwo
    Initial <- StartSingleTwo
    Points = 1
    MaxOps = 2
    MaxRevision = 0
    FreeSweeps = 1
    ForeignGeneration = 0
    SourceMayFail = FALSE
    SourceMayThrow = FALSE
    RepositoryMayReject = FALSE
    OwnerMayStop = FALSE
INVARIANTS NoOrphan
CHECK_DEADLOCK FALSE
