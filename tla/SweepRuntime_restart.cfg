SPECIFICATION FairSpec
CONSTANTS
    c1 = c1  c2 = c2  s1 = s1  s2 = s2
    Clients <- TwoClients
    Setups <- OneSetup
    Counts <- OnceOnly
    Initial <- StartContinuous
    Points = 1
    MaxOps = 2
    MaxRevision = 0
    FreeSweeps = 0
    ForeignGeneration = 0
    SourceMayFail = TRUE
    SourceMayThrow = TRUE
    RepositoryMayReject = FALSE
    OwnerMayStop = FALSE
INVARIANTS TypeOK HeldOperations StatusIsCurrent NoLeftoverPreview
PROPERTIES DiscardedNeverPublished OperationsEnd
CHECK_DEADLOCK FALSE
