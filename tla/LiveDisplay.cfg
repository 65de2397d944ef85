SPECIFICATION Spec
CONSTANTS
    Sources <- OnePort
    Points = 2
    ChunkPoints = 2
    Setups <- ThreeSetups
    InitialSetup <- Log
    MaxSweeps = 2
    MaxRevision = 3
    MaxBad = 0
    MaxLosses = 1
    MaxTogether = 3
    OtherClients = TRUE
INVARIANTS OneGenerationDrawn
PROPERTIES AllSWhole ScreenNeverGoesBack
CHECK_DEADLOCK FALSE
