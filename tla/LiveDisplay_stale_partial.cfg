SPECIFICATION FairSpec
CONSTANTS
    Sources <- OnePort
    Points = 2
    ChunkPoints = 2
    Setups <- OneSetup
    InitialSetup <- Log
    MaxSweeps = 2
    MaxRevision = 1
    MaxBad = 0
    MaxLosses = 0
    MaxTogether = 2
    OtherClients = FALSE
PROPERTIES WithdrawnPartialGoes
CHECK_DEADLOCK FALSE
