SPECIFICATION PreviewSpec
CONSTANTS
    Sources <- TwoPorts
    Points = 4
    ChunkPoints = 2
    Setups <- FourSetups
    InitialSetup <- Single
    MaxSweeps = 3
    MaxRevision = 3
    MaxBad = 2
INVARIANTS PathsAgree
CHECK_DEADLOCK FALSE
