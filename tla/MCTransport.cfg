SPECIFICATION FairSpec
CONSTANTS
    MaxLen = 3
    MaxPiece = 2
    MaxMsg = 4
    OutLen = {1, 2}
    MaxOut = 3
INVARIANTS
    StreamExact
    WriteRequested
    HandledWhole
PROPERTY QueueDrains
CHECK_DEADLOCK FALSE
