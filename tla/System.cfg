\* Every kind of board; one or two boards' messages, with errors and resets.
SPECIFICATION FairSpec
CONSTANTS
    Models = {"FAC_ACDC", "FAP", "FBP"}
    CanStatus <- SomeStatus
    Rotations = {0, 3}
    MaxEvents = 3
    MaxFrames = 2
    Reports = {0, 3}
    TicksPerSecond = 2
INVARIANTS
    TypeOK
    ErrNoticed
    InterlockAttributed
    InterlockRaised
    BoardsShown
PROPERTIES
    OneWriter
    ResetReachesBoards
    ErrServed
CHECK_DEADLOCK FALSE
