SPECIFICATION GenSpec
CONSTANTS
    Untold = Untold
    Problems <- Attributed
INVARIANTS
    OthersAreInert
CHECK_DEADLOCK FALSE
