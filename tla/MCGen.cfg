SPECIFICATION GenSpec
CONSTANTS
    Untold = Untold
    Problems <- AllProblems
INVARIANTS
    ReferencesFollow
    UnitsApart
    DependenciesFirst
CHECK_DEADLOCK FALSE
