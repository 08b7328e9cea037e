SPECIFICATION Spec
CONSTANTS
    p1 = p1
    p2 = p2
    fifo = fifo
    r1 = r1
    r2 = r2
    NoSum = NoSum
    None = None
    Manifest = 2
    MaxCommands = 3
    Procs <- MCProcs
    Cores <- MCCores
    Package <- MCPackage
    Holds <- MCHolds
    Revisions <- MCRevisions
    Locks <- MCLocks
SYMMETRY Symmetry
INVARIANTS
    LockedGenUsesPins
    PartialTreeIsExplained
    VendoredIsLocked
PROPERTY
    TreeStaysWhole
CHECK_DEADLOCK FALSE
