SPECIFICATION Spec
CONSTANTS
    p1 = p1
    p2 = p2
    r1 = r1
    r2 = r2
    NoSum = NoSum
    Procs <- MCProcs
    Refs <- MCRefs
    Cores <- MCCores
    Needs <- MCNeeds
    Revisions <- MCRevisions
    Published <- MCPublished
    Original <- MCOriginal
    MaxDrift = 1
SYMMETRY Symmetry
INVARIANTS
    InstalledIsLocked
    WholeLockIsClosed
    MismatchMeansEdit
PROPERTY
    LockChangesOnlyVerified
