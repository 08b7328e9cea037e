SPECIFICATION Spec
CONSTANTS
    p1 = p1
    p2 = p2
    v1 = v1
    v2 = v2
    v3 = v3
    None = None
    Publishers <- MCPublishers
    Versions <- MCVersions
SYMMETRY Symmetry
INVARIANTS
    ListedIsFetchable
    AckedStays
PROPERTY
    VanishesOnlyUnseen
