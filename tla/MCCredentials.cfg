SPECIFICATION CSSpec
CONSTANTS
    p1 = p1
    p2 = p2
    s1 = s1
    f1 = f1
    f2 = f2
    f3 = f3
    Absent = Absent
    Torn = Torn
    Procs <- MCProcs
    Hosts <- MCHosts
    Secrets <- MCSecrets
    Files <- MCFiles
SYMMETRY MCSymmetry
INVARIANTS
    PublishedIsLastSave
PROPERTY
    OnlyOverlapLosesOthers
