SPECIFICATION Spec
CONSTANTS
    Refs <- MCRefs
    Versions <- MCVersions
    Major <- MCMajor
    Opaque <- MCOpaque
    Problems <- MCProblems
    IndexOf <- MCIndexOf
    RootOf <- MCRootOf
    PolicyOf <- MCPolicyOf
INVARIANTS
    SelectionIsSolution
    FailsOnlyIfUnsolvable
    NoNeedlesslyOldVersion
    WalkAgreesWithSearch
PROPERTY
    Terminates
CHECK_DEADLOCK FALSE
