SPECIFICATION FairSpec
CONSTANTS
    p1 = p1
    p2 = p2
    v1 = v1
    None = None
    Publishers <- MCPublishers
    Versions <- MCVersions
    Setups <- MCSetups
INVARIANTS
    TaggedIsFetchable
    OneRetryIsEnough
PROPERTIES
    OverwrittenOnlyUnseen
    RetriesEnd
