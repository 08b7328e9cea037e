SPECIFICATION FairSpec
CONSTANTS
    p1 = p1
    p2 = p2
    p3 = p3
    v1 = v1
    v2 = v2
    None = None
    Publishers <- MCPublishers
    Versions <- MCVersions
INVARIANTS
    ListedIsFetchable
    OnePublisher
PROPERTIES
    PublishEnds
    KeepsThePromise
