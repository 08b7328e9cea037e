SPECIFICATION FairSpec
CONSTANTS
    p1 = p1
    p2 = p2
    p3 = p3
    p4 = p4
    d1 = d1
    f1 = f1
    f2 = f2
    f3 = f3
    None = None
    Putters <- MCPutters
    Getters <- MCGetters
    Digests <- MCDigests
    Files <- MCFiles
    Size = 2
INVARIANTS
    MissingChunksAreOwed
    PublishedIsIntact
    RenameFindsOwnFile
    RefusalMeansDecay
PROPERTY
    HalfWrittenHeals
