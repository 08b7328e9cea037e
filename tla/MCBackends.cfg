SPECIFICATION Spec
CONSTANTS
    c1 = c1
    c2 = c2
    t1 = t1
    t2 = t2
    Tip = Tip
    Unreachable = Unreachable
    None = None
    Commands <- MCCommands
    Commits <- MCCommits
    FirstTip = 2
    Core <- MCCore
    Tags <- MCTags
    TagOf <- MCTagOf
    Remotes <- MCRemotes
    Served <- MCServed
    SearchPaths <- MCSearchPaths
SYMMETRY MCSymmetry
INVARIANTS
    SourceNamesBytes
    MismatchMeansMoved
    SkippedIsWarned
