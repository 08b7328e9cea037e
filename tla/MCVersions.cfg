SPECIFICATION VSSpec
CONSTANTS
    Tokens <- MCTokens
    Constraints <- MCConstraints
INVARIANTS
    OrderIsTotal
    CaretIsGroup
    RangesByValue
CHECK_DEADLOCK FALSE
