\* A source name that looks like a renamed one.
SPECIFICATION CPSpec
CONSTANTS
    a = a
    b = b
    Base <- MCBase
    Names <- SuffixNames
    Stmts = {"block"}
    MaxBlocks = 2
    MaxDecls = 4
    MixedDecls = 0
    MaxNodes = 7
    MixedNodes = 0
    MaxDepth = 2
    MaxUses = 1
INVARIANT AssertHolds
