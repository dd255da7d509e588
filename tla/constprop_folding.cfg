\* What is replaced by what, in programs with statements and expressions of two
\* operands and in longer ones of declarations, with a name that looks renamed.
SPECIFICATION MCSpec
CONSTANTS
    a = a
    b = b
    Base <- MCBase
    Names <- AllNames
    Stmts = {"block", "ret", "exp", "if"}
    MaxBlocks = 2
    MaxDecls = 4
    MixedDecls = 3
    MaxNodes = 7
    MixedNodes = 5
    MaxDepth = 2
    MaxUses = 2
INVARIANTS
    CPTypeOK
    FoldedRight
    UnboundUses
    NotConstJustified
    CleanLookups
