\* Does "Use const var as LVal" always name a constant?
SPECIFICATION Spec
CONSTANTS
    a = a
    b = b
    Base <- MCBase
    Names <- OneName
    Stmts = {"block", "assign"}
    MaxBlocks = 2
    MaxDecls = 2
    MaxNodes = 6
    MaxDepth = 2
    MaxUses = 0
INVARIANT ConstLvalJustified
