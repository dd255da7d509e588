\* Variables and expressions: what is defined where it is used. One
\* variable may be named like the first temporary, the return slot or the
\* other variable.
SPECIFICATION Spec
CONSTANTS
    MaxNodes = 4
    MaxVars = 2
    TempLike = {0}
    SlotLike = TRUE
    Captures = TRUE
    Exprs = {"num", "lval", "unbound", "unary", "binary", "logical"}
INVARIANTS
    TypeOK
    DefsReachUses
    VisibleLowered
    NamesAgree
    DumpReadsBack
PROPERTY CrashesKnown
