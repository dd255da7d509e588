\* Statements: nesting of ifs, loops, jumps and returns, lowered and run.
SPECIFICATION RunSpec
CONSTANTS
    MaxNodes = 5
    MaxVars = 1
    TempLike = {}
    SlotLike = FALSE
    Captures = FALSE
    Exprs = {"num"}
INVARIANTS
    WhileContext
    OpenEnds
    DeadTail
    ReturnProtocol
PROPERTY Follows
CHECK_DEADLOCK FALSE
