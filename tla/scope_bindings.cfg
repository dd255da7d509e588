\* One name declared over and over: shadowing, errors, the loop flag.
SPECIFICATION Spec
CONSTANTS
    a = a
    b = b
    Base <- MCBase
    Names <- OneName
    Stmts = {"block", "assign", "ret", "if", "while", "jump"}
    MaxBlocks = 3
    MaxDecls = 3
    MaxNodes = 7
    MaxDepth = 4
    MaxUses = 1
INVARIANTS
    TypeOK
    BindingLexical
    ErrorsJustified
    LoopFlag
