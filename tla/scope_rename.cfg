\* Declarations only, with a name that looks like a renamed one.
SPECIFICATION Spec
CONSTANTS
    a = a
    b = b
    Base <- MCBase
    Names <- RenameNames
    Stmts = {"block"}
    MaxBlocks = 3
    MaxDecls = 5
    MaxNodes = 8
    MaxDepth = 3
    MaxUses = 0
INVARIANTS
    RenameSafe
    RenamedUnique
    TablesKeepDecls
