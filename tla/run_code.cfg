\* Every operation on words around zero and both ends; loops, branches, returns,
\* frames of many sizes.
SPECIFICATION FairSpec
CONSTANTS
    Width = 8
    ImmLimit = 64
    StackTop = 124
    Functions <- Everything
INVARIANTS
    TypeOK
    RegistersSuffice
    SlotsDisjoint
    RejectedFor
    StackBalanced
    StaysInFrame
    BlocksApart
    FoldAgrees
PROPERTIES
    Implements
    Halts
