\* What a comment or an assertion says, and the code does not do.
SPECIFICATION Spec
CONSTANTS
    Width = 8
    ImmLimit = 64
    StackTop = 124
    Functions <- Programs
INVARIANT NoUnexpectedBranch
