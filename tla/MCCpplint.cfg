SPECIFICATION Spec
CONSTANTS
    Commands <- MCCommands
    Categories <- MCCategories
    CppHeaders <- MCCppHeaders
    Requires <- MCRequires
    Rank <- MCRank
    Guard <- MCGuard
    OldGuard <- MCOldGuard
    NormalTrigger = 1
    TestTrigger = 2
INVARIANTS
    SuppressedExactly
    IncludesInOrder
    ClassesTracked
CHECK_DEADLOCK FALSE
