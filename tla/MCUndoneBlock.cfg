CONSTANTS
    Block <- TreeABlocks
    NoBlock <- NoId
    Parent <- TreeAParent
    Num <- TreeANum
    LibNum <- TreeALibNum
    FirstStreamable = 1
    FilterSteps = {"new", "undo", "irreversible", "stalled"}
    HoldUntilLIB = TRUE
    KeptFinalBlocks = 3
    InitialLIB <- NoId
    IncludeInitialLIB = FALSE
    EnsureBlock <- NoId
    EnsureAll = FALSE
    FailOnUnlinkable = 0
    Numbers = {1, 2, 3, 4, 5, 6}
SPECIFICATION QSpec
INVARIANTS
    UndoneBlockIsNewAgain
CHECK_DEADLOCK FALSE
