CONSTANTS
    Block <- TreeJBlocks
    NoBlock <- NoId
    Parent <- TreeJParent
    Num <- TreeJNum
    LibNum <- TreeJLibNum
    FirstStreamable = 1
    FilterSteps = {"new", "undo", "irreversible", "stalled"}
    HoldUntilLIB = TRUE
    KeptFinalBlocks = 1
    InitialLIB <- NoId
    IncludeInitialLIB = FALSE
    EnsureBlock <- NoId
    EnsureAll = FALSE
    FailOnUnlinkable = 0
    Numbers = {2, 3}
    FinalTip = "4a"
    ForkedBlockFiles = {"3b"}
SPECIFICATION JoinSpec
INVARIANTS
    CursorIsBroughtBack
CHECK_DEADLOCK FALSE
