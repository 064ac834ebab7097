CONSTANTS
    Block <- TreeGBlocks
    NoBlock <- NoId
    Parent <- TreeGParent
    Num <- TreeGNum
    LibNum <- TreeGLibNum
    FirstStreamable = 1
    FilterSteps = {"new", "undo", "irreversible", "stalled"}
    HoldUntilLIB = FALSE
    KeptFinalBlocks = 0
    InitialLIB = "2a"
    IncludeInitialLIB = TRUE
    EnsureBlock = "4b"
    EnsureAll = TRUE
    FailOnUnlinkable = 3
    Numbers = {0, 1, 2, 3, 4, 5, 6, 7}
SPECIFICATION SpecWithLIB
INVARIANTS
    EnsuredFlowsFirst
    WalksAgree
    CursorCarriesFinal
PROPERTIES
    FollowsChain
