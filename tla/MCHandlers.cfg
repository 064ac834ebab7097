CONSTANTS
    Block <- TreeKBlocks
    NoBlock <- NoId
    Parent <- TreeKParent
    Num <- TreeKNum
    LibNum <- TreeKLibNum
    FirstStreamable = 1
    FilterSteps = {"new", "undo", "irreversible", "stalled"}
    HoldUntilLIB = TRUE
    KeptFinalBlocks = 1
    InitialLIB <- NoId
    IncludeInitialLIB = FALSE
    EnsureBlock <- NoId
    EnsureAll = FALSE
    FailOnUnlinkable = 0
    Numbers = {1, 2, 3, 4, 5, 6}
    StartNums <- Starts
    StopNums = {0, 4}
    GateBlock = "4b"
    MaxHoldOff = 4
SPECIFICATION HandlersSpec
INVARIANTS
    ResumeConnects
    CursorsKept
    FromNumConnects
    ThroughCursorConnects
    StreamConnects
    StopIsExact
    FinalGateIsSafe
