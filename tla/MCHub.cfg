CONSTANTS
    Block <- TreeHBlocks
    NoBlock <- NoId
    Parent <- TreeHParent
    Num <- TreeHNum
    LibNum <- TreeHLibNum
    FirstStreamable = 1
    FilterSteps = {"new", "undo", "irreversible", "stalled"}
    HoldUntilLIB = TRUE
    KeptFinalBlocks = 1
    InitialLIB <- NoId
    IncludeInitialLIB = FALSE
    EnsureBlock <- NoId
    EnsureAll = FALSE
    FailOnUnlinkable = 0
    Source = {"first", "second"}
    NoSource = "nobody"
    StartBlocks = {"1a", "2a"}
    Rounding = 2
    MaxDisconnections = 1
    MaxLost = 1
SPECIFICATION HubSpec
INVARIANTS
    TypeOK
    IInv
    HeadReachesLIB
    LongestChainExact
    ConsumerInStep
    StalledIsForkedOut
    ReadyServes
    GapFilled
    NoPanic
PROPERTIES
    FollowsChain
