CONSTANTS
    Blocks = {1, 2, 3, 4}
    BundleSize = 2
    StartBlockNum = 1
    StopBlockNum = 4
    ThreadCount = 1
    ErrorOutOnMissingFile = FALSE
    Whitelisted = {3}
    Matching = {}
    IndexedBelow = 4
    LastBase = 4
    MissingBlocks = {2}
SPECIFICATION Spec
INVARIANTS
    InOrderAndComplete
    StopsAfterEverything
PROPERTIES
    RunEnds
    StopBlockIsReached
CHECK_DEADLOCK FALSE
