CONSTANTS
    Blocks = {1, 2}
    BundleSize = 2
    StartBlockNum = 1
    StopBlockNum = 0
    ThreadCount = 0
    ErrorOutOnMissingFile = FALSE
    Whitelisted = {}
    Matching = {}
    IndexedBelow = 0
    LastBase = 2
    MissingBlocks = {}
SPECIFICATION Spec
PROPERTIES
    RunReturns
CHECK_DEADLOCK FALSE
