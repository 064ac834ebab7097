CONSTANTS
    Client = {"c1"}
    BufferSize = 2
    SpareSize = 1
    PreprocThreads = 1
    Bursts = {0, 1, 3}
    MaxPush = 4
    NetSize = 1
SPECIFICATION Spec
INVARIANTS
    BufferIsRecent
PROPERTIES
    ClientHasNoGap
    ServedOrEnds
    EndsAndUnsubscribes
CHECK_DEADLOCK FALSE
