CONSTANTS
    c1 = c1
    c2 = c2
    Client <- Clients
    DefaultSize = 1
    EnvSet = FALSE
    EnvValid = FALSE
    EnvSize = 0
    MaxEvents = 3
SPECIFICATION Spec
INVARIANTS
    NoGap
    RegisteredIsCurrent
    OneCallAfterShutdown
PROPERTIES
    BroadcastEnds
    TerminatedEnds
    DeliveredOrEnds
