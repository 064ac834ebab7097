CONSTANTS
    Factories = 2
    MaxSources = 4
    MaxBlock = 2
    MaxFaults = 1
SPECIFICATION Spec
INVARIANTS
    NothingSkipped
PROPERTIES
    ShutdownEnds
    EverythingProcessed
