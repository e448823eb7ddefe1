SPECIFICATION Spec
CONSTANTS
    NumUnits = 4
    BlockSizes = {1, 2}
    CacheSize = 3
    WriteDirectSize = 2
    MaxFaults = 1
    MaxRequests = 4
    Payloads <- MCPayloads
    Initial <- MCInitial
CHECK_DEADLOCK FALSE
INVARIANTS
    TypeOK
    ReadsLastWritten
    SeesLastWritten
    CleanMatchesDevice
    FlushedReachesDevice
