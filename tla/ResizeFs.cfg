SPECIFICATION Spec
CONSTANTS
    PerGroup = 14
    DescPerBlock = 1
    InodeBlocks = 3
    Slack = 1
    WriteDirectSize = 1
    Formats <- MCFormats
    NewSizes = {14, 26, 34, 45, 56}
    Pairs <- MCPairs
    Owned <- MCOwned
    MaxReserved = 4
    MaxFaults = 2
CHECK_DEADLOCK FALSE
INVARIANTS
    TypeOK
    FilesReadable
    SoundPlan
    CleanIsConsistent
PROPERTIES
    VirginSpaceOnly
