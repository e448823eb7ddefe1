SPECIFICATION Spec
CONSTANTS
    SectorSize = 2
    BufferSize = 4
    DeviceSize = 10
    UIntRange = 16
    CountField = 1
    Data <- MCData
    Zero = 0
    Junk = junk
    NULL = null
    junk = junk
    null = null
    Jobs <- AllJobs
CHECK_DEADLOCK FALSE
INVARIANTS
    WrittenMeansBootable
