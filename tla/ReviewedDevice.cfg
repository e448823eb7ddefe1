SPECIFICATION Spec
CONSTANTS
    none = none
    None = none
    small = small
    large = large
    other = other
    Numbers = {1}
    Media = {small, large, other}
    Length <- MCLength
    ImageLength = 4
    Chunks = 2
    WriteOps = 1
    MaxJobs = 1
    MaxRetries = 1
    MaxExchanges = 2
CHECK_DEADLOCK FALSE
INVARIANTS
    ErasesReviewedDevice
