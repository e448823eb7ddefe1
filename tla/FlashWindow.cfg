SPECIFICATION FairSpec
CONSTANTS
    none = none
    None = none
    small = small
    large = large
    other = other
    Numbers = {1}
    Media = {small, large}
    Length <- MCLength
    ImageLength = 4
    Chunks = 1
    WriteOps = 1
    MaxJobs = 2
    MaxRetries = 1
    MaxExchanges = 1
CHECK_DEADLOCK FALSE
INVARIANTS
    TypeOK
    OneWriter
    DialogsDoNotNest
    CancelledByUser
    ReadyWhenEnabled
PROPERTIES
    WindowComesBack
    ThreadsEnd
