SPECIFICATION FairSpec
CONSTANTS
    hdd = hdd
    reader = reader
    Devices = {hdd, reader}
    Sizes = {1}
    Kind <- MCKind
    Flaky <- MCFlaky
    EnumErrors = TRUE
    MaxQueue = 2
    MaxChanges = 1
CHECK_DEADLOCK FALSE
INVARIANTS
    TypeOK
    ListShowsKnown
PROPERTIES
    ListCatchesUp
    ClosingEndsThread
