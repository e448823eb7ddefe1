SPECIFICATION Spec
CONSTANTS
    SectorSize = 2
    MaxSize = 8
    SizeOnDisk = 5
    MaxLog = 3
    MaxTorn = 1
    EntrySize = 1
    FooterSize = 2
    Data <- MCData
    File <- MCFile
    Reads <- MCReads
    Writes <- MCWrites
    ByteWrites <- MCByteWrites
    Junk = junk
    junk = junk
CHECK_DEADLOCK FALSE
INVARIANTS
    NothingToDoAccepted
