SPECIFICATION Spec
CONSTANTS
    OldLocs = {1, 2, 3, 4, 5}
    NewLocs = {6, 7, 8}
    MaxEntries = 4
CHECK_DEADLOCK FALSE
INVARIANTS
    TypeOK
    SortedIsSorted
    EntriesAreAdditions
    AnswerIsRight
    SearchKeepsTarget
PROPERTIES
    SearchEnds
