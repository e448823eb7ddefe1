----------------------------- MODULE ChangeFile -----------------------------
(***************************************************************************)
(* The change file's way from resize2fs to the disk: what HookedIo has     *)
(* recorded is closed with a footer, parsed by ParsedChangeFile and        *)
(* applied to the partition that MainForm has copied from the image.       *)
(***************************************************************************)
EXTENDS HookedIo

CONSTANTS
    EntrySize, FooterSize,   \* of a WriteLogEntry and the ChangeFileFooter
    Junk                     \* what the disk holds where nothing was written

ASSUME ChangeFileAssumption ==
    /\ EntrySize \in Nat \ {0} /\ FooterSize \in Nat \ {0}
    /\ Junk \notin Data

VARIABLES
    footer,     \* LogOffset, LogSize and how much of log and footer got written
    blockArea,  \* blockAreaOffset of the parser
    ops,        \* _WriteOps
    applied,    \* how many of them Apply has made
    medium      \* the partition on the disk

parser == <<footer, blockArea, ops, applied, medium>>
vars == <<phase, io, parser>>

FileInit ==
    /\ Init
    /\ footer = None
    /\ blockArea = 0 /\ ops = << >> /\ applied = 0
    /\ medium = [i \in 0 .. MaxSize - 1 |-> IF i < SizeOnDisk THEN File[i] ELSE Junk]

\* hooked_close looks at the result of none of its writes.
Close ==
    /\ Ready
    /\ phase' = "closed"
    /\ \E n \in 0 .. Len(log) * EntrySize, f \in 0 .. FooterSize :
         footer' = [LogOffset |-> chgPos, LogSize |-> Len(log) * EntrySize,
                    LogWritten |-> n, Written |-> f]
    /\ call' = [None EXCEPT !.op = "close"] /\ Done
    /\ UNCHANGED <<sectorMap, chg, chgPos, chgSector, log, pending, torn>>
    /\ UNCHANGED <<blockArea, ops, applied, medium>>

\* "Nothing to do!": resize2fs exits with 0 and never calls hooked_close.
ExitUnclosed ==
    /\ Ready /\ log = << >>
    /\ phase' = "closed"
    /\ UNCHANGED <<io, parser>>

\* The log may begin before the end of what torn writes have left.
FileLength ==
    LET closed == footer.LogOffset + footer.LogWritten + footer.Written
    IN  IF closed < Len(chg) THEN Len(chg) ELSE closed

\* Faulty variant: the position of the log is not compared.
FooterTrusted == footer # None /\ footer.Written = FooterSize

FooterGood ==
    /\ footer # None
    /\ footer.Written = FooterSize                               \* signature
    /\ footer.LogOffset + footer.LogWritten + footer.Written = FileLength
    /\ FileLength - FooterSize - footer.LogSize = footer.LogOffset

OpenChangeFile ==
    /\ phase = "closed"
    /\ phase' = IF FooterGood THEN "parse" ELSE "refused"
    /\ UNCHANGED <<io, parser>>

\* Faulty variant: zero entries are taken to have data in the block area.
OperationZeroCounted(e) ==
    [Offset |-> e.Offset, Size |-> e.Size, Zero |-> e.IsZero,
     OffsetInFile |-> IF e.IsZero THEN 0 ELSE blockArea,
     NextBlock |-> blockArea + e.Size]

\* A log entry as a WriteOperation: entries with data find it in their order.
Operation(e) ==
    [Offset |-> e.Offset, Size |-> e.Size, Zero |-> e.IsZero,
     OffsetInFile |-> IF e.IsZero THEN 0 ELSE blockArea,
     NextBlock |-> IF e.IsZero THEN blockArea ELSE blockArea + e.Size]

\* Its checks against the size of the device and of the file.
Sound(op) ==
    /\ op.Offset + op.Size <= MaxSize
    /\ op.Zero \/ op.OffsetInFile + op.Size <= FileLength

ParseEntry ==
    LET op == Operation(log[Len(ops) + 1])
    IN  /\ phase = "parse" /\ Len(ops) < Len(log)
        /\ ops' = IF Sound(op) THEN Append(ops, op) ELSE ops
        /\ blockArea' = IF Sound(op) THEN op.NextBlock ELSE blockArea
        /\ phase' = IF Sound(op) THEN phase ELSE "refused"
        /\ UNCHANGED <<io, footer, applied, medium>>

Parsed ==
    /\ phase = "parse" /\ Len(ops) = Len(log)
    /\ phase' = "apply"
    /\ UNCHANGED <<io, parser>>

\* What an operation writes: zeroes, or its piece of the file, which is no
\* data where the log and the footer are.
OpUnit(op, k) ==
    IF op.Zero THEN 0
    ELSE IF op.OffsetInFile + k < footer.LogOffset THEN chg[op.OffsetInFile + k + 1] ELSE Junk

Apply ==
    LET op == ops[applied + 1]
    IN  /\ phase = "apply" /\ applied < Len(ops)
        /\ medium' = [i \in DOMAIN medium |->
                        IF op.Offset <= i /\ i < op.Offset + op.Size
                        THEN OpUnit(op, i - op.Offset) ELSE medium[i]]
        /\ applied' = applied + 1
        /\ UNCHANGED <<phase, io, footer, blockArea, ops>>

ApplyEnds ==
    /\ phase = "apply" /\ applied = Len(ops)
    /\ phase' = "applied"
    /\ UNCHANGED <<io, parser>>

Next ==
    \/ Calls /\ UNCHANGED parser
    \/ Close \/ ExitUnclosed \/ OpenChangeFile \/ ParseEntry \/ Parsed \/ Apply \/ ApplyEnds

Spec == FileInit /\ [][Next]_vars

(***************************************************************************)
(* Properties.                                                             *)
(***************************************************************************)
\* Every variable of the recorder and of the parser keeps its type.
TypeOK ==
    /\ phase \in {"open", "closed", "parse", "apply", "applied", "refused"}
    /\ DOMAIN sectorMap \subseteq 0 .. SectorOf(MaxSize) - 1
    /\ \A s \in DOMAIN sectorMap : sectorMap[s] \in -1 .. chgSector - 1
    /\ \A i \in 1 .. Len(chg) : chg[i] \in Data
    /\ chgPos \in 0 .. Len(chg) /\ chgSector \in Nat
    /\ Len(log) <= MaxLog
    /\ medium \in [0 .. MaxSize - 1 -> Data \cup {Junk}]
    /\ applied \in 0 .. Len(ops) /\ Len(ops) <= Len(log)
    /\ failed \in BOOLEAN /\ torn \in 0 .. MaxTorn

\* resize2fs sees a disk: reads through the hooked functions return what was
\* written last, in whatever mix of whole-sector, zero and byte writes, and a
\* call that fails changes nothing, until a write fails part-way.
ActsAsDisk == Device!Spec

\* The change file that the tool applies makes the disk what resize2fs saw:
\* every unit of the image's part, and of every sector that was written, ends
\* as resize2fs would read it, whatever calls have failed meanwhile and even
\* though hooked_close checks nothing.  (Not so after a write that failed
\* part-way: see the README.)
ReplayFaithful ==
    phase = "applied" /\ torn = 0 =>
        \A i \in DOMAIN medium :
            i < SizeOnDisk \/ SectorOf(i) \in DOMAIN sectorMap => medium[i] = Contents[i]

\* A change file cut short by hooked_close is refused before anything of it
\* reaches the disk.
CutFileNotApplied ==
    footer # None /\ footer.LogWritten < footer.LogSize => applied = 0

\* A change file that was written completely is accepted: the parser counts
\* its way through the block area exactly as the recorder filled it.
CompleteFileAccepted ==
    phase = "refused" /\ footer # None /\ torn = 0 =>
        footer.LogWritten < footer.LogSize \/ footer.Written < FooterSize

\* "The filesystem is already that long. Nothing to do!" is a success of
\* resize2fs: the change file it leaves behind is one the tool accepts.
NothingToDoAccepted == phase = "refused" => footer # None
=============================================================================
