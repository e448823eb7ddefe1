---------------------------- MODULE ImageWriter ----------------------------
(***************************************************************************)
(* The write thread of WinFLASHTool: MainForm.WriteThreadBody and          *)
(* MainForm.AttemptWrite, with ParsedChangeFile.Apply.                     *)
(*                                                                         *)
(* The thread wipes the partition table with diskpart, copies the image to *)
(* the raw disk in chunks of BufferSize, optionally grows the last ext2    *)
(* partition by applying the writes that resize2fs recorded, and writes    *)
(* the first sector of the image last.  A failed read or write asks the    *)
(* user whether to retry; a retry runs AttemptWrite again from the top.    *)
(*                                                                         *)
(* One unit of the model stands for one field of the medium (the code      *)
(* counts bytes).  SectorSize and BufferSize scale 512 and 1 MiB down; the *)
(* arithmetic on them is the code's.                                       *)
(***************************************************************************)
EXTENDS Integers, Sequences

CONSTANTS
    SectorSize,   \* const int SectorSize
    BufferSize,   \* const int bufferSize
    DeviceSize,   \* the length of the disk
    UIntRange,    \* the range of a C# uint
    CountField,   \* where the boot sector keeps the partition's length
    Data,         \* what a unit of the medium can hold
    Zero,         \* the blank unit
    Junk,         \* unknown contents: old data, uninitialised memory
    NULL,
    Jobs          \* the jobs the window may start: see JobAssumption

Cell == Data \cup {Junk}
Offsets == 0 .. DeviceSize - 1
Sector == [0 .. SectorSize - 1 -> Cell]

ASSUME SizeAssumption ==
    /\ SectorSize \in Nat \ {0}
    /\ BufferSize \in Nat \ {0} /\ BufferSize % SectorSize = 0
    /\ DeviceSize \in Nat \ {0} /\ DeviceSize % SectorSize = 0
    /\ UIntRange \in Nat \ {0}
    /\ CountField \in 0 .. SectorSize - 1

ASSUME DataAssumption ==
    /\ 0 .. UIntRange - 1 \subseteq Data
    /\ Zero \in Data /\ Junk \notin Data /\ NULL \notin Sector

(***************************************************************************)
(* A job is a ThreadContext, as button3_Click fills it: the image file     *)
(* (FileShare.Read keeps it from changing), not longer than the disk, and  *)
(* the record of its last partition if that is to be resized.  Changes is  *)
(* what resize2fs would record for it, with offsets inside the partition.  *)
(***************************************************************************)
ASSUME JobAssumption == \A job \in Jobs :
    /\ job.Length \in 0 .. DeviceSize
    /\ job.Image \in [0 .. job.Length - 1 -> Data]
    /\ job.Resize \in BOOLEAN
    /\ job.StartingLBA \in 1 .. UIntRange - 1
    /\ job.TotalSectorCount \in 0 .. UIntRange - 1
    /\ job.Resize => /\ job.Length >= SectorSize
                     /\ job.Image[CountField] = job.TotalSectorCount
    /\ Len(job.Changes) \in Nat /\ DOMAIN job.Changes = 1 .. Len(job.Changes)
    /\ \A j \in DOMAIN job.Changes :
          /\ job.Changes[j].Offset \in Nat /\ job.Changes[j].Size \in Nat
          /\ job.Changes[j].Bytes \in [0 .. job.Changes[j].Size - 1 -> Data]

VARIABLES
    ctx,          \* the job; it never changes
    pc,           \* where the thread is
    report,       \* what ReportCompletion was told
    medium,       \* the contents of the disk
    devPos,       \* file pointer of the raw disk handle
    filePos,      \* file pointer of ctx.fs
    buffer, todo, \* the copy buffer and how much of it is to be written
    firstSector,  \* the cached boot sector
    done,         \* the loop counter of AttemptWrite
    abortWriting, \* _AbortWriting, set by the window
    applied,      \* how many change operations Apply has written
    slipped       \* history: a SeekRel has failed, which nobody looks at

data == <<ctx, medium, devPos, filePos, buffer, todo, firstSector, done,
          abortWriting, applied, slipped>>  \* what a step of pure control leaves alone
vars == <<ctx, pc, report, medium, devPos, filePos, buffer, todo, firstSector,
          done, abortWriting, applied, slipped>>

ImageSize == ctx.Length
Image == ctx.Image
PartitionStart == ctx.StartingLBA * SectorSize
ChangeOps == ctx.Changes

(***************************************************************************)
(* Arithmetic and the raw disk.                                            *)
(***************************************************************************)
Smaller(a, b) == IF a <= b THEN a ELSE b

\* Faulty variant: a sector too many for lengths that are already aligned.
RoundUpTooFar(n) == (n \div SectorSize + 1) * SectorSize

RoundUp(n) == ((n + SectorSize - 1) \div SectorSize) * SectorSize

\* n units of src on the disk from offset pos on.
Overwrite(m, pos, src, n) ==
    [i \in Offsets |-> IF pos <= i /\ i < pos + n THEN src[i - pos] ELSE m[i]]

\* External: WriteFile on a raw disk handle leaves its file pointer alone.
\* AttemptWrite depends on it: it moves the pointer itself, with SeekRel.
AfterWrite(pos, n) == pos

\* Faulty variant: the recorded offsets taken for offsets on the disk.
PartitionOffsetDropped == 0

\* StartingLBA * 512 has type uint: the product wraps.
PartitionOffset == PartitionStart % UIntRange

OpStart(j) == ChangeOps[j].Offset + PartitionOffset

OpByte(j, i) == ChangeOps[j].Bytes[i - OpStart(j)]

\* The count that goes into the partition table: (int)(newSizeInBytes / 512).
NewSectorCount ==
    ((DeviceSize - PartitionStart) \div SectorSize) % UIntRange

\* (StartingLBA + TotalSectorCount) is a sum of uints, too.
PartitionTooBig ==
    ((ctx.StartingLBA + ctx.TotalSectorCount) % UIntRange) * SectorSize > DeviceSize

\* The constructor of ParsedChangeFile refuses writes outside the disk.
OpsFit == \A j \in DOMAIN ChangeOps : OpStart(j) + ChangeOps[j].Size <= DeviceSize

(***************************************************************************)
(* The thread.                                                             *)
(***************************************************************************)
Init ==
    /\ ctx \in Jobs
    /\ pc = "check" /\ report = "none"
    /\ medium = [i \in Offsets |-> Junk]
    /\ devPos = 0 /\ filePos = 0 /\ done = 0 /\ todo = 0 /\ applied = 0
    /\ buffer = [j \in 0 .. BufferSize - 1 |-> Junk]
    /\ firstSector = NULL
    /\ abortWriting = FALSE /\ slipped = FALSE

Goto(l) == pc' = l /\ UNCHANGED report
Finish(r) == pc' = "end" /\ report' = r

\* The first handle on the drive: opening it, or its length, may fail.
CheckLength ==
    /\ pc = "check"
    /\ Goto("clean") \/ Finish("error")
    /\ UNCHANGED data

Cleaned == Overwrite(medium, 0, [i \in 0 .. SectorSize - 1 |-> Zero], SectorSize)

RunDiskpart ==
    /\ pc = "clean"
    /\ \/ medium' = Cleaned /\ Goto("open")
       \/ medium' \in {medium, Cleaned} /\ Finish("error")
    /\ UNCHANGED <<ctx, devPos, filePos, buffer, todo, firstSector, done,
                   abortWriting, applied, slipped>>

\* The second handle, used for everything that follows.
OpenDrive ==
    /\ pc = "open"
    /\ Goto("attempt") \/ Finish("error")
    /\ UNCHANGED data

\* Faulty variant: a retry forgets that the user has pressed Cancel.
BeginAttemptForgetsCancel ==
    /\ pc = "attempt"
    /\ devPos' = 0 /\ Goto("loop")
    /\ done' = 0 /\ firstSector' = NULL
    /\ buffer' = [j \in 0 .. BufferSize - 1 |-> Junk]
    /\ abortWriting' = FALSE
    /\ UNCHANGED <<ctx, medium, filePos, todo, applied, slipped>>

\* The locals of AttemptWrite; ctx.fs keeps its file pointer.
BeginAttempt ==
    /\ pc = "attempt"
    /\ \/ devPos' = 0 /\ Goto("loop")
       \/ UNCHANGED devPos /\ Finish("error")
    /\ done' = 0 /\ firstSector' = NULL
    /\ buffer' = [j \in 0 .. BufferSize - 1 |-> Junk]
    /\ UNCHANGED <<ctx, medium, filePos, todo, abortWriting, applied, slipped>>

\* The units of the image that ReadFile puts in the buffer.
Filled(n) ==
    [j \in 0 .. BufferSize - 1 |-> IF j < n THEN Image[filePos + j] ELSE buffer[j]]

\* Faulty variant: the boot sector is copied but not taken out of the chunk.
FirstSectorKept(b) == b

\* The first chunk loses its first sector to the cache.
FirstSectorCut(b) ==
    [j \in 0 .. BufferSize - 1 |-> IF j < SectorSize THEN Zero ELSE b[j]]

\* Faulty variant: the cache is not checked for being filled already.
CacheEveryChunk(b) ==
    /\ firstSector' = [j \in 0 .. SectorSize - 1 |-> b[j]]
    /\ buffer' = FirstSectorCut(b)

CacheFirstSector(b) ==
    IF firstSector = NULL
    THEN /\ firstSector' = [j \in 0 .. SectorSize - 1 |-> b[j]]
         /\ buffer' = FirstSectorCut(b)
    ELSE buffer' = b /\ UNCHANGED firstSector

ReadChunk ==
    LET want == Smaller(BufferSize, ImageSize - done)
        left == ImageSize - filePos
    IN  /\ pc = "loop" /\ done < ImageSize /\ ~abortWriting
        /\ \/ /\ want <= left
              /\ filePos' = filePos + want
              /\ CacheFirstSector(Filled(want))
              /\ todo' = RoundUp(want)
              /\ Goto("write")
           \/ /\ \E n \in 0 .. Smaller(want - 1, left) : filePos' = filePos + n
              /\ UNCHANGED <<buffer, todo, firstSector>>
              /\ Goto("ask")
        /\ UNCHANGED <<ctx, medium, devPos, done, abortWriting, applied, slipped>>

StopOnAbort ==
    /\ pc = "loop" /\ done < ImageSize /\ abortWriting
    /\ Finish("cancelled")
    /\ UNCHANGED data

\* Faulty variant: no SeekRel after a chunk.
WriteChunkWithoutSeek ==
    /\ pc = "write" /\ devPos + todo <= DeviceSize
    /\ medium' = Overwrite(medium, devPos, buffer, todo)
    /\ devPos' = AfterWrite(devPos, todo)
    /\ done' = done + todo
    /\ Goto("loop")
    /\ UNCHANGED <<ctx, filePos, buffer, todo, firstSector, abortWriting, applied, slipped>>

\* SetFilePointer may fail; SeekRel does not look at its result.
SeekRel(pos, dist) ==
    \/ devPos' = pos + dist /\ UNCHANGED slipped
    \/ devPos' = pos /\ slipped' = TRUE

WriteChunk ==
    /\ pc = "write"
    /\ \/ /\ devPos + todo <= DeviceSize
          /\ medium' = Overwrite(medium, devPos, buffer, todo)
          /\ SeekRel(AfterWrite(devPos, todo), todo)
          /\ done' = done + todo
          /\ Goto("loop")
       \/ /\ \E n \in 0 .. todo - 1 : medium' = Overwrite(medium, devPos, buffer, n)
          /\ UNCHANGED <<devPos, done, slipped>>
          /\ Goto("ask")
    /\ UNCHANGED <<ctx, filePos, buffer, todo, firstSector, abortWriting, applied>>

\* The message box; WriteThreadBody calls AttemptWrite until it succeeds.
AskRetry ==
    /\ pc = "ask"
    /\ Goto("attempt") \/ Finish("cancelled")
    /\ UNCHANGED data

EndLoop ==
    /\ pc = "loop" /\ done >= ImageSize
    /\ \/ firstSector = NULL /\ Finish("error")
       \/ firstSector # NULL /\ ctx.Resize /\ Goto("resize")
       \/ firstSector # NULL /\ ~ctx.Resize /\ Goto("final")
    /\ UNCHANGED data

(***************************************************************************)
(* Growing the last partition.                                             *)
(***************************************************************************)
ResizeRefused == PartitionTooBig \/ firstSector[CountField] # ctx.TotalSectorCount

PrepareResize ==
    /\ pc = "resize"
    /\ \/ Finish("error") /\ UNCHANGED firstSector  \* temp files, QueryLength
       \/ ResizeRefused /\ Finish("skipped") /\ UNCHANGED firstSector
       \/ /\ ~ResizeRefused
          /\ firstSector' = [firstSector EXCEPT ![CountField] = NewSectorCount]
          /\ Goto("resizer")
    /\ UNCHANGED <<ctx, medium, devPos, filePos, buffer, todo, done, abortWriting, applied,
                      slipped>>

\* resize2fs may not start, exit with an error or leave no change file.
RunResizer ==
    /\ pc = "resizer"
    /\ Goto("parse") \/ Finish("skipped") \/ Finish("error")
    /\ UNCHANGED data

ParseChangeFile ==
    /\ pc = "parse"
    /\ (OpsFit /\ Goto("apply")) \/ Finish("error")
    /\ UNCHANGED data

\* One operation of Apply: SeekAbs, then Write; a short write throws.
ApplyChange ==
    LET j == applied + 1
        op == ChangeOps[j]
    IN  /\ pc = "apply" /\ j <= Len(ChangeOps)
        /\ \/ /\ medium' = Overwrite(medium, OpStart(j), op.Bytes, op.Size)
              /\ applied' = j
              /\ UNCHANGED <<pc, report>>
           \/ /\ \E n \in 0 .. op.Size :
                     medium' = Overwrite(medium, OpStart(j), op.Bytes, n)
              /\ UNCHANGED applied
              /\ Finish("error")
        /\ devPos' = AfterWrite(OpStart(j), op.Size)
        /\ UNCHANGED <<ctx, filePos, buffer, todo, firstSector, done, abortWriting, slipped>>

AppliedAll ==
    /\ pc = "apply" /\ applied = Len(ChangeOps)
    /\ Goto("final")
    /\ UNCHANGED data

\* SeekAbs(0) may throw; how much Write(firstSector) wrote is not looked at.
WriteFirstSector ==
    /\ pc = "final"
    /\ \/ /\ \E n \in 0 .. SectorSize : medium' = Overwrite(medium, 0, firstSector, n)
          /\ devPos' = AfterWrite(0, SectorSize)
          /\ Finish("success")
       \/ UNCHANGED <<medium, devPos>> /\ Finish("error")
    /\ UNCHANGED <<ctx, filePos, buffer, todo, firstSector, done, abortWriting, applied, slipped>>

\* button2_Click, on the window's thread: at any time while the job runs.
ClickCancel ==
    /\ pc # "end"
    /\ abortWriting' = TRUE
    /\ UNCHANGED <<ctx, pc, report, medium, devPos, filePos, buffer, todo,
                   firstSector, done, applied, slipped>>

AttemptWrite ==
    \/ BeginAttempt \/ ReadChunk \/ StopOnAbort \/ WriteChunk \/ EndLoop
    \/ PrepareResize \/ RunResizer \/ ParseChangeFile \/ ApplyChange
    \/ AppliedAll \/ WriteFirstSector

WriteThread == CheckLength \/ RunDiskpart \/ OpenDrive \/ AttemptWrite \/ AskRetry

Next == WriteThread \/ ClickCancel

Spec == Init /\ [][Next]_vars

\* The thread keeps running, resize2fs ends, the user answers the message box.
FairSpec == Spec /\ WF_vars(WriteThread)

(***************************************************************************)
(* Properties.                                                             *)
(***************************************************************************)
Places == {"check", "clean", "open", "attempt", "loop", "write", "ask",
           "resize", "resizer", "parse", "apply", "final", "end"}
Reports == {"none", "success", "cancelled", "error", "skipped"}

\* Every variable keeps its type, and a chunk never outgrows the buffer that
\* AttemptWrite allocated.
TypeOK ==
    /\ ctx \in Jobs /\ pc \in Places /\ report \in Reports
    /\ medium \in [Offsets -> Cell]
    /\ devPos \in Nat /\ filePos \in 0 .. ImageSize
    /\ buffer \in [0 .. BufferSize - 1 -> Cell]
    /\ todo \in 0 .. BufferSize
    /\ firstSector \in Sector \cup {NULL}
    /\ done \in Nat
    /\ abortWriting \in BOOLEAN /\ slipped \in BOOLEAN
    /\ applied \in 0 .. Len(ChangeOps)

\* Where operation j of the change file belongs: inside the resized partition.
MeantFor(j) == ChangeOps[j].Offset + PartitionStart
Covers(j, i) == MeantFor(j) <= i /\ i < MeantFor(j) + ChangeOps[j].Size

\* Past the first sector the disk holds the image, with the first k
\* operations of the change file made in their order.
BodyWritten(k) ==
    /\ \A i \in SectorSize .. ImageSize - 1 :
          (\A j \in 1 .. k : ~Covers(j, i)) => medium[i] = Image[i]
    /\ \A j \in 1 .. k : \A i \in Offsets :
          /\ Covers(j, i)
          /\ \A l \in j + 1 .. k : ~Covers(l, i)
          => medium[i] = ChangeOps[j].Bytes[i - MeantFor(j)]

WholeBody == BodyWritten(IF ctx.Resize THEN Len(ChangeOps) ELSE 0)

TableOnDisk == \E i \in 0 .. SectorSize - 1 : medium[i] \notin {Zero, Junk}

\* "The very first sector will be written in the very end": a disk whose first
\* sector shows anything of the image holds the whole image and the whole
\* resized file system, at whatever point the job is cut off and however
\* often the copy was retried.  A SeekRel that fails makes it false, and
\* nothing tells: the chunks that follow land one place too early.
PartitionTableLast == TableOnDisk /\ ~slipped => WholeBody

\* A job reported as successful has put every byte past the first sector
\* where it belongs, unless a SeekRel has failed: a retry never lets a shifted
\* copy of the image through.
SuccessMeansBodyWritten == report = "success" /\ ~slipped => WholeBody

\* What the boot sector becomes: the image's own, with the partition's new
\* length when the job resizes.
BootSector ==
    [i \in 0 .. Smaller(SectorSize, ImageSize) - 1 |->
        IF ctx.Resize /\ i = CountField THEN NewSectorCount ELSE Image[i]]

\* The sector that AttemptWrite has kept back, when it comes to write it, is
\* the first one of the image and no other chunk's.
KeptSectorIsImages ==
    pc = "final" => \A i \in DOMAIN BootSector : firstSector[i] = BootSector[i]

\* A step changes the disk only where its part of the job is: the copy loop
\* ahead of what it has counted as done and within the rounded image, the
\* change file inside the partition, the rest within the first sector.  After
\* a SeekRel that failed the loop may go over what it has copied, but still
\* not past the image.
WritesConfined ==
    [][\A i \in Offsets : medium'[i] # medium[i] =>
         \/ pc \in {"clean", "final"} /\ i < SectorSize
         \/ pc = "write" /\ (slipped \/ done <= i) /\ i < RoundUp(ImageSize)
         \/ pc = "apply" /\ PartitionStart <= i]_vars

\* Cancel ends the job, also when it is pressed while a retry is on the way.
CancelEnds == abortWriting ~> pc = "end"

(***************************************************************************)
(* What the messages of the program claim.                                 *)
(***************************************************************************)
\* Both messages that begin with "The image has been written successfully",
\* with and without a partition that could not be extended: then the disk
\* starts with the boot sector, its length field apart.
WrittenMeansBootable ==
    report \in {"success", "skipped"} =>
        \A i \in DOMAIN BootSector : medium[i] \in {BootSector[i], Image[i]}

\* The checkbox offers to extend the last partition to the end of the device: a
\* resize changes nothing in front of that partition.
ResizeStaysInPartition ==
    [][pc = "apply" =>
         \A i \in 0 .. PartitionStart - 1 : medium'[i] = medium[i]]_vars

\* Faults go away in the end: what can succeed again and again does.
RetrySpec ==
    /\ FairSpec
    /\ SF_vars(ReadChunk /\ pc' = "write")
    /\ SF_vars(WriteChunk /\ pc' = "loop")

\* The Retry button: a user who answers every message box with it, in a job
\* that meets no other error, gets the image written.
RetryCompletes ==
    [](~abortWriting /\ report \in {"none", "success"}) => <>(report = "success")
=============================================================================
