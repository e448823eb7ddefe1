------------------------- MODULE ImageWriter_proofs -------------------------
(***************************************************************************)
(* Proofs about ImageWriter, for every sector, buffer, disk and image size *)
(* and every set of jobs.                                                  *)
(***************************************************************************)
EXTENDS ImageWriter, TLAPS

\* No partition starts where StartingLBA * 512 leaves the range of a uint.
OffsetFits == \A job \in Jobs : job.StartingLBA * SectorSize < UIntRange

(***************************************************************************)
(* The inductive invariant.                                                *)
(***************************************************************************)
AfterLoop == {"resize", "resizer", "parse", "apply", "final"}

\* What each place of the program knows of the thread's own variables.
Control ==
    /\ pc # "end" => report = "none"
    /\ pc \in {"loop", "write"} => devPos <= done /\ (~slipped => devPos = done)
    /\ pc = "loop" => (firstSector = NULL <=> done = 0)
    /\ pc \in AfterLoop \cup {"write"} => firstSector # NULL
    /\ pc \in AfterLoop \ {"final"} => ctx.Resize
    /\ pc \notin {"apply", "final", "end"} => applied = 0
    /\ pc = "final" /\ ctx.Resize => applied = Len(ChangeOps)
    /\ pc = "apply" => OpsFit

Want == Smaller(BufferSize, ImageSize - done)

\* The file pointer is never behind the loop; after a retry it may be ahead.
Progress ==
    /\ pc = "loop" => /\ done = 0 \/ done >= SectorSize
                      /\ filePos >= Smaller(done, ImageSize)
    /\ pc = "write" => /\ done = 0 \/ done >= SectorSize
                       /\ done < ImageSize
                       /\ todo = RoundUp(Want)
                       /\ filePos >= done + Want
                       /\ done = 0 => \A j \in 0 .. SectorSize - 1 : buffer[j] = Zero

Copied(n) == \A i \in SectorSize .. n - 1 : medium[i] = Image[i]
Kept == \A i \in 0 .. Smaller(SectorSize, ImageSize) - 1 : firstSector[i] = Image[i]
BufferMatches ==
    \A j \in 0 .. Want - 1 :
        buffer[j] = IF done + j < SectorSize THEN Zero ELSE Image[done + j]

\* While the file pointer is exactly where the loop counts it, the copy is
\* right unless a SeekRel has failed; the first short read ends an attempt in
\* which it is ahead.
CopyRight ==
    /\ pc = "loop" /\ filePos = Smaller(done, ImageSize) =>
         (~slipped => Copied(filePos)) /\ (done > 0 => Kept)
    /\ pc = "write" /\ filePos = done + Want =>
         (~slipped => Copied(done)) /\ Kept /\ BufferMatches

\* After the loop.
BodyRight == ~slipped =>
    /\ pc \in {"resize", "resizer", "parse", "apply"} => BodyWritten(applied)
    /\ pc = "final" => WholeBody
    /\ pc = "end" /\ (TableOnDisk \/ report = "success") => WholeBody

KeptPatched == \A i \in DOMAIN BootSector : firstSector[i] = BootSector[i]

SectorRight ==
    /\ pc = "resize" => Kept
    /\ pc \in {"resizer", "parse", "apply", "final"} =>
         KeptPatched

Blank == pc # "end" /\ ~slipped => ~TableOnDisk

IndInv ==
    TypeOK /\ Control /\ Progress /\ CopyRight /\ BodyRight /\ SectorRight /\ Blank

(***************************************************************************)
(* Lemmas about the operators.                                             *)
(***************************************************************************)
\* Rounding a length that fits the buffer up to whole sectors, as AttemptWrite
\* does for the last chunk, covers it, fits the buffer, is at least a sector
\* if there is anything to write and leaves a full buffer alone.
LEMMA RoundUpFacts ==
    ASSUME NEW n \in 0 .. BufferSize
    PROVE  /\ RoundUp(n) \in n .. BufferSize
           /\ n > 0 => RoundUp(n) >= SectorSize
           /\ RoundUp(BufferSize) = BufferSize
<1> DEFINE S == SectorSize
           q == (n + S - 1) \div S
           k == BufferSize \div S
<1>1. S \in Nat /\ S > 0 /\ BufferSize \in Nat /\ BufferSize % S = 0
  BY SizeAssumption
<1>2. /\ q \in Int /\ q * S <= n + S - 1 /\ n + S - 1 < q * S + S
      /\ k \in Int /\ k * S = BufferSize
  BY <1>1
<1>3. (BufferSize + S - 1) \div S = k
  <2> DEFINE p == (BufferSize + S - 1) \div S
  <2>1. p \in Int /\ p * S <= k * S + S - 1 /\ k * S + S - 1 < p * S + S
    BY <1>1, <1>2
  <2>2. p <= k
    <3>1. SUFFICES ASSUME p >= k + 1 PROVE FALSE
      BY <1>2, <2>1
    <3>2. p * S >= (k + 1) * S
      BY <1>1, <1>2, <2>1, <3>1
    <3> QED BY <1>1, <1>2, <2>1, <3>2
  <2>3. p >= k
    <3>1. SUFFICES ASSUME p + 1 <= k PROVE FALSE
      BY <1>2, <2>1
    <3>2. (p + 1) * S <= k * S
      BY <1>1, <1>2, <2>1, <3>1
    <3> QED BY <1>1, <1>2, <2>1, <3>2
  <2> QED BY <2>1, <2>2, <2>3, <1>2
<1>4. q * S <= BufferSize
  <2>1. q <= k
    <3>1. SUFFICES ASSUME q >= k + 1 PROVE FALSE
      BY <1>2
    <3>2. q * S >= (k + 1) * S
      BY <1>1, <1>2, <3>1
    <3> QED BY <1>1, <1>2, <3>2
  <2> QED BY <1>1, <1>2, <2>1
<1>5. n > 0 => q * S >= S
  <2>1. SUFFICES ASSUME n > 0 PROVE q >= 1
    BY <1>1, <1>2
  <2>2. SUFFICES ASSUME q <= 0 PROVE FALSE
    BY <1>2
  <2>3. q * S <= 0
    BY <1>1, <1>2, <2>2
  <2> QED BY <1>1, <1>2, <2>1, <2>3
<1>6. RoundUp(n) = q * S /\ RoundUp(BufferSize) = k * S
  BY <1>3 DEF RoundUp
<1> QED BY <1>1, <1>2, <1>4, <1>5, <1>6

\* What button3_Click guarantees about the job, whatever it is.
LEMMA JobFacts ==
    ASSUME ctx \in Jobs
    PROVE  /\ ImageSize \in 0 .. DeviceSize
           /\ Image \in [0 .. ImageSize - 1 -> Data]
           /\ PartitionStart \in Nat /\ PartitionStart >= SectorSize
           /\ NewSectorCount \in Data
           /\ Len(ChangeOps) \in Nat /\ DOMAIN ChangeOps = 1 .. Len(ChangeOps)
           /\ \A j \in 1 .. Len(ChangeOps) :
                 /\ ChangeOps[j].Size \in Nat
                 /\ ChangeOps[j].Bytes \in [0 .. ChangeOps[j].Size - 1 -> Data]
                 /\ MeantFor(j) \in Nat /\ MeantFor(j) >= SectorSize
<1>1. SectorSize \in Nat \ {0} /\ UIntRange \in Nat \ {0} /\ DeviceSize \in Nat
  BY SizeAssumption
<1>2. /\ ctx.Length \in 0 .. DeviceSize
      /\ ctx.Image \in [0 .. ctx.Length - 1 -> Data]
      /\ ctx.StartingLBA \in 1 .. UIntRange - 1
      /\ Len(ctx.Changes) \in Nat /\ DOMAIN ctx.Changes = 1 .. Len(ctx.Changes)
      /\ \A j \in DOMAIN ctx.Changes :
          /\ ctx.Changes[j].Offset \in Nat /\ ctx.Changes[j].Size \in Nat
          /\ ctx.Changes[j].Bytes \in [0 .. ctx.Changes[j].Size - 1 -> Data]
  BY JobAssumption
<1>3. PartitionStart \in Nat /\ PartitionStart >= SectorSize
  <2>1. ctx.StartingLBA \in Nat /\ ctx.StartingLBA >= 1
    BY <1>1, <1>2
  <2> DEFINE a == ctx.StartingLBA
  <2>2. a * SectorSize \in Nat /\ a * SectorSize >= 1 * SectorSize
    <3> HIDE DEF a
    <3>1. a \in Nat /\ a >= 1
      BY <2>1 DEF a
    <3> QED BY <1>1, <3>1
  <2> QED BY <1>1, <2>2 DEF PartitionStart
<1>4. NewSectorCount \in Data
  <2>1. ((DeviceSize - PartitionStart) \div SectorSize) \in Int
    BY <1>1, <1>3
  <2>2. NewSectorCount \in 0 .. UIntRange - 1
    BY <1>1, <2>1 DEF NewSectorCount
  <2> QED BY <2>2, DataAssumption
<1>5. ASSUME NEW j \in 1 .. Len(ChangeOps)
      PROVE  /\ ChangeOps[j].Size \in Nat
             /\ ChangeOps[j].Bytes \in [0 .. ChangeOps[j].Size - 1 -> Data]
             /\ MeantFor(j) \in Nat /\ MeantFor(j) >= SectorSize
  <2>1. /\ ChangeOps[j].Offset \in Nat /\ ChangeOps[j].Size \in Nat
        /\ ChangeOps[j].Bytes \in [0 .. ChangeOps[j].Size - 1 -> Data]
    BY <1>2 DEF ChangeOps
  <2>2. MeantFor(j) \in Nat /\ MeantFor(j) >= SectorSize
    BY <1>1, <1>3, <2>1 DEF MeantFor
  <2> QED BY <2>1, <2>2
<1>6. Len(ChangeOps) \in Nat /\ DOMAIN ChangeOps = 1 .. Len(ChangeOps)
  BY <1>2 DEF ChangeOps
<1> QED BY <1>2, <1>3, <1>4, <1>5, <1>6 DEF ImageSize, Image

\* Writing n units of a source that has at least n of them changes exactly
\* those units of the disk.
LEMMA OverwriteFacts ==
    ASSUME NEW m \in [Offsets -> Cell], NEW pos \in Nat, NEW n \in Nat,
           NEW src, \A k \in 0 .. n - 1 : src[k] \in Cell
    PROVE  /\ Overwrite(m, pos, src, n) \in [Offsets -> Cell]
           /\ \A i \in Offsets :
                 Overwrite(m, pos, src, n)[i] =
                     IF pos <= i /\ i < pos + n THEN src[i - pos] ELSE m[i]
BY SizeAssumption DEF Overwrite, Offsets

\* A disk has at least one sector, and the first one is on it.
LEMMA FirstSectorOnDisk == SectorSize <= BufferSize /\ 0 .. SectorSize - 1 \subseteq Offsets
<1>1. ASSUME NEW n \in Nat \ {0}, n % SectorSize = 0 PROVE SectorSize <= n
  <2>1. SectorSize \in Nat \ {0}
    BY SizeAssumption
  <2>2. SUFFICES ASSUME n < SectorSize PROVE FALSE
    BY <2>1
  <2>3. n % SectorSize = n
    BY <2>1, <2>2
  <2> QED BY <1>1, <2>3
<1> QED BY <1>1, SizeAssumption DEF Offsets

(***************************************************************************)
(* The invariant holds initially, and every step keeps it.                 *)
(***************************************************************************)
LEMMA InitIndInv == Init => IndInv
<1> SUFFICES ASSUME Init PROVE IndInv
  OBVIOUS
<1>1. TypeOK
  <2>1. medium \in [Offsets -> Cell] /\ buffer \in [0 .. BufferSize - 1 -> Cell]
    BY DEF Init, Cell
  <2>2. applied \in 0 .. Len(ChangeOps) /\ filePos \in 0 .. ImageSize
    BY JobFacts, SizeAssumption DEF Init
  <2>3. ctx \in Jobs /\ pc \in Places /\ report \in Reports
    BY DEF Init, Places, Reports
  <2>4. devPos \in Nat /\ todo \in 0 .. BufferSize /\ done \in Nat
    BY SizeAssumption DEF Init
  <2>5. firstSector \in Sector \cup {NULL} /\ abortWriting \in BOOLEAN /\ slipped \in BOOLEAN
    BY DEF Init
  <2> QED BY <2>1, <2>2, <2>3, <2>4, <2>5 DEF TypeOK
<1>2. ~TableOnDisk
  BY FirstSectorOnDisk DEF Init, TableOnDisk
<1> QED BY <1>1, <1>2 DEF Init, IndInv, Control, Progress, CopyRight,
           BodyRight, SectorRight, Blank, AfterLoop

\* What the invariant says of the data stays true when only the place changes.
LEMMA DataUnchanged ==
    ASSUME IndInv, UNCHANGED data, pc' \in Places, report' \in Reports
    PROVE  /\ TypeOK'
           /\ TableOnDisk' = TableOnDisk /\ WholeBody' = WholeBody
           /\ Kept' = Kept /\ KeptPatched' = KeptPatched /\ OpsFit' = OpsFit
           /\ BodyWritten(applied)' = BodyWritten(applied)
           /\ slipped' = slipped
<1>1. TypeOK'
  BY DEF IndInv, TypeOK, data, ImageSize, ChangeOps
<1>2. TableOnDisk' = TableOnDisk
  BY DEF TableOnDisk, data
<1>3. WholeBody' = WholeBody
  BY DEF WholeBody, BodyWritten, Covers, MeantFor, ChangeOps, PartitionStart, Image, ImageSize, data
<1>4. Kept' = Kept
  BY DEF Kept, Image, ImageSize, data
<1>5. KeptPatched' = KeptPatched
  BY DEF KeptPatched, BootSector, NewSectorCount, PartitionStart, Image, ImageSize, data
<1>6. OpsFit' = OpsFit
  BY DEF OpsFit, OpStart, PartitionOffset, ChangeOps, PartitionStart, data
<1>7. BodyWritten(applied)' = BodyWritten(applied)
  BY DEF BodyWritten, Covers, MeantFor, ChangeOps, PartitionStart, Image, ImageSize, data
<1>8. slipped' = slipped
  BY DEF data
<1> QED BY <1>1, <1>2, <1>3, <1>4, <1>5, <1>6, <1>7, <1>8

\* The steps of pure control: the drive is opened, the user answers the
\* message box, the loop ends, resize2fs runs, the change file is parsed.
LEMMA ControlStepsKeep ==
    ASSUME IndInv,
           \/ CheckLength \/ OpenDrive \/ StopOnAbort \/ AskRetry \/ EndLoop
           \/ RunResizer \/ ParseChangeFile \/ AppliedAll
    PROVE  IndInv'
<1> USE DEF Goto, Finish
<1>1. UNCHANGED data /\ pc' \in Places /\ report' \in Reports
  BY DEF IndInv, TypeOK, CheckLength, OpenDrive, StopOnAbort, AskRetry, EndLoop,
         RunResizer, ParseChangeFile, AppliedAll, Places, Reports
<1>2. /\ TypeOK'
      /\ TableOnDisk' = TableOnDisk /\ WholeBody' = WholeBody
      /\ Kept' = Kept /\ KeptPatched' = KeptPatched /\ OpsFit' = OpsFit
      /\ BodyWritten(applied)' = BodyWritten(applied) /\ slipped' = slipped
  BY <1>1, DataUnchanged
<1>3. CASE pc' = "end"
  <2>1. (~slipped => ~TableOnDisk) /\ report' # "success"
    BY <1>3 DEF IndInv, Blank, CheckLength, OpenDrive, StopOnAbort, AskRetry, EndLoop,
         RunResizer, ParseChangeFile, AppliedAll
  <2> QED BY <1>2, <1>3, <2>1 DEF IndInv, Control, Progress, CopyRight, BodyRight,
             SectorRight, Blank, AfterLoop
<1>4. CASE (CheckLength \/ OpenDrive \/ AskRetry) /\ pc' # "end"
  <2>1. pc' \in {"clean", "attempt"} /\ report' = report
    BY <1>4 DEF CheckLength, OpenDrive, AskRetry
  <2>2. pc \in {"check", "open", "ask"} /\ applied' = applied
    BY <1>1, <1>4 DEF CheckLength, OpenDrive, AskRetry, data
  <2> QED BY <1>2, <1>4, <2>1, <2>2 DEF IndInv, Control, Progress, CopyRight, BodyRight,
             SectorRight, Blank, AfterLoop
<1>5. CASE EndLoop /\ pc' # "end"
  <2>1. /\ pc = "loop" /\ pc' \in {"resize", "final"} /\ report' = report
        /\ done >= ImageSize /\ firstSector # NULL
        /\ pc' = "resize" <=> ctx.Resize
    BY <1>5 DEF EndLoop
  <2>2. Kept /\ (~slipped => Copied(ImageSize))
    <3>1. filePos = ImageSize /\ Smaller(done, ImageSize) = ImageSize
      BY <2>1, JobFacts, SizeAssumption DEF IndInv, TypeOK, Progress, Smaller
    <3>2. done > 0
      BY <2>1 DEF IndInv, TypeOK, Control
    <3> QED BY <2>1, <3>1, <3>2 DEF IndInv, CopyRight
  <2>3. ~slipped => BodyWritten(0)
    BY <2>2 DEF BodyWritten, Copied
  <2>4. applied = 0
    BY <2>1 DEF IndInv, Control
  <2>5. pc' = "final" => (~slipped => WholeBody) /\ KeptPatched
    BY <2>1, <2>2, <2>3 DEF WholeBody, KeptPatched, BootSector, Kept
  <2>6. ctx' = ctx /\ firstSector' = firstSector /\ applied' = applied
    BY <1>1 DEF data
  <2>7. ~slipped => BodyWritten(applied)
    BY <2>3, <2>4
  <2> QED BY <1>2, <1>5, <2>1, <2>2, <2>4, <2>5, <2>6, <2>7 DEF IndInv, Control, Progress,
             CopyRight, BodyRight, SectorRight, Blank, AfterLoop
<1>6. CASE (RunResizer \/ ParseChangeFile) /\ pc' # "end"
  <2>1. /\ pc \in {"resizer", "parse"} /\ pc' \in {"parse", "apply"} /\ report' = report
        /\ pc' = "apply" => OpsFit
    BY <1>6 DEF RunResizer, ParseChangeFile
  <2>2. ctx' = ctx /\ firstSector' = firstSector /\ applied' = applied
    BY <1>1 DEF data
  <2> QED BY <1>2, <1>6, <2>1, <2>2 DEF IndInv, Control, Progress, CopyRight, BodyRight,
             SectorRight, Blank, AfterLoop
<1>7. CASE AppliedAll
  <2>1. pc = "apply" /\ pc' = "final" /\ report' = report /\ applied = Len(ChangeOps)
    BY <1>7 DEF AppliedAll
  <2>2. ctx' = ctx /\ firstSector' = firstSector /\ applied' = applied
    BY <1>1 DEF data
  <2>3. (~slipped => BodyWritten(Len(ChangeOps))) /\ ctx.Resize
    BY <2>1 DEF IndInv, BodyRight, Control, AfterLoop
  <2>4. ~slipped => WholeBody
    BY <2>3 DEF WholeBody
  <2>5. applied' = Len(ChangeOps')
    BY <2>1, <2>2 DEF ChangeOps
  <2> QED BY <1>2, <2>1, <2>2, <2>4, <2>5 DEF IndInv, Control, Progress, CopyRight, BodyRight,
             SectorRight, Blank, AfterLoop
<1>8. CASE StopOnAbort
  BY <1>3, <1>8 DEF StopOnAbort
<1> QED BY <1>3, <1>4, <1>5, <1>6, <1>7, <1>8

\* The Cancel button touches the flag alone.
LEMMA ClickCancelKeeps == IndInv /\ ClickCancel => IndInv'
BY SMTT(60) DEF ClickCancel, IndInv, TypeOK, Control, Progress, CopyRight, BodyRight,
       SectorRight, Blank, TableOnDisk, WholeBody, BodyWritten, Covers, MeantFor,
       Kept, KeptPatched, BootSector, NewSectorCount, Copied, BufferMatches, Want,
       OpsFit, OpStart, PartitionOffset, ChangeOps, PartitionStart, Image, ImageSize

\* diskpart blanks the first sector, or fails before or after doing so.
LEMMA RunDiskpartKeeps == ASSUME IndInv, RunDiskpart PROVE IndInv'
<1> USE DEF Goto, Finish
<1>1. /\ pc = "clean" /\ pc' \in {"open", "end"} /\ report' \in {"none", "error"}
      /\ pc' # "end" => report' = "none"
      /\ applied' = 0 /\ ctx' = ctx /\ slipped' = slipped
  BY DEF RunDiskpart, IndInv, Control
<1>2. medium' \in [Offsets -> Cell] /\ (~slipped => ~TableOnDisk')
  <2> DEFINE blank == [i \in 0 .. SectorSize - 1 |-> Zero]
  <2>1. \A k \in 0 .. SectorSize - 1 : blank[k] \in Cell /\ blank[k] = Zero
    BY DataAssumption DEF Cell
  <2>2. medium \in [Offsets -> Cell] /\ (~slipped => ~TableOnDisk)
    BY <1>1 DEF IndInv, TypeOK, Blank
  <2>3. CASE medium' = medium
    BY <2>2, <2>3 DEF TableOnDisk
  <2>4. CASE medium' = Cleaned
    <3>1. SectorSize \in Nat
      BY SizeAssumption
    <3>2. /\ Cleaned \in [Offsets -> Cell]
          /\ \A i \in Offsets : Cleaned[i] =
                IF 0 <= i /\ i < 0 + SectorSize THEN blank[i - 0] ELSE medium[i]
      <4> HIDE DEF blank
      <4> QED BY <2>1, <2>2, <3>1, OverwriteFacts DEF Cleaned, blank
    <3>3. \A i \in 0 .. SectorSize - 1 : Cleaned[i] = Zero
      BY <2>1, <3>1, <3>2, FirstSectorOnDisk
    <3> QED BY <2>4, <3>2, <3>3 DEF TableOnDisk
  <2> QED BY <2>3, <2>4 DEF RunDiskpart
<1>3. TypeOK'
  BY <1>1, <1>2 DEF RunDiskpart, IndInv, TypeOK, Places, Reports, ImageSize, ChangeOps
<1> QED BY <1>1, <1>2, <1>3 DEF IndInv, Control, Progress, CopyRight, BodyRight,
           SectorRight, Blank, AfterLoop

\* A new attempt starts from nothing, except for the image's file pointer.
LEMMA BeginAttemptKeeps == ASSUME IndInv, BeginAttempt PROVE IndInv'
<1> USE DEF Goto, Finish
<1>1. /\ pc = "attempt" /\ pc' \in {"loop", "end"} /\ report' \in {"none", "error"}
      /\ pc' = "loop" => report' = "none" /\ devPos' = 0
      /\ devPos' \in {0, devPos} /\ applied' = 0 /\ done' = 0 /\ firstSector' = NULL
      /\ ctx' = ctx /\ medium' = medium /\ filePos' = filePos /\ todo' = todo
      /\ abortWriting' = abortWriting /\ slipped' = slipped
      /\ buffer' \in [0 .. BufferSize - 1 -> Cell]
  BY DEF BeginAttempt, IndInv, Control, Cell
<1>2. TypeOK'
  BY <1>1 DEF IndInv, TypeOK, Places, Reports, ImageSize, ChangeOps
<1>3. ~slipped => ~TableOnDisk'
  BY <1>1 DEF IndInv, Blank, TableOnDisk
<1>4. pc' = "loop" => (Progress /\ CopyRight)'
  <2>1. ImageSize' \in Nat /\ filePos' \in 0 .. ImageSize' /\ SectorSize \in Nat \ {0}
    BY <1>1, JobFacts, SizeAssumption DEF IndInv, TypeOK, ImageSize
  <2>2. Smaller(done, ImageSize)' = 0
    BY <1>1, <2>1 DEF Smaller
  <2> QED BY <1>1, <2>1, <2>2 DEF Progress, CopyRight, Copied
<1> QED BY <1>1, <1>2, <1>3, <1>4 DEF IndInv, Control, Progress, CopyRight, BodyRight,
           SectorRight, Blank, AfterLoop

\* A chunk read from the image: the buffer matches the image if the file
\* pointer was where the loop counts it.
LEMMA ReadChunkKeeps == ASSUME IndInv, ReadChunk PROVE IndInv'
<1> USE DEF Goto, Finish
<1> DEFINE left == ImageSize - filePos
<1>1. /\ pc = "loop" /\ done < ImageSize /\ pc' \in {"write", "ask"} /\ report' = "none"
      /\ ctx' = ctx /\ medium' = medium /\ devPos' = devPos /\ done' = done
      /\ abortWriting' = abortWriting /\ applied' = 0 /\ slipped' = slipped
  BY DEF ReadChunk, IndInv, Control
<1>2. /\ ImageSize \in Nat /\ Image \in [0 .. ImageSize - 1 -> Data] /\ done \in Nat
      /\ filePos \in 0 .. ImageSize /\ SectorSize \in Nat \ {0} /\ BufferSize \in Nat
      /\ SectorSize <= BufferSize /\ devPos <= done /\ (~slipped => devPos = done)
      /\ buffer \in [0 .. BufferSize - 1 -> Cell]
  BY <1>1, JobFacts, SizeAssumption, FirstSectorOnDisk DEF IndInv, TypeOK, Control
<1>3. /\ Want \in 1 .. BufferSize /\ Want <= ImageSize - done
      /\ Want = ImageSize - done \/ Want = BufferSize
  BY <1>1, <1>2 DEF Want, Smaller
<1>4. ImageSize' = ImageSize /\ Image' = Image /\ ChangeOps' = ChangeOps /\ Want' = Want
  BY <1>1 DEF ImageSize, Image, ChangeOps, Want
<1>5. ~slipped => ~TableOnDisk'
  BY <1>1 DEF IndInv, Blank, TableOnDisk
<1>6. CASE pc' = "ask"
  <2>1. filePos' \in 0 .. ImageSize /\ UNCHANGED <<buffer, todo, firstSector>>
    <3>1. PICK n \in 0 .. Smaller(Want - 1, left) : filePos' = filePos + n
      BY <1>6 DEF ReadChunk, Want
    <3>2. n \in Nat /\ n <= ImageSize - filePos
      BY <1>2, <1>3, <3>1 DEF Smaller
    <3> QED BY <1>2, <1>6, <3>1, <3>2 DEF ReadChunk
  <2>2. TypeOK'
    BY <1>1, <1>2, <1>4, <1>6, <2>1 DEF IndInv, TypeOK, Places, Reports
  <2> QED BY <1>1, <1>5, <1>6, <2>2 DEF IndInv, Control, Progress, CopyRight, BodyRight,
             SectorRight, Blank, AfterLoop
<1>7. CASE pc' = "write"
  <2> DEFINE b == Filled(Want)
  <2>1. /\ Want <= left /\ filePos' = filePos + Want /\ CacheFirstSector(b)
        /\ todo' = RoundUp(Want)
    BY <1>7 DEF ReadChunk, Want
  <2>2. /\ b \in [0 .. BufferSize - 1 -> Cell]
        /\ \A j \in 0 .. Want - 1 : b[j] = Image[filePos + j]
    <3>1. \A j \in 0 .. Want - 1 : filePos + j \in 0 .. ImageSize - 1 /\ j \in 0 .. BufferSize - 1
      BY <1>2, <1>3, <2>1
    <3>2. \A j \in 0 .. BufferSize - 1 : b[j] = IF j < Want THEN Image[filePos + j] ELSE buffer[j]
      BY DEF Filled
    <3>3. \A j \in 0 .. BufferSize - 1 : b[j] \in Cell
      <4> TAKE j \in 0 .. BufferSize - 1
      <4> HIDE DEF b
      <4>1. CASE j < Want
        <5>1. j \in 0 .. Want - 1
          BY <1>2, <1>3, <4>1
        <5>2. Image[filePos + j] \in Data
          BY <1>2, <3>1, <5>1
        <5> QED BY <3>2, <4>1, <5>2 DEF Cell
      <4>2. CASE ~(j < Want)
        BY <1>2, <3>2, <4>2
      <4> QED BY <4>1, <4>2
    <3>4. b \in [0 .. BufferSize - 1 -> Cell]
      BY <3>3 DEF Filled
    <3> QED BY <1>2, <1>3, <3>1, <3>2, <3>4
  <2>3a. filePos >= done
    BY <1>1, <1>2 DEF IndInv, Progress, Smaller
  <2>3. todo' \in 0 .. BufferSize
    BY <1>2, <1>3, <2>1, RoundUpFacts
  <2> HIDE DEF b
  <2>4. CASE done = 0
    <3>1. /\ firstSector' = [j \in 0 .. SectorSize - 1 |-> b[j]]
          /\ buffer' = [j \in 0 .. BufferSize - 1 |-> IF j < SectorSize THEN Zero ELSE b[j]]
      BY <1>1, <2>1, <2>4 DEF IndInv, Control, CacheFirstSector, FirstSectorCut
    <3>2. firstSector' \in Sector /\ firstSector' # NULL
      BY <1>2, <2>2, <3>1, DataAssumption DEF Sector
    <3>3. buffer' \in [0 .. BufferSize - 1 -> Cell]
      BY <2>2, <3>1, DataAssumption DEF Cell
    <3>4. \A j \in 0 .. SectorSize - 1 : buffer'[j] = Zero
      BY <1>2, <3>1
    <3>5. ASSUME filePos' = done + Want PROVE Kept' /\ BufferMatches' /\ Copied(done)'
      <4>1. filePos = 0
        BY <1>2, <1>3, <2>1, <2>4, <3>5
      <4>2. \A i \in 0 .. Smaller(SectorSize, ImageSize) - 1 : i \in 0 .. SectorSize - 1 /\ i \in 0 .. Want - 1
        BY <1>2, <1>3, <2>4 DEF Smaller
      <4>3. Kept'
        BY <1>2, <1>4, <2>2, <3>1, <4>1, <4>2 DEF Kept
      <4>4. BufferMatches'
        BY <1>1, <1>2, <1>3, <1>4, <2>2, <2>4, <3>1, <4>1 DEF BufferMatches
      <4>5. Copied(done)'
        BY <1>1, <1>2, <2>4 DEF Copied
      <4> QED BY <4>3, <4>4, <4>5
    <3>6. TypeOK'
      BY <1>1, <1>2, <1>3, <1>4, <1>7, <2>1, <2>3, <3>2, <3>3 DEF IndInv, TypeOK, Places, Reports
    <3>7. Progress'
      BY <1>1, <1>2, <1>3, <1>4, <1>7, <2>1, <2>4, <2>3a, <3>4 DEF Progress, RoundUp
    <3>8. CopyRight'
      BY <1>1, <1>4, <1>7, <3>5 DEF CopyRight
    <3> QED BY <1>1, <1>2, <1>5, <1>7, <3>2, <3>6, <3>7, <3>8 DEF IndInv, Control, BodyRight,
               SectorRight, Blank, AfterLoop
  <2>5. CASE done # 0
    <3>1. firstSector # NULL /\ done >= SectorSize
      BY <1>1, <2>5 DEF IndInv, Control, Progress
    <3>2. buffer' = b /\ firstSector' = firstSector
      BY <2>1, <3>1 DEF CacheFirstSector
    <3>3. ASSUME filePos' = done + Want
          PROVE  Kept' /\ BufferMatches' /\ (~slipped' => Copied(done)')
      <4>1. filePos = done /\ Smaller(done, ImageSize) = done
        BY <1>1, <1>2, <1>3, <2>1, <3>3 DEF Smaller
      <4>2. Kept /\ (~slipped => Copied(done))
        BY <1>1, <1>2, <2>5, <4>1 DEF IndInv, CopyRight
      <4>3. Kept' /\ (~slipped' => Copied(done)')
        BY <1>1, <1>4, <3>2, <4>2 DEF Kept, Copied
      <4>4. BufferMatches'
        BY <1>1, <1>2, <1>3, <1>4, <2>2, <3>1, <3>2, <4>1 DEF BufferMatches
      <4> QED BY <4>3, <4>4
    <3>4. TypeOK'
      BY <1>1, <1>2, <1>3, <1>4, <1>7, <2>1, <2>2, <2>3, <3>2 DEF IndInv, TypeOK, Places, Reports
    <3>5. Progress'
      BY <1>1, <1>2, <1>3, <1>4, <1>7, <2>1, <2>5, <2>3a, <3>1 DEF Progress, RoundUp
    <3>6. CopyRight'
      BY <1>1, <1>4, <1>7, <3>3 DEF CopyRight
    <3> QED BY <1>1, <1>2, <1>5, <1>7, <3>1, <3>2, <3>4, <3>5, <3>6 DEF IndInv, Control, BodyRight,
               SectorRight, Blank, AfterLoop
  <2> QED BY <2>4, <2>5
<1> QED BY <1>1, <1>6, <1>7

\* A chunk written to the disk.  The first chunk's first sector is blank, the
\* others lie behind it; a failed write ends the attempt.  If SeekRel fails
\* nothing is known of the disk any more.
LEMMA WriteChunkKeeps == ASSUME IndInv, WriteChunk PROVE IndInv'
<1> USE DEF Goto, Finish
<1>1. /\ pc = "write" /\ pc' \in {"loop", "ask"} /\ report' = "none" /\ applied' = 0
      /\ UNCHANGED <<ctx, filePos, buffer, todo, firstSector, abortWriting>>
  BY DEF WriteChunk, IndInv, Control
<1>2. /\ ImageSize \in 0 .. DeviceSize /\ done \in Nat /\ filePos \in 0 .. ImageSize
      /\ SectorSize \in Nat \ {0} /\ BufferSize \in Nat \ {0} /\ DeviceSize \in Nat
      /\ devPos \in Nat /\ devPos <= done /\ (~slipped => devPos = done)
      /\ done < ImageSize /\ (done = 0 \/ done >= SectorSize) /\ slipped \in BOOLEAN
      /\ medium \in [Offsets -> Cell] /\ buffer \in [0 .. BufferSize - 1 -> Cell]
      /\ firstSector # NULL
  BY <1>1, JobFacts, SizeAssumption DEF IndInv, TypeOK, Control, Progress, AfterLoop
<1>3. /\ Want \in 1 .. BufferSize /\ Want <= ImageSize - done
      /\ Want = ImageSize - done \/ Want = BufferSize
  BY <1>2 DEF Want, Smaller
<1>4. /\ todo \in Want .. BufferSize /\ todo >= SectorSize
      /\ Want = BufferSize => todo = Want
  <2>1. todo = RoundUp(Want)
    BY <1>1 DEF IndInv, Progress
  <2>2. Want \in 0 .. BufferSize /\ Want > 0
    BY <1>2, <1>3
  <2> HIDE DEF Want
  <2> QED BY <2>1, <2>2, RoundUpFacts
<1>5. ImageSize' = ImageSize /\ Image' = Image /\ ChangeOps' = ChangeOps
  BY <1>1 DEF ImageSize, Image, ChangeOps
<1>6. PICK n \in 0 .. todo :
         /\ medium' = Overwrite(medium, devPos, buffer, n)
         /\ pc' = "loop" => n = todo
  BY <1>1, <1>2, <1>3, <1>4 DEF WriteChunk
<1>7. n \in Nat /\ n <= BufferSize
  BY <1>2, <1>3, <1>4, <1>6
<1>8. /\ medium' \in [Offsets -> Cell]
      /\ \A i \in Offsets : medium'[i] =
           IF devPos <= i /\ i < devPos + n THEN buffer[i - devPos] ELSE medium[i]
  <2>1. \A k \in 0 .. n - 1 : buffer[k] \in Cell
    BY <1>2, <1>7
  <2>2. medium \in [Offsets -> Cell] /\ devPos \in Nat /\ n \in Nat
    BY <1>2, <1>7
  <2>3. /\ Overwrite(medium, devPos, buffer, n) \in [Offsets -> Cell]
        /\ \A i \in Offsets : Overwrite(medium, devPos, buffer, n)[i] =
             IF devPos <= i /\ i < devPos + n THEN buffer[i - devPos] ELSE medium[i]
    BY <2>1, <2>2, OverwriteFacts
  <2> QED BY <1>6, <2>3
<1>slip. ~slipped' => ~slipped
  BY <1>1 DEF WriteChunk, SeekRel
<1>9. ~slipped' => ~TableOnDisk'
  <2>0. SUFFICES ASSUME ~slipped, devPos = done PROVE ~TableOnDisk'
    BY <1>2, <1>slip
  <2>1. \A i \in 0 .. SectorSize - 1 : i \in Offsets /\ medium[i] \in {Zero, Junk}
    BY <1>1, <2>0, FirstSectorOnDisk DEF IndInv, Blank, TableOnDisk
  <2>2. done = 0 => \A j \in 0 .. SectorSize - 1 : buffer[j] = Zero
    BY <1>1 DEF IndInv, Progress
  <2>3. ASSUME NEW i \in 0 .. SectorSize - 1 PROVE medium'[i] \in {Zero, Junk}
    <3>1. CASE done <= i /\ i < done + n
      BY <1>2, <1>8, <2>0, <2>1, <2>2, <3>1
    <3>2. CASE ~(done <= i /\ i < done + n)
      BY <1>8, <2>0, <2>1, <3>2
    <3> QED BY <3>1, <3>2
  <2> QED BY <2>3 DEF TableOnDisk
<1>10. CASE pc' = "ask"
  <2>1. UNCHANGED <<devPos, done, slipped>>
    BY <1>10 DEF WriteChunk
  <2>2. TypeOK'
    BY <1>1, <1>2, <1>5, <1>8, <1>10, <2>1 DEF IndInv, TypeOK, Places, Reports
  <2> QED BY <1>1, <1>9, <1>10, <2>1, <2>2 DEF IndInv, Control, Progress, CopyRight, BodyRight,
             SectorRight, Blank, AfterLoop
<1>11. CASE pc' = "loop"
  <2>1. /\ devPos' \in {devPos, devPos + todo} /\ done' = done + todo /\ n = todo
        /\ ~slipped' => devPos' = devPos + todo
        /\ slipped' \in BOOLEAN
    <3>1. done' = done + todo /\ SeekRel(devPos, todo)
      BY <1>11 DEF WriteChunk, AfterWrite
    <3> QED BY <1>2, <1>6, <1>11, <3>1 DEF SeekRel
  <2>1a. devPos' \in Nat /\ devPos' <= done' /\ (~slipped' => devPos' = done')
    BY <1>2, <1>3, <1>4, <1>slip, <2>1
  <2>2. TypeOK'
    BY <1>1, <1>2, <1>3, <1>4, <1>5, <1>8, <1>11, <2>1, <2>1a DEF IndInv, TypeOK, Places, Reports
  <2>3. Smaller(done', ImageSize') = done + Want
    BY <1>2, <1>3, <1>4, <1>5, <2>1 DEF Smaller
  <2>4. Progress'
    <3>1. filePos' >= done + Want
      BY <1>1 DEF IndInv, Progress
    <3> QED BY <1>2, <1>3, <1>4, <1>11, <2>1, <2>3, <3>1 DEF Progress
  <2>5. CopyRight'
    <3>1. SUFFICES ASSUME filePos' = done + Want PROVE (~slipped' => Copied(filePos)') /\ Kept'
      BY <1>11, <2>3 DEF CopyRight
    <3>2. (~slipped => Copied(done)) /\ Kept /\ BufferMatches
      BY <1>1, <3>1 DEF IndInv, CopyRight
    <3>3. Kept'
      BY <1>1, <1>5, <3>2 DEF Kept
    <3>4. ASSUME ~slipped', NEW i \in SectorSize .. done + Want - 1 PROVE medium'[i] = Image[i]
      <4>0. ~slipped /\ devPos = done
        BY <1>2, <1>slip, <3>4
      <4>1. i \in Offsets
        BY <1>2, <1>3 DEF Offsets
      <4>2. CASE i < done
        <5>1. medium[i] = Image[i]
          BY <1>2, <3>2, <4>0, <4>2 DEF Copied
        <5> QED BY <1>2, <1>8, <4>0, <4>1, <4>2, <5>1
      <4>3. CASE i >= done
        <5>1. i - done \in 0 .. Want - 1 /\ done + (i - done) = i
          BY <1>2, <1>3, <4>3
        <5>2. buffer[i - done] = Image[i]
          BY <1>2, <3>2, <5>1 DEF BufferMatches
        <5> QED BY <1>2, <1>3, <1>4, <1>8, <2>1, <4>0, <4>1, <4>3, <5>1, <5>2
      <4> QED BY <1>2, <4>2, <4>3
    <3>5. ~slipped' => \A i \in SectorSize .. filePos' - 1 : medium'[i] = Image'[i]
      BY <1>2, <1>3, <1>5, <3>1, <3>4, SMTT(30)
    <3> QED BY <3>3, <3>5 DEF Copied
  <2> QED BY <1>1, <1>2, <1>3, <1>4, <1>9, <1>11, <2>1, <2>1a, <2>2, <2>4, <2>5 DEF IndInv, Control,
             BodyRight, SectorRight, Blank, AfterLoop
<1> QED BY <1>1, <1>10, <1>11

\* The new length goes into the cached boot sector, or the resize is refused.
LEMMA PrepareResizeKeeps == ASSUME IndInv, PrepareResize PROVE IndInv'
<1> USE DEF Goto, Finish
<1>1. /\ pc = "resize" /\ pc' \in {"resizer", "end"} /\ report' \in {"none", "error", "skipped"}
      /\ pc' # "end" => report' = "none"
      /\ UNCHANGED <<ctx, medium, devPos, filePos, buffer, todo, done, abortWriting, applied, slipped>>
  BY DEF PrepareResize, IndInv, Control
<1>2. firstSector \in Sector /\ NewSectorCount \in Cell /\ ctx.Resize /\ Kept
  BY <1>1, JobFacts DEF IndInv, TypeOK, Control, AfterLoop, SectorRight, Cell
<1>3. ImageSize' = ImageSize /\ Image' = Image /\ ChangeOps' = ChangeOps
      /\ NewSectorCount' = NewSectorCount
  BY <1>1 DEF ImageSize, Image, ChangeOps, NewSectorCount, PartitionStart
<1>4. ~slipped => ~TableOnDisk'
  BY <1>1 DEF IndInv, Blank, TableOnDisk
<1>5. CASE pc' = "end"
  <2>1. firstSector' = firstSector
    BY <1>5 DEF PrepareResize
  <2>2. TypeOK'
    BY <1>1, <1>3, <2>1 DEF IndInv, TypeOK, Places, Reports
  <2> QED BY <1>1, <1>4, <1>5, <2>2 DEF IndInv, Control, Progress, CopyRight, BodyRight,
             SectorRight, Blank, AfterLoop
<1>6. CASE pc' = "resizer"
  <2>1. firstSector' = [firstSector EXCEPT ![CountField] = NewSectorCount]
    BY <1>6 DEF PrepareResize
  <2>2. firstSector' \in Sector /\ firstSector' # NULL
    BY <1>2, <2>1, DataAssumption DEF Sector
  <2>3. KeptPatched'
    BY <1>1, <1>2, <1>3, <2>1, SizeAssumption DEF KeptPatched, BootSector, Kept, Sector, Smaller
  <2>4. TypeOK'
    BY <1>1, <1>3, <2>2 DEF IndInv, TypeOK, Places, Reports
  <2>5. ~slipped => BodyWritten(applied)'
    BY <1>1 DEF IndInv, BodyRight, BodyWritten, Covers, MeantFor, ChangeOps,
                PartitionStart, Image, ImageSize
  <2> QED BY <1>1, <1>2, <1>4, <1>6, <2>2, <2>3, <2>4, <2>5 DEF IndInv, Control, Progress, CopyRight,
             BodyRight, SectorRight, Blank, AfterLoop
<1> QED BY <1>1, <1>5, <1>6

\* Without a wrap the code writes an operation where it belongs.
LEMMA OpStartIsMeant ==
    ASSUME OffsetFits, ctx \in Jobs, NEW j \in 1 .. Len(ChangeOps)
    PROVE  OpStart(j) = MeantFor(j)
<1>1. PartitionStart \in Nat /\ UIntRange \in Nat \ {0} /\ PartitionStart < UIntRange
  BY JobFacts, SizeAssumption DEF OffsetFits, PartitionStart
<1>2. PartitionOffset = PartitionStart
  BY <1>1 DEF PartitionOffset
<1> QED BY <1>2 DEF OpStart, MeantFor

\* The next operation of the change file, on top of the earlier ones.
LEMMA ApplyChangeKeeps == ASSUME OffsetFits, IndInv, ApplyChange PROVE IndInv'
<1> USE DEF Goto, Finish
<1> DEFINE j == applied + 1
           start == MeantFor(j)
           size == ChangeOps[j].Size
           bytes == ChangeOps[j].Bytes
<1>1. /\ pc = "apply" /\ pc' \in {"apply", "end"} /\ report' \in {"none", "error"}
      /\ pc' = "apply" => report' = "none"
      /\ UNCHANGED <<ctx, filePos, buffer, todo, firstSector, done, abortWriting, slipped>>
      /\ applied' \in {applied, j}
  BY DEF ApplyChange, IndInv, Control
<1>2. /\ ctx \in Jobs /\ applied \in 0 .. Len(ChangeOps) /\ j <= Len(ChangeOps)
      /\ medium \in [Offsets -> Cell] /\ ImageSize \in 0 .. DeviceSize
      /\ Len(ChangeOps) \in Nat /\ SectorSize \in Nat \ {0} /\ DeviceSize \in Nat
  BY JobFacts, SizeAssumption DEF ApplyChange, IndInv, TypeOK
<1>3. j \in 1 .. Len(ChangeOps) /\ j \in Nat
  BY <1>2
<1>4. /\ size \in Nat /\ bytes \in [0 .. size - 1 -> Data]
      /\ start \in Nat /\ start >= SectorSize /\ OpStart(j) = start
  BY <1>2, <1>3, JobFacts, OpStartIsMeant
<1>5. ImageSize' = ImageSize /\ Image' = Image /\ ChangeOps' = ChangeOps
  BY <1>1 DEF ImageSize, Image, ChangeOps
<1>6. PICK n \in 0 .. size :
         /\ medium' = Overwrite(medium, start, bytes, n)
         /\ pc' = "apply" => n = size /\ applied' = j
         /\ devPos' = start
  BY <1>1, <1>4 DEF ApplyChange, AfterWrite
<1>7. /\ medium' \in [Offsets -> Cell]
      /\ \A i \in Offsets : medium'[i] =
           IF start <= i /\ i < start + n THEN bytes[i - start] ELSE medium[i]
  <2> HIDE DEF start, size, bytes
  <2>1. n \in Nat /\ \A k \in 0 .. n - 1 : bytes[k] \in Cell
    BY <1>4, <1>6 DEF Cell
  <2>2. /\ Overwrite(medium, start, bytes, n) \in [Offsets -> Cell]
        /\ \A i \in Offsets : Overwrite(medium, start, bytes, n)[i] =
             IF start <= i /\ i < start + n THEN bytes[i - start] ELSE medium[i]
    BY <1>2, <1>4, <2>1, OverwriteFacts
  <2> QED BY <1>6, <2>2
<1>8. ~slipped => ~TableOnDisk'
  <2> HIDE DEF start, size, bytes
  <2>0. SUFFICES ASSUME ~slipped PROVE ~TableOnDisk'
    OBVIOUS
  <2>1. \A i \in 0 .. SectorSize - 1 : i \in Offsets /\ medium[i] \in {Zero, Junk}
    BY <1>1, <2>0, FirstSectorOnDisk DEF IndInv, Blank, TableOnDisk
  <2>2. \A i \in 0 .. SectorSize - 1 : medium'[i] = medium[i]
    BY <1>2, <1>4, <1>7, <2>1
  <2> QED BY <2>1, <2>2 DEF TableOnDisk
<1>9. TypeOK'
  <2>1. applied' \in 0 .. Len(ChangeOps)
    BY <1>1, <1>2, <1>3
  <2>2. devPos' \in Nat
    BY <1>4, <1>6
  <2> QED BY <1>1, <1>5, <1>7, <2>1, <2>2 DEF IndInv, TypeOK, Places, Reports
<1>10. CASE pc' = "end"
  BY <1>1, <1>8, <1>9, <1>10 DEF IndInv, Control, Progress, CopyRight, BodyRight,
     SectorRight, Blank, AfterLoop
<1>11. CASE pc' = "apply"
  <2>1. n = size /\ applied' = j
    BY <1>6, <1>11
  <2>2. ~slipped => BodyWritten(applied)
    BY <1>1 DEF IndInv, BodyRight
  <2>3. \A l : MeantFor(l)' = MeantFor(l) /\ (\A i : Covers(l, i)' = Covers(l, i))
    BY <1>1 DEF MeantFor, Covers, ChangeOps, PartitionStart
  <2>4. \A i : Covers(j, i) = (start <= i /\ i < start + size)
    BY DEF Covers
  <2>5. ASSUME ~slipped, NEW i \in SectorSize .. ImageSize - 1, \A l \in 1 .. j : ~Covers(l, i)
        PROVE  medium'[i] = Image[i]
    <3>1. i \in Offsets /\ ~(start <= i /\ i < start + size)
      <4> HIDE DEF j, start, size
      <4>1. j \in 1 .. j
        BY <1>3
      <4>2. i \in Offsets
        BY <1>2 DEF Offsets
      <4> QED BY <2>4, <2>5, <4>1, <4>2
    <3>2. medium[i] = Image[i]
      <4>1. \A l \in 1 .. applied : ~Covers(l, i)
        BY <1>2, <2>5
      <4> QED BY <2>2, <2>5, <4>1 DEF BodyWritten
    <3> HIDE DEF start, size, bytes
    <3> QED BY <1>7, <2>1, <3>1, <3>2
  <2>6. ASSUME ~slipped, NEW m \in 1 .. j, NEW i \in Offsets, Covers(m, i),
               \A l \in m + 1 .. j : ~Covers(l, i)
        PROVE  medium'[i] = ChangeOps[m].Bytes[i - MeantFor(m)]
    <3>1. CASE m = j
      <4>1. start <= i /\ i < start + size
        BY <2>4, <2>6, <3>1
      <4>2. medium'[i] = bytes[i - start]
        <5> HIDE DEF start, size, bytes
        <5> QED BY <1>7, <2>1, <4>1
      <4> QED BY <3>1, <4>2
    <3>2. CASE m # j
      <4>1. m \in 1 .. applied /\ j \in m + 1 .. j
        BY <1>2, <1>3, <3>2
      <4>2. \A l \in m + 1 .. applied : ~Covers(l, i)
        BY <1>2, <2>6
      <4>3. medium[i] = ChangeOps[m].Bytes[i - MeantFor(m)]
        BY <2>2, <2>6, <4>1, <4>2 DEF BodyWritten
      <4>4. ~(start <= i /\ i < start + size)
        BY <2>4, <2>6, <4>1
      <4>5. medium'[i] = medium[i]
        <5> HIDE DEF start, size, bytes
        <5> QED BY <1>7, <2>1, <4>4
      <4> QED BY <4>3, <4>5
    <3> QED BY <3>1, <3>2
  <2>7. ~slipped => BodyWritten(applied)'
    <3> HIDE DEF j, start, size, bytes
    <3> QED BY <1>5, <2>1, <2>3, <2>5, <2>6 DEF BodyWritten
  <2>8. OpsFit' /\ KeptPatched' /\ ctx.Resize' /\ firstSector' # NULL
    BY <1>1 DEF IndInv, Control, AfterLoop, SectorRight, KeptPatched, BootSector, NewSectorCount,
                OpsFit, OpStart, PartitionOffset, PartitionStart, ChangeOps, Image, ImageSize
  <2> QED BY <1>1, <1>8, <1>9, <1>11, <2>7, <2>8 DEF IndInv, Control, Progress, CopyRight, BodyRight,
             SectorRight, Blank, AfterLoop
<1> QED BY <1>1, <1>10, <1>11

\* The boot sector, last: whatever of it reaches the disk, the body is there.
LEMMA WriteFirstSectorKeeps == ASSUME OffsetFits, IndInv, WriteFirstSector PROVE IndInv'
<1> USE DEF Goto, Finish
<1>1. /\ pc = "final" /\ pc' = "end" /\ report' \in {"success", "error"}
      /\ UNCHANGED <<ctx, filePos, buffer, todo, firstSector, done, abortWriting, applied, slipped>>
      /\ devPos' \in {devPos, 0}
  BY DEF WriteFirstSector, AfterWrite
<1>2. /\ ctx \in Jobs /\ medium \in [Offsets -> Cell] /\ firstSector \in Sector
      /\ ~slipped => WholeBody
      /\ SectorSize \in Nat \ {0} /\ ImageSize \in 0 .. DeviceSize
      /\ DeviceSize \in Nat /\ Len(ChangeOps) \in Nat
  BY <1>1, JobFacts, SizeAssumption DEF IndInv, TypeOK, Control, AfterLoop, BodyRight
<1>3. ImageSize' = ImageSize /\ Image' = Image /\ ChangeOps' = ChangeOps
  BY <1>1 DEF ImageSize, Image, ChangeOps
<1>4. PICK n \in 0 .. SectorSize :
        medium' = medium \/ medium' = Overwrite(medium, 0, firstSector, n)
  BY <1>2 DEF WriteFirstSector
<1>5. medium' \in [Offsets -> Cell] /\ \A i \in Offsets : i >= SectorSize => medium'[i] = medium[i]
  <2>1. n \in Nat /\ n <= SectorSize /\ \A k \in 0 .. n - 1 : firstSector[k] \in Cell
    BY <1>2, <1>4 DEF Sector
  <2>2. /\ Overwrite(medium, 0, firstSector, n) \in [Offsets -> Cell]
        /\ \A i \in Offsets : Overwrite(medium, 0, firstSector, n)[i] =
             IF 0 <= i /\ i < 0 + n THEN firstSector[i - 0] ELSE medium[i]
    BY <1>2, <2>1, OverwriteFacts
  <2> QED BY <1>2, <1>4, <2>1, <2>2 DEF Offsets
<1>6. TypeOK'
  BY <1>1, <1>3, <1>5 DEF IndInv, TypeOK, Places, Reports
<1>7. ~slipped => WholeBody'
  <2>0. SUFFICES ASSUME ~slipped PROVE WholeBody'
    OBVIOUS
  <2> DEFINE k == IF ctx.Resize THEN Len(ChangeOps) ELSE 0
  <2>1. k \in 0 .. Len(ChangeOps) /\ k \in Nat
    BY <1>2
  <2>2. BodyWritten(k)
    BY <1>2, <2>0 DEF WholeBody
  <2>3. \A l : MeantFor(l)' = MeantFor(l) /\ (\A i : Covers(l, i)' = Covers(l, i))
    BY <1>1 DEF MeantFor, Covers, ChangeOps, PartitionStart
  <2>4. ASSUME NEW i \in SectorSize .. ImageSize - 1 PROVE medium'[i] = medium[i]
    BY <1>2, <1>5 DEF Offsets
  <2>5. ASSUME NEW l \in 1 .. k, NEW i \in Offsets, Covers(l, i) PROVE medium'[i] = medium[i]
    <3>1. MeantFor(l) \in Nat /\ MeantFor(l) >= SectorSize /\ MeantFor(l) <= i
      BY <1>2, <2>1, <2>5, JobFacts DEF Covers
    <3> QED BY <1>2, <1>5, <3>1 DEF Offsets
  <2>6. (IF ctx.Resize THEN Len(ChangeOps) ELSE 0)' = k
    BY <1>1, <1>3
  <2> HIDE DEF k
  <2> QED BY <1>3, <2>2, <2>3, <2>4, <2>5, <2>6 DEF WholeBody, BodyWritten
<1> QED BY <1>1, <1>6, <1>7 DEF IndInv, Control, Progress, CopyRight, BodyRight,
           SectorRight, Blank, AfterLoop

\* Every step of the thread and of the window keeps the invariant.
LEMMA NextKeepsIndInv == ASSUME OffsetFits, IndInv, [Next]_vars PROVE IndInv'
<1>1. CASE UNCHANGED vars
  BY <1>1, SMTT(60) DEF vars, IndInv, TypeOK, Control, Progress, CopyRight, BodyRight,
     SectorRight, Blank, TableOnDisk, WholeBody, BodyWritten, Covers, MeantFor,
     Kept, KeptPatched, BootSector, NewSectorCount, Copied, BufferMatches, Want,
     OpsFit, OpStart, PartitionOffset, ChangeOps, PartitionStart, Image, ImageSize
<1>2. CASE Next
  BY <1>2, ControlStepsKeep, ClickCancelKeeps, RunDiskpartKeeps, BeginAttemptKeeps,
     ReadChunkKeeps, WriteChunkKeeps, PrepareResizeKeeps, ApplyChangeKeeps,
     WriteFirstSectorKeeps DEF Next, WriteThread, AttemptWrite
<1> QED BY <1>1, <1>2

(***************************************************************************)
(* The theorems.                                                           *)
(***************************************************************************)
LEMMA IndInvAlways == ASSUME OffsetFits PROVE Spec => []IndInv
<1>1. Init => IndInv
  BY InitIndInv
<1>2. IndInv /\ [Next]_vars => IndInv'
  BY NextKeepsIndInv
<1> QED BY <1>1, <1>2, PTL DEF Spec

\* Every variable of the write thread keeps its type; AttemptWrite never asks
\* the disk to write more than its buffer holds.
THEOREM TypeCorrect == ASSUME OffsetFits PROVE Spec => []TypeOK
<1>1. IndInv => TypeOK
  BY DEF IndInv
<1> QED BY <1>1, IndInvAlways, PTL

\* Wherever the job is cut off, a disk that shows a partition table of the
\* image holds everything that table speaks of, if no SeekRel has failed.
THEOREM TableComesLast == ASSUME OffsetFits PROVE Spec => []PartitionTableLast
<1>1. IndInv => PartitionTableLast
  BY DEF IndInv, PartitionTableLast, Blank, BodyRight
<1> QED BY <1>1, IndInvAlways, PTL

\* A job reported as successful in which no SeekRel has failed has written
\* everything past the first sector, in spite of the retries that leave the
\* image's file pointer where it is.
THEOREM SuccessIsTrueOfTheBody == ASSUME OffsetFits PROVE Spec => []SuccessMeansBodyWritten
<1>1. IndInv => SuccessMeansBodyWritten
  BY DEF IndInv, SuccessMeansBodyWritten, Control, BodyRight
<1> QED BY <1>1, IndInvAlways, PTL

\* The sector AttemptWrite writes last is the image's first, with the new
\* partition length in it if the job resizes.
THEOREM KeptSectorIsRight == ASSUME OffsetFits PROVE Spec => []KeptSectorIsImages
<1>1. IndInv => KeptSectorIsImages
  BY DEF IndInv, KeptSectorIsImages, SectorRight, KeptPatched
<1> QED BY <1>1, IndInvAlways, PTL

(***************************************************************************)
(* Where a step may write.                                                 *)
(***************************************************************************)
\* Rounding up never goes below the length, and chunks of whole sectors that
\* were counted before may be taken out of the rounding.
LEMMA RoundUpShift ==
    ASSUME NEW p \in Nat, NEW n \in Nat
    PROVE  /\ RoundUp(n) \in Nat /\ RoundUp(n) >= n
           /\ p * SectorSize + RoundUp(n) = RoundUp(p * SectorSize + n)
           /\ \E q \in Nat : RoundUp(n) = q * SectorSize
<1> DEFINE S == SectorSize
           q == (n + S - 1) \div S
           r == (p * S + n + S - 1) \div S
<1>1. S \in Nat /\ S > 0 /\ p * S \in Nat
  BY SizeAssumption
<1>2. q \in Int /\ q * S \in Int /\ q * S <= n + S - 1 /\ n + S - 1 < q * S + S
  BY <1>1
<1>3. r \in Int /\ r * S \in Int /\ r * S <= p * S + n + S - 1 /\ p * S + n + S - 1 < r * S + S
  BY <1>1
<1>4. RoundUp(n) = q * S /\ RoundUp(p * S + n) = r * S
  BY DEF RoundUp
<1> HIDE DEF S, q, r
<1>5. (p + q) * S = p * S + q * S /\ (p + q) * S \in Int
  BY <1>1, <1>2
<1>6. r <= p + q
  <2>1. SUFFICES ASSUME r >= p + q + 1 PROVE FALSE
    BY <1>2, <1>3
  <2>2. r * S >= (p + q + 1) * S /\ (p + q + 1) * S = (p + q) * S + S
    BY <1>1, <1>2, <1>3, <2>1
  <2> QED BY <1>1, <1>2, <1>3, <1>5, <2>2
<1>7. r >= p + q
  <2>1. SUFFICES ASSUME r + 1 <= p + q PROVE FALSE
    BY <1>2, <1>3
  <2>2. (r + 1) * S <= (p + q) * S /\ (r + 1) * S = r * S + S
    BY <1>1, <1>2, <1>3, <2>1
  <2> QED BY <1>1, <1>2, <1>3, <1>5, <2>2
<1>8. q \in Nat
  <2>1. SUFFICES ASSUME q <= -1 PROVE FALSE
    BY <1>2
  <2>2. q * S <= (-1) * S /\ (-1) * S = -S
    BY <1>1, <1>2, <2>1
  <2> QED BY <1>1, <1>2, <2>2
<1>9. r = p + q
  BY <1>2, <1>3, <1>6, <1>7
<1>10. q * S >= n /\ q * S \in Nat
  BY <1>1, <1>2, <1>8
<1> QED BY <1>4, <1>5, <1>8, <1>9, <1>10 DEF S

\* AttemptWrite counts whole sectors: every chunk was rounded up.
WholeSectors == \E p \in Nat : done = p * SectorSize

LEMMA WholeSectorsKept == ASSUME IndInv, WholeSectors, [Next]_vars PROVE WholeSectors'
<1>1. CASE done' = done
  BY <1>1 DEF WholeSectors
<1>2. CASE BeginAttempt
  <2>1. done' = 0 * SectorSize /\ 0 \in Nat
    BY <1>2, SizeAssumption DEF BeginAttempt
  <2> QED BY <2>1 DEF WholeSectors
<1>3. CASE WriteChunk
  <2>1. PICK p \in Nat : done = p * SectorSize
    BY DEF WholeSectors
  <2>2. SectorSize \in Nat /\ ImageSize \in Nat /\ BufferSize \in Nat /\ done < ImageSize
        /\ done \in Nat /\ todo = RoundUp(Want)
    BY <1>3, JobFacts, SizeAssumption DEF IndInv, TypeOK, Progress, WriteChunk
  <2>3. Want \in Nat
    BY <2>2 DEF Want, Smaller
  <2>4. PICK q \in Nat : todo = q * SectorSize
    BY <2>1, <2>2, <2>3, RoundUpShift
  <2>5. done' \in {done, done + todo}
    BY <1>3 DEF WriteChunk
  <2>6. done + todo = (p + q) * SectorSize /\ p + q \in Nat
    BY <2>1, <2>2, <2>4
  <2> QED BY <2>1, <2>5, <2>6 DEF WholeSectors
<1>4. \/ done' = done \/ BeginAttempt \/ WriteChunk
  BY DEF Next, WriteThread, AttemptWrite, CheckLength, RunDiskpart, OpenDrive, ReadChunk, StopOnAbort,
     EndLoop, PrepareResize, RunResizer, ParseChangeFile, ApplyChange, AppliedAll, WriteFirstSector,
     AskRetry, ClickCancel, data, vars
<1> QED BY <1>1, <1>2, <1>3, <1>4

\* What WritesConfined says of one step.
Confined ==
    \A i \in Offsets : medium'[i] # medium[i] =>
         \/ pc \in {"clean", "final"} /\ i < SectorSize
         \/ pc = "write" /\ (slipped \/ done <= i) /\ i < RoundUp(ImageSize)
         \/ pc = "apply" /\ PartitionStart <= i

LEMMA StepConfined == ASSUME OffsetFits, IndInv, WholeSectors, [Next]_vars PROVE Confined
<1>0. /\ medium \in [Offsets -> Cell] /\ ctx \in Jobs /\ ImageSize \in Nat
      /\ SectorSize \in Nat \ {0} /\ BufferSize \in Nat \ {0} /\ Offsets \subseteq Nat
  BY JobFacts, SizeAssumption, SMTT(30) DEF IndInv, TypeOK, Offsets
<1>1. CASE UNCHANGED medium
  BY <1>1 DEF Confined
<1>2. CASE RunDiskpart
  <2>1. pc = "clean" /\ medium' \in {medium, Cleaned}
    BY <1>2 DEF RunDiskpart
  <2>2. \A i \in Offsets : Cleaned[i] # medium[i] => i < 0 + SectorSize
    BY <1>0 DEF Cleaned, Overwrite
  <2> QED BY <1>0, <2>1, <2>2 DEF Confined
<1>3. CASE WriteFirstSector
  <2>1. pc = "final"
    BY <1>3 DEF WriteFirstSector
  <2>2. PICK n \in 0 .. SectorSize : medium' \in {medium, Overwrite(medium, 0, firstSector, n)}
    BY <1>0, <1>3 DEF WriteFirstSector
  <2>3. \A i \in Offsets : Overwrite(medium, 0, firstSector, n)[i] # medium[i] => i < 0 + n
    BY <1>0 DEF Overwrite
  <2> QED BY <1>0, <2>1, <2>2, <2>3 DEF Confined
<1>4. CASE ApplyChange
  <2> DEFINE j == applied + 1
             bytes == ChangeOps[j].Bytes
  <2>1. /\ pc = "apply" /\ j \in 1 .. Len(ChangeOps)
    BY <1>0, <1>4, JobFacts DEF ApplyChange, IndInv, TypeOK
  <2>2. OpStart(j) = MeantFor(j) /\ MeantFor(j) \in Nat
    BY <1>0, <2>1, JobFacts, OpStartIsMeant
  <2>3. PartitionStart \in Nat /\ ChangeOps[j].Offset \in Nat
    BY <1>0, <2>1, JobFacts, JobAssumption DEF ChangeOps
  <2>4. MeantFor(j) >= PartitionStart
    BY <2>3 DEF MeantFor
  <2>5. PICK n : medium' = Overwrite(medium, OpStart(j), bytes, n)
    BY <1>4 DEF ApplyChange
  <2>6. \A i \in Offsets : medium'[i] # medium[i] => OpStart(j) <= i
    BY <1>0, <2>5 DEF Overwrite
  <2> HIDE DEF j, bytes
  <2>7. ASSUME NEW i \in Offsets, medium'[i] # medium[i] PROVE PartitionStart <= i
    <3>1. i \in Nat /\ MeantFor(j) <= i
      BY <1>0, <2>2, <2>6, <2>7
    <3> QED BY <2>2, <2>3, <2>4, <3>1
  <2> QED BY <2>1, <2>7 DEF Confined
<1>5. CASE WriteChunk
  <2>1. /\ pc = "write" /\ done < ImageSize /\ done \in Nat /\ todo = RoundUp(Want)
        /\ devPos \in Nat /\ devPos <= done /\ (~slipped => devPos = done)
    BY <1>5 DEF WriteChunk, IndInv, TypeOK, Control, Progress
  <2>2. /\ Want \in Nat
        /\ Want = ImageSize - done \/ (Want = BufferSize /\ done + Want <= ImageSize)
        /\ Want \in 0 .. BufferSize
    BY <1>0, <2>1 DEF Want, Smaller
  <2>3. PICK p \in Nat : done = p * SectorSize
    BY DEF WholeSectors
  <2>4. RoundUp(ImageSize) \in Nat /\ RoundUp(ImageSize) >= ImageSize /\ todo \in Nat
    BY <1>0, <2>1, <2>2, <2>3, RoundUpShift
  <2>5. done + todo <= RoundUp(ImageSize)
    <3>1. CASE Want = ImageSize - done
      <4>1. done + Want = ImageSize /\ Want \in Nat
        BY <1>0, <2>1, <2>2, <3>1
      <4>2. p * SectorSize + RoundUp(Want) = RoundUp(p * SectorSize + Want)
        BY <4>1, RoundUpShift
      <4> QED BY <2>1, <2>3, <2>4, <4>1, <4>2
    <3>2. CASE Want = BufferSize /\ done + Want <= ImageSize
      <4>1. RoundUp(BufferSize) = BufferSize
        BY <2>2, RoundUpFacts
      <4> QED BY <1>0, <2>1, <2>4, <3>2, <4>1
    <3> QED BY <2>2, <3>1, <3>2
  <2>6. PICK n \in 0 .. todo : medium' = Overwrite(medium, devPos, buffer, n)
    BY <1>5, <2>1, <2>4 DEF WriteChunk
  <2>7. \A i \in Offsets : medium'[i] # medium[i] => devPos <= i /\ i < devPos + n
    BY <1>0, <2>6 DEF Overwrite
  <2>8. devPos + n <= RoundUp(ImageSize)
    BY <2>1, <2>4, <2>5, <2>6
  <2> QED BY <1>0, <2>1, <2>4, <2>6, <2>7, <2>8 DEF Confined
<1>6. UNCHANGED medium \/ RunDiskpart \/ WriteFirstSector \/ ApplyChange \/ WriteChunk
  BY DEF Next, WriteThread, AttemptWrite, CheckLength, OpenDrive, BeginAttempt, ReadChunk, StopOnAbort,
     EndLoop, PrepareResize, RunResizer, ParseChangeFile, AppliedAll, AskRetry, ClickCancel, data, vars
<1> QED BY <1>1, <1>2, <1>3, <1>4, <1>5, <1>6

\* No step of the write thread touches a unit of the disk that is not its own:
\* diskpart and the last step the first sector, AttemptWrite's loop what it
\* has not counted yet of the rounded image, Apply the partition.  After a
\* SeekRel that failed the loop is still held to the rounded image.
THEOREM WritesStayInPlace == ASSUME OffsetFits PROVE Spec => WritesConfined
<1>1. Init => WholeSectors
  <2>1. 0 = 0 * SectorSize /\ 0 \in Nat
    BY SizeAssumption
  <2> QED BY <2>1 DEF Init, WholeSectors
<1>2. IndInv /\ WholeSectors /\ [Next]_vars => WholeSectors'
  BY WholeSectorsKept
<1>3. IndInv /\ WholeSectors /\ [Next]_vars => [Confined]_vars
  BY StepConfined
<1> QED BY <1>1, <1>2, <1>3, IndInvAlways, PTL DEF Spec, WritesConfined, Confined
=============================================================================
