-------------------------- MODULE ChangeFile_proofs --------------------------
(***************************************************************************)
(* Proofs about HookedIo and ChangeFile, for a sector, a partition and a   *)
(* device of any size and any calls that stay within the device.           *)
(***************************************************************************)
EXTENDS ChangeFile, WellFoundedInduction, TLAPS

Offsets == 0 .. MaxSize - 1
LogEntry == [Offset : Nat, Size : Nat, IsZero : BOOLEAN]
WriteOperation == [Offset : Nat, Size : Nat, Zero : BOOLEAN, OffsetInFile : Nat, NextBlock : Nat]

\* A row of whole sectors inside the device.
Whole(offset, size) ==
    \E a \in Nat, n \in Nat \ {0} :
        offset = a * SectorSize /\ size = n * SectorSize /\ (a + n) * SectorSize <= MaxSize

(***************************************************************************)
(* The inductive invariant.                                                *)
(***************************************************************************)
MapOK ==
    /\ DOMAIN sectorMap \subseteq 0 .. SectorOf(MaxSize) - 1
    /\ \A s \in DOMAIN sectorMap : sectorMap[s] \in -1 .. chgSector - 1

\* What is left of a hooked_write_byte stays within the device.
PendingOK ==
    pending = None \/
        /\ pending.op = "write" /\ DOMAIN pending = {"op", "Offset", "Size", "Bytes"}
        /\ pending.Offset \in Nat /\ pending.Size \in Nat \ {0} /\ pending.Offset + pending.Size <= MaxSize
        /\ pending.Bytes \in [0 .. pending.Size - 1 -> Data]

LogOK ==
    /\ log \in Seq(LogEntry) /\ Len(log) <= MaxLog
    /\ \A k \in 1 .. Len(log) : Whole(log[k].Offset, log[k].Size)

Types ==
    /\ phase \in {"open", "closed", "parse", "apply", "applied", "refused"}
    /\ failed \in BOOLEAN /\ torn \in 0 .. MaxTorn
    /\ chg \in Seq(Data) /\ chgSector \in Nat /\ chgPos \in chgSector * SectorSize .. Len(chg)
    /\ MapOK /\ PendingOK /\ LogOK
    /\ ops \in Seq(WriteOperation) /\ Len(ops) <= Len(log) /\ blockArea \in Nat
    /\ applied \in 0 .. Len(ops)
    /\ medium \in [Offsets -> Data \cup {Junk}]

FooterOK ==
    /\ footer.LogOffset = chgPos /\ footer.LogSize = Len(log) * EntrySize
    /\ footer.LogWritten \in 0 .. footer.LogSize /\ footer.Written \in 0 .. FooterSize

\* What each phase knows.
Phases ==
    /\ phase = "open" => footer = None /\ ops = << >> /\ blockArea = 0
    /\ footer = None \/ FooterOK
    /\ phase \notin {"apply", "applied"} => applied = 0
    /\ phase \in {"parse", "apply", "applied"} =>
          footer # None /\ footer.LogWritten = footer.LogSize /\ footer.Written = FooterSize
    /\ phase \in {"apply", "applied"} => Len(ops) = Len(log)
    /\ phase = "applied" => applied = Len(ops)
    /\ CompleteFileAccepted

\* Entry k of the log writes unit i, and is the last of the first n to do so.
Covers(k, i) == log[k].Offset <= i /\ i < log[k].Offset + log[k].Size
LastFor(k, i, n) == Covers(k, i) /\ \A l \in k + 1 .. n : ~Covers(l, i)

\* What entry k writes there, if its data begins at position at[k].
LogUnit(at, k, i) == IF log[k].IsZero THEN 0 ELSE chg[at[k] + (i - log[k].Offset) + 1]

\* The log describes the change file: at tells where the data of each entry
\* is, and the sector map shows the last entry for every unit.
Recorded(at) ==
    /\ chgPos = Len(chg) /\ Len(chg) = chgSector * SectorSize
    /\ at \in [1 .. Len(log) + 1 -> 0 .. Len(chg)]
    /\ at[1] = 0 /\ at[Len(log) + 1] = Len(chg)
    /\ \A k \in 1 .. Len(log) : at[k + 1] = IF log[k].IsZero THEN at[k] ELSE at[k] + log[k].Size
    /\ \A k \in 1 .. Len(log), i \in Offsets : LastFor(k, i, Len(log)) => UnitAt(i) = LogUnit(at, k, i)
    /\ \A i \in Offsets : SectorOf(i) \in DOMAIN sectorMap <=> \E k \in 1 .. Len(log) : Covers(k, i)

\* The parser finds the data where at says, and what Apply has written so far
\* is what the applied entries say.
Replayed(at) ==
    /\ blockArea = at[Len(ops) + 1]
    /\ \A k \in 1 .. Len(ops) :
          /\ ops[k].Offset = log[k].Offset /\ ops[k].Size = log[k].Size
          /\ ops[k].Zero = log[k].IsZero
          /\ ~log[k].IsZero => ops[k].OffsetInFile = at[k]
    /\ \A i \in Offsets :
          (\A k \in 1 .. applied : ~Covers(k, i)) => medium[i] = IF i < SizeOnDisk THEN File[i] ELSE Junk
    /\ \A k \in 1 .. applied, i \in Offsets : LastFor(k, i, applied) => medium[i] = LogUnit(at, k, i)

\* A torn write leaves the types, and what the footer says of the log.
IndInv ==
    /\ Types /\ Phases
    /\ torn = 0 => \E at \in [1 .. Len(log) + 1 -> 0 .. Len(chg)] : Recorded(at) /\ Replayed(at)

LEMMA InitDisk == FileInit => Device!Init
<1> SUFFICES ASSUME FileInit PROVE Device!Init
  OBVIOUS
<1>1. DOMAIN sectorMap = {}
  BY DEF FileInit, Init
<1>2. \A i : UnitAt(i) = IF i < SizeOnDisk THEN File[i] ELSE 0
  BY <1>1 DEF UnitAt, InChangeFile
<1> QED
  BY <1>2 DEF Device!Init, Contents, FileInit, Init

(***************************************************************************)
(* Arithmetic of sectors.                                                  *)
(***************************************************************************)
LEMMA DivBounds ==
    ASSUME NEW u \in Nat, NEW n \in Nat \ {0}
    PROVE  u \div n \in Nat /\ (u \div n) * n <= u /\ u < ((u \div n) + 1) * n
           /\ u % n \in 0 .. n - 1 /\ u = (u \div n) * n + (u % n)
<1>1. u \div n \in Nat /\ (u \div n) * n <= u /\ u < ((u \div n) + 1) * n
  OBVIOUS
<1>2. u % n \in 0 .. n - 1
  OBVIOUS
<1>3. u = (u \div n) * n + (u % n)
  OBVIOUS
<1> QED
  BY <1>1, <1>2, <1>3

LEMMA DivUnique ==
    ASSUME NEW u \in Nat, NEW n \in Nat \ {0}, NEW b \in Nat, b * n <= u, u < (b + 1) * n
    PROVE  u \div n = b
OBVIOUS

LEMMA TimesMonotone ==
    ASSUME NEW a \in Nat, NEW b \in Nat, NEW c \in Nat, a <= b
    PROVE  a * c <= b * c /\ a * c \in Nat /\ b * c \in Nat
OBVIOUS

LEMMA TimesStrict ==
    ASSUME NEW a \in Nat, NEW b \in Nat, NEW c \in Nat \ {0}, a * c < b * c
    PROVE  a < b
OBVIOUS

LEMMA TimesAdd ==
    ASSUME NEW a \in Nat, NEW b \in Nat, NEW c \in Nat
    PROVE  (a + b) * c = a * c + b * c /\ a * c \in Nat /\ b * c \in Nat /\ (a + b) * c \in Nat
OBVIOUS

(* The constants of the device.                                            *)
LEMMA Sizes ==
    /\ SectorSize \in Nat \ {0} /\ MaxSize \in Nat /\ MaxLog \in Nat /\ SizeOnDisk \in 0 .. MaxSize
    /\ MaxTorn \in Nat
    /\ SectorOf(MaxSize) \in Nat /\ MaxSize = SectorOf(MaxSize) * SectorSize
    /\ 0 \in Data
<1>1. /\ SectorSize \in Nat \ {0} /\ MaxSize \in Nat /\ MaxLog \in Nat /\ SizeOnDisk \in 0 .. MaxSize
      /\ MaxSize % SectorSize = 0 /\ 0 \in Data /\ MaxTorn \in Nat
  BY HookedIoAssumption
<1>2. /\ MaxSize \div SectorSize \in Nat
      /\ MaxSize = (MaxSize \div SectorSize) * SectorSize + (MaxSize % SectorSize)
  BY <1>1, DivBounds
<1>3. (MaxSize \div SectorSize) * SectorSize \in Nat
  BY <1>1, <1>2, TimesMonotone
<1> QED
  BY <1>1, <1>2, <1>3 DEF SectorOf

(* A unit of the device has a sector of the device and a place in it.      *)
LEMMA UnitSector ==
    ASSUME NEW i \in Offsets
    PROVE  /\ i \in Nat /\ SectorOf(i) \in 0 .. SectorOf(MaxSize) - 1
           /\ SectorOf(i) \in Nat /\ SectorOf(i) * SectorSize \in Nat
           /\ i % SectorSize \in 0 .. SectorSize - 1
           /\ i = SectorOf(i) * SectorSize + (i % SectorSize)
<1>1. i \in Nat /\ i < MaxSize
  BY Sizes DEF Offsets
<1>2. /\ SectorOf(i) \in Nat /\ SectorOf(i) * SectorSize <= i
      /\ i % SectorSize \in 0 .. SectorSize - 1
      /\ i = SectorOf(i) * SectorSize + (i % SectorSize)
  BY <1>1, Sizes, DivBounds DEF SectorOf
<1>3. SectorOf(i) * SectorSize \in Nat
  BY <1>2, Sizes, TimesMonotone
<1>4. SectorOf(i) * SectorSize < SectorOf(MaxSize) * SectorSize
  BY <1>1, <1>2, <1>3, Sizes
<1>5. SectorOf(i) < SectorOf(MaxSize)
  BY <1>2, <1>4, Sizes, TimesStrict
<1> QED
  BY <1>1, <1>2, <1>3, <1>5, Sizes

(* The units of a row of whole sectors are those of its sectors.           *)
LEMMA RowUnits ==
    ASSUME NEW a \in Nat, NEW n \in Nat, NEW i \in Nat
    PROVE  SectorOf(i) \in a .. a + n - 1 <=> a * SectorSize <= i /\ i < (a + n) * SectorSize
<1> DEFINE s == SectorOf(i)
<1>1. s \in Nat /\ s * SectorSize <= i /\ i < (s + 1) * SectorSize
      /\ s * SectorSize \in Nat /\ (s + 1) * SectorSize \in Nat
      /\ a * SectorSize \in Nat /\ (a + n) * SectorSize \in Nat
  BY Sizes, DivBounds, TimesMonotone DEF SectorOf
<1> HIDE DEF s
<1>2. ASSUME s \in a .. a + n - 1 PROVE a * SectorSize <= i /\ i < (a + n) * SectorSize
  <2>1. a <= s /\ s + 1 <= a + n
    BY <1>1, <1>2
  <2>2. a * SectorSize <= s * SectorSize /\ (s + 1) * SectorSize <= (a + n) * SectorSize
    BY <1>1, <2>1, Sizes, TimesMonotone
  <2> QED
    BY <1>1, <2>2
<1>3. ASSUME a * SectorSize <= i, i < (a + n) * SectorSize PROVE s \in a .. a + n - 1
  <2>1. a * SectorSize < (s + 1) * SectorSize /\ s * SectorSize < (a + n) * SectorSize
    BY <1>1, <1>3
  <2>2. a < s + 1 /\ s < a + n
    BY <1>1, <2>1, Sizes, TimesStrict
  <2> QED
    BY <1>1, <2>2
<1> QED
  BY <1>2, <1>3 DEF s

(* An aligned call covers whole sectors.                                   *)
LEMMA AlignedCall ==
    ASSUME NEW c, c.Offset \in Nat, c.Size \in Nat \ {0}, c.Offset + c.Size <= MaxSize, Aligned(c)
    PROVE  /\ SectorOf(c.Offset) \in Nat /\ c.Size \div SectorSize \in Nat \ {0}
           /\ c.Offset = SectorOf(c.Offset) * SectorSize
           /\ c.Size = (c.Size \div SectorSize) * SectorSize
           /\ c.Offset + c.Size = (SectorOf(c.Offset) + (c.Size \div SectorSize)) * SectorSize
           /\ SectorsOf(c) = SectorOf(c.Offset) .. SectorOf(c.Offset) + (c.Size \div SectorSize) - 1
<1> DEFINE S == SectorSize
           a == c.Offset \div S
           n == c.Size \div S
<1>1. S \in Nat \ {0} /\ c.Offset % S = 0 /\ c.Size % S = 0
  BY Sizes DEF Aligned
<1>a. c.Offset \in Nat /\ c.Size \in Nat
  OBVIOUS
<1>b. ASSUME NEW u \in Nat, u % S = 0 PROVE u \div S \in Nat /\ u = (u \div S) * S /\ (u \div S) * S \in Nat
  BY <1>1, <1>b
<1>2. a \in Nat /\ c.Offset = a * S /\ a * S \in Nat
  BY <1>1, <1>a, <1>b
<1>3. n \in Nat /\ c.Size = n * S /\ n * S \in Nat
  BY <1>1, <1>a, <1>b
<1> HIDE DEF S, a, n
<1>4. c.Offset = a * S /\ c.Size = n * S
  BY <1>1, <1>2, <1>3
<1>5. n # 0
  BY <1>1, <1>3, <1>4
<1>6. (a + n) * S = a * S + n * S
  BY <1>1, <1>2, <1>3
<1>7. (c.Offset + c.Size - 1) \div S = a + n - 1
  <2>1. a + n - 1 \in Nat /\ c.Offset + c.Size - 1 \in Nat
    BY <1>2, <1>3, <1>5
  <2>2. (a + n - 1) * S = (a + n) * S - S /\ ((a + n - 1) + 1) * S = (a + n) * S
    BY <1>1, <1>2, <1>3
  <2>3. (a + n - 1) * S <= c.Offset + c.Size - 1 /\ c.Offset + c.Size - 1 < ((a + n - 1) + 1) * S
    BY <1>1, <1>2, <1>3, <1>4, <1>6, <2>2
  <2> QED
    BY <1>1, <2>1, <2>3, DivUnique
<1>8. a = SectorOf(c.Offset) /\ n = c.Size \div SectorSize /\ S = SectorSize
  BY DEF SectorOf, S, a, n
<1>9. SectorsOf(c) = a .. a + n - 1
  BY <1>7, <1>8 DEF SectorsOf, SectorOf
<1> QED
  BY <1>2, <1>3, <1>4, <1>5, <1>6, <1>8, <1>9

(* Any set of natural numbers has a least element.                         *)
LEMMA LeastNatural ==
    ASSUME NEW T, T \subseteq Nat, T # {}
    PROVE  \E m \in T : \A k \in T : m <= k
<1>1. PICK m \in T : \A k \in T : ~(<<k, m>> \in OpToRel(<, Nat))
  BY NatLessThanWellFounded, WFMin, Zenon
<1>2. \A k \in T : ~(k < m)
  BY <1>1 DEF OpToRel
<1> QED
  BY <1>2

(* If one of the first n entries covers a unit, there is a last one.       *)
LEMMA LastExists ==
    ASSUME NEW n \in Nat, NEW i, NEW k \in 1 .. n, Covers(k, i)
    PROVE  \E l \in 1 .. n : LastFor(l, i, n)
<1> DEFINE T == {m \in 0 .. n - 1 : Covers(n - m, i)}
<1>1. n - k \in 0 .. n - 1 /\ n - (n - k) = k
  OBVIOUS
<1>2. T \subseteq Nat /\ n - k \in T
  BY <1>1
<1>3. PICK m \in T : \A j \in T : m <= j
  BY <1>2, LeastNatural
<1>4. n - m \in 1 .. n /\ Covers(n - m, i) /\ m \in 0 .. n - 1
  BY <1>3
<1>5. ASSUME NEW l \in n - m + 1 .. n, Covers(l, i) PROVE FALSE
  <2>1. n - l \in 0 .. n - 1 /\ n - (n - l) = l /\ n - l < m
    BY <1>4
  <2>2. n - l \in T
    BY <1>5, <2>1
  <2> QED
    BY <1>3, <1>4, <2>1, <2>2
<1> QED
  BY <1>4, <1>5 DEF LastFor

(***************************************************************************)
(* The change file and the sector map.                                     *)
(***************************************************************************)
\* A recorder none of whose writes was torn writes at the end of its change
\* file; any other at least behind the sectors it counts.
AtEnd == /\ chg \in Seq(Data) /\ chgSector \in Nat /\ MapOK
         /\ Len(chg) = chgSector * SectorSize

HasSectors == /\ chg \in Seq(Data) /\ chgSector \in Nat /\ MapOK
              /\ chgSector * SectorSize <= Len(chg)

LEMMA AtEndHas == AtEnd => HasSectors
<1>1. AtEnd => Len(chg) \in Nat
  BY DEF AtEnd
<1> QED
  BY <1>1 DEF AtEnd, HasSectors

LEMMA TypesHas ==
    ASSUME Types
    PROVE  HasSectors /\ chgPos \in Nat /\ Len(chg) \in Nat /\ chgSector * SectorSize \in Nat
           /\ chgSector * SectorSize <= chgPos /\ chgPos <= Len(chg)
<1>1. chgSector \in Nat /\ chg \in Seq(Data) /\ MapOK /\ chgPos \in chgSector * SectorSize .. Len(chg)
  BY DEF Types
<1>2. chgSector * SectorSize \in Nat /\ Len(chg) \in Nat
  BY <1>1, Sizes, TimesMonotone
<1> QED
  BY <1>1, <1>2 DEF HasSectors

LEMMA ChangeIndex ==
    ASSUME HasSectors, NEW i \in Offsets, InChangeFile(SectorOf(i))
    PROVE  /\ sectorMap[SectorOf(i)] \in 0 .. chgSector - 1
           /\ sectorMap[SectorOf(i)] * SectorSize + (i % SectorSize) + 1 \in 1 .. Len(chg)
<1> DEFINE m == sectorMap[SectorOf(i)]
<1>1. m \in 0 .. chgSector - 1 /\ m \in Nat /\ chgSector \in Nat
  BY DEF HasSectors, MapOK, InChangeFile, Blank
<1>2. i % SectorSize \in 0 .. SectorSize - 1 /\ SectorSize \in Nat \ {0}
  BY UnitSector, Sizes
<1> HIDE DEF m
<1>3. (m + 1) * SectorSize <= chgSector * SectorSize /\ (m + 1) * SectorSize = m * SectorSize + SectorSize
      /\ m * SectorSize \in Nat /\ chgSector * SectorSize \in Nat
  BY <1>1, <1>2, TimesMonotone
<1>4. m * SectorSize + (i % SectorSize) + 1 \in 1 .. Len(chg)
  <2>1. Len(chg) \in Nat /\ chgSector * SectorSize <= Len(chg)
    BY DEF HasSectors
  <2> QED
    BY <1>2, <1>3, <2>1
<1> QED
  BY <1>1, <1>4 DEF m

(* A read finds values of units.                                           *)
LEMMA UnitData ==
    ASSUME HasSectors, NEW i \in Offsets
    PROVE  UnitAt(i) \in Data
<1>1. CASE InChangeFile(SectorOf(i))
  <2>1. sectorMap[SectorOf(i)] * SectorSize + (i % SectorSize) + 1 \in 1 .. Len(chg)
    BY <1>1, ChangeIndex
  <2> QED
    BY <1>1, <2>1 DEF UnitAt, HasSectors
<1>2. CASE ~InChangeFile(SectorOf(i))
  <2>1. i < SizeOnDisk => File[i] \in Data
    <3>1. i \in Nat /\ SizeOnDisk \in Nat
      BY UnitSector, Sizes
    <3>2. File \in [0 .. SizeOnDisk - 1 -> Data]
      BY HookedIoAssumption
    <3> QED
      BY <3>1, <3>2
  <2> QED
    BY <1>2, <2>1, Sizes DEF UnitAt
<1> QED
  BY <1>1, <1>2

LEMMA WriteAtEnd ==
    ASSUME NEW file \in Seq(Data), NEW n \in Nat, NEW bytes, \A k \in 0 .. n - 1 : bytes[k] \in Data,
           NEW f, f = WriteAt(file, Len(file), bytes, n)
    PROVE  /\ f \in Seq(Data) /\ Len(f) = Len(file) + n
           /\ \A j \in 1 .. Len(file) : f[j] = file[j]
           /\ \A k \in 0 .. n - 1 : f[Len(file) + k + 1] = bytes[k]
<1> DEFINE pos == Len(file)
<1>1. pos \in Nat /\ DOMAIN file = 1 .. pos /\ \A j \in 1 .. pos : file[j] \in Data
  OBVIOUS
<1>2. (IF pos + n > pos THEN pos + n ELSE pos) = pos + n
  BY <1>1
<1>3. f = [i \in 1 .. pos + n |-> IF pos < i /\ i <= pos + n THEN bytes[i - pos - 1] ELSE file[i]]
  BY <1>2 DEF WriteAt
<1> HIDE DEF pos
<1>4. ASSUME NEW j \in 1 .. pos PROVE j \in 1 .. pos + n /\ f[j] = file[j]
  BY <1>1, <1>3
<1>5. ASSUME NEW k \in 0 .. n - 1 PROVE pos + k + 1 \in 1 .. pos + n /\ f[pos + k + 1] = bytes[k]
  <2>1. pos + k + 1 \in 1 .. pos + n /\ pos < pos + k + 1 /\ pos + k + 1 <= pos + n
        /\ (pos + k + 1) - pos - 1 = k
    BY <1>1
  <2> QED
    BY <1>3, <2>1
<1>6. ASSUME NEW j \in 1 .. pos + n PROVE f[j] \in Data
  <2>1. CASE j <= pos
    BY <1>1, <1>4, <2>1
  <2>2. CASE pos < j
    <3>1. j - pos - 1 \in 0 .. n - 1
      BY <1>1, <2>2
    <3> QED
      BY <1>1, <1>3, <2>2, <3>1
  <2> QED
    BY <1>1, <2>1, <2>2
<1>7. f \in Seq(Data) /\ Len(f) = pos + n
  <2>1. f \in [1 .. pos + n -> Data] /\ pos + n \in Nat
    BY <1>1, <1>3, <1>6
  <2> QED
    BY <2>1
<1> QED
  BY <1>4, <1>5, <1>7 DEF pos

(* A write anywhere up to the end leaves values, and no less of them.      *)
LEMMA WriteAtData ==
    ASSUME NEW file \in Seq(Data), NEW pos \in 0 .. Len(file), NEW n \in Nat,
           NEW bytes, \A k \in 0 .. n - 1 : bytes[k] \in Data,
           NEW f, f = WriteAt(file, pos, bytes, n)
    PROVE  f \in Seq(Data) /\ Len(f) \in Nat /\ pos + n <= Len(f)
<1>1. /\ Len(file) \in Nat /\ pos \in Nat /\ pos <= Len(file)
      /\ \A j \in 1 .. Len(file) : file[j] \in Data
  OBVIOUS
<1>2. PICK m : m = IF pos + n > Len(file) THEN pos + n ELSE Len(file)
  OBVIOUS
<1>3. m \in Nat /\ pos + n <= m /\ (m = Len(file) \/ m = pos + n)
  BY <1>1, <1>2
<1>4. f = [i \in 1 .. m |-> IF pos < i /\ i <= pos + n THEN bytes[i - pos - 1] ELSE file[i]]
  BY <1>2 DEF WriteAt
<1>5. ASSUME NEW j \in 1 .. m PROVE f[j] \in Data
  <2>1. CASE pos < j /\ j <= pos + n
    <3>1. j - pos - 1 \in 0 .. n - 1
      BY <1>1, <2>1
    <3> QED
      BY <1>4, <2>1, <3>1
  <2>2. CASE ~(pos < j /\ j <= pos + n)
    <3>1. j \in 1 .. Len(file)
      BY <1>1, <1>3, <2>2
    <3> QED
      BY <1>1, <1>4, <2>2, <3>1
  <2> QED
    BY <2>1, <2>2
<1>6. f \in [1 .. m -> Data]
  BY <1>4, <1>5
<1>7. f \in Seq(Data) /\ Len(f) = m
  BY <1>3, <1>6
<1> QED
  BY <1>3, <1>7

(* Sectors that are in the change file from chgSector on are mapped.       *)
LEMMA MappedIs ==
    ASSUME MapOK, chgSector \in Nat, NEW first \in Nat, NEW n \in Nat, (first + n) * SectorSize <= MaxSize,
           chgSector' = chgSector + n, sectorMap' = Mapped(first, n)
    PROVE  /\ MapOK'
           /\ DOMAIN sectorMap' = DOMAIN sectorMap \cup first .. first + n - 1
           /\ \A s \in first .. first + n - 1 : sectorMap'[s] = chgSector + (s - first)
           /\ \A s \in DOMAIN sectorMap : s \notin first .. first + n - 1 => sectorMap'[s] = sectorMap[s]
<1> DEFINE S == SectorSize
<1>2. /\ DOMAIN sectorMap' = DOMAIN sectorMap \cup first .. first + n - 1
      /\ \A s \in first .. first + n - 1 : sectorMap'[s] = chgSector + (s - first)
      /\ \A s \in DOMAIN sectorMap : s \notin first .. first + n - 1 => sectorMap'[s] = sectorMap[s]
  BY DEF Mapped
<1>3. first .. first + n - 1 \subseteq 0 .. SectorOf(MaxSize) - 1
  <2>1. (first + n) * S <= SectorOf(MaxSize) * S /\ (first + n) * S < (SectorOf(MaxSize) + 1) * S
        /\ SectorOf(MaxSize) \in Nat
    BY Sizes, TimesAdd
  <2>2. first + n < SectorOf(MaxSize) + 1
    BY <2>1, Sizes, TimesStrict
  <2> QED
    BY <2>1, <2>2
<1>4. MapOK'
  <2>1. \A s \in DOMAIN sectorMap' : sectorMap'[s] \in -1 .. chgSector' - 1
    <3>1. ASSUME NEW s \in first .. first + n - 1 PROVE chgSector + (s - first) \in -1 .. (chgSector + n) - 1
      OBVIOUS
    <3>2. ASSUME NEW s \in DOMAIN sectorMap PROVE sectorMap[s] \in -1 .. (chgSector + n) - 1
      <4>1. sectorMap[s] \in -1 .. chgSector - 1
        BY DEF MapOK
      <4> QED
        BY <4>1
    <3> QED
      BY <1>2, <3>1, <3>2
  <2>2. DOMAIN sectorMap' \subseteq 0 .. SectorOf(MaxSize) - 1
    BY <1>2, <1>3 DEF MapOK
  <2> QED
    BY <2>1, <2>2 DEF MapOK, SectorOf
<1> QED
  BY <1>2, <1>4

(* Whole sectors are written at the end and mapped there: reads see them,  *)
(* and all else as before.                                                 *)
LEMMA PutSectors ==
    ASSUME AtEnd, NEW first \in Nat, NEW n \in Nat, (first + n) * SectorSize <= MaxSize,
           NEW bytes, \A k \in 0 .. n * SectorSize - 1 : bytes[k] \in Data,
           chg' = WriteAt(chg, Len(chg), bytes, n * SectorSize),
           chgSector' = chgSector + n, sectorMap' = Mapped(first, n)
    PROVE  /\ AtEnd'
           /\ DOMAIN sectorMap' = DOMAIN sectorMap \cup first .. first + n - 1
           /\ \A i \in Offsets :
                 UnitAt(i)' = IF SectorOf(i) \in first .. first + n - 1
                                THEN bytes[i - first * SectorSize] ELSE UnitAt(i)
<1> DEFINE S == SectorSize
<1>0. /\ S \in Nat \ {0} /\ n * S \in Nat /\ first * S \in Nat /\ chgSector \in Nat /\ chgSector * S \in Nat
      /\ (chgSector + n) * S = chgSector * S + n * S /\ Len(chg) = chgSector * S /\ chg \in Seq(Data)
      /\ (first + n) * S = first * S + n * S
  BY Sizes, TimesAdd DEF AtEnd
<1>1. /\ chg' \in Seq(Data) /\ Len(chg') = Len(chg) + n * S
      /\ \A j \in 1 .. Len(chg) : chg'[j] = chg[j]
      /\ \A k \in 0 .. n * S - 1 : chg'[Len(chg) + k + 1] = bytes[k]
  <2> DEFINE m == n * S
  <2>1. m \in Nat /\ chg' = WriteAt(chg, Len(chg), bytes, m) /\ \A k \in 0 .. m - 1 : bytes[k] \in Data
    BY <1>0
  <2> HIDE DEF m
  <2> DEFINE f == WriteAt(chg, Len(chg), bytes, m)
  <2>2. f \in Seq(Data) /\ Len(f) = Len(chg) + m
    BY <1>0, <2>1, WriteAtEnd
  <2>a. chg \in Seq(Data) /\ m \in Nat /\ \A k \in 0 .. m - 1 : bytes[k] \in Data
    BY <1>0, <2>1
  <2>b. f = WriteAt(chg, Len(chg), bytes, m)
    OBVIOUS
  <2> HIDE DEF f
  <2>3. \A j \in 1 .. Len(chg) : f[j] = chg[j]
    BY <2>a, <2>b, WriteAtEnd
  <2>4. \A k \in 0 .. m - 1 : f[Len(chg) + k + 1] = bytes[k]
    BY <2>a, <2>b, WriteAtEnd
  <2> QED
    BY <2>1, <2>b, <2>2, <2>3, <2>4 DEF m
<1>2. /\ DOMAIN sectorMap' = DOMAIN sectorMap \cup first .. first + n - 1
      /\ \A s \in first .. first + n - 1 : sectorMap'[s] = chgSector + (s - first)
      /\ \A s \in DOMAIN sectorMap : s \notin first .. first + n - 1 => sectorMap'[s] = sectorMap[s]
  <2>1. MapOK /\ chgSector \in Nat
    BY DEF AtEnd
  <2> QED
    BY <2>1, MappedIs
<1>4. MapOK'
  <2>1. MapOK /\ chgSector \in Nat
    BY DEF AtEnd
  <2> QED
    BY <2>1, MappedIs
<1>5. AtEnd'
  <2>1. chgSector' \in Nat /\ Len(chg') = chgSector' * S
    <3>1. chgSector' = chgSector + n /\ chgSector + n \in Nat
      BY <1>0
    <3>2. Len(chg') = (chgSector + n) * S
      BY <1>0, <1>1
    <3> QED
      BY <3>1, <3>2
  <2> QED
    BY <1>1, <1>4, <2>1 DEF AtEnd
<1>6. ASSUME NEW i \in Offsets, SectorOf(i) \in first .. first + n - 1
      PROVE  UnitAt(i)' = bytes[i - first * S]
  <2> DEFINE s == SectorOf(i)
             d == s - first
             r == i % S
  <2>a. s \in Nat /\ r \in 0 .. S - 1 /\ i = s * S + r /\ i \in Nat
    BY UnitSector
  <2>b. s \in first .. first + n - 1
    BY <1>6
  <2>1. s \in Nat /\ d \in Nat /\ r \in 0 .. S - 1 /\ s = first + d /\ i = s * S + r /\ i \in Nat /\ d < n
    <3> HIDE DEF s, r
    <3> QED
      BY <2>a, <2>b
  <2> HIDE DEF s, d, r
  <2>2. s * S = first * S + d * S /\ d * S \in Nat /\ (chgSector + d) * S = chgSector * S + d * S
    BY <1>0, <2>1, TimesAdd
  <2>3. (d + 1) * S <= n * S /\ (d + 1) * S = d * S + S
    BY <1>0, <2>1, TimesMonotone
  <2>4. i - first * S = d * S + r /\ d * S + r \in 0 .. n * S - 1
    BY <1>0, <2>1, <2>2, <2>3
  <2>5. (chgSector + d) * S + r + 1 = Len(chg) + (d * S + r) + 1
    BY <1>0, <2>1, <2>2
  <2>6. s \in DOMAIN sectorMap' /\ sectorMap'[s] = chgSector + d /\ chgSector + d # -1
    <3>1. s \in DOMAIN sectorMap' /\ sectorMap'[s] = chgSector + (s - first)
      BY <1>2, <2>b
    <3> QED
      BY <1>0, <2>1, <3>1
  <2>7. UnitAt(i)' = chg'[(chgSector + d) * S + r + 1]
    BY <2>6 DEF UnitAt, InChangeFile, Blank, SectorOf, s, r
  <2> QED
    BY <1>1, <2>4, <2>5, <2>7
<1>7. ASSUME NEW i \in Offsets, SectorOf(i) \notin first .. first + n - 1
      PROVE  UnitAt(i)' = UnitAt(i)
  <2>1. /\ SectorOf(i) \in DOMAIN sectorMap' <=> SectorOf(i) \in DOMAIN sectorMap
        /\ SectorOf(i) \in DOMAIN sectorMap => sectorMap'[SectorOf(i)] = sectorMap[SectorOf(i)]
    BY <1>2, <1>7
  <2>2. CASE InChangeFile(SectorOf(i))
    <3>1. sectorMap[SectorOf(i)] * S + (i % S) + 1 \in 1 .. Len(chg)
      BY <2>2, AtEndHas, ChangeIndex
    <3> QED
      BY <1>1, <2>1, <2>2, <3>1 DEF UnitAt, InChangeFile, SectorOf
  <2>3. CASE ~InChangeFile(SectorOf(i))
    BY <2>1, <2>3 DEF UnitAt, InChangeFile, SectorOf
  <2> QED
    BY <2>2, <2>3
<1> QED
  BY <1>2, <1>5, <1>6, <1>7

(* The sectors of a call are sectors of the device.                        *)
LEMMA CallSectors ==
    ASSUME NEW c, c.Offset \in Nat, c.Size \in Nat \ {0}, c.Offset + c.Size <= MaxSize
    PROVE  SectorsOf(c) \subseteq 0 .. SectorOf(MaxSize) - 1
<1>1. c.Offset \in Offsets /\ c.Offset + c.Size - 1 \in Offsets
  <2>1. PICK o, z : o = c.Offset /\ z = c.Size
    OBVIOUS
  <2>2. o \in Nat /\ z \in Nat \ {0} /\ o + z <= MaxSize /\ MaxSize \in Nat
    BY <2>1, Sizes
  <2>3. o \in 0 .. MaxSize - 1 /\ o + z - 1 \in 0 .. MaxSize - 1
    BY <2>2
  <2> QED
    BY <2>1, <2>3 DEF Offsets
<1>2. SectorOf(c.Offset) \in Nat /\ SectorOf(c.Offset + c.Size - 1) \in 0 .. SectorOf(MaxSize) - 1
  BY <1>1, UnitSector
<1> QED
  BY <1>2, Sizes DEF SectorsOf

(* Zeroes are mapped as blank sectors.                                     *)
LEMMA BlankSectors ==
    ASSUME AtEnd, NEW c, c.Offset \in Nat, c.Size \in Nat \ {0}, c.Offset + c.Size <= MaxSize, Aligned(c),
           sectorMap' = Blanked(c), UNCHANGED <<chg, chgSector>>
    PROVE  /\ AtEnd'
           /\ DOMAIN sectorMap' = DOMAIN sectorMap \cup SectorsOf(c)
           /\ \A i \in Offsets : UnitAt(i)' = IF SectorOf(i) \in SectorsOf(c) THEN 0 ELSE UnitAt(i)
<1>1. /\ DOMAIN sectorMap' = DOMAIN sectorMap \cup SectorsOf(c)
      /\ \A s \in SectorsOf(c) : sectorMap'[s] = -1
      /\ \A s \in DOMAIN sectorMap : s \notin SectorsOf(c) => sectorMap'[s] = sectorMap[s]
  BY DEF Blanked, Blank
<1>2. SectorsOf(c) \subseteq 0 .. SectorOf(MaxSize) - 1
  BY CallSectors
<1>3. AtEnd'
  <2>1. \A s \in DOMAIN sectorMap' : sectorMap'[s] \in -1 .. chgSector - 1
    <3>1. chgSector \in Nat /\ -1 \in -1 .. chgSector - 1
      BY DEF AtEnd
    <3> QED
      BY <1>1, <3>1 DEF AtEnd, MapOK
  <2>2. DOMAIN sectorMap' \subseteq 0 .. SectorOf(MaxSize) - 1
    BY <1>1, <1>2 DEF AtEnd, MapOK
  <2> QED
    BY <2>1, <2>2 DEF AtEnd, MapOK, SectorOf
<1>4. ASSUME NEW i \in Offsets
      PROVE  UnitAt(i)' = IF SectorOf(i) \in SectorsOf(c) THEN 0 ELSE UnitAt(i)
  BY <1>1 DEF UnitAt, InChangeFile, SectorOf, Blank
<1> QED
  BY <1>1, <1>3, <1>4

(***************************************************************************)
(* The log.                                                                *)
(***************************************************************************)
\* Entry k lies within the device and, if it has data, within the change file.
LEMMA EntryIs ==
    ASSUME LogOK, chg \in Seq(Data), NEW at, Recorded(at), NEW k \in 1 .. Len(log)
    PROVE  /\ log[k].Offset \in Nat /\ log[k].Size \in Nat /\ log[k].IsZero \in BOOLEAN
           /\ log[k].Offset + log[k].Size <= MaxSize
           /\ at[k] \in 0 .. Len(chg) /\ at[k + 1] \in 0 .. Len(chg)
           /\ ~log[k].IsZero => at[k] + log[k].Size <= Len(chg)
<1>1. log[k] \in LogEntry /\ Len(log) \in Nat /\ Len(chg) \in Nat
  BY DEF LogOK
<1>2. log[k].Offset + log[k].Size <= MaxSize
  <2>1. PICK a \in Nat, n \in Nat \ {0} :
          /\ log[k].Offset = a * SectorSize /\ log[k].Size = n * SectorSize
          /\ (a + n) * SectorSize <= MaxSize
    BY DEF LogOK, Whole
  <2>2. a * SectorSize + n * SectorSize = (a + n) * SectorSize
    BY <2>1, Sizes, TimesAdd
  <2> QED
    BY <2>1, <2>2
<1>3. k \in 1 .. Len(log) + 1 /\ k + 1 \in 1 .. Len(log) + 1
  BY <1>1
<1>4. at[k] \in 0 .. Len(chg) /\ at[k + 1] \in 0 .. Len(chg)
  BY <1>3 DEF Recorded
<1>5. ~log[k].IsZero => at[k + 1] = at[k] + log[k].Size
  BY DEF Recorded
<1> QED
  BY <1>1, <1>2, <1>4, <1>5 DEF LogEntry

\* What a write does to the recorder when it adds e to the log.
Within(e, i) == e.Offset <= i /\ i < e.Offset + e.Size
Logged(e) ==
    /\ e \in LogEntry /\ Whole(e.Offset, e.Size)
    /\ log' = Append(log, e) /\ chgPos' = Len(chg')
    /\ Len(chg') = IF e.IsZero THEN Len(chg) ELSE Len(chg) + e.Size
    /\ \A j \in 1 .. Len(chg) : chg'[j] = chg[j]
    /\ \A i \in Offsets : Within(e, i) =>
          /\ SectorOf(i) \in DOMAIN sectorMap'
          /\ UnitAt(i)' = IF e.IsZero THEN 0 ELSE chg'[Len(chg) + (i - e.Offset) + 1]
    /\ \A i \in Offsets : ~Within(e, i) =>
          /\ SectorOf(i) \in DOMAIN sectorMap' <=> SectorOf(i) \in DOMAIN sectorMap
          /\ UnitAt(i)' = UnitAt(i)

LEMMA LogGrows ==
    ASSUME LogOK, Len(log) < MaxLog, NEW e \in LogEntry, Whole(e.Offset, e.Size), log' = Append(log, e)
    PROVE  LogOK'
<1>1. PICK N : N = Len(log)
  OBVIOUS
<1>2. /\ log \in Seq(LogEntry) /\ N \in Nat /\ N < MaxLog /\ MaxLog \in Nat
      /\ \A k \in 1 .. N : Whole(log[k].Offset, log[k].Size)
  BY <1>1, Sizes DEF LogOK
<1>3. /\ log' \in Seq(LogEntry) /\ Len(log') = N + 1 /\ log'[N + 1] = e
      /\ \A k \in 1 .. N : log'[k] = log[k]
  BY <1>1, <1>2
<1>4. ASSUME NEW k \in 1 .. N + 1 PROVE Whole(log'[k].Offset, log'[k].Size)
  <2>1. CASE k \in 1 .. N
    BY <1>2, <1>3, <2>1
  <2>2. CASE k = N + 1
    BY <1>3, <2>2
  <2>3. k \in 1 .. N \/ k = N + 1
    BY <1>2
  <2> QED
    BY <2>1, <2>2, <2>3
<1>5. N + 1 <= MaxLog
  BY <1>2
<1> QED
  BY <1>3, <1>4, <1>5 DEF LogOK, Whole

LEMMA LogStep ==
    ASSUME AtEnd, AtEnd', LogOK, Len(log) < MaxLog, NEW at, Recorded(at), NEW e, Logged(e)
    PROVE  LogOK' /\ \E g \in [1 .. Len(log') + 1 -> 0 .. Len(chg')] : Recorded(g)'
<1>0. PICK N : N = Len(log)
  OBVIOUS
<1>a. /\ e \in LogEntry /\ Whole(e.Offset, e.Size) /\ log' = Append(log, e)
      /\ Len(chg') = IF e.IsZero THEN Len(chg) ELSE Len(chg) + e.Size
      /\ \A j \in 1 .. Len(chg) : chg'[j] = chg[j]
  BY DEF Logged
<1>b. log \in Seq(LogEntry) /\ \A k \in 1 .. N : Whole(log[k].Offset, log[k].Size)
  BY <1>0 DEF LogOK
<1>c. chg \in Seq(Data) /\ chg' \in Seq(Data)
  BY DEF AtEnd
<1>1. /\ N \in Nat /\ Len(chg) \in Nat /\ Len(chg') \in Nat
      /\ Len(chg) <= Len(chg') /\ e.Offset \in Nat /\ e.Size \in Nat /\ MaxLog \in Nat
      /\ N < MaxLog
  BY <1>0, <1>a, <1>b, <1>c, Sizes DEF LogEntry
<1>2. /\ log' \in Seq(LogEntry) /\ Len(log') = N + 1 /\ log'[N + 1] = e
      /\ \A k \in 1 .. N : log'[k] = log[k]
  BY <1>0, <1>a, <1>b
<1>3. LogOK'
  BY <1>a, LogGrows
<1>4. PICK g : g = [k \in 1 .. N + 2 |-> IF k <= N + 1 THEN at[k] ELSE Len(chg')]
  OBVIOUS
<1>5. /\ DOMAIN g = 1 .. N + 2 /\ g[N + 2] = Len(chg')
      /\ \A k \in 1 .. N + 1 : g[k] = at[k] /\ at[k] \in 0 .. Len(chg)
  <2>1. N + 2 \in 1 .. N + 2 /\ ~(N + 2 <= N + 1) /\ \A k \in 1 .. N + 1 : k \in 1 .. N + 2 /\ k <= N + 1
    BY <1>1
  <2>2. at \in [1 .. N + 1 -> 0 .. Len(chg)]
    BY <1>0 DEF Recorded
  <2> QED
    BY <1>4, <2>1, <2>2
<1>6. g \in [1 .. Len(log') + 1 -> 0 .. Len(chg')]
  <2>1. (N + 1) + 1 = N + 2
    BY <1>1
  <2>2. ASSUME NEW k \in 1 .. N + 2 PROVE g[k] \in 0 .. Len(chg')
    <3>1. CASE k \in 1 .. N + 1
      BY <1>1, <1>5, <3>1
    <3>2. CASE k = N + 2
      BY <1>1, <1>5, <3>2
    <3> QED
      BY <1>1, <3>1, <3>2
  <2> QED
    BY <1>2, <1>4, <1>5, <2>1, <2>2
<1>7. at[1] = 0 /\ at[N + 1] = Len(chg)
  BY <1>0 DEF Recorded
<1>8. g[1] = 0 /\ g[Len(log') + 1] = Len(chg')
  <2>1. 1 \in 1 .. N + 1 /\ Len(log') + 1 = N + 2
    BY <1>1, <1>2
  <2> QED
    BY <1>5, <1>7, <2>1
<1>9. ASSUME NEW k \in 1 .. N + 1
      PROVE  g[k + 1] = IF log'[k].IsZero THEN g[k] ELSE g[k] + log'[k].Size
  <2>1. CASE k \in 1 .. N
    <3>1. k \in 1 .. N + 1 /\ k + 1 \in 1 .. N + 1
      BY <1>1, <2>1
    <3>2. at[k + 1] = IF log[k].IsZero THEN at[k] ELSE at[k] + log[k].Size
      BY <1>0, <2>1 DEF Recorded
    <3> QED
      BY <1>2, <1>5, <2>1, <3>1, <3>2
  <2>2. CASE k = N + 1
    <3>1. k + 1 = N + 2
      BY <1>1, <2>2
    <3> QED
      BY <1>a, <1>2, <1>5, <1>7, <2>2, <3>1
  <2>3. k \in 1 .. N \/ k = N + 1
    BY <1>1
  <2> QED
    BY <2>1, <2>2, <2>3
<1>10. /\ \A k \in 1 .. N, i \in Offsets : Covers(k, i)' <=> Covers(k, i)
       /\ \A i \in Offsets : Covers(N + 1, i)' <=> Within(e, i)
  BY <1>2 DEF Covers, Within
<1>11. ASSUME NEW k \in 1 .. N + 1, NEW i \in Offsets, LastFor(k, i, N + 1)'
       PROVE  UnitAt(i)' = LogUnit(g, k, i)'
  <2>1. CASE k = N + 1
    <3>1. Within(e, i)
      BY <1>10, <1>11, <2>1 DEF LastFor
    <3>2. UnitAt(i)' = IF e.IsZero THEN 0 ELSE chg'[Len(chg) + (i - e.Offset) + 1]
      BY <3>1 DEF Logged
    <3>3. g[N + 1] = Len(chg)
      BY <1>1, <1>5, <1>7
    <3> QED
      BY <1>2, <2>1, <3>2, <3>3 DEF LogUnit
  <2>2. CASE k \in 1 .. N
    <3>1. N + 1 \in k + 1 .. N + 1 /\ \A l \in k + 1 .. N : l \in k + 1 .. N + 1 /\ l \in 1 .. N
      BY <1>1, <2>2
    <3>2. ~Within(e, i)
      BY <1>10, <1>11, <3>1 DEF LastFor
    <3>3. LastFor(k, i, N)
      BY <1>10, <1>11, <2>2, <3>1 DEF LastFor
    <3>4. UnitAt(i)' = LogUnit(at, k, i)
      BY <1>0, <2>2, <3>2, <3>3 DEF Recorded, Logged
    <3>5. g[k] = at[k] /\ log'[k] = log[k]
      BY <1>1, <1>2, <1>5, <2>2
    <3>6. CASE log[k].IsZero
      BY <3>4, <3>5, <3>6 DEF LogUnit
    <3>7. CASE ~log[k].IsZero
      <4>1. /\ log[k].Offset \in Nat /\ log[k].Size \in Nat /\ at[k] \in 0 .. Len(chg)
            /\ at[k] + log[k].Size <= Len(chg)
        BY <1>0, <1>c, <2>2, <3>7, EntryIs
      <4>2. i \in Nat /\ log[k].Offset <= i /\ i < log[k].Offset + log[k].Size
        BY <3>3, UnitSector DEF LastFor, Covers
      <4>3. at[k] + (i - log[k].Offset) + 1 \in 1 .. Len(chg)
        <5> DEFINE o == log[k].Offset
                   z == log[k].Size
                   p == at[k]
                   m == Len(chg)
        <5>1. o \in Nat /\ z \in Nat /\ p \in 0 .. m /\ m \in Nat /\ p + z <= m /\ i \in Nat /\ o <= i /\ i < o + z
          BY <1>1, <4>1, <4>2
        <5> HIDE DEF o, z, p, m
        <5>2. p + (i - o) + 1 \in 1 .. m
          BY <5>1
        <5> QED
          BY <5>2 DEF o, z, p, m
      <4>4. chg'[at[k] + (i - log[k].Offset) + 1] = chg[at[k] + (i - log[k].Offset) + 1]
        BY <1>a, <4>3
      <4>5. LogUnit(at, k, i) = chg[at[k] + (i - log[k].Offset) + 1]
        BY <3>7 DEF LogUnit
      <4>6. LogUnit(g, k, i)' = chg'[at[k] + (i - log[k].Offset) + 1]
        BY <3>5, <3>7 DEF LogUnit
      <4> QED
        BY <3>4, <4>4, <4>5, <4>6
    <3> QED
      BY <3>6, <3>7
  <2> QED
    BY <1>1, <2>1, <2>2
<1>12. ASSUME NEW i \in Offsets
       PROVE  SectorOf(i) \in DOMAIN sectorMap' <=> \E k \in 1 .. N + 1 : Covers(k, i)'
  <2>1. SectorOf(i) \in DOMAIN sectorMap <=> \E k \in 1 .. N : Covers(k, i)
    BY <1>0 DEF Recorded
  <2>2. 1 .. N + 1 = 1 .. N \cup {N + 1}
    BY <1>1
  <2>3. CASE Within(e, i)
    BY <1>10, <2>2, <2>3 DEF Logged
  <2>4. CASE ~Within(e, i)
    BY <1>10, <2>1, <2>2, <2>4 DEF Logged
  <2> QED
    BY <2>3, <2>4
<1>13. Recorded(g)'
  <2>1. chgPos' = Len(chg') /\ Len(chg') = chgSector' * SectorSize
    BY DEF AtEnd, Logged
  <2>2. \A k \in 1 .. Len(log'), i \in Offsets : LastFor(k, i, Len(log))' => UnitAt(i)' = LogUnit(g, k, i)'
    BY <1>2, <1>11 DEF LastFor, Covers
  <2>3. \A i \in Offsets : SectorOf(i) \in DOMAIN sectorMap' <=> \E k \in 1 .. Len(log') : Covers(k, i)'
    BY <1>2, <1>12
  <2> QED
    BY <1>2, <1>6, <1>8, <1>9, <2>1, <2>2, <2>3 DEF Recorded, SectorOf
<1> QED
  BY <1>3, <1>6, <1>13

(***************************************************************************)
(* The recorder's calls.  Each keeps the invariant, and is a step of the   *)
(* disk that resize2fs believes in.                                        *)
(***************************************************************************)
DiskStep == [Device!Next]_<<Contents, call, reply, failed, torn > 0>>

LEMMA OpenFacts ==
    ASSUME IndInv, phase = "open", torn = 0
    PROVE  /\ AtEnd /\ chgPos = Len(chg) /\ LogOK /\ PendingOK /\ Len(chg) \in Nat
           /\ \E at : Recorded(at)
           /\ footer = None /\ ops = << >> /\ blockArea = 0 /\ applied = 0
           /\ medium \in [Offsets -> Data \cup {Junk}]
           /\ \A i \in Offsets : medium[i] = IF i < SizeOnDisk THEN File[i] ELSE Junk
<1>1. PICK at : Recorded(at) /\ Replayed(at)
  BY DEF IndInv
<1>2. chg \in Seq(Data) /\ chgSector \in Nat /\ MapOK /\ LogOK /\ PendingOK
      /\ medium \in [Offsets -> Data \cup {Junk}]
  BY DEF IndInv, Types
<1>3. chgPos = Len(chg) /\ Len(chg) = chgSector * SectorSize
  BY <1>1 DEF Recorded
<1>4. footer = None /\ ops = << >> /\ blockArea = 0 /\ applied = 0
  BY DEF IndInv, Phases
<1>5. \A i \in Offsets : medium[i] = IF i < SizeOnDisk THEN File[i] ELSE Junk
  BY <1>1, <1>4 DEF Replayed
<1> QED
  BY <1>1, <1>2, <1>3, <1>4, <1>5 DEF AtEnd

LEMMA OpenKeeps ==
    ASSUME IndInv, phase = "open", torn = 0, UNCHANGED <<phase, torn, parser>>, failed' \in BOOLEAN,
           AtEnd', LogOK', PendingOK', NEW g, g \in [1 .. Len(log') + 1 -> 0 .. Len(chg')], Recorded(g)'
    PROVE  IndInv'
<1>1. /\ footer = None /\ ops = << >> /\ blockArea = 0 /\ applied = 0
      /\ medium \in [Offsets -> Data \cup {Junk}]
      /\ \A i \in Offsets : medium[i] = IF i < SizeOnDisk THEN File[i] ELSE Junk
  BY OpenFacts
<1>2. UNCHANGED <<phase, torn, footer, ops, blockArea, applied, medium>>
  BY DEF parser
<1>3. chgPos' = Len(chg') /\ Len(chg') = chgSector' * SectorSize /\ Len(chg') \in Nat /\ Len(log') \in Nat /\ g[1] = 0
  BY DEF Recorded, AtEnd, LogOK
<1>4. ops' = << >> /\ ops' \in Seq(WriteOperation) /\ Len(ops') = 0 /\ applied' = 0
  BY <1>1, <1>2
<1>5. Types'
  <2>1. /\ chgPos' \in chgSector' * SectorSize .. Len(chg')
        /\ Len(ops') <= Len(log') /\ applied' \in 0 .. Len(ops') /\ blockArea' \in Nat
    BY <1>1, <1>2, <1>3, <1>4
  <2>2. torn' \in 0 .. MaxTorn /\ phase' = "open"
    BY <1>2 DEF IndInv, Types
  <2> QED
    BY <1>1, <1>2, <1>4, <2>1, <2>2 DEF Types, AtEnd, Offsets
<1>6. Phases'
  BY <1>1, <1>2 DEF Phases, CompleteFileAccepted
<1>7. Replayed(g)'
  <2>1. blockArea' = g[Len(ops') + 1]
    BY <1>1, <1>2, <1>3, <1>4
  <2>2. 1 .. Len(ops') = {} /\ 1 .. applied' = {}
    BY <1>4
  <2> QED
    BY <1>1, <1>2, <2>1, <2>2 DEF Replayed, Offsets
<1> QED
  BY <1>5, <1>6, <1>7 DEF IndInv

(* With a torn write behind it, the recorder keeps its types.              *)
LEMMA TornKeeps ==
    ASSUME IndInv, phase = "open", UNCHANGED <<phase, parser>>, failed' \in BOOLEAN,
           torn' \in 1 .. MaxTorn, torn > 0 \/ failed' = TRUE, LogOK', PendingOK',
           chg' \in Seq(Data), chgSector' \in Nat, chgPos' \in chgSector' * SectorSize .. Len(chg'), MapOK'
    PROVE  IndInv' /\ DiskStep
<1>1. /\ footer = None /\ ops = << >> /\ blockArea = 0 /\ applied = 0
      /\ medium \in [Offsets -> Data \cup {Junk}] /\ torn \in 0 .. MaxTorn /\ MaxTorn \in Nat
  BY Sizes DEF IndInv, Types, Phases
<1>2. UNCHANGED <<phase, footer, ops, blockArea, applied, medium>>
  BY DEF parser
<1>3. Types'
  <2>1. ops' \in Seq(WriteOperation) /\ Len(ops') = 0 /\ Len(ops') <= Len(log') /\ applied' \in 0 .. Len(ops')
    <3>1. ops' = << >> /\ applied' = 0 /\ Len(log') \in Nat
      BY <1>1, <1>2 DEF LogOK
    <3> QED
      BY <3>1
  <2>2. torn' \in 0 .. MaxTorn
    BY <1>1
  <2> QED
    BY <1>1, <1>2, <2>1, <2>2 DEF Types, Offsets
<1>4. Phases'
  BY <1>1, <1>2 DEF Phases, CompleteFileAccepted
<1>5. torn' > 0 /\ torn' # 0
  BY <1>1
<1>6. DiskStep
  <2>1. CASE torn > 0
    BY <1>5, <2>1 DEF DiskStep, Device!Next, Device!Torn
  <2>2. CASE failed' = TRUE
    BY <1>5, <2>2 DEF DiskStep, Device!Next, Device!Fail
  <2> QED
    BY <2>1, <2>2
<1> QED
  BY <1>3, <1>4, <1>5, <1>6 DEF IndInv

LEMMA DiskWrite ==
    ASSUME failed' = FALSE, UNCHANGED torn, NEW c, c.op = "write", call' = c,
           \A i \in Offsets : UnitAt(i)' = IF Within(c, i) THEN c.Bytes[i - c.Offset] ELSE UnitAt(i)
    PROVE  DiskStep
<1>1. DOMAIN Contents = Offsets /\ \A i \in Offsets : Contents[i] = UnitAt(i)
  BY DEF Contents, Offsets
<1>2. Contents' = [i \in Offsets |-> UnitAt(i)']
  BY DEF Contents, Offsets
<1>3. Contents' = [i \in Offsets |-> IF c.Offset <= i /\ i < c.Offset + c.Size THEN c.Bytes[i - c.Offset] ELSE Contents[i]]
  BY <1>1, <1>2 DEF Within
<1>4. Device!Write
  BY <1>1, <1>3 DEF Device!Write, Device!Covered
<1> QED
  BY <1>4 DEF DiskStep, Device!Next

(* Nothing that a read can see has changed.                                *)
LEMMA SameDisk ==
    ASSUME UNCHANGED <<sectorMap, chg>>
    PROVE  Contents' = Contents /\ \A i \in Offsets : UnitAt(i)' = UnitAt(i)
BY DEF Contents, UnitAt, InChangeFile, SectorOf

(* Where the pointer of the change file is after a read.                   *)
LEMMA ReadReturns ==
    ASSUME AtEnd, chgPos = Len(chg), NEW c
    PROVE  AfterReading(c) = Len(chg)
BY DEF AfterReading, AtEnd

(* A step that leaves map, file and log alone leaves them as recorded.     *)
LEMMA SameRecord ==
    ASSUME UNCHANGED <<sectorMap, chg, chgPos, chgSector, log>>
    PROVE  /\ \A at : Recorded(at) => Recorded(at)'
           /\ \A k, i, n : LastFor(k, i, n)' <=> LastFor(k, i, n)
           /\ \A k, i : Covers(k, i)' <=> Covers(k, i)
           /\ \A at, k, i : LogUnit(at, k, i)' = LogUnit(at, k, i)
           /\ AtEnd => AtEnd'
           /\ LogOK => LogOK'
<1>1. \A k, i : Covers(k, i)' <=> Covers(k, i)
  BY DEF Covers
<1>2. \A k, i, n : LastFor(k, i, n)' <=> LastFor(k, i, n)
  BY DEF Covers, LastFor
<1>3. \A at, k, i : LogUnit(at, k, i)' = LogUnit(at, k, i)
  BY DEF LogUnit
<1>4. \A i \in Offsets : UnitAt(i)' = UnitAt(i)
  BY SameDisk
<1>5. ASSUME NEW at, Recorded(at) PROVE Recorded(at)'
  <2>1. /\ chgPos' = Len(chg') /\ Len(chg') = chgSector' * SectorSize
        /\ at \in [1 .. Len(log') + 1 -> 0 .. Len(chg')]
        /\ at[1] = 0 /\ at[Len(log') + 1] = Len(chg')
        /\ \A k \in 1 .. Len(log') : at[k + 1] = IF log'[k].IsZero THEN at[k] ELSE at[k] + log'[k].Size
    BY <1>5 DEF Recorded
  <2>2. \A k \in 1 .. Len(log'), i \in Offsets : LastFor(k, i, Len(log))' => UnitAt(i)' = LogUnit(at, k, i)'
    <3>1. ASSUME NEW k \in 1 .. Len(log), NEW i \in Offsets, LastFor(k, i, Len(log))
          PROVE  UnitAt(i) = LogUnit(at, k, i)
      BY <1>5, <3>1 DEF Recorded
    <3>2. \A k, i : LastFor(k, i, Len(log))' <=> LastFor(k, i, Len(log))
      BY DEF Covers, LastFor
    <3> QED
      BY <1>3, <1>4, <3>1, <3>2
  <2>3. \A i \in Offsets : SectorOf(i) \in DOMAIN sectorMap' <=> \E k \in 1 .. Len(log') : Covers(k, i)'
    BY <1>1, <1>5 DEF Recorded
  <2> QED
    BY <2>1, <2>2, <2>3 DEF Recorded, SectorOf
<1>6. AtEnd => AtEnd'
  BY DEF AtEnd, MapOK, SectorOf
<1>7. LogOK => LogOK'
  BY DEF LogOK, Whole
<1> QED
  BY <1>1, <1>2, <1>3, <1>5, <1>6, <1>7

(* A call that leaves map, file and log alone keeps the invariant, wherever *)
(* its reading may have put the pointer.                                   *)
LEMMA UnharmedKeeps ==
    ASSUME IndInv, phase = "open", UNCHANGED <<phase, sectorMap, chg, chgSector, log, torn, parser>>,
           failed' \in BOOLEAN, PendingOK', NEW c, chgPos' \in {chgPos, AfterReading(c)}
    PROVE  IndInv'
<1>1. Types /\ LogOK /\ MapOK /\ chg \in Seq(Data) /\ chgSector \in Nat /\ torn \in 0 .. MaxTorn
  BY DEF IndInv, Types
<1>2. CASE torn = 0
  <2>1. AtEnd /\ chgPos = Len(chg) /\ Len(chg) \in Nat
    BY <1>2, OpenFacts
  <2>2. PICK at : Recorded(at)
    BY <1>2, OpenFacts
  <2>3. UNCHANGED chgPos
    BY <2>1, ReadReturns
  <2>4. Recorded(at)' /\ AtEnd' /\ LogOK'
    BY <1>1, <2>1, <2>2, <2>3, SameRecord
  <2>5. at \in [1 .. Len(log') + 1 -> 0 .. Len(chg')]
    BY <2>4 DEF Recorded
  <2> QED
    BY <1>2, <2>4, <2>5, OpenKeeps
<1>3. CASE torn > 0
  <2>1. LogOK' /\ MapOK'
    BY <1>1 DEF LogOK, MapOK, Whole, SectorOf
  <2>2. chgPos' \in chgSector' * SectorSize .. Len(chg')
    <3>1. /\ chgPos \in Nat /\ Len(chg) \in Nat /\ chgSector * SectorSize \in Nat
          /\ chgSector * SectorSize <= chgPos /\ chgPos <= Len(chg)
      BY <1>1, TypesHas
    <3>2. AfterReading(c) = chgPos \/ AfterReading(c) = chgSector * SectorSize
      BY DEF AfterReading
    <3>3. chgPos' = chgPos \/ chgPos' = chgSector * SectorSize
      BY <3>2
    <3> QED
      BY <3>1, <3>3
  <2>3. torn' \in 1 .. MaxTorn
    BY <1>1, <1>3, Sizes
  <2> QED
    BY <1>1, <1>3, <2>1, <2>2, <2>3, TornKeeps
<1> QED
  BY <1>1, <1>2, <1>3, Sizes

\* A call that fails and leaves nothing behind.
LEMMA FailedStep ==
    ASSUME failed' = TRUE, UNCHANGED <<sectorMap, chg, torn>>
    PROVE  DiskStep
<1>1. Contents' = Contents
  BY SameDisk
<1> QED
  BY <1>1 DEF DiskStep, Device!Next, Device!Fail

LEMMA ReadStep ==
    ASSUME IndInv, Read, UNCHANGED parser
    PROVE  IndInv' /\ DiskStep
<1>1. phase = "open" /\ UNCHANGED <<phase, sectorMap, chg, chgSector, log, pending, torn>>
  BY DEF Read, Ready
<1>2. PendingOK'
  <2>1. PendingOK
    BY DEF IndInv, Types
  <2> QED
    BY <1>1, <2>1 DEF PendingOK
<1>3. PICK c \in Reads :
         /\ call' = c
         /\ \/ reply' = [k \in 0 .. c.Size - 1 |-> UnitAt(c.Offset + k)] /\ failed' = FALSE
            \/ failed' = TRUE
         /\ chgPos' \in {chgPos, AfterReading(c)}
  BY DEF Read, Fails
<1>4. IndInv'
  <2>1. failed' \in BOOLEAN
    BY <1>3
  <2>2. chgPos' \in {chgPos, AfterReading(c)}
    BY <1>3
  <2> QED
    BY <1>1, <1>2, <2>1, <2>2, UnharmedKeeps
<1>5. CASE failed' = TRUE
  BY <1>1, <1>4, <1>5, FailedStep
<1>6. CASE reply' = [k \in 0 .. c.Size - 1 |-> UnitAt(c.Offset + k)] /\ failed' = FALSE
  <2>2. c.op = "read" /\ c.Offset \in Nat /\ c.Size \in Nat /\ c.Offset + c.Size <= MaxSize
    BY HookedIoAssumption
  <2>3. ASSUME NEW k \in 0 .. c.Size - 1 PROVE UnitAt(c.Offset + k) = Contents[c.Offset + k]
    <3> DEFINE o == c.Offset
               z == c.Size
    <3>1. o \in Nat /\ z \in Nat /\ o + z <= MaxSize /\ k \in 0 .. z - 1 /\ MaxSize \in Nat
      BY <2>2, Sizes
    <3> HIDE DEF o, z
    <3>2. o + k \in 0 .. MaxSize - 1
      BY <3>1
    <3> QED
      BY <3>2 DEF Contents, o
  <2>4. reply' = [k \in 0 .. c.Size - 1 |-> Contents[c.Offset + k]]
    BY <1>6, <2>3
  <2>5. Contents' = Contents
    BY <1>1, SameDisk
  <2>6. Device!Read
    BY <1>1, <1>3, <1>6, <2>2, <2>4, <2>5 DEF Device!Read
  <2> QED
    BY <1>4, <2>6 DEF DiskStep, Device!Next
<1> QED
  BY <1>3, <1>5, <1>6

(* A write that has been logged: the invariant goes on with a new entry.   *)
LEMMA LoggedKeeps ==
    ASSUME IndInv, phase = "open", torn = 0, Len(log) < MaxLog, UNCHANGED <<phase, torn, parser>>, failed' \in BOOLEAN,
           AtEnd', PendingOK', NEW e, Logged(e)
    PROVE  IndInv'
<1>1. AtEnd /\ LogOK /\ \E at : Recorded(at)
  BY OpenFacts
<1>2. PICK at : Recorded(at)
  BY <1>1
<1>3. LogOK' /\ \E g \in [1 .. Len(log') + 1 -> 0 .. Len(chg')] : Recorded(g)'
  BY <1>1, <1>2, LogStep
<1> QED
  BY <1>3, OpenKeeps

LEMMA ZeroesOntoDisk ==
    ASSUME IndInv, WriteZeroes, UNCHANGED parser, torn = 0
    PROVE  IndInv' /\ DiskStep
<1>1. phase = "open" /\ failed' = FALSE /\ UNCHANGED <<phase, chg, chgPos, chgSector, pending, torn>>
      /\ Len(log) < MaxLog
  BY DEF WriteZeroes, Ready, Done
<1>2. AtEnd /\ chgPos = Len(chg) /\ PendingOK /\ Len(chg) \in Nat
  BY <1>1, OpenFacts
<1>3. PICK c \in Writes :
         /\ Aligned(c) /\ AllZero(c) /\ call' = c /\ sectorMap' = Blanked(c)
         /\ log' = Append(log, Entry(c.Offset, c.Size, TRUE))
  BY DEF WriteZeroes
<1>4. c.op = "write" /\ c.Offset \in Nat /\ c.Size \in Nat \ {0} /\ c.Offset + c.Size <= MaxSize
  BY HookedIoAssumption
<1> DEFINE a == SectorOf(c.Offset)
           n == c.Size \div SectorSize
<1>5. /\ a \in Nat /\ n \in Nat \ {0} /\ c.Offset = a * SectorSize /\ c.Size = n * SectorSize
      /\ c.Offset + c.Size = (a + n) * SectorSize /\ SectorsOf(c) = a .. a + n - 1
  BY <1>3, <1>4, AlignedCall
<1> HIDE DEF a, n
<1>6. /\ AtEnd' /\ DOMAIN sectorMap' = DOMAIN sectorMap \cup SectorsOf(c)
      /\ \A i \in Offsets : UnitAt(i)' = IF SectorOf(i) \in SectorsOf(c) THEN 0 ELSE UnitAt(i)
  BY <1>1, <1>2, <1>3, <1>4, BlankSectors
<1>7. \A i \in Offsets : SectorOf(i) \in SectorsOf(c) <=> Within(c, i)
  <2> SUFFICES ASSUME NEW i \in Offsets PROVE SectorOf(i) \in SectorsOf(c) <=> Within(c, i)
    OBVIOUS
  <2>1. i \in Nat
    BY UnitSector
  <2>2. SectorOf(i) \in a .. a + n - 1 <=> a * SectorSize <= i /\ i < (a + n) * SectorSize
    BY <1>5, <2>1, RowUnits
  <2> QED
    BY <1>5, <2>2 DEF Within
<1> DEFINE e == Entry(c.Offset, c.Size, TRUE)
<1>8. e.Offset = c.Offset /\ e.Size = c.Size /\ e.IsZero = TRUE /\ e \in LogEntry
  BY <1>4 DEF Entry, LogEntry
<1>9. Whole(c.Offset, c.Size)
  BY <1>4, <1>5 DEF Whole
<1>10. log' = Append(log, e)
  BY <1>3
<1> HIDE DEF e
<1>11. Logged(e)
  <2>1. \A i : Within(e, i) <=> Within(c, i)
    BY <1>8 DEF Within
  <2>2. \A i \in Offsets : Within(e, i) => SectorOf(i) \in DOMAIN sectorMap' /\ UnitAt(i)' = 0
    BY <1>6, <1>7, <2>1
  <2>3. \A i \in Offsets : ~Within(e, i) =>
          /\ SectorOf(i) \in DOMAIN sectorMap' <=> SectorOf(i) \in DOMAIN sectorMap
          /\ UnitAt(i)' = UnitAt(i)
    BY <1>6, <1>7, <2>1
  <2> QED
    BY <1>1, <1>2, <1>8, <1>9, <1>10, <2>2, <2>3 DEF Logged
<1>12. PendingOK'
  BY <1>1, <1>2 DEF PendingOK
<1>13. IndInv'
  BY <1>1, <1>6, <1>11, <1>12, LoggedKeeps
<1>14. \A i \in Offsets : UnitAt(i)' = IF Within(c, i) THEN c.Bytes[i - c.Offset] ELSE UnitAt(i)
  <2>1. ASSUME NEW i \in Offsets, Within(c, i) PROVE c.Bytes[i - c.Offset] = 0
    <3> DEFINE o == c.Offset
               z == c.Size
    <3>1. o \in Nat /\ z \in Nat /\ i \in Nat /\ o <= i /\ i < o + z
      BY <1>4, <2>1, UnitSector DEF Within
    <3> HIDE DEF o, z
    <3>2. i - o \in 0 .. z - 1
      BY <3>1
    <3> QED
      BY <1>3, <3>2 DEF AllZero, o, z
  <2> QED
    BY <1>6, <1>7, <2>1
<1>15. DiskStep
  BY <1>1, <1>3, <1>4, <1>14, DiskWrite
<1> QED
  BY <1>13, <1>15

LEMMA WriteZeroesStep ==
    ASSUME IndInv, WriteZeroes, UNCHANGED parser
    PROVE  IndInv' /\ DiskStep
<1>1. phase = "open" /\ failed' = FALSE /\ UNCHANGED <<phase, chg, chgPos, chgSector, pending, torn>>
      /\ Len(log) < MaxLog
  BY DEF WriteZeroes, Ready, Done
<1>2. PICK c \in Writes :
         /\ Aligned(c) /\ sectorMap' = Blanked(c)
         /\ log' = Append(log, Entry(c.Offset, c.Size, TRUE))
  BY DEF WriteZeroes
<1>3. c.Offset \in Nat /\ c.Size \in Nat \ {0} /\ c.Offset + c.Size <= MaxSize
  BY HookedIoAssumption
<1>4. Types /\ LogOK /\ PendingOK /\ MapOK /\ chgSector \in Nat /\ chg \in Seq(Data) /\ torn \in 0 .. MaxTorn
  BY DEF IndInv, Types
<1>5. CASE torn > 0
  <2>1. SectorsOf(c) \subseteq 0 .. SectorOf(MaxSize) - 1
    BY <1>3, CallSectors
  <2>2. MapOK'
    <3>1. -1 \in -1 .. chgSector - 1
      BY <1>4
    <3>2. /\ DOMAIN sectorMap' = DOMAIN sectorMap \cup SectorsOf(c)
          /\ \A s \in DOMAIN sectorMap' : sectorMap'[s] = -1 \/ (s \in DOMAIN sectorMap /\ sectorMap'[s] = sectorMap[s])
      BY <1>2 DEF Blanked, Blank
    <3> QED
      BY <1>1, <1>4, <2>1, <3>1, <3>2 DEF MapOK, SectorOf
  <2>3. Entry(c.Offset, c.Size, TRUE) \in LogEntry /\ Whole(c.Offset, c.Size)
    <3>1. Whole(c.Offset, c.Size)
      BY <1>2, <1>3, AlignedCall DEF Whole
    <3> QED
      BY <1>3, <3>1 DEF Entry, LogEntry
  <2>4. LogOK'
    <3>1. PICK e : e = Entry(c.Offset, c.Size, TRUE)
      OBVIOUS
    <3>2. e \in LogEntry /\ Whole(e.Offset, e.Size) /\ log' = Append(log, e)
      BY <1>2, <2>3, <3>1 DEF Entry
    <3> QED
      BY <1>1, <1>4, <3>2, LogGrows
  <2>5. PendingOK'
    BY <1>1, <1>4 DEF PendingOK
  <2>6. chgPos' \in chgSector' * SectorSize .. Len(chg')
    BY <1>1, <1>4 DEF Types
  <2>7. torn' \in 1 .. MaxTorn
    BY <1>1, <1>4, <1>5, Sizes
  <2> QED
    BY <1>1, <1>4, <1>5, <2>2, <2>4, <2>5, <2>6, <2>7, TornKeeps
<1> QED
  BY <1>4, <1>5, ZeroesOntoDisk, Sizes

(* Sectors written with data, and logged as one entry.                     *)
LEMMA SectorsLogged ==
    ASSUME AtEnd, NEW first \in Nat, NEW n \in Nat \ {0}, (first + n) * SectorSize <= MaxSize,
           NEW bytes, \A k \in 0 .. n * SectorSize - 1 : bytes[k] \in Data,
           chg' = WriteAt(chg, Len(chg), bytes, n * SectorSize), chgPos' = Len(chg) + n * SectorSize,
           chgSector' = chgSector + n, sectorMap' = Mapped(first, n),
           NEW e, e = Entry(first * SectorSize, n * SectorSize, FALSE), log' = Append(log, e)
    PROVE  /\ AtEnd' /\ Logged(e)
           /\ \A i \in Offsets :
                 UnitAt(i)' = IF Within(e, i) THEN bytes[i - first * SectorSize] ELSE UnitAt(i)
<1> DEFINE S == SectorSize
<1>1. /\ AtEnd'
      /\ DOMAIN sectorMap' = DOMAIN sectorMap \cup first .. first + n - 1
      /\ \A i \in Offsets :
            UnitAt(i)' = IF SectorOf(i) \in first .. first + n - 1
                           THEN bytes[i - first * SectorSize] ELSE UnitAt(i)
  BY PutSectors
<1>2. /\ S \in Nat \ {0} /\ n * S \in Nat /\ first * S \in Nat /\ (first + n) * S = first * S + n * S
      /\ Len(chg) \in Nat /\ chg \in Seq(Data)
  BY Sizes, TimesAdd DEF AtEnd
<1>3. /\ chg' \in Seq(Data) /\ Len(chg') = Len(chg) + n * S
      /\ \A j \in 1 .. Len(chg) : chg'[j] = chg[j]
      /\ \A k \in 0 .. n * S - 1 : chg'[Len(chg) + k + 1] = bytes[k]
  <2>1. PICK m : m = n * S
    OBVIOUS
  <2>2. m \in Nat /\ chg \in Seq(Data) /\ (\A k \in 0 .. m - 1 : bytes[k] \in Data)
    BY <1>2, <2>1
  <2>3. PICK f : f = chg'
    OBVIOUS
  <2>4. f = WriteAt(chg, Len(chg), bytes, m)
    BY <2>1, <2>3
  <2>5. /\ f \in Seq(Data) /\ Len(f) = Len(chg) + m
        /\ \A j \in 1 .. Len(chg) : f[j] = chg[j]
        /\ \A k \in 0 .. m - 1 : f[Len(chg) + k + 1] = bytes[k]
    BY <2>2, <2>4, WriteAtEnd, SMTT(30)
  <2> QED
    BY <2>1, <2>3, <2>5
<1>4. e.Offset = first * S /\ e.Size = n * S /\ e.IsZero = FALSE /\ e \in LogEntry
  BY <1>2 DEF Entry, LogEntry
<1>5. \A i \in Offsets : SectorOf(i) \in first .. first + n - 1 <=> Within(e, i)
  <2> SUFFICES ASSUME NEW i \in Offsets PROVE SectorOf(i) \in first .. first + n - 1 <=> Within(e, i)
    OBVIOUS
  <2>1. i \in Nat
    BY UnitSector
  <2>2. SectorOf(i) \in first .. first + n - 1 <=> first * S <= i /\ i < (first + n) * S
    BY <2>1, RowUnits
  <2> QED
    BY <1>2, <1>4, <2>2 DEF Within
<1>6. Whole(e.Offset, e.Size)
  BY <1>4 DEF Whole
<1>7. \A i \in Offsets : Within(e, i) =>
          /\ SectorOf(i) \in DOMAIN sectorMap'
          /\ UnitAt(i)' = chg'[Len(chg) + (i - e.Offset) + 1]
  <2> SUFFICES ASSUME NEW i \in Offsets, Within(e, i)
               PROVE  /\ SectorOf(i) \in DOMAIN sectorMap'
                      /\ UnitAt(i)' = chg'[Len(chg) + (i - e.Offset) + 1]
    OBVIOUS
  <2>1. i - first * S \in 0 .. n * S - 1
    <3>1. PICK o, z : o = first * S /\ z = n * S
      OBVIOUS
    <3>2. o \in Nat /\ z \in Nat /\ i \in Nat /\ o <= i /\ i < o + z
      BY <1>2, <1>4, <3>1, UnitSector DEF Within
    <3>3. i - o \in 0 .. z - 1
      BY <3>2
    <3> QED
      BY <3>1, <3>3
  <2>2. chg'[Len(chg) + (i - first * S) + 1] = bytes[i - first * S]
    BY <1>3, <2>1
  <2> QED
    BY <1>1, <1>4, <1>5, <2>2
<1>8. \A i \in Offsets : ~Within(e, i) =>
          /\ SectorOf(i) \in DOMAIN sectorMap' <=> SectorOf(i) \in DOMAIN sectorMap
          /\ UnitAt(i)' = UnitAt(i)
  BY <1>1, <1>5
<1>9. Logged(e)
  <2>1. chgPos' = Len(chg') /\ Len(chg') = Len(chg) + e.Size
    BY <1>3, <1>4
  <2> QED
    BY <1>3, <1>4, <1>6, <1>7, <1>8, <2>1 DEF Logged
<1> QED
  BY <1>1, <1>5, <1>9

LEMMA WriteOntoDisk ==
    ASSUME IndInv, Write, UNCHANGED parser, torn = 0
    PROVE  IndInv' /\ DiskStep
<1>1. phase = "open" /\ failed' = FALSE /\ UNCHANGED <<phase, pending, torn>> /\ Len(log) < MaxLog
  BY DEF Write, Ready, Done
<1>2. AtEnd /\ chgPos = Len(chg) /\ PendingOK /\ Len(chg) \in Nat
  BY <1>1, OpenFacts
<1>3. PICK c \in Writes :
         /\ Aligned(c) /\ call' = c
         /\ chg' = WriteAt(chg, chgPos, c.Bytes, c.Size)
         /\ chgPos' = chgPos + c.Size
         /\ chgSector' = chgSector + (c.Size \div SectorSize)
         /\ sectorMap' = Mapped(SectorOf(c.Offset), c.Size \div SectorSize)
         /\ log' = Append(log, Entry(c.Offset, c.Size, FALSE))
  BY DEF Write
<1>4. /\ c.op = "write" /\ c.Offset \in Nat /\ c.Size \in Nat \ {0} /\ c.Offset + c.Size <= MaxSize
      /\ c.Bytes \in [0 .. c.Size - 1 -> Data]
  BY HookedIoAssumption
<1>5. PICK a, n : a = SectorOf(c.Offset) /\ n = c.Size \div SectorSize
  OBVIOUS
<1>6. /\ a \in Nat /\ n \in Nat \ {0} /\ c.Offset = a * SectorSize /\ c.Size = n * SectorSize
      /\ c.Offset + c.Size = (a + n) * SectorSize
  BY <1>3, <1>4, <1>5, AlignedCall
<1>7. PICK e : e = Entry(c.Offset, c.Size, FALSE)
  OBVIOUS
<1>8. /\ (a + n) * SectorSize <= MaxSize
      /\ \A k \in 0 .. n * SectorSize - 1 : c.Bytes[k] \in Data
      /\ chg' = WriteAt(chg, Len(chg), c.Bytes, n * SectorSize) /\ chgPos' = Len(chg) + n * SectorSize
      /\ chgSector' = chgSector + n /\ sectorMap' = Mapped(a, n)
      /\ e = Entry(a * SectorSize, n * SectorSize, FALSE) /\ log' = Append(log, e)
  BY <1>2, <1>3, <1>4, <1>5, <1>6, <1>7
<1>9. /\ AtEnd' /\ Logged(e)
      /\ \A i \in Offsets :
            UnitAt(i)' = IF Within(e, i) THEN c.Bytes[i - a * SectorSize] ELSE UnitAt(i)
  BY <1>2, <1>6, <1>8, SectorsLogged
<1>10. PendingOK'
  BY <1>1, <1>2 DEF PendingOK
<1>11. IndInv'
  BY <1>1, <1>9, <1>10, LoggedKeeps
<1>12. \A i \in Offsets : UnitAt(i)' = IF Within(c, i) THEN c.Bytes[i - c.Offset] ELSE UnitAt(i)
  <2>1. \A i : Within(e, i) <=> Within(c, i)
    BY <1>7 DEF Within, Entry
  <2> QED
    BY <1>6, <1>9, <2>1
<1>13. DiskStep
  BY <1>1, <1>3, <1>4, <1>12, DiskWrite
<1> QED
  BY <1>11, <1>13

(* What any write leaves of the change file and its map, when n units of   *)
(* bytes have got there and their sectors are mapped.                      *)
LEMMA WriteLeaves ==
    ASSUME Types, NEW a \in Nat, NEW n \in Nat, NEW q \in Nat, q * SectorSize <= n,
           (a + q) * SectorSize <= MaxSize, NEW bytes, \A k \in 0 .. n - 1 : bytes[k] \in Data,
           NEW p \in chgSector * SectorSize .. Len(chg),
           chg' = WriteAt(chg, p, bytes, n), chgPos' = p + n,
           chgSector' = chgSector + q, sectorMap' = Mapped(a, q)
    PROVE  /\ chg' \in Seq(Data) /\ chgSector' \in Nat /\ MapOK'
           /\ chgPos' \in chgSector' * SectorSize .. Len(chg')
<1>1. /\ chg \in Seq(Data) /\ chgSector \in Nat /\ MapOK /\ Len(chg) \in Nat
      /\ chgSector * SectorSize \in Nat /\ SectorSize \in Nat
  BY TypesHas, Sizes DEF Types
<1>2. p \in Nat /\ p \in 0 .. Len(chg) /\ chgSector * SectorSize <= p
  BY <1>1
<1>3. chg' \in Seq(Data) /\ Len(chg') \in Nat /\ p + n <= Len(chg')
  <2>1. PICK f : f = chg'
    OBVIOUS
  <2>2. f = WriteAt(chg, p, bytes, n)
    BY <2>1
  <2>3. f \in Seq(Data) /\ Len(f) \in Nat /\ p + n <= Len(f)
    BY <1>1, <1>2, <2>2, WriteAtData
  <2> QED
    BY <2>1, <2>3
<1>4. MapOK'
  BY <1>1, MappedIs
<1>5. chgSector' \in Nat /\ chgSector' * SectorSize = chgSector * SectorSize + q * SectorSize
      /\ q * SectorSize \in Nat
  BY <1>1, TimesAdd
<1>6. chgSector' * SectorSize <= p + n
  BY <1>1, <1>2, <1>5
<1>7. chgPos' \in chgSector' * SectorSize .. Len(chg')
  BY <1>2, <1>3, <1>5, <1>6
<1> QED
  BY <1>3, <1>4, <1>5, <1>7

LEMMA WriteStep ==
    ASSUME IndInv, Write, UNCHANGED parser
    PROVE  IndInv' /\ DiskStep
<1>1. phase = "open" /\ failed' = FALSE /\ UNCHANGED <<phase, pending, torn>> /\ Len(log) < MaxLog
  BY DEF Write, Ready, Done
<1>2. Types /\ LogOK /\ PendingOK /\ torn \in 0 .. MaxTorn /\ chgPos \in chgSector * SectorSize .. Len(chg)
  BY DEF IndInv, Types
<1>3. PICK c \in Writes :
         /\ Aligned(c)
         /\ chg' = WriteAt(chg, chgPos, c.Bytes, c.Size)
         /\ chgPos' = chgPos + c.Size
         /\ chgSector' = chgSector + (c.Size \div SectorSize)
         /\ sectorMap' = Mapped(SectorOf(c.Offset), c.Size \div SectorSize)
         /\ log' = Append(log, Entry(c.Offset, c.Size, FALSE))
  BY DEF Write
<1>4. /\ c.Offset \in Nat /\ c.Size \in Nat \ {0} /\ c.Offset + c.Size <= MaxSize
      /\ c.Bytes \in [0 .. c.Size - 1 -> Data]
  BY HookedIoAssumption
<1>5. CASE torn > 0
  <2>1. PICK a, q, z, b : a = SectorOf(c.Offset) /\ q = c.Size \div SectorSize /\ z = c.Size /\ b = c.Bytes
    OBVIOUS
  <2>2. /\ a \in Nat /\ q \in Nat \ {0} /\ c.Offset = a * SectorSize /\ z = q * SectorSize
        /\ c.Offset + c.Size = (a + q) * SectorSize
    BY <1>3, <1>4, <2>1, AlignedCall
  <2>3. z \in Nat /\ q * SectorSize <= z /\ (a + q) * SectorSize <= MaxSize /\ q \in Nat
    BY <1>4, <2>1, <2>2
  <2>4. \A k \in 0 .. z - 1 : b[k] \in Data
    BY <1>4, <2>1
  <2>5. /\ chg' = WriteAt(chg, chgPos, b, z) /\ chgPos' = chgPos + z
        /\ chgSector' = chgSector + q /\ sectorMap' = Mapped(a, q)
    BY <1>3, <2>1
  <2>6. /\ chg' \in Seq(Data) /\ chgSector' \in Nat /\ MapOK'
        /\ chgPos' \in chgSector' * SectorSize .. Len(chg')
    BY <1>2, <2>2, <2>3, <2>4, <2>5, WriteLeaves
  <2>7. LogOK'
    <3>1. PICK e : e = Entry(c.Offset, c.Size, FALSE)
      OBVIOUS
    <3>2. e \in LogEntry /\ e.Offset = c.Offset /\ e.Size = c.Size
      BY <1>4, <3>1 DEF Entry, LogEntry
    <3>3. Whole(e.Offset, e.Size)
      BY <1>4, <2>1, <2>2, <3>2 DEF Whole
    <3> QED
      BY <1>1, <1>2, <1>3, <3>1, <3>2, <3>3, LogGrows
  <2>8. PendingOK'
    BY <1>1, <1>2 DEF PendingOK
  <2>9. torn' \in 1 .. MaxTorn
    BY <1>1, <1>2, <1>5, Sizes
  <2> QED
    BY <1>1, <1>5, <2>6, <2>7, <2>8, <2>9, TornKeeps
<1> QED
  BY <1>2, <1>5, WriteOntoDisk, Sizes

LEMMA WriteFailsStep ==
    ASSUME IndInv, WriteFails, UNCHANGED parser
    PROVE  IndInv' /\ DiskStep
<1>1. phase = "open" /\ failed' = TRUE /\ UNCHANGED <<phase, log, pending>>
  BY DEF WriteFails, Ready, Fails
<1>2. Types /\ LogOK /\ PendingOK /\ torn \in 0 .. MaxTorn /\ chgPos \in chgSector * SectorSize .. Len(chg)
  BY DEF IndInv, Types
<1>3. LogOK' /\ PendingOK'
  BY <1>1, <1>2 DEF LogOK, PendingOK, Whole
<1>4. PICK c \in Writes :
         \/ UNCHANGED <<chg, chgPos, chgSector, sectorMap, torn>>
         \/ /\ Aligned(c) /\ Tears
            /\ \E n \in 1 .. c.Size - 1 :
                 /\ chg' = WriteAt(chg, chgPos, c.Bytes, n)
                 /\ chgPos' = chgPos + n
                 /\ chgSector' = chgSector + (n \div SectorSize)
                 /\ sectorMap' = Mapped(SectorOf(c.Offset), n \div SectorSize)
  BY DEF WriteFails
<1>5. CASE UNCHANGED <<chg, chgPos, chgSector, sectorMap, torn>>
  <2>1. IndInv'
    BY <1>1, <1>3, <1>5, UnharmedKeeps
  <2> QED
    BY <1>1, <1>5, <2>1, FailedStep
<1>6. ASSUME Aligned(c), Tears, NEW n \in 1 .. c.Size - 1,
             chg' = WriteAt(chg, chgPos, c.Bytes, n), chgPos' = chgPos + n,
             chgSector' = chgSector + (n \div SectorSize),
             sectorMap' = Mapped(SectorOf(c.Offset), n \div SectorSize)
      PROVE  IndInv' /\ DiskStep
  <2>1. /\ c.Offset \in Nat /\ c.Size \in Nat \ {0} /\ c.Offset + c.Size <= MaxSize
        /\ c.Bytes \in [0 .. c.Size - 1 -> Data]
    BY HookedIoAssumption
  <2>2. PICK a, q, z, b : a = SectorOf(c.Offset) /\ q = n \div SectorSize /\ z = c.Size /\ b = c.Bytes
    OBVIOUS
  <2>3. n \in Nat /\ n < z /\ \A k \in 0 .. n - 1 : b[k] \in Data
    <3>1. z \in Nat /\ n \in 1 .. z - 1
      BY <2>1, <2>2
    <3>2. n \in Nat /\ n < z /\ \A k \in 0 .. n - 1 : k \in 0 .. z - 1
      BY <3>1
    <3> QED
      BY <2>1, <2>2, <3>2
  <2>4. a \in Nat /\ c.Offset = a * SectorSize
    BY <1>6, <2>1, <2>2, AlignedCall
  <2>5. q \in Nat /\ q * SectorSize <= n
    BY <2>2, <2>3, Sizes, DivBounds
  <2>6. (a + q) * SectorSize <= MaxSize
    <3>1. PICK o, p : o = a * SectorSize /\ p = q * SectorSize
      OBVIOUS
    <3>2. o \in Nat /\ p \in Nat /\ (a + q) * SectorSize = o + p
      BY <2>4, <2>5, <3>1, Sizes, TimesAdd
    <3>3. o + z <= MaxSize /\ n < z /\ p <= n /\ z \in Nat /\ MaxSize \in Nat
      BY <2>1, <2>2, <2>3, <2>4, <2>5, <3>1, Sizes
    <3> QED
      BY <2>3, <3>2, <3>3
  <2>7. /\ chg' = WriteAt(chg, chgPos, b, n) /\ chgSector' = chgSector + q /\ sectorMap' = Mapped(a, q)
    BY <1>6, <2>2
  <2>8. /\ chg' \in Seq(Data) /\ chgSector' \in Nat /\ MapOK'
        /\ chgPos' \in chgSector' * SectorSize .. Len(chg')
    BY <1>2, <1>6, <2>3, <2>4, <2>5, <2>6, <2>7, WriteLeaves
  <2>9. torn' \in 1 .. MaxTorn
    BY <1>2, <1>6, Sizes DEF Tears
  <2> QED
    BY <1>1, <1>3, <2>8, <2>9, TornKeeps
<1> QED
  BY <1>4, <1>5, <1>6

LEMMA WriteByteStep ==
    ASSUME IndInv, WriteByte, UNCHANGED parser
    PROVE  IndInv' /\ DiskStep
<1>1. phase = "open"
      /\ UNCHANGED <<phase, sectorMap, chg, chgPos, chgSector, log, call, reply, failed, torn>>
      /\ pending' \in ByteWrites
  BY DEF WriteByte, Ready
<1>2. failed \in BOOLEAN
  BY DEF IndInv, Types
<1>3. PendingOK'
  BY <1>1, HookedIoAssumption DEF PendingOK
<1>4. IndInv'
  BY <1>1, <1>2, <1>3, UnharmedKeeps
<1>5. DiskStep
  BY <1>1, SameDisk DEF DiskStep
<1> QED
  BY <1>4, <1>5

(***************************************************************************)
(* hooked_write_byte, sector by sector.                                    *)
(***************************************************************************)
LEMMA PartIs ==
    ASSUME PendingOK, pending # None
    PROVE  /\ Part.op = "write" /\ Part.Offset = pending.Offset /\ pending.Offset \in Offsets
           /\ Part.Size \in Nat \ {0} /\ Part.Size <= pending.Size
           /\ SectorOf(pending.Offset) * SectorSize <= pending.Offset
           /\ pending.Offset + Part.Size <= (SectorOf(pending.Offset) + 1) * SectorSize
           /\ \A k \in 0 .. Part.Size - 1 : Part.Bytes[k] = pending.Bytes[k] /\ Part.Bytes[k] \in Data
<1> DEFINE room == SectorSize - (pending.Offset % SectorSize)
           todo == IF pending.Size < room THEN pending.Size ELSE room
           bytes == [k \in 0 .. todo - 1 |-> pending.Bytes[k]]
<1>1. /\ pending.op = "write" /\ DOMAIN pending = {"op", "Offset", "Size", "Bytes"}
      /\ pending.Offset \in Nat /\ pending.Size \in Nat \ {0} /\ pending.Offset + pending.Size <= MaxSize
      /\ pending.Bytes \in [0 .. pending.Size - 1 -> Data]
  BY DEF PendingOK
<1>2. /\ Part.op = "write" /\ Part.Offset = pending.Offset /\ Part.Size = todo /\ Part.Bytes = bytes
  <2>1. Part = [pending EXCEPT !.Size = todo, !.Bytes = bytes]
    BY DEF Part
  <2> HIDE DEF todo, bytes
  <2> QED
    BY <1>1, <2>1
<1>3. PICK o, z, q, r, S, M : /\ o = pending.Offset /\ z = pending.Size /\ S = SectorSize /\ M = MaxSize
                              /\ q = SectorOf(pending.Offset) * SectorSize /\ r = pending.Offset % SectorSize
  OBVIOUS
<1>4. pending.Offset \in Offsets
  <2>1. o \in Nat /\ z \in Nat \ {0} /\ o + z <= M /\ M \in Nat
    BY <1>1, <1>3, Sizes
  <2>2. o \in 0 .. M - 1
    BY <2>1
  <2> QED
    BY <1>3, <2>2 DEF Offsets
<1>5. q \in Nat /\ r \in 0 .. S - 1 /\ o = q + r /\ S \in Nat \ {0} /\ z \in Nat \ {0} /\ o \in Nat
  BY <1>1, <1>3, <1>4, UnitSector, Sizes
<1>6. /\ todo = IF z < S - r THEN z ELSE S - r
  BY <1>3
<1>7. (SectorOf(pending.Offset) + 1) * SectorSize = q + S
  <2>1. SectorOf(pending.Offset) \in Nat
    BY <1>4, UnitSector
  <2> QED
    BY <1>3, <2>1, Sizes, TimesAdd
<1> HIDE DEF todo, room, bytes
<1>8. todo \in Nat \ {0} /\ todo <= z /\ q <= o /\ o + todo <= q + S
  BY <1>5, <1>6
<1>9. ASSUME NEW k \in 0 .. todo - 1 PROVE bytes[k] = pending.Bytes[k] /\ bytes[k] \in Data
  <2>1. k \in 0 .. z - 1
    BY <1>5, <1>8
  <2>2. pending.Bytes[k] \in Data
    BY <1>1, <1>3, <2>1
  <2> QED
    BY <2>2 DEF bytes
<1> QED
  BY <1>2, <1>3, <1>4, <1>7, <1>8, <1>9

(* What remains of the write is again a write within the device.           *)
LEMMA RemainderOK ==
    ASSUME PendingOK, pending # None, pending' = Remainder
    PROVE  PendingOK'
<1>1. /\ pending.op = "write" /\ DOMAIN pending = {"op", "Offset", "Size", "Bytes"}
      /\ pending.Offset \in Nat /\ pending.Size \in Nat \ {0} /\ pending.Offset + pending.Size <= MaxSize
      /\ pending.Bytes \in [0 .. pending.Size - 1 -> Data]
  BY DEF PendingOK
<1>2. PICK o, z, t, P : o = pending.Offset /\ z = pending.Size /\ t = Part.Size /\ P = pending.Bytes
  OBVIOUS
<1>3. o \in Nat /\ z \in Nat \ {0} /\ o + z <= MaxSize /\ t \in Nat \ {0} /\ t <= z /\ MaxSize \in Nat
  BY <1>1, <1>2, PartIs, Sizes
<1>4. CASE z = t
  BY <1>2, <1>4 DEF Remainder, PendingOK, None
<1>5. CASE z # t
  <2>1. PICK b : b = [k \in 0 .. z - t - 1 |-> P[k + t]]
    OBVIOUS
  <2>2. pending' = [pending EXCEPT !.Offset = o + t, !.Size = z - t, !.Bytes = b]
    BY <1>2, <1>5, <2>1 DEF Remainder
  <2>3. /\ pending'.op = "write" /\ DOMAIN pending' = {"op", "Offset", "Size", "Bytes"}
        /\ pending'.Offset = o + t /\ pending'.Size = z - t /\ pending'.Bytes = b
    BY <1>1, <2>2
  <2>4. o + t \in Nat /\ z - t \in Nat \ {0} /\ (o + t) + (z - t) <= MaxSize
    BY <1>3, <1>5
  <2>5. ASSUME NEW k \in 0 .. z - t - 1 PROVE P[k + t] \in Data
    <3>1. k + t \in 0 .. z - 1
      BY <1>3, <1>5
    <3> QED
      BY <1>1, <1>2, <3>1
  <2>6. b \in [0 .. z - t - 1 -> Data]
    BY <2>1, <2>5
  <2> QED
    BY <2>3, <2>4, <2>6 DEF PendingOK
<1> QED
  BY <1>4, <1>5

(* The sector that is written back is the one that was read with the part  *)
(* put into it.                                                            *)
LEMMA PatchedIs ==
    ASSUME HasSectors, PendingOK, pending # None, NEW s, s = SectorOf(pending.Offset)
    PROVE  /\ s \in Nat /\ (s + 1) * SectorSize <= MaxSize
           /\ \A k \in 0 .. SectorSize - 1 : Patched(s)[k] \in Data
           /\ \A i \in Offsets : s * SectorSize <= i /\ i < (s + 1) * SectorSize =>
                 Patched(s)[i - s * SectorSize] = IF Within(Part, i) THEN Part.Bytes[i - Part.Offset] ELSE UnitAt(i)
           /\ \A i \in Offsets : Within(Part, i) => s * SectorSize <= i /\ i < (s + 1) * SectorSize
<1>1. /\ Part.Offset = pending.Offset /\ pending.Offset \in Offsets /\ Part.Size \in Nat \ {0}
      /\ s * SectorSize <= pending.Offset /\ pending.Offset + Part.Size <= (s + 1) * SectorSize
      /\ \A k \in 0 .. Part.Size - 1 : Part.Bytes[k] \in Data
  BY PartIs
<1>2. s \in Nat /\ s \in 0 .. SectorOf(MaxSize) - 1 /\ s * SectorSize \in Nat
  BY <1>1, UnitSector
<1>3. PICK q, S, o, t : q = s * SectorSize /\ S = SectorSize /\ o = Part.Offset /\ t = Part.Size
  OBVIOUS
<1>4. (s + 1) * SectorSize = q + S /\ (s + 1) * SectorSize <= MaxSize
  <2>1. (s + 1) * SectorSize = q + S
    BY <1>2, <1>3, Sizes, TimesAdd
  <2>2. s + 1 <= SectorOf(MaxSize) /\ s + 1 \in Nat /\ SectorOf(MaxSize) \in Nat
    BY <1>2, Sizes
  <2> QED
    BY <2>1, <2>2, Sizes, TimesMonotone
<1>5. /\ q \in Nat /\ S \in Nat \ {0} /\ o \in Nat /\ t \in Nat \ {0} /\ q <= o /\ o + t <= q + S
      /\ q + S <= MaxSize /\ MaxSize \in Nat
  BY <1>1, <1>2, <1>3, <1>4, Sizes, UnitSector
<1>6. ASSUME NEW k \in 0 .. S - 1
      PROVE  /\ q + k \in Offsets
             /\ Patched(s)[k] = IF Within(Part, q + k) THEN Part.Bytes[(q + k) - Part.Offset] ELSE UnitAt(q + k)
  <2>1. q + k \in 0 .. MaxSize - 1
    BY <1>5
  <2>2. (0 <= q + k - o /\ q + k - o < t) <=> (o <= q + k /\ q + k < o + t)
    BY <1>5
  <2>3. Patched(s)[k] = IF 0 <= q + k - o /\ q + k - o < t THEN Part.Bytes[q + k - o] ELSE UnitAt(q + k)
    BY <1>3 DEF Patched
  <2>4. Within(Part, q + k) <=> 0 <= q + k - o /\ q + k - o < t
    <3>1. Within(Part, q + k) <=> o <= q + k /\ q + k < o + t
      BY <1>3 DEF Within
    <3> QED
      BY <2>2, <3>1
  <2>5. Patched(s)[k] = IF Within(Part, q + k) THEN Part.Bytes[(q + k) - o] ELSE UnitAt(q + k)
    <3>1. q + k - o = (q + k) - o
      BY <1>5
    <3> QED
      BY <2>3, <2>4, <3>1
  <2> QED
    BY <1>3, <2>1, <2>5 DEF Offsets
<1>7. ASSUME NEW k \in 0 .. S - 1 PROVE Patched(s)[k] \in Data
  <2>1. CASE Within(Part, q + k)
    <3>1. (q + k) - o \in 0 .. t - 1
      BY <1>3, <1>5, <2>1 DEF Within
    <3> QED
      BY <1>1, <1>3, <1>6, <2>1, <3>1
  <2>2. CASE ~Within(Part, q + k)
    BY <1>6, <2>2, UnitData
  <2> QED
    BY <2>1, <2>2
<1>8. ASSUME NEW i \in Offsets, q <= i, i < q + S
      PROVE  Patched(s)[i - q] = IF Within(Part, i) THEN Part.Bytes[i - Part.Offset] ELSE UnitAt(i)
  <2>1. i \in Nat
    BY UnitSector
  <2>2. i - q \in 0 .. S - 1 /\ q + (i - q) = i
    BY <1>5, <1>8, <2>1
  <2> QED
    BY <1>6, <2>2
<1>9. ASSUME NEW i \in Offsets, Within(Part, i) PROVE q <= i /\ i < q + S
  <2>1. i \in Nat /\ o <= i /\ i < o + t
    BY <1>3, <1>9, UnitSector DEF Within
  <2> QED
    BY <1>5, <2>1
<1> QED
  BY <1>2, <1>3, <1>4, <1>7, <1>8, <1>9

LEMMA WriteByteSectorStep ==
    ASSUME IndInv, WriteByteSector, UNCHANGED parser
    PROVE  IndInv' /\ DiskStep
<1>1. PICK s, p : s = SectorOf(pending.Offset) /\ p = AfterReading(Part)
  OBVIOUS
<1>2. phase = "open" /\ pending # None /\ UNCHANGED phase /\ Len(log) < MaxLog /\ call' = Part
  BY DEF WriteByteSector
<1>3. /\ Types /\ PendingOK /\ LogOK /\ HasSectors /\ torn \in 0 .. MaxTorn
      /\ chg \in Seq(Data) /\ MapOK /\ chgSector \in Nat
  BY TypesHas DEF IndInv, Types
<1>4. p \in chgSector * SectorSize .. Len(chg)
  <2>1. /\ chgPos \in Nat /\ Len(chg) \in Nat /\ chgSector * SectorSize \in Nat
        /\ chgSector * SectorSize <= chgPos /\ chgPos <= Len(chg)
    BY <1>3, TypesHas
  <2>2. p = chgPos \/ p = chgSector * SectorSize
    BY <1>1 DEF AfterReading
  <2> QED
    BY <2>1, <2>2
<1>5. /\ s \in Nat /\ (s + 1) * SectorSize <= MaxSize
      /\ \A k \in 0 .. SectorSize - 1 : Patched(s)[k] \in Data
      /\ \A i \in Offsets : s * SectorSize <= i /\ i < (s + 1) * SectorSize =>
            Patched(s)[i - s * SectorSize] = IF Within(Part, i) THEN Part.Bytes[i - Part.Offset] ELSE UnitAt(i)
      /\ \A i \in Offsets : Within(Part, i) => s * SectorSize <= i /\ i < (s + 1) * SectorSize
  BY <1>1, <1>2, <1>3, PatchedIs
<1>6. PICK b : b = Patched(s)
  OBVIOUS
<1>7. /\ s * SectorSize \in Nat /\ 1 * SectorSize = SectorSize /\ 0 * SectorSize = 0 /\ SectorSize \in Nat \ {0}
      /\ (s + 1) * SectorSize = s * SectorSize + SectorSize /\ MaxSize \in Nat
  BY <1>5, Sizes, TimesAdd
<1>8. torn = 0 => AtEnd /\ chgPos = Len(chg) /\ AfterReading(Part) = Len(chg) /\ Len(chg) \in Nat
  BY <1>2, OpenFacts, ReadReturns
<1>9. ASSUME chg' = WriteAt(chg, AfterReading(Part), Patched(s), SectorSize),
             chgPos' = AfterReading(Part) + SectorSize, chgSector' = chgSector + 1,
             sectorMap' = Mapped(s, 1), log' = Append(log, Entry(s * SectorSize, SectorSize, FALSE)),
             pending' = Remainder, failed' = FALSE, torn = 0, UNCHANGED torn
      PROVE  IndInv' /\ DiskStep
  <2>1. PICK e : e = Entry(s * SectorSize, SectorSize, FALSE)
    OBVIOUS
  <2>2. 1 * SectorSize = SectorSize /\ 1 \in Nat \ {0}
    BY Sizes
  <2>3. /\ \A k \in 0 .. 1 * SectorSize - 1 : Patched(s)[k] \in Data
        /\ chg' = WriteAt(chg, Len(chg), Patched(s), 1 * SectorSize) /\ chgPos' = Len(chg) + 1 * SectorSize
        /\ e = Entry(s * SectorSize, 1 * SectorSize, FALSE) /\ log' = Append(log, e)
    BY <1>5, <1>9, <1>8, <2>1, <2>2
  <2>4. b = Patched(s)
    BY <1>6
  <2>5. /\ AtEnd' /\ Logged(e)
        /\ \A i \in Offsets : UnitAt(i)' = IF Within(e, i) THEN b[i - s * SectorSize] ELSE UnitAt(i)
    BY <1>5, <1>9, <1>8, <2>2, <2>3, <2>4, SectorsLogged
  <2>6. PendingOK'
    BY <1>2, <1>3, <1>9, RemainderOK
  <2>7. IndInv'
    BY <1>2, <1>9, <2>5, <2>6, LoggedKeeps
  <2>8. \A i \in Offsets : Within(e, i) <=> s * SectorSize <= i /\ i < (s + 1) * SectorSize
    <3>1. (s + 1) * SectorSize = s * SectorSize + SectorSize
      BY <1>5, Sizes, TimesAdd
    <3>2. e.Offset = s * SectorSize /\ e.Size = SectorSize
      BY <2>1 DEF Entry
    <3> QED
      BY <3>1, <3>2 DEF Within
  <2>9. \A i \in Offsets : UnitAt(i)' = IF Within(Part, i) THEN Part.Bytes[i - Part.Offset] ELSE UnitAt(i)
    BY <1>5, <2>4, <2>5, <2>8
  <2>10. Part.op = "write"
    BY <1>2, <1>3, PartIs
  <2>11. PICK c : c = Part
    OBVIOUS
  <2>12. c.op = "write" /\ call' = c
         /\ \A i \in Offsets : UnitAt(i)' = IF Within(c, i) THEN c.Bytes[i - c.Offset] ELSE UnitAt(i)
    BY <1>2, <2>9, <2>10, <2>11
  <2>13. DiskStep
    BY <1>2, <1>9, <2>12, DiskWrite
  <2> QED
    BY <2>7, <2>13
<1>10. ASSUME chg' = WriteAt(chg, AfterReading(Part), Patched(s), SectorSize),
              chgPos' = AfterReading(Part) + SectorSize, chgSector' = chgSector + 1,
              sectorMap' = Mapped(s, 1), log' = Append(log, Entry(s * SectorSize, SectorSize, FALSE)),
              pending' = Remainder, failed' = FALSE, torn > 0, UNCHANGED torn
       PROVE  IndInv' /\ DiskStep
  <2>1. PICK S : S = SectorSize
    OBVIOUS
  <2>2. chg' = WriteAt(chg, p, b, S) /\ chgPos' = p + S /\ S \in Nat /\ 1 * SectorSize <= S
        /\ \A k \in 0 .. S - 1 : b[k] \in Data
    BY <1>1, <1>5, <1>6, <1>7, <1>10, <2>1
  <2>3. /\ chg' \in Seq(Data) /\ chgSector' \in Nat /\ MapOK'
        /\ chgPos' \in chgSector' * SectorSize .. Len(chg')
    BY <1>3, <1>4, <1>5, <1>10, <2>2, WriteLeaves
  <2>4. LogOK'
    <3>1. PICK e : e = Entry(s * SectorSize, SectorSize, FALSE)
      OBVIOUS
    <3>2. e \in LogEntry /\ e.Offset = s * SectorSize /\ e.Size = 1 * SectorSize
      BY <1>7, <3>1 DEF Entry, LogEntry
    <3>3. Whole(e.Offset, e.Size)
      <4>1. s \in Nat /\ 1 \in Nat \ {0} /\ (s + 1) * SectorSize <= MaxSize
        BY <1>5
      <4> QED
        BY <3>2, <4>1 DEF Whole
    <3> QED
      BY <1>2, <1>3, <1>10, <3>1, <3>2, <3>3, LogGrows
  <2>5. PendingOK'
    BY <1>2, <1>3, <1>10, RemainderOK
  <2>6. torn' \in 1 .. MaxTorn
    BY <1>3, <1>10, Sizes
  <2> QED
    BY <1>2, <1>10, <2>3, <2>4, <2>5, <2>6, TornKeeps
<1>11. ASSUME failed' = TRUE, pending' = None, UNCHANGED <<chgSector, sectorMap, log>>,
              chgPos' \in {chgPos, AfterReading(Part)}, UNCHANGED <<chg, torn>>
       PROVE  IndInv' /\ DiskStep
  <2>1. PendingOK'
    BY <1>11 DEF PendingOK
  <2>2. IndInv'
    BY <1>2, <1>11, <2>1, UnharmedKeeps
  <2> QED
    BY <1>11, <2>2, FailedStep
<1>12. ASSUME failed' = TRUE, pending' = None, UNCHANGED <<chgSector, sectorMap, log>>, Tears,
              NEW n \in 1 .. SectorSize - 1, chg' = WriteAt(chg, AfterReading(Part), Patched(s), n),
              chgPos' = AfterReading(Part) + n
       PROVE  IndInv' /\ DiskStep
  <2>1. n \in Nat /\ 0 * SectorSize <= n /\ \A k \in 0 .. n - 1 : b[k] \in Data
    BY <1>5, <1>6, <1>7
  <2>2. chg' = WriteAt(chg, p, b, n) /\ chgPos' = p + n
    BY <1>1, <1>6, <1>12
  <2>3. p \in Nat /\ p \in 0 .. Len(chg) /\ chgSector * SectorSize <= p /\ chgSector * SectorSize \in Nat
    BY <1>3, <1>4, TypesHas
  <2>4. chg' \in Seq(Data) /\ Len(chg') \in Nat /\ p + n <= Len(chg')
    <3>1. PICK f : f = chg'
      OBVIOUS
    <3>2. f = WriteAt(chg, p, b, n)
      BY <2>2, <3>1
    <3>3. f \in Seq(Data) /\ Len(f) \in Nat /\ p + n <= Len(f)
      BY <1>3, <2>1, <2>3, <3>2, WriteAtData
    <3> QED
      BY <3>1, <3>3
  <2>5. chgPos' \in chgSector' * SectorSize .. Len(chg')
    BY <1>12, <2>1, <2>2, <2>3, <2>4
  <2>6. MapOK' /\ chgSector' \in Nat /\ LogOK' /\ PendingOK'
    BY <1>3, <1>12 DEF MapOK, SectorOf, LogOK, Whole, PendingOK
  <2>7. torn' \in 1 .. MaxTorn
    BY <1>3, <1>12, Sizes DEF Tears
  <2> QED
    BY <1>2, <1>12, <2>4, <2>5, <2>6, <2>7, TornKeeps
<1>13. torn = 0 \/ torn > 0
  BY <1>3, Sizes
<1> QED
  BY <1>1, <1>9, <1>10, <1>11, <1>12, <1>13 DEF WriteByteSector, Fails, Done

(***************************************************************************)
(* Closing, parsing and applying the change file.                          *)
(***************************************************************************)
recorder == <<sectorMap, chg, chgPos, chgSector, log, pending, torn>>

\* The recorder is left alone.
LEMMA RecorderKept ==
    ASSUME UNCHANGED recorder
    PROVE  /\ UNCHANGED <<sectorMap, chg, chgPos, chgSector, log, pending, torn>>
           /\ MapOK => MapOK'
           /\ PendingOK => PendingOK'
           /\ LogOK => LogOK'
<1>1. UNCHANGED <<sectorMap, chg, chgPos, chgSector, log, pending, torn>>
  BY DEF recorder
<1>2. (MapOK => MapOK') /\ (PendingOK => PendingOK')
  BY <1>1 DEF MapOK, PendingOK, SectorOf
<1>3. LogOK => LogOK'
  BY <1>1, SameRecord
<1> QED
  BY <1>1, <1>2, <1>3

\* The parser does not touch it, nor the disk it stands for.
LEMMA IoKept ==
    ASSUME UNCHANGED io
    PROVE  UNCHANGED recorder /\ UNCHANGED failed /\ DiskStep
<1>1. UNCHANGED <<sectorMap, chg, chgPos, chgSector, log, pending, call, reply, failed, torn>>
  BY DEF io
<1>2. Contents' = Contents
  BY <1>1, SameDisk
<1> QED
  BY <1>1, <1>2 DEF DiskStep, recorder

(* The last clause of the invariant, when only the parser has moved.       *)
LEMMA ReplayKept ==
    ASSUME IndInv, UNCHANGED recorder,
           torn = 0 => \A at : Recorded(at) /\ Replayed(at) => Replayed(at)'
    PROVE  torn' = 0 => \E at \in [1 .. Len(log') + 1 -> 0 .. Len(chg')] : Recorded(at)' /\ Replayed(at)'
<1> SUFFICES ASSUME torn' = 0
             PROVE  \E at \in [1 .. Len(log') + 1 -> 0 .. Len(chg')] : Recorded(at)' /\ Replayed(at)'
  OBVIOUS
<1>1. UNCHANGED <<sectorMap, chg, chgPos, chgSector, log>> /\ torn = 0
  BY RecorderKept
<1>2. PICK at \in [1 .. Len(log) + 1 -> 0 .. Len(chg)] : Recorded(at) /\ Replayed(at)
  BY <1>1 DEF IndInv
<1>3. Recorded(at)' /\ Replayed(at)'
  BY <1>1, <1>2, SameRecord
<1> QED
  BY <1>1, <1>2, <1>3

(* Replayed only depends on what the parser holds.                         *)
LEMMA SameReplay ==
    ASSUME UNCHANGED recorder, UNCHANGED <<blockArea, ops, applied, medium>>
    PROVE  \A at : Replayed(at) => Replayed(at)'
<1>1. UNCHANGED <<sectorMap, chg, chgPos, chgSector, log>>
  BY RecorderKept
<1>2. /\ \A k, i : LastFor(k, i, applied)' <=> LastFor(k, i, applied)
      /\ \A k, i : Covers(k, i)' <=> Covers(k, i)
      /\ \A at, k, i : LogUnit(at, k, i)' = LogUnit(at, k, i)
  BY <1>1 DEF LastFor, Covers, LogUnit
<1> QED
  BY <1>1, <1>2 DEF Replayed

LEMMA TypesKept ==
    ASSUME Types, UNCHANGED recorder, failed' \in BOOLEAN,
           phase' \in {"open", "closed", "parse", "apply", "applied", "refused"},
           ops' \in Seq(WriteOperation), Len(ops') <= Len(log), blockArea' \in Nat, applied' \in 0 .. Len(ops'),
           medium' \in [Offsets -> Data \cup {Junk}]
    PROVE  Types'
<1>1. /\ torn \in 0 .. MaxTorn
      /\ chg \in Seq(Data) /\ chgSector \in Nat /\ chgPos \in chgSector * SectorSize .. Len(chg)
      /\ MapOK /\ PendingOK /\ LogOK
  BY DEF Types
<1>2. UNCHANGED <<sectorMap, chg, chgPos, chgSector, log, pending, torn>> /\ MapOK' /\ PendingOK' /\ LogOK'
  BY <1>1, RecorderKept
<1> QED
  BY <1>1, <1>2 DEF Types, Offsets

(* A step of the parser that moves nothing but its phase and the footer.   *)
LEMMA PhaseStep ==
    ASSUME IndInv, UNCHANGED recorder, failed' \in BOOLEAN, UNCHANGED <<blockArea, ops, applied, medium>>,
           phase' \in {"open", "closed", "parse", "apply", "applied", "refused"}, Phases'
    PROVE  IndInv'
<1>1. Types'
  <2>1. Types /\ ops \in Seq(WriteOperation) /\ Len(ops) <= Len(log) /\ applied \in 0 .. Len(ops)
        /\ medium \in [Offsets -> Data \cup {Junk}] /\ blockArea \in Nat
    BY DEF IndInv, Types
  <2> QED
    BY <2>1, TypesKept
<1>2. torn' = 0 => \E at \in [1 .. Len(log') + 1 -> 0 .. Len(chg')] : Recorded(at)' /\ Replayed(at)'
  BY SameReplay, ReplayKept
<1> QED
  BY <1>1, <1>2 DEF IndInv

(* The same when the recorder's last call is left alone, too.              *)
LEMMA ParserPhaseStep ==
    ASSUME IndInv, UNCHANGED io, UNCHANGED <<blockArea, ops, applied, medium>>,
           phase' \in {"open", "closed", "parse", "apply", "applied", "refused"}, Phases'
    PROVE  IndInv' /\ DiskStep
<1>1. UNCHANGED recorder /\ UNCHANGED failed /\ DiskStep /\ failed \in BOOLEAN
  BY IoKept DEF IndInv, Types
<1> QED
  BY <1>1, PhaseStep

LEMMA CloseStep ==
    ASSUME IndInv, Close
    PROVE  IndInv' /\ DiskStep
<1>1. /\ phase = "open" /\ phase' = "closed" /\ UNCHANGED <<sectorMap, chg, chgPos, chgSector, log, pending, torn>>
      /\ UNCHANGED <<blockArea, ops, applied, medium>> /\ failed' = FALSE /\ call'.op = "close"
  BY DEF Close, Ready, Done, None
<1>2. UNCHANGED recorder
  BY <1>1 DEF recorder
<1>3. PICK n \in 0 .. Len(log) * EntrySize, f \in 0 .. FooterSize :
         footer' = [LogOffset |-> chgPos, LogSize |-> Len(log) * EntrySize,
                    LogWritten |-> n, Written |-> f]
  BY DEF Close
<1>4. applied = 0
  BY <1>1 DEF IndInv, Phases
<1>5. FooterOK'
  BY <1>1, <1>3 DEF FooterOK
<1>6. Phases'
  BY <1>1, <1>4, <1>5 DEF Phases, CompleteFileAccepted
<1>7. IndInv'
  BY <1>1, <1>2, <1>6, PhaseStep
<1>8. DiskStep
  <2>1. Contents' = Contents
    BY <1>1, SameDisk
  <2> QED
    BY <1>1, <2>1 DEF DiskStep, Device!Next, Device!Close
<1> QED
  BY <1>7, <1>8

LEMMA ExitUnclosedStep ==
    ASSUME IndInv, ExitUnclosed
    PROVE  IndInv' /\ DiskStep
<1>1. phase = "open" /\ phase' = "closed" /\ UNCHANGED io /\ UNCHANGED <<footer, blockArea, ops, applied, medium>>
  BY DEF ExitUnclosed, Ready, parser
<1>2. footer = None /\ applied = 0
  BY <1>1 DEF IndInv, Phases
<1>3. Phases'
  BY <1>1, <1>2 DEF Phases, CompleteFileAccepted
<1> QED
  BY <1>1, <1>3, ParserPhaseStep

(* What a footer that was accepted or refused tells about the file.        *)
LEMMA FooterFacts ==
    ASSUME FooterOK, Types
    PROVE  /\ FooterGood => footer.LogWritten = footer.LogSize /\ footer.Written = FooterSize
           /\ ~FooterGood /\ footer # None /\ chgPos = Len(chg) =>
                 footer.LogWritten < footer.LogSize \/ footer.Written < FooterSize
           /\ FileLength \in Nat /\ Len(chg) <= FileLength
<1>1. PICK p, z, w, v, F, L : /\ p = footer.LogOffset /\ z = footer.LogSize /\ w = footer.LogWritten
                              /\ v = footer.Written /\ F = FooterSize /\ L = Len(chg)
  OBVIOUS
<1>2. Len(log) * EntrySize \in Nat /\ F \in Nat \ {0}
  <2>1. Len(log) \in Nat /\ EntrySize \in Nat /\ F \in Nat \ {0}
    BY <1>1, ChangeFileAssumption DEF Types, LogOK
  <2> QED
    BY <2>1, TimesMonotone
<1>3. p \in Nat /\ p = chgPos /\ L \in Nat /\ p <= L /\ z \in Nat /\ w \in 0 .. z /\ v \in 0 .. F
  BY <1>1, <1>2, TypesHas DEF FooterOK
<1>4. FileLength = IF p + w + v < L THEN L ELSE p + w + v
  BY <1>1 DEF FileLength
<1>5. FooterGood <=> footer # None /\ v = F /\ p + w + v = FileLength /\ FileLength - F - z = p
  BY <1>1 DEF FooterGood
<1>6. /\ v = F /\ (p + w + v) - F - z = p => w = z
      /\ p = L => FileLength = p + w + v
      /\ ~(v = F /\ (p + w + v) - F - z = p) => w < z \/ v < F
  BY <1>2, <1>3, <1>4
<1>7. FileLength \in Nat /\ L <= FileLength
  BY <1>2, <1>3, <1>4
<1> QED
  BY <1>1, <1>3, <1>5, <1>6, <1>7

LEMMA OpenChangeFileStep ==
    ASSUME IndInv, OpenChangeFile
    PROVE  IndInv' /\ DiskStep
<1>1. /\ phase = "closed" /\ phase' = IF FooterGood THEN "parse" ELSE "refused"
      /\ UNCHANGED io /\ UNCHANGED <<footer, blockArea, ops, applied, medium>>
  BY DEF OpenChangeFile, parser
<1>2. UNCHANGED <<chg, chgPos, log, torn>>
  BY <1>1, IoKept, RecorderKept
<1>3. applied = 0 /\ (footer = None \/ FooterOK) /\ Types
  BY <1>1 DEF IndInv, Phases
<1>4. (footer = None \/ FooterOK)'
  BY <1>1, <1>2, <1>3 DEF FooterOK
<1>5. CASE FooterGood
  <2>1. footer # None
    BY <1>5 DEF FooterGood
  <2>2. footer.LogWritten = footer.LogSize /\ footer.Written = FooterSize
    BY <1>3, <1>5, <2>1, FooterFacts
  <2>3. Phases'
    BY <1>1, <1>2, <1>3, <1>4, <1>5, <2>1, <2>2 DEF Phases, CompleteFileAccepted
  <2> QED
    BY <1>1, <1>5, <2>3, ParserPhaseStep
<1>6. CASE ~FooterGood
  <2>1. footer # None /\ torn = 0 => footer.LogWritten < footer.LogSize \/ footer.Written < FooterSize
    <3>1. torn = 0 => chgPos = Len(chg)
      BY DEF IndInv, Recorded
    <3> QED
      BY <1>3, <1>6, <3>1, FooterFacts
  <2>2. Phases'
    BY <1>1, <1>2, <1>3, <1>4, <1>6, <2>1 DEF Phases, CompleteFileAccepted
  <2> QED
    BY <1>1, <1>6, <2>2, ParserPhaseStep
<1> QED
  BY <1>5, <1>6

LEMMA ParsedStep ==
    ASSUME IndInv, Parsed
    PROVE  IndInv' /\ DiskStep
<1>1. /\ phase = "parse" /\ phase' = "apply" /\ Len(ops) = Len(log)
      /\ UNCHANGED io /\ UNCHANGED <<footer, blockArea, ops, applied, medium>>
  BY DEF Parsed, parser
<1>2. UNCHANGED <<chg, chgPos, log, torn>>
  BY <1>1, IoKept, RecorderKept
<1>3. /\ applied = 0 /\ FooterOK /\ footer # None
      /\ footer.LogWritten = footer.LogSize /\ footer.Written = FooterSize
  BY <1>1 DEF IndInv, Phases
<1>4. FooterOK'
  BY <1>1, <1>2, <1>3 DEF FooterOK
<1>5. Phases'
  BY <1>1, <1>2, <1>3, <1>4 DEF Phases, CompleteFileAccepted
<1> QED
  BY <1>1, <1>5, ParserPhaseStep

LEMMA ApplyEndsStep ==
    ASSUME IndInv, ApplyEnds
    PROVE  IndInv' /\ DiskStep
<1>1. /\ phase = "apply" /\ phase' = "applied" /\ applied = Len(ops)
      /\ UNCHANGED io /\ UNCHANGED <<footer, blockArea, ops, applied, medium>>
  BY DEF ApplyEnds, parser
<1>2. UNCHANGED <<chg, chgPos, log, torn>>
  BY <1>1, IoKept, RecorderKept
<1>3. /\ FooterOK /\ footer # None /\ Len(ops) = Len(log)
      /\ footer.LogWritten = footer.LogSize /\ footer.Written = FooterSize
  BY <1>1 DEF IndInv, Phases
<1>4. FooterOK'
  BY <1>1, <1>2, <1>3 DEF FooterOK
<1>5. Phases'
  BY <1>1, <1>2, <1>3, <1>4 DEF Phases, CompleteFileAccepted
<1> QED
  BY <1>1, <1>5, ParserPhaseStep

(* The next entry becomes the next operation: the parser's count of the    *)
(* block area is where the recorder put the entry's data.                  *)
LEMMA ParsedEntry ==
    ASSUME IndInv, ParseEntry, NEW at, Recorded(at), Replayed(at)
    PROVE  LET op == Operation(log[Len(ops) + 1])
           IN  /\ Sound(op) /\ op \in WriteOperation
               /\ op.NextBlock = at[Len(ops) + 2]
               /\ op.Offset = log[Len(ops) + 1].Offset /\ op.Size = log[Len(ops) + 1].Size
               /\ op.Zero = log[Len(ops) + 1].IsZero
               /\ ~log[Len(ops) + 1].IsZero => op.OffsetInFile = at[Len(ops) + 1]
<1>1. PICK k, e, op : k = Len(ops) + 1 /\ e = log[k] /\ op = Operation(e)
  OBVIOUS
<1>2. phase = "parse" /\ Len(ops) < Len(log)
  BY DEF ParseEntry
<1>3. Types /\ FooterOK /\ LogOK /\ chg \in Seq(Data) /\ ops \in Seq(WriteOperation)
  BY <1>2 DEF IndInv, Phases, Types
<1>4. k \in 1 .. Len(log) /\ k + 1 = Len(ops) + 2
  <2>1. Len(ops) \in Nat /\ Len(log) \in Nat
    BY <1>3 DEF LogOK
  <2> QED
    BY <1>1, <1>2, <2>1
<1>5. /\ e.Offset \in Nat /\ e.Size \in Nat /\ e.IsZero \in BOOLEAN
      /\ e.Offset + e.Size <= MaxSize /\ at[k] \in 0 .. Len(chg) /\ at[k + 1] \in 0 .. Len(chg)
      /\ ~e.IsZero => at[k] + e.Size <= Len(chg)
  BY <1>1, <1>3, <1>4, EntryIs
<1>6. blockArea = at[k] /\ at[k + 1] = IF e.IsZero THEN at[k] ELSE at[k] + e.Size
  BY <1>1, <1>4 DEF Recorded, Replayed
<1>7. /\ op.Offset = e.Offset /\ op.Size = e.Size /\ op.Zero = e.IsZero
      /\ op.OffsetInFile = IF e.IsZero THEN 0 ELSE at[k]
      /\ op.NextBlock = at[k + 1]
  BY <1>1, <1>6 DEF Operation
<1>8. op \in WriteOperation
  <2>1. op = [Offset |-> e.Offset, Size |-> e.Size, Zero |-> e.IsZero,
              OffsetInFile |-> IF e.IsZero THEN 0 ELSE at[k], NextBlock |-> at[k + 1]]
    BY <1>1, <1>6 DEF Operation
  <2>2. (IF e.IsZero THEN 0 ELSE at[k]) \in Nat /\ at[k + 1] \in Nat
    BY <1>3, <1>5
  <2> QED
    BY <1>5, <2>1, <2>2 DEF WriteOperation
<1>9. Sound(op)
  <2>1. ~e.IsZero => at[k] + e.Size <= FileLength
    <3>1. PICK x, y, L : x = at[k] /\ y = e.Size /\ L = Len(chg)
      OBVIOUS
    <3>2. x \in 0 .. L /\ y \in Nat /\ L \in Nat /\ FileLength \in Nat /\ L <= FileLength
      BY <1>3, <1>5, <3>1, FooterFacts
    <3>3. x + y <= L => x + y <= FileLength
      BY <3>2
    <3> QED
      BY <1>5, <3>1, <3>3
  <2> QED
    BY <1>5, <1>7, <2>1 DEF Sound
<1> QED
  BY <1>1, <1>4, <1>7, <1>8, <1>9

LEMMA ParseEntryStep ==
    ASSUME IndInv, ParseEntry
    PROVE  IndInv' /\ DiskStep
<1>1. PICK n, op : n = Len(ops) /\ op = Operation(log[n + 1])
  OBVIOUS
<1>0. torn \in 0 .. MaxTorn /\ blockArea \in Nat /\ MaxTorn \in Nat /\ failed \in BOOLEAN
  BY Sizes DEF IndInv, Types
<1>2. phase = "parse" /\ n < Len(log) /\ UNCHANGED io /\ UNCHANGED <<footer, applied, medium>>
  BY <1>1 DEF ParseEntry
<1>3. UNCHANGED <<sectorMap, chg, chgPos, chgSector, log, failed, torn>> /\ UNCHANGED recorder /\ DiskStep
  BY <1>2, IoKept, RecorderKept
<1>4. /\ applied = 0 /\ FooterOK /\ footer # None
      /\ footer.LogWritten = footer.LogSize /\ footer.Written = FooterSize
  BY <1>2 DEF IndInv, Phases
<1>5. Types /\ ops \in Seq(WriteOperation) /\ n \in Nat /\ Len(log) \in Nat
      /\ medium \in [Offsets -> Data \cup {Junk}]
  BY <1>1 DEF IndInv, Types, LogOK
<1>6. op \in WriteOperation
  <2>1. PICK e : e = log[n + 1]
    OBVIOUS
  <2>2. e \in LogEntry
    BY <1>1, <1>2, <1>5, <2>1 DEF Types, LogOK
  <2>3. blockArea + e.Size \in Nat
    BY <1>0, <2>2 DEF LogEntry
  <2> QED
    BY <1>0, <1>1, <2>1, <2>2, <2>3 DEF Operation, WriteOperation, LogEntry
<1>7. torn = 0 => Sound(op)
  BY <1>1, ParsedEntry DEF IndInv
<1>8. /\ Sound(op) => ops' = Append(ops, op) /\ blockArea' = op.NextBlock /\ phase' = phase
      /\ ~Sound(op) => ops' = ops /\ blockArea' = blockArea /\ phase' = "refused"
  BY <1>1 DEF ParseEntry
<1>a. FooterOK'
  BY <1>2, <1>3, <1>4 DEF FooterOK
<1>b. ASSUME ~Sound(op) PROVE IndInv' /\ DiskStep
  <2>1. torn' # 0 /\ footer' # None /\ applied' = 0
    BY <1>2, <1>3, <1>4, <1>7, <1>b
  <2>2. Phases'
    BY <1>2, <1>4, <1>8, <1>a, <1>b, <2>1 DEF Phases, CompleteFileAccepted
  <2> QED
    BY <1>2, <1>8, <1>b, <2>2, ParserPhaseStep
<1> SUFFICES ASSUME Sound(op) PROVE IndInv' /\ DiskStep
  BY <1>b
<1>c. ops' = Append(ops, op) /\ blockArea' = op.NextBlock /\ phase' = phase
  BY <1>8
<1>9. /\ ops' \in Seq(WriteOperation) /\ Len(ops') = n + 1 /\ ops'[n + 1] = op
      /\ \A k \in 1 .. n : ops'[k] = ops[k]
  BY <1>1, <1>5, <1>6, <1>c
<1>10. Types'
  <2>1. Len(ops') <= Len(log) /\ applied' \in 0 .. Len(ops') /\ medium' \in [Offsets -> Data \cup {Junk}]
    BY <1>2, <1>4, <1>5, <1>9
  <2>2. blockArea' \in Nat
    BY <1>6, <1>c DEF WriteOperation
  <2> QED
    BY <1>0, <1>2, <1>3, <1>5, <1>c, <1>9, <2>1, <2>2, TypesKept
<1>11. Phases'
  BY <1>2, <1>3, <1>4, <1>c, <1>a DEF Phases, CompleteFileAccepted
<1>12. ASSUME torn = 0, NEW at, Recorded(at), Replayed(at) PROVE Replayed(at)'
  <2>1. /\ op.NextBlock = at[n + 2]
        /\ op.Offset = log[n + 1].Offset /\ op.Size = log[n + 1].Size
        /\ op.Zero = log[n + 1].IsZero
        /\ ~log[n + 1].IsZero => op.OffsetInFile = at[n + 1]
    BY <1>1, <1>12, ParsedEntry
  <2>2. blockArea' = at[Len(ops') + 1]
    <3>1. (n + 1) + 1 = n + 2
      BY <1>5
    <3> QED
      BY <1>c, <1>9, <2>1, <3>1
  <2>3. ASSUME NEW k \in 1 .. n + 1
        PROVE  /\ ops'[k].Offset = log[k].Offset /\ ops'[k].Size = log[k].Size
               /\ ops'[k].Zero = log[k].IsZero
               /\ ~log[k].IsZero => ops'[k].OffsetInFile = at[k]
    <3>1. CASE k = n + 1
      BY <1>9, <2>1, <3>1
    <3>2. CASE k \in 1 .. n
      <4>1. /\ ops[k].Offset = log[k].Offset /\ ops[k].Size = log[k].Size
            /\ ops[k].Zero = log[k].IsZero
            /\ ~log[k].IsZero => ops[k].OffsetInFile = at[k]
        BY <1>1, <1>12, <3>2 DEF Replayed
      <4> QED
        BY <1>9, <3>2, <4>1
    <3> QED
      BY <1>5, <3>1, <3>2
  <2>4. \A k, i : Covers(k, i)' <=> Covers(k, i)
    BY <1>3, SameRecord
  <2>5. 1 .. applied' = {}
    BY <1>2, <1>4
  <2>6. \A i \in Offsets : medium'[i] = IF i < SizeOnDisk THEN File[i] ELSE Junk
    BY <1>2, <1>4, <1>12 DEF Replayed
  <2> QED
    BY <1>3, <1>9, <2>2, <2>3, <2>5, <2>6 DEF Replayed
<1>13. torn' = 0 => \E at \in [1 .. Len(log') + 1 -> 0 .. Len(chg')] : Recorded(at)' /\ Replayed(at)'
  BY <1>3, <1>12, ReplayKept
<1> QED
  BY <1>3, <1>10, <1>11, <1>13 DEF IndInv

LEMMA ApplyStep ==
    ASSUME IndInv, Apply
    PROVE  IndInv' /\ DiskStep
<1>1. PICK n, op : n = applied + 1 /\ op = ops[n]
  OBVIOUS
<1>2. /\ phase = "apply" /\ applied < Len(ops) /\ applied' = n
      /\ UNCHANGED io /\ UNCHANGED <<phase, footer, blockArea, ops>>
      /\ medium' = [i \in DOMAIN medium |->
                       IF op.Offset <= i /\ i < op.Offset + op.Size
                       THEN OpUnit(op, i - op.Offset) ELSE medium[i]]
  BY <1>1 DEF Apply
<1>3. UNCHANGED <<sectorMap, chg, chgPos, chgSector, log, failed, torn>> /\ UNCHANGED recorder /\ DiskStep
  BY <1>2, IoKept, RecorderKept
<1>4. /\ FooterOK /\ footer # None /\ Len(ops) = Len(log)
      /\ footer.LogWritten = footer.LogSize /\ footer.Written = FooterSize
  BY <1>2 DEF IndInv, Phases
<1>5. /\ Types /\ ops \in Seq(WriteOperation) /\ Len(log) \in Nat /\ LogOK /\ chg \in Seq(Data)
      /\ applied \in 0 .. Len(ops) /\ medium \in [Offsets -> Data \cup {Junk}]
      /\ blockArea \in Nat /\ failed \in BOOLEAN
  BY DEF IndInv, Types, LogOK
<1>6. n \in 1 .. Len(log) /\ n \in Nat /\ applied \in Nat
  BY <1>1, <1>2, <1>4, <1>5
<1>7. ASSUME NEW at, Recorded(at), Replayed(at)
      PROVE  /\ op.Offset = log[n].Offset /\ op.Size = log[n].Size /\ op.Zero = log[n].IsZero
             /\ \A i \in Offsets : medium'[i] = IF Covers(n, i) THEN LogUnit(at, n, i) ELSE medium[i]
  <2>1. /\ op.Offset = log[n].Offset /\ op.Size = log[n].Size /\ op.Zero = log[n].IsZero
        /\ ~log[n].IsZero => op.OffsetInFile = at[n]
    BY <1>1, <1>4, <1>6, <1>7 DEF Replayed
  <2>2. \A i \in Offsets : Covers(n, i) <=> op.Offset <= i /\ i < op.Offset + op.Size
    BY <2>1 DEF Covers
  <2>3. ASSUME NEW i \in Offsets, Covers(n, i) PROVE OpUnit(op, i - op.Offset) = LogUnit(at, n, i)
    <3>1. CASE log[n].IsZero
      BY <2>1, <3>1 DEF OpUnit, LogUnit
    <3>2. CASE ~log[n].IsZero
      <4>1. PICK o, z, p, m : o = log[n].Offset /\ z = log[n].Size /\ p = at[n] /\ m = Len(chg)
        OBVIOUS
      <4>2. o \in Nat /\ z \in Nat /\ p \in 0 .. m /\ m \in Nat /\ p + z <= m
        BY <1>5, <1>6, <1>7, <3>2, <4>1, EntryIs
      <4>3. i \in Nat /\ o <= i /\ i < o + z
        BY <2>3, <4>1, UnitSector DEF Covers
      <4>4. p + (i - o) < m
        BY <4>2, <4>3
      <4>5. footer.LogOffset = m
        BY <1>4, <1>7, <4>1 DEF FooterOK, Recorded
      <4> QED
        BY <2>1, <3>2, <4>1, <4>4, <4>5 DEF OpUnit, LogUnit
    <3> QED
      BY <3>1, <3>2
  <2>4. \A i \in Offsets : medium'[i] = IF op.Offset <= i /\ i < op.Offset + op.Size
                                          THEN OpUnit(op, i - op.Offset) ELSE medium[i]
    BY <1>2, <1>5
  <2> QED
    BY <2>1, <2>2, <2>3, <2>4
<1>8. op \in WriteOperation
  BY <1>1, <1>4, <1>5, <1>6
<1>9. medium' \in [Offsets -> Data \cup {Junk}]
  <2>1. ASSUME NEW i \in Offsets, op.Offset <= i PROVE OpUnit(op, i - op.Offset) \in Data \cup {Junk}
    <3>1. CASE op.Zero
      BY <3>1, Sizes DEF OpUnit
    <3>2. CASE ~op.Zero /\ op.OffsetInFile + (i - op.Offset) < footer.LogOffset
      <4>1. PICK o, p, m : o = op.Offset /\ p = op.OffsetInFile /\ m = Len(chg)
        OBVIOUS
      <4>2. o \in Nat /\ p \in Nat /\ i \in Nat /\ m \in Nat /\ chgPos \in Nat /\ chgPos <= m /\ o <= i
            /\ p + (i - o) < chgPos
        BY <1>4, <1>5, <1>8, <2>1, <3>2, <4>1, UnitSector, TypesHas DEF WriteOperation, FooterOK
      <4>3. p + (i - o) + 1 \in 1 .. m
        BY <4>2
      <4>4. chg[p + (i - o) + 1] \in Data
        BY <1>5, <4>1, <4>3
      <4> QED
        BY <3>2, <4>1, <4>4 DEF OpUnit
    <3>3. CASE ~op.Zero /\ ~(op.OffsetInFile + (i - op.Offset) < footer.LogOffset)
      BY <3>3 DEF OpUnit
    <3> QED
      BY <3>1, <3>2, <3>3
  <2>2. DOMAIN medium' = Offsets /\ medium' = [i \in Offsets |-> medium'[i]]
    BY <1>2, <1>5
  <2>3. ASSUME NEW i \in Offsets PROVE medium'[i] \in Data \cup {Junk}
    BY <1>2, <1>5, <2>1
  <2> QED
    BY <2>2, <2>3
<1>10. Types'
  <2>1. Len(ops') <= Len(log) /\ applied' \in 0 .. Len(ops') /\ ops' \in Seq(WriteOperation)
    BY <1>2, <1>4, <1>5, <1>6
  <2> QED
    BY <1>2, <1>3, <1>5, <1>9, <2>1, TypesKept
<1>11. Phases'
  <2>1. FooterOK'
    BY <1>2, <1>3, <1>4 DEF FooterOK
  <2> QED
    BY <1>2, <1>3, <1>4, <2>1 DEF Phases, CompleteFileAccepted
<1>12. ASSUME torn = 0, NEW at, Recorded(at), Replayed(at) PROVE Replayed(at)'
  <2>1. \A i \in Offsets : medium'[i] = IF Covers(n, i) THEN LogUnit(at, n, i) ELSE medium[i]
    BY <1>7, <1>12
  <2>2. /\ \A k, i, m : LastFor(k, i, m)' <=> LastFor(k, i, m)
        /\ \A k, i : Covers(k, i)' <=> Covers(k, i)
        /\ \A k, i : LogUnit(at, k, i)' = LogUnit(at, k, i)
    BY <1>3, SameRecord
  <2>3. n \in 1 .. n /\ 1 .. applied \subseteq 1 .. n /\ 1 .. n = 1 .. applied \cup {n}
    BY <1>1, <1>6
  <2>4. ASSUME NEW i \in Offsets, \A k \in 1 .. n : ~Covers(k, i)
        PROVE  medium'[i] = IF i < SizeOnDisk THEN File[i] ELSE Junk
    BY <1>12, <2>1, <2>3, <2>4 DEF Replayed
  <2>5. ASSUME NEW k \in 1 .. n, NEW i \in Offsets, LastFor(k, i, n)
        PROVE  medium'[i] = LogUnit(at, k, i)
    <3>1. CASE k = n
      BY <2>1, <2>5, <3>1 DEF LastFor
    <3>2. CASE k \in 1 .. applied
      <4>1. n \in k + 1 .. n /\ \A l \in k + 1 .. applied : l \in k + 1 .. n
        BY <1>1, <1>6, <3>2
      <4>2. ~Covers(n, i) /\ LastFor(k, i, applied)
        BY <2>5, <4>1 DEF LastFor
      <4> QED
        BY <1>12, <2>1, <3>2, <4>2 DEF Replayed
    <3> QED
      BY <2>3, <3>1, <3>2
  <2>6. /\ blockArea' = at[Len(ops') + 1]
        /\ \A k \in 1 .. Len(ops') :
              /\ ops'[k].Offset = log'[k].Offset /\ ops'[k].Size = log'[k].Size
              /\ ops'[k].Zero = log'[k].IsZero
              /\ ~log'[k].IsZero => ops'[k].OffsetInFile = at[k]
    BY <1>2, <1>3, <1>12 DEF Replayed
  <2>7. \A i \in Offsets :
          (\A k \in 1 .. applied' : ~Covers(k, i)') => medium'[i] = IF i < SizeOnDisk THEN File[i] ELSE Junk
    BY <1>2, <2>2, <2>4
  <2>8. \A k \in 1 .. applied', i \in Offsets : LastFor(k, i, applied)' => medium'[i] = LogUnit(at, k, i)'
    <3>1. \A k, i : LastFor(k, i, applied)' <=> LastFor(k, i, n)
      BY <1>2, <1>3 DEF LastFor, Covers
    <3> QED
      BY <1>2, <2>2, <2>5, <3>1, ZenonT(30)
  <2> QED
    BY <2>6, <2>7, <2>8 DEF Replayed
<1>13. torn' = 0 => \E at \in [1 .. Len(log') + 1 -> 0 .. Len(chg')] : Recorded(at)' /\ Replayed(at)'
  BY <1>3, <1>12, ReplayKept
<1> QED
  BY <1>3, <1>10, <1>11, <1>13 DEF IndInv

(***************************************************************************)
(* The invariant holds initially and is kept by every step.                *)
(***************************************************************************)
LEMMA InitInv == FileInit => IndInv
<1> SUFFICES ASSUME FileInit PROVE IndInv
  OBVIOUS
<1>1. /\ phase = "open" /\ sectorMap = << >> /\ chg = << >> /\ chgPos = 0 /\ chgSector = 0
      /\ log = << >> /\ pending = None /\ failed = FALSE /\ torn = 0
      /\ footer = None /\ blockArea = 0 /\ ops = << >> /\ applied = 0
      /\ medium = [i \in Offsets |-> IF i < SizeOnDisk THEN File[i] ELSE Junk]
  BY DEF FileInit, Init, Offsets
<1>2. /\ Len(chg) = 0 /\ Len(log) = 0 /\ Len(ops) = 0 /\ DOMAIN sectorMap = {}
      /\ 1 .. Len(log) = {} /\ 1 .. Len(ops) = {} /\ 1 .. applied = {}
  BY <1>1
<1>3. medium \in [Offsets -> Data \cup {Junk}]
  <2>1. ASSUME NEW i \in Offsets, i < SizeOnDisk PROVE File[i] \in Data
    <3>1. i \in 0 .. SizeOnDisk - 1
      BY <2>1, UnitSector, Sizes
    <3> QED
      BY <3>1, HookedIoAssumption
  <2> QED
    BY <1>1, <2>1
<1>4. Types
  <2>1. chg \in Seq(Data) /\ chgSector \in Nat /\ chgPos \in chgSector * SectorSize .. Len(chg) /\ torn \in 0 .. MaxTorn
    <3>1. chgSector * SectorSize = 0
      BY <1>1, Sizes
    <3> QED
      BY <1>1, <1>2, <3>1, Sizes
  <2>2. MapOK /\ PendingOK
    BY <1>1, <1>2 DEF MapOK, PendingOK
  <2>3. LogOK
    BY <1>1, <1>2, Sizes DEF LogOK
  <2>4. ops \in Seq(WriteOperation) /\ Len(ops) <= Len(log) /\ applied \in 0 .. Len(ops) /\ blockArea \in Nat
    BY <1>1, <1>2
  <2> QED
    BY <1>1, <1>3, <2>1, <2>2, <2>3, <2>4 DEF Types
<1>5. Phases
  BY <1>1 DEF Phases, CompleteFileAccepted
<1>6. PICK at : at = [k \in 1 .. 1 |-> 0]
  OBVIOUS
<1>7. at \in [1 .. Len(log) + 1 -> 0 .. Len(chg)] /\ at[1] = 0
  BY <1>2, <1>6
<1>8. Recorded(at)
  <2>1. Len(chg) = chgSector * SectorSize
    BY <1>1, <1>2, Sizes
  <2> QED
    BY <1>1, <1>2, <1>7, <2>1 DEF Recorded
<1>9. Replayed(at)
  BY <1>1, <1>2, <1>7 DEF Replayed
<1> QED
  BY <1>4, <1>5, <1>7, <1>8, <1>9 DEF IndInv

LEMMA StutterStep ==
    ASSUME IndInv, UNCHANGED vars
    PROVE  IndInv' /\ DiskStep
<1>1. UNCHANGED io /\ UNCHANGED <<phase, footer, blockArea, ops, applied, medium>>
  BY DEF vars, parser
<1>2. UNCHANGED <<log, chg, chgPos, failed, torn>> /\ UNCHANGED recorder /\ DiskStep
  BY <1>1, IoKept, RecorderKept
<1>3. Phases /\ Types
  BY DEF IndInv
<1>4. Phases'
  BY <1>1, <1>2, <1>3 DEF Phases, CompleteFileAccepted, FooterOK
<1>5. Types'
  <2>1. /\ phase \in {"open", "closed", "parse", "apply", "applied", "refused"}
        /\ ops \in Seq(WriteOperation) /\ Len(ops) <= Len(log) /\ applied \in 0 .. Len(ops)
        /\ medium \in [Offsets -> Data \cup {Junk}] /\ blockArea \in Nat /\ failed \in BOOLEAN
    BY <1>3 DEF Types
  <2> QED
    BY <1>1, <1>2, <1>3, <2>1, TypesKept
<1>6. torn' = 0 => \E at \in [1 .. Len(log') + 1 -> 0 .. Len(chg')] : Recorded(at)' /\ Replayed(at)'
  BY <1>1, <1>2, SameReplay, ReplayKept
<1> QED
  BY <1>2, <1>4, <1>5, <1>6 DEF IndInv

LEMMA StepInv == IndInv /\ [Next]_vars => IndInv' /\ DiskStep
<1> SUFFICES ASSUME IndInv, [Next]_vars PROVE IndInv' /\ DiskStep
  OBVIOUS
<1>1. CASE Read /\ UNCHANGED parser
  BY <1>1, ReadStep
<1>2. CASE WriteZeroes /\ UNCHANGED parser
  BY <1>2, WriteZeroesStep
<1>3. CASE Write /\ UNCHANGED parser
  BY <1>3, WriteStep
<1>4. CASE WriteFails /\ UNCHANGED parser
  BY <1>4, WriteFailsStep
<1>5. CASE WriteByte /\ UNCHANGED parser
  BY <1>5, WriteByteStep
<1>6. CASE WriteByteSector /\ UNCHANGED parser
  BY <1>6, WriteByteSectorStep
<1>7. CASE Close
  BY <1>7, CloseStep
<1>8. CASE ExitUnclosed
  BY <1>8, ExitUnclosedStep
<1>9. CASE OpenChangeFile
  BY <1>9, OpenChangeFileStep
<1>10. CASE ParseEntry
  BY <1>10, ParseEntryStep
<1>11. CASE Parsed
  BY <1>11, ParsedStep
<1>12. CASE Apply
  BY <1>12, ApplyStep
<1>13. CASE ApplyEnds
  BY <1>13, ApplyEndsStep
<1>14. CASE UNCHANGED vars
  BY <1>14, StutterStep
<1> QED
  BY <1>1, <1>2, <1>3, <1>4, <1>5, <1>6, <1>7, <1>8, <1>9, <1>10, <1>11, <1>12, <1>13, <1>14
  DEF Next, Calls

LEMMA Invariance == Spec => []IndInv
<1>1. FileInit => IndInv
  BY InitInv
<1>2. IndInv /\ [Next]_vars => IndInv'
  BY StepInv
<1> QED
  BY <1>1, <1>2, PTL DEF Spec

(***************************************************************************)
(* What follows.                                                           *)
(***************************************************************************)
(* Recorder and parser keep their types: the sector map only points into   *)
(* what was written of the change file, and the parser makes no more       *)
(* operations than there are entries in the log.                           *)
THEOREM Typed == Spec => []TypeOK
<1>1. IndInv => TypeOK
  <2> SUFFICES ASSUME Types PROVE TypeOK
    BY DEF IndInv
  <2>1. DOMAIN chg = 1 .. Len(chg) /\ \A i \in 1 .. Len(chg) : chg[i] \in Data
    BY DEF Types
  <2>2. chgPos \in 0 .. Len(chg)
    BY TypesHas
  <2> QED
    BY <2>1, <2>2 DEF Types, TypeOK, MapOK, LogOK, Offsets
<1> QED
  BY <1>1, Invariance, PTL

(* Whatever mix of whole-sector, zero and byte writes resize2fs makes, in  *)
(* whatever order, and whichever calls fail, the change file that is       *)
(* applied makes the disk what it saw, unless a write failed part-way: the *)
(* parser's count of the block area meets the recorder's (ChangeFile.h     *)
(* against hooked_io.cpp).                                                 *)
THEOREM ReplayIsFaithful == Spec => []ReplayFaithful
<1>1. IndInv => ReplayFaithful
  <2> SUFFICES ASSUME IndInv, phase = "applied", torn = 0, NEW i \in DOMAIN medium,
                      i < SizeOnDisk \/ SectorOf(i) \in DOMAIN sectorMap
               PROVE  medium[i] = Contents[i]
    BY DEF ReplayFaithful
  <2>1. applied = Len(log) /\ Len(log) \in Nat
    BY DEF IndInv, Phases, Types, LogOK
  <2>2. PICK at : Recorded(at) /\ Replayed(at)
    BY <2>1 DEF IndInv
  <2>3. i \in Offsets /\ Contents[i] = UnitAt(i)
    BY DEF IndInv, Types, Contents, Offsets
  <2>4. CASE SectorOf(i) \in DOMAIN sectorMap
    <3>1. PICK k \in 1 .. Len(log) : Covers(k, i)
      BY <2>2, <2>3, <2>4 DEF Recorded
    <3>2. PICK l \in 1 .. Len(log) : LastFor(l, i, Len(log))
      BY <2>1, <3>1, LastExists
    <3>3. UnitAt(i) = LogUnit(at, l, i)
      BY <2>2, <2>3, <3>2 DEF Recorded
    <3>4. medium[i] = LogUnit(at, l, i)
      BY <2>1, <2>2, <2>3, <3>2 DEF Replayed
    <3> QED
      BY <2>3, <3>3, <3>4
  <2>5. CASE SectorOf(i) \notin DOMAIN sectorMap
    <3>1. \A k \in 1 .. applied : ~Covers(k, i)
      BY <2>1, <2>2, <2>3, <2>5 DEF Recorded
    <3>2. medium[i] = File[i]
      BY <2>2, <2>3, <2>5, <3>1 DEF Replayed
    <3> QED
      BY <2>3, <2>5, <3>2 DEF UnitAt, InChangeFile
  <2> QED
    BY <2>4, <2>5
<1> QED
  BY <1>1, Invariance, PTL

(* hooked_close looks at no result of its writes, but a log cut short      *)
(* moves the footer away from where the parser counts it: no operation of  *)
(* such a file is applied, whatever torn writes it holds.                  *)
THEOREM CutFilesRefused == Spec => []CutFileNotApplied
<1>1. IndInv => CutFileNotApplied
  <2> SUFFICES ASSUME IndInv, footer # None, footer.LogWritten < footer.LogSize PROVE applied = 0
    BY DEF CutFileNotApplied
  <2>1. FooterOK /\ Types
    BY DEF IndInv, Phases
  <2>2. footer.LogSize \in Nat /\ footer.LogWritten \in Nat
    <3>1. Len(log) \in Nat /\ EntrySize \in Nat
      BY <2>1, ChangeFileAssumption DEF Types, LogOK
    <3>2. Len(log) * EntrySize \in Nat
      BY <3>1, TimesMonotone
    <3> QED
      BY <2>1, <3>2 DEF FooterOK
  <2>3. footer.LogWritten # footer.LogSize
    BY <2>2
  <2> QED
    BY <2>3 DEF IndInv, Phases
<1> QED
  BY <1>1, Invariance, PTL

(* A change file with a complete log and footer is never refused: every    *)
(* entry the recorder logs passes the parser's checks.                     *)
THEOREM CompleteFilesAccepted == Spec => []CompleteFileAccepted
<1>1. IndInv => CompleteFileAccepted
  BY DEF IndInv, Phases
<1> QED
  BY <1>1, Invariance, PTL

(* The hooked functions implement a disk: hooked_io.cpp refines            *)
(* VirtualDisk, whose contents are what ReadNextSector would return.       *)
THEOREM RecorderIsADisk == Spec => ActsAsDisk
<1>1. FileInit => Device!Init
  BY InitDisk
<1>2. IndInv /\ [Next]_vars => DiskStep
  BY StepInv
<1> QED
  BY <1>1, <1>2, Invariance, PTL DEF Spec, ActsAsDisk, Device!Spec, DiskStep
=============================================================================
