------------------------------ MODULE HookedIo ------------------------------
(***************************************************************************)
(* hooked_io.cpp: resize2fs works on the partition inside the image file   *)
(* without changing it.  Writes go to a change file, a map tells which     *)
(* sectors were written and where they are, and a log remembers the        *)
(* writes in their order.                                                  *)
(*                                                                         *)
(* unix_io.c calls hooked_seek immediately before every hooked_read and    *)
(* hooked_write, so a call is modelled with its seek: the offset is an     *)
(* argument, and the two file offsets of HookedFile need no state.         *)
(* Offsets count units of which SectorSize make a sector (512 bytes).      *)
(* ReadFile and WriteFile may fail or come up short at any time, and       *)
(* resize2fs may well go on; SetFilePointer on an ordinary file does not.  *)
(***************************************************************************)
EXTENDS Integers, Sequences

CONSTANTS
    SectorSize,   \* kSectorSize
    MaxSize,      \* the size of the device to resize to
    SizeOnDisk,   \* the size of the partition in the image file
    File,         \* its contents
    Data,         \* the values of a unit, 0 among them
    Reads, Writes, ByteWrites,   \* the calls resize2fs may make
    MaxLog,       \* bound: how many writes it makes
    MaxTorn       \* bound: how many writes fail part-way

ASSUME HookedIoAssumption ==
    /\ SectorSize \in Nat \ {0} /\ MaxLog \in Nat /\ MaxTorn \in Nat
    /\ MaxSize \in Nat /\ MaxSize % SectorSize = 0
    /\ SizeOnDisk \in 0 .. MaxSize
    /\ 0 \in Data /\ File \in [0 .. SizeOnDisk - 1 -> Data]
    /\ \A c \in Reads :
          /\ c.op = "read"
          /\ c.Offset \in Nat /\ c.Size \in Nat /\ c.Offset + c.Size <= MaxSize
    /\ \A c \in Writes \cup ByteWrites :
          /\ c.op = "write" /\ DOMAIN c = {"op", "Offset", "Size", "Bytes"}
          /\ c.Offset \in Nat /\ c.Size \in Nat \ {0} /\ c.Offset + c.Size <= MaxSize
          /\ c.Bytes \in [0 .. c.Size - 1 -> Data]

VARIABLES
    phase,        \* "open" until hooked_close
    sectorMap,    \* SectorMap: sector |-> sector of the change file, or Blank
    chg,          \* the change file
    chgPos,       \* file pointer of hChangeFile
    chgSector,    \* CurrentChangeFileSector
    log,          \* WriteLog
    pending,      \* what is left to do of a hooked_write_byte
    call, reply, failed,  \* the last call and what came of it
    torn          \* how many failed writes have left a part in the change file

io == <<sectorMap, chg, chgPos, chgSector, log, pending, call, reply, failed, torn>>

Blank == -1
None == [op |-> "none", Offset |-> 0, Size |-> 0]

\* WriteFile: n units of bytes at position pos of a file.
WriteAt(file, pos, bytes, n) ==
    [i \in 1 .. IF pos + n > Len(file) THEN pos + n ELSE Len(file) |->
        IF pos < i /\ i <= pos + n THEN bytes[i - pos - 1] ELSE file[i]]

SectorOf(i) == i \div SectorSize
SectorsOf(c) == SectorOf(c.Offset) .. SectorOf(c.Offset + c.Size - 1)

InChangeFile(s) == s \in DOMAIN sectorMap /\ sectorMap[s] # Blank

\* ReadNextSector, one unit of it: the change file, zeroes, or the image.
UnitAt(i) ==
    LET s == SectorOf(i)
    IN  IF InChangeFile(s) THEN chg[sectorMap[s] * SectorSize + (i % SectorSize) + 1]
        ELSE IF s \notin DOMAIN sectorMap /\ i < SizeOnDisk THEN File[i]
        ELSE 0

\* The image's last sector cannot be read if it is not all there.
Readable(s) ==
    \/ s \in DOMAIN sectorMap
    \/ s * SectorSize >= SizeOnDisk
    \/ (s + 1) * SectorSize <= SizeOnDisk

\* ReadNextSector puts the pointer of the change file back to its end.
AfterReading(c) ==
    IF \E s \in SectorsOf(c) : InChangeFile(s) THEN chgSector * SectorSize ELSE chgPos

Init ==
    /\ phase = "open"
    /\ sectorMap = << >> /\ chg = << >> /\ chgPos = 0 /\ chgSector = 0
    /\ log = << >> /\ pending = None
    /\ call = None /\ reply = << >> /\ failed = FALSE /\ torn = 0

\* A call that failed does not keep resize2fs from making others.
Ready == phase = "open" /\ pending = None

Aligned(c) == c.Offset % SectorSize = 0 /\ c.Size % SectorSize = 0

\* The call returns less than its size.
Fails == failed' = TRUE /\ reply' = << >>

\* It has done all of it.
Done == failed' = FALSE /\ reply' = << >>

\* A WriteFile came up short: what it wrote stays, in the way of the next.
Tears == torn < MaxTorn /\ torn' = torn + 1

Read ==
    /\ Ready
    /\ \E c \in Reads :
         /\ call' = c
         /\ \/ /\ Aligned(c) /\ \A s \in SectorsOf(c) : Readable(s)
               /\ reply' = [k \in 0 .. c.Size - 1 |-> UnitAt(c.Offset + k)]
               /\ chgPos' = AfterReading(c)
               /\ failed' = FALSE
            \/ Fails /\ chgPos' \in {chgPos, AfterReading(c)}
    /\ UNCHANGED <<phase, sectorMap, chg, chgSector, log, pending, torn>>

AllZero(c) == \A k \in 0 .. c.Size - 1 : c.Bytes[k] = 0

Entry(offset, size, zero) == [Offset |-> offset, Size |-> size, IsZero |-> zero]

\* Faulty variant: sectors numbered from the one after the next.
MappedPastEnd(first, n) ==
    [s \in DOMAIN sectorMap \cup first .. first + n - 1 |->
        IF s \in first .. first + n - 1 THEN chgSector + 1 + (s - first) ELSE sectorMap[s]]

\* The first n sectors of a write are in the change file from chgSector on.
Mapped(first, n) ==
    [s \in DOMAIN sectorMap \cup first .. first + n - 1 |->
        IF s \in first .. first + n - 1 THEN chgSector + (s - first) ELSE sectorMap[s]]

\* Faulty variant: a sector that is in the map already stays as it is there
\* (insert in place of operator[]).
BlankedIfNew(c) ==
    [s \in DOMAIN sectorMap \cup SectorsOf(c) |->
        IF s \in DOMAIN sectorMap THEN sectorMap[s] ELSE Blank]

Blanked(c) ==
    [s \in DOMAIN sectorMap \cup SectorsOf(c) |->
        IF s \in SectorsOf(c) THEN Blank ELSE sectorMap[s]]

\* Faulty variant: zeroes change the map but are not logged.
WriteZeroesUnlogged ==
    /\ Ready
    /\ \E c \in Writes :
         /\ Aligned(c) /\ AllZero(c)
         /\ call' = c
         /\ sectorMap' = Blanked(c)
    /\ Done
    /\ UNCHANGED <<phase, chg, chgPos, chgSector, log, pending, torn>>

\* hooked_write of zeroes needs no room in the change file.
WriteZeroes ==
    /\ Ready /\ Len(log) < MaxLog
    /\ \E c \in Writes :
         /\ Aligned(c) /\ AllZero(c)
         /\ call' = c
         /\ sectorMap' = Blanked(c)
         /\ log' = Append(log, Entry(c.Offset, c.Size, TRUE))
    /\ Done
    /\ UNCHANGED <<phase, chg, chgPos, chgSector, pending, torn>>

\* hooked_write, sector by sector; the log gets its entry after the last.
Write ==
    /\ Ready /\ Len(log) < MaxLog
    /\ \E c \in Writes :
         /\ Aligned(c) /\ ~AllZero(c)
         /\ call' = c
         /\ chg' = WriteAt(chg, chgPos, c.Bytes, c.Size)
         /\ chgPos' = chgPos + c.Size
         /\ chgSector' = chgSector + (c.Size \div SectorSize)
         /\ sectorMap' = Mapped(SectorOf(c.Offset), c.Size \div SectorSize)
         /\ log' = Append(log, Entry(c.Offset, c.Size, FALSE))
    /\ Done
    /\ UNCHANGED <<phase, pending, torn>>

\* Refused, or a short WriteFile: the sectors before it stay mapped, but are
\* not logged, and nothing takes the pointer back.
WriteFails ==
    /\ Ready
    /\ \E c \in Writes :
         /\ call' = c
         /\ \/ /\ ~Aligned(c) \/ ~AllZero(c)
               /\ UNCHANGED <<chg, chgPos, chgSector, sectorMap, torn>>
            \/ /\ Aligned(c) /\ ~AllZero(c)
               /\ Tears
               /\ \E n \in 1 .. c.Size - 1 :
                    /\ chg' = WriteAt(chg, chgPos, c.Bytes, n)
                    /\ chgPos' = chgPos + n
                    /\ chgSector' = chgSector + (n \div SectorSize)
                    /\ sectorMap' = Mapped(SectorOf(c.Offset), n \div SectorSize)
    /\ Fails
    /\ UNCHANGED <<phase, log, pending>>

(***************************************************************************)
(* hooked_write_byte: any offset and size, one sector at a time.           *)
(***************************************************************************)
WriteByte ==
    /\ Ready
    /\ pending' \in ByteWrites
    /\ UNCHANGED <<phase, sectorMap, chg, chgPos, chgSector, log, call, reply, failed, torn>>

\* What pending asks for in its first sector, and what remains.
Part ==
    LET room == SectorSize - (pending.Offset % SectorSize)
        todo == IF pending.Size < room THEN pending.Size ELSE room
    IN  [pending EXCEPT !.Size = todo, !.Bytes = [k \in 0 .. todo - 1 |-> pending.Bytes[k]]]

Remainder ==
    LET todo == Part.Size
    IN  IF pending.Size = todo THEN None
        ELSE [pending EXCEPT !.Offset = @ + todo, !.Size = @ - todo,
                             !.Bytes = [k \in 0 .. pending.Size - todo - 1 |-> pending.Bytes[k + todo]]]

\* The sector as it was read, with the part put into it.
Patched(s) ==
    [k \in 0 .. SectorSize - 1 |->
        LET i == s * SectorSize + k - Part.Offset
        IN  IF 0 <= i /\ i < Part.Size THEN Part.Bytes[i] ELSE UnitAt(s * SectorSize + k)]

WriteByteSector ==
    LET s == SectorOf(pending.Offset)
    IN  /\ phase = "open" /\ pending # None /\ Len(log) < MaxLog
        /\ call' = Part
        /\ \/ /\ Readable(s)
              /\ chg' = WriteAt(chg, AfterReading(Part), Patched(s), SectorSize)
              /\ chgPos' = AfterReading(Part) + SectorSize
              /\ chgSector' = chgSector + 1
              /\ sectorMap' = Mapped(s, 1)
              /\ log' = Append(log, Entry(s * SectorSize, SectorSize, FALSE))
              /\ pending' = Remainder
              /\ Done /\ UNCHANGED torn
           \/ /\ \/ /\ chgPos' \in {chgPos, AfterReading(Part)}
                    /\ UNCHANGED <<chg, torn>>
                 \/ /\ Readable(s) /\ Tears
                    /\ \E n \in 1 .. SectorSize - 1 :
                         /\ chg' = WriteAt(chg, AfterReading(Part), Patched(s), n)
                         /\ chgPos' = AfterReading(Part) + n
              /\ Fails /\ pending' = None
              /\ UNCHANGED <<chgSector, sectorMap, log>>
        /\ UNCHANGED phase

Calls == Read \/ WriteZeroes \/ Write \/ WriteFails \/ WriteByte \/ WriteByteSector

(***************************************************************************)
(* The disk that resize2fs sees.                                           *)
(***************************************************************************)
Contents == [i \in 0 .. MaxSize - 1 |-> UnitAt(i)]

Device == INSTANCE VirtualDisk
            WITH disk <- Contents, torn <- torn > 0, Initial <- [i \in 0 .. MaxSize - 1 |->
                                                 IF i < SizeOnDisk THEN File[i] ELSE 0]
=============================================================================
