--------------------------- MODULE MCImageWriter ---------------------------
(***************************************************************************)
(* Instances of ImageWriter.  The disk has ten units, the buffer holds two *)
(* sectors of two units each.                                              *)
(***************************************************************************)
EXTENDS ImageWriter

CONSTANTS junk, null

MCData == 0 .. 15

\* An image of n units; the boot sector gives the partition's length.
AnImage(n, count) == [i \in 0 .. n - 1 |-> IF i = CountField THEN count ELSE i + 5]

AJob(n, resize, lba, count, changes) ==
    [Length |-> n, Image |-> AnImage(n, count), Resize |-> resize,
     StartingLBA |-> lba, TotalSectorCount |-> count, Changes |-> changes]

Change(offset, bytes) ==
    [Offset |-> offset, Size |-> Len(bytes),
     Bytes |-> [k \in 0 .. Len(bytes) - 1 |-> bytes[k + 1]]]

\* In the image, past its end, and over the first operation again.
Overlapping == << Change(0, <<14, 14>>), Change(4, <<15, 15>>), Change(0, <<13, 12>>) >>

\* Three and a half sectors, copied in two chunks, without and with a resize.
UnalignedJobs == {AJob(7, FALSE, 2, 2, << >>), AJob(7, TRUE, 2, 2, Overlapping)}

EdgeJobs ==
    { AJob(0, FALSE, 1, 0, << >>),                      \* nothing to cache
      AJob(1, FALSE, 1, 0, << >>),                      \* less than a sector
      AJob(4, TRUE, 1, 1, << >>),                       \* one chunk, no changes
      AJob(10, TRUE, 4, 1, << Change(0, <<14>>) >>),    \* the whole disk
      AJob(6, TRUE, 2, 4, Overlapping),                 \* partition too big
      AJob(6, TRUE, 2, 1, << Change(6, <<14>>) >>) }    \* change past the end

AllJobs == UnalignedJobs \cup EdgeJobs

\* A partition that starts at or past the range of a uint.
FarJobs == {AJob(7, TRUE, 4, 1, << Change(0, <<14, 14>>) >>)}
=============================================================================
