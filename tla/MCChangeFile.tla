---------------------------- MODULE MCChangeFile ----------------------------
(***************************************************************************)
(* A partition of two sectors and a half in the image, grown to four, with *)
(* calls that overlap: whole sectors, zeroes, and bytes across a boundary. *)
(***************************************************************************)
EXTENDS ChangeFile

CONSTANT junk

MCData == 0 .. 3
MCFile == [i \in 0 .. SizeOnDisk - 1 |-> 1]

AWrite(offset, bytes) ==
    [op |-> "write", Offset |-> offset, Size |-> Len(bytes),
     Bytes |-> [k \in 0 .. Len(bytes) - 1 |-> bytes[k + 1]]]

ARead(offset, size) == [op |-> "read", Offset |-> offset, Size |-> size]

MCReads == {ARead(0, 4), ARead(4, 2), ARead(6, 2), ARead(2, 1)}

MCWrites == { AWrite(0, <<0, 0>>), AWrite(0, <<2, 3, 2, 0>>), AWrite(2, <<0, 0, 0, 0>>),
              AWrite(4, <<3, 2>>), AWrite(6, <<2, 2>>), AWrite(2, <<3>>) }

MCByteWrites == {AWrite(1, <<3, 0>>), AWrite(5, <<2>>), AWrite(7, <<3>>)}
=============================================================================
