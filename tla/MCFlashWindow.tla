---------------------------- MODULE MCFlashWindow ---------------------------
(***************************************************************************)
(* Three media, two of them of the same length, in one or two disks.       *)
(***************************************************************************)
EXTENDS FlashWindow

CONSTANTS none, small, large, other

MCLength == [m \in Media |-> IF m = small THEN 4 ELSE 8]
=============================================================================
