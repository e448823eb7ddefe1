---------------------------- MODULE MCDeviceList ----------------------------
(***************************************************************************)
(* A hard disk and a card reader.                                          *)
(***************************************************************************)
EXTENDS DeviceList

CONSTANTS hdd, reader

MCKind == [d \in Devices |-> IF d = hdd THEN "fixed" ELSE "removable"]
MCFlaky == {hdd}
=============================================================================
