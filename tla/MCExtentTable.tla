---------------------------- MODULE MCExtentTable ---------------------------
(* Locations close enough together that runs form, break and overtake.     *)
EXTENDS ExtentTable
=============================================================================
