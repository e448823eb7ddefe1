----------------------------- MODULE MCResizeFs -----------------------------
(***************************************************************************)
(* File systems of one or two groups that grow to at most four.            *)
(***************************************************************************)
EXTENDS ResizeFs

Format(size, rsv, ri, flex, stride) ==
    [size |-> size, rsv |-> rsv, ri |-> ri, flex |-> flex, stride |-> stride]

\* One group; a short one with blocks reserved for descriptors; two groups of
\* which the second is short; bitmaps of a RAID; a flex group that need not
\* move anything.
MCFormats ==
    {Format(14, 0, FALSE, 1, 0), Format(11, 2, TRUE, 1, 0), Format(24, 0, FALSE, 1, 0),
     Format(28, 0, FALSE, 1, 2), Format(28, 2, TRUE, 2, 0)}

MCPairs == {<<3, 1>>, <<4, 3>>}

MCOwned(free) == {{b} : b \in free} \cup {{Min(free), Max(free)}, {}, free}
=============================================================================
