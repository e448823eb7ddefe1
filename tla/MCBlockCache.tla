---------------------------- MODULE MCBlockCache ----------------------------
(***************************************************************************)
(* A device of a few units with blocks of one unit or two, and a cache     *)
(* smaller than the device, so that entries are evicted, a run of reads    *)
(* meets cached blocks, and requests go past the cache.                    *)
(***************************************************************************)
EXTENDS BlockCache

MCInitial == [u \in Units |-> 0]
MCPayloads == {[u \in Units |-> 0], [u \in Units |-> 1]}
=============================================================================
