---------------------------- MODULE VirtualDisk ----------------------------
(***************************************************************************)
(* What resize2fs expects of the device it was given: a disk on which a    *)
(* read returns what was written last.  A call that fails has done nothing *)
(* at all, except for a write that was torn: that ends the promise.        *)
(***************************************************************************)
EXTENDS Integers

CONSTANT Initial    \* the contents of the disk at the start

VARIABLES
    disk,    \* what a read sees
    call,    \* the last call: an offset and the bytes to write, or their number
    reply,   \* what a read returned
    failed,  \* whether it failed
    torn     \* whether a failed write has left a part of itself

Init ==
    /\ disk = Initial
    /\ failed = FALSE /\ torn = FALSE

Covered(i) == call.Offset <= i /\ i < call.Offset + call.Size

Read ==
    /\ call'.op = "read"
    /\ reply' = [k \in 0 .. call'.Size - 1 |-> disk[call'.Offset + k]]
    /\ ~failed'
    /\ UNCHANGED <<disk, torn>>

Write ==
    /\ call'.op = "write"
    /\ disk' = [i \in DOMAIN disk |->
                  IF Covered(i)' THEN call'.Bytes[i - call'.Offset] ELSE disk[i]]
    /\ ~failed'
    /\ UNCHANGED torn

Fail ==
    /\ failed'
    /\ UNCHANGED <<disk, torn>> \/ torn'

Close ==
    /\ call'.op = "close"
    /\ UNCHANGED <<disk, torn>>

\* After a torn write the disk may show anything.
Torn == torn /\ torn'

Next == Read \/ Write \/ Fail \/ Close \/ Torn

Spec == Init /\ [][Next]_<<disk, call, reply, failed, torn>>
=============================================================================
