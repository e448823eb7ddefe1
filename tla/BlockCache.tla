----------------------------- MODULE BlockCache -----------------------------
(***************************************************************************)
(* unix_io.c: the I/O channel through which resize2fs reads and writes     *)
(* blocks, with a small write-back cache in front of the hooked functions. *)
(*                                                                         *)
(* The device is a row of units, and bs of them make a block.  The entries *)
(* in use are a function on the blocks they hold, and order lists those    *)
(* blocks by access_time: its head is the entry that find_cached_block     *)
(* calls eldest, and a short order means an unused entry.  The loops of    *)
(* unix_read_blk64 and unix_write_blk64 take one step per round; job is    *)
(* what is left of the request.                                            *)
(*                                                                         *)
(* want, told, lost and bypassed exist for the properties only: what the   *)
(* caller wrote last, the units for which a call reported an error, those  *)
(* whose write-back failed without a report, and those written behind the  *)
(* back of a cached copy.  No caller sets CHANNEL_FLAGS_WRITETHROUGH, and  *)
(* the build (MinGW) asks for no alignment, so neither path is modelled.   *)
(***************************************************************************)
EXTENDS Integers, Sequences, FiniteSets

CONSTANTS
    NumUnits,          \* the size of the device
    BlockSizes,        \* what set_blksize may ask for, in units
    CacheSize,         \* CACHE_SIZE
    WriteDirectSize,   \* WRITE_DIRECT_SIZE (READ_DIRECT_SIZE is the same)
    Payloads,          \* what may be written: functions on Units
    Initial,           \* the device at the start
    MaxRequests,       \* bound: how many requests are made
    MaxFaults          \* bound: hooked calls that fail, byte writes past the cache

Units == 0 .. NumUnits - 1

ASSUME BlockCacheAssumption ==
    /\ NumUnits \in Nat \ {0}
    /\ BlockSizes \subseteq Nat \ {0} /\ BlockSizes # {}
    /\ WriteDirectSize \in Nat \ {0} /\ CacheSize \in Nat /\ WriteDirectSize < CacheSize
    /\ MaxRequests \in Nat /\ MaxFaults \in Nat
    /\ \A p \in Payloads \cup {Initial} : DOMAIN p = Units

VARIABLES
    open,           \* the channel has not been closed
    bs,             \* block_size
    cache,          \* block |-> [buf, dirty], for the entries in use
    order,          \* their blocks, least recently used first
    dev,            \* what the hooked functions hold
    job,            \* the request that is being served
    served,         \* what the last step gave to the caller, by unit
    result,         \* what the last request returned
    requests,       \* how many requests were made
    faults,         \* how much of MaxFaults is used up
    want, told, lost, bypassed

history == <<want, told, lost, bypassed>>
vars == <<open, bs, cache, order, dev, job, served, result, requests, faults, history>>

Idle == [op |-> "none", block |-> 0, count |-> 0, bytes |-> << >>]

BlockOf(u) == u \div bs
UnitsOf(block) == block * bs .. (block + 1) * bs - 1
Blocks == {BlockOf(u) : u \in Units}
Dirty == {b \in DOMAIN cache : cache[b].dirty}
Full == Len(order) >= CacheSize
Eldest == Head(order)

\* What the caller sees: the cached blocks, and the device for the others.
Contents ==
    [u \in Units |-> IF BlockOf(u) \in DOMAIN cache THEN cache[BlockOf(u)].buf[u] ELSE dev[u]]

\* unix_open: the cache is allocated with no entry in use.
Init ==
    /\ open = TRUE /\ bs \in BlockSizes
    /\ cache = << >> /\ order = << >> /\ dev = Initial
    /\ job = Idle /\ served = << >> /\ result = "ok" /\ requests = 0 /\ faults = 0
    /\ want = Initial /\ told = {} /\ lost = {} /\ bypassed = {}

Ready ==
    /\ open /\ job = Idle
    /\ requests < MaxRequests /\ requests' = requests + 1

\* find_cached_block makes the entry it finds the youngest.
Touched(seq, b) ==
    LET k == CHOOSE k \in DOMAIN seq : seq[k] = b
    IN  [i \in DOMAIN seq |-> IF i < k THEN seq[i] ELSE IF i < Len(seq) THEN seq[i + 1] ELSE b]

\* raw_write_blk: the first k units of bytes on units reach the device.
Landed(units, bytes, k) ==
    LET low == CHOOSE u \in units : \A v \in units : u <= v
    IN  [u \in Units |-> IF u \in units /\ u < low + k THEN bytes[u] ELSE dev[u]]

Answered(offset, size, bytes) == served' = [u \in offset .. offset + size - 1 |-> bytes[u]]
NoAnswer == served' = << >>

\* The caller's write of units is done, or has failed and it was told so.
Asked(units, bytes) == want' = [u \in Units |-> IF u \in units THEN bytes[u] ELSE want[u]]

(***************************************************************************)
(* reuse_cache takes an unused entry or the eldest one; a dirty one is     *)
(* written back first, and nobody looks at what raw_write_blk returns.     *)
(* gone are the units that do not reach the device that way.               *)
(***************************************************************************)
Losses == IF Full /\ Eldest \in Dirty THEN {{}, UnitsOf(Eldest)} ELSE {{}}

\* Faulty variant: the dirty entry is dropped.
WriteBackForgotten(gone) == dev' = dev

WriteBack(gone) ==
    IF Full /\ Eldest \in Dirty
      THEN \E k \in IF gone = {} THEN {bs} ELSE 0 .. bs - 1 :
             dev' = Landed(UnitsOf(Eldest), cache[Eldest].buf, k)
      ELSE dev' = dev

Count(n) == faults' = faults + n /\ faults' <= MaxFaults
One(condition) == IF condition THEN 1 ELSE 0

\* Faulty variant: the entry that is reused keeps its old place as well.
OrderKeptWhole == order

OrderKept == IF Full THEN Tail(order) ELSE order
KeptBlocks == IF Full THEN DOMAIN cache \ {Eldest} ELSE DOMAIN cache

\* The cache with an entry for block in place of the one that is reused.
With(block, bytes, dirty) ==
    [b \in KeptBlocks \cup {block} |->
        IF b = block THEN [buf |-> [u \in UnitsOf(block) |-> bytes[u]], dirty |-> dirty] ELSE cache[b]]

(***************************************************************************)
(* flush_cached_blocks writes every dirty entry.  bad are the ones for     *)
(* which that fails, after got[b] units.                                   *)
(***************************************************************************)
Flushed(bad, got) ==
    [u \in Units |->
        LET b == BlockOf(u)
        IN  IF b \in Dirty /\ (b \in bad => u < b * bs + got[b]) THEN cache[b].buf[u] ELSE dev[u]]

\* Faulty variant: an entry counts as clean even if its write failed.
StillDirtyNever(bad) == [b \in DOMAIN cache |-> [cache[b] EXCEPT !.dirty = FALSE]]

StillDirty(bad) == [b \in DOMAIN cache |-> [cache[b] EXCEPT !.dirty = @ /\ b \in bad]]
UnitsIn(blocks) == UNION {UnitsOf(b) : b \in blocks}

\* Faulty variant: the errors are not collected.
FlushWithAnything(bad) ==
    /\ Count(Cardinality(bad))
    /\ \E got \in [bad -> 0 .. bs - 1] : dev' = Flushed(bad, got)
    /\ result' = "synced"

FlushWith(bad) ==
    /\ Count(Cardinality(bad))
    /\ \E got \in [bad -> 0 .. bs - 1] : dev' = Flushed(bad, got)
    /\ result' = IF bad = {} THEN "synced" ELSE "error"

\* unix_flush
Flush ==
    /\ Ready
    /\ \E bad \in SUBSET Dirty : FlushWith(bad) /\ cache' = StillDirty(bad)
    /\ NoAnswer
    /\ UNCHANGED <<open, bs, order, job, history>>

\* unix_close: the entries are freed whether they could be written or not.
Close ==
    /\ Ready
    /\ \E bad \in SUBSET Dirty :
         /\ FlushWith(bad)
         /\ told' = told \cup UnitsIn(bad)
    /\ open' = FALSE /\ cache' = << >> /\ order' = << >>
    /\ NoAnswer
    /\ UNCHANGED <<bs, job, want, lost, bypassed>>

\* unix_set_blksize: a failed flush leaves the block size as it was.
SetBlkSize ==
    /\ Ready
    /\ \E size \in BlockSizes \ {bs}, bad \in SUBSET Dirty :
         /\ FlushWith(bad)
         /\ \/ bad = {} /\ bs' = size /\ cache' = << >> /\ order' = << >>
            \/ bad # {} /\ cache' = StillDirty(bad) /\ UNCHANGED <<bs, order>>
    /\ NoAnswer
    /\ UNCHANGED <<open, job, history>>

(***************************************************************************)
(* A request of more than WriteDirectSize blocks goes past the cache, and  *)
(* so does one with a negative count, which is a size in bytes: any size.  *)
(***************************************************************************)
Direct(offset, size) == offset % bs = 0 /\ offset + size <= NumUnits

FlushFails ==
    /\ Ready
    /\ \E bad \in (SUBSET Dirty) \ {{}} :
         /\ FlushWith(bad)
         /\ \/ cache' = StillDirty(bad) /\ UNCHANGED <<order, told>>     \* to read
            \/ cache' = << >> /\ order' = << >> /\ told' = told \cup UnitsIn(bad)    \* to write
    /\ NoAnswer
    /\ UNCHANGED <<open, bs, job, want, lost, bypassed>>

\* Faulty variant: no flush before the read.
ReadDirectUnflushed ==
    /\ Ready
    /\ \E offset \in Units, size \in 1 .. NumUnits :
         Direct(offset, size) /\ Answered(offset, size, dev) /\ result' = "ok"
    /\ UNCHANGED <<open, bs, cache, order, dev, job, faults, history>>

ReadDirect ==
    /\ Ready
    /\ \E offset \in Units, size \in 1 .. NumUnits :
         /\ Direct(offset, size)
         /\ dev' = Flushed({}, << >>) /\ cache' = StillDirty({})
         /\ \/ /\ Answered(offset, size, dev') /\ result' = "ok" /\ UNCHANGED faults
            \/ /\ Count(1)
               /\ result' = "error" /\ NoAnswer
    /\ UNCHANGED <<open, bs, order, job, history>>

\* flush_cached_blocks with invalidate.
Emptied == cache' = << >> /\ order' = << >>

WriteDirect ==
    /\ Ready
    /\ \E offset \in Units, size \in 1 .. NumUnits, bytes \in Payloads :
         LET units == offset .. offset + size - 1
             arrived(n) == [u \in Units |-> IF u \in units /\ u < offset + n
                                              THEN bytes[u] ELSE Flushed({}, << >>)[u]]
         IN  /\ Direct(offset, size)
             /\ Asked(units, bytes)
             /\ \/ /\ dev' = arrived(size) /\ result' = "ok"
                   /\ told' = told \ units /\ UNCHANGED faults
                \/ /\ Count(1)
                   /\ \E n \in 0 .. size - 1 : dev' = arrived(n)
                   /\ result' = "error" /\ told' = told \cup units
             /\ lost' = lost \ units /\ bypassed' = bypassed \ units
    /\ Emptied
    /\ NoAnswer
    /\ UNCHANGED <<open, bs, job>>

(***************************************************************************)
(* Requests of up to WriteDirectSize blocks go through the cache.          *)
(***************************************************************************)
Request ==
    /\ Ready
    /\ \E op \in {"read", "write"}, block \in Blocks, count \in 1 .. WriteDirectSize, bytes \in Payloads :
         /\ (block + count) * bs <= NumUnits
         /\ job' = [op |-> op, block |-> block, count |-> count,
                    bytes |-> IF op = "read" THEN << >> ELSE bytes]
    /\ result' = "ok"
    /\ NoAnswer
    /\ UNCHANGED <<open, bs, cache, order, dev, faults, history>>

Rest(n) == IF job.count = n THEN Idle ELSE [job EXCEPT !.block = @ + n, !.count = @ - n]

ReadHit ==
    /\ job.op = "read" /\ job.block \in DOMAIN cache
    /\ order' = Touched(order, job.block)
    /\ Answered(job.block * bs, bs, cache[job.block].buf)
    /\ job' = Rest(1)
    /\ UNCHANGED <<open, bs, requests, cache, dev, result, faults, history>>

\* The last block is read into the entry itself, which is dropped on an error.
ReadLast ==
    /\ job.op = "read" /\ job.block \notin DOMAIN cache /\ job.count = 1
    /\ \E gone \in Losses, short \in BOOLEAN :
         /\ WriteBack(gone) /\ lost' = lost \cup gone
         /\ Count(One(gone # {}) + One(short))
         /\ IF short
              THEN /\ cache' = [b \in KeptBlocks |-> cache[b]] /\ order' = OrderKept
                   /\ result' = "error" /\ NoAnswer
              ELSE /\ cache' = With(job.block, dev', FALSE)
                   /\ order' = Append(OrderKept, job.block)
                   /\ Answered(job.block * bs, bs, dev') /\ UNCHANGED result
    /\ job' = Idle
    /\ UNCHANGED <<open, bs, requests, want, told, bypassed>>

(***************************************************************************)
(* Several blocks that are not cached are read at once, and saved in the   *)
(* one entry that every call of find_cached_block proposed: the last of    *)
(* them stays.  That entry may hold the block that ended the run.          *)
(***************************************************************************)
RunLength ==
    CHOOSE n \in 1 .. job.count :
      /\ n = job.count \/ job.block + n \in DOMAIN cache
      /\ \A i \in 1 .. n - 1 : job.block + i \notin DOMAIN cache

ReadRun ==
    LET n == RunLength
        hit == job.block + n
        last == job.block + n - 1
        youngest(seq) == IF hit \in {seq[k] : k \in DOMAIN seq} /\ n < job.count
                           THEN Touched(seq, hit) ELSE seq
    IN  /\ job.op = "read" /\ job.block \notin DOMAIN cache /\ job.count > 1
        /\ \/ /\ \E gone \in Losses :
                   WriteBack(gone) /\ lost' = lost \cup gone /\ Count(One(gone # {}))
              /\ Answered(job.block * bs, n * bs, dev)
              /\ cache' = With(last, dev, FALSE)
              /\ order' = Append(youngest(OrderKept), last)
              /\ job' = Rest(n)
              /\ UNCHANGED result
           \/ /\ Count(1)
              /\ order' = youngest(order)
              /\ result' = "error" /\ job' = Idle
              /\ NoAnswer /\ UNCHANGED <<cache, dev, lost>>
        /\ UNCHANGED <<open, bs, requests, want, told, bypassed>>

WriteBlock ==
    /\ job.op = "write"
    /\ IF job.block \in DOMAIN cache
         THEN /\ cache' = [cache EXCEPT ![job.block] =
                             [buf |-> [u \in UnitsOf(job.block) |-> job.bytes[u]], dirty |-> TRUE]]
              /\ order' = Touched(order, job.block)
              /\ lost' = lost \ UnitsOf(job.block)
              /\ UNCHANGED <<dev, faults>>
         ELSE /\ \E gone \in Losses :
                   /\ WriteBack(gone) /\ Count(One(gone # {}))
                   /\ lost' = (lost \cup gone) \ UnitsOf(job.block)
              /\ cache' = With(job.block, job.bytes, TRUE)
              /\ order' = Append(OrderKept, job.block)
    /\ Asked(UnitsOf(job.block), job.bytes)
    /\ told' = told \ UnitsOf(job.block) /\ bypassed' = bypassed \ UnitsOf(job.block)
    /\ job' = Rest(1)
    /\ NoAnswer
    /\ UNCHANGED <<open, bs, requests, result>>

(***************************************************************************)
(* unix_write_byte goes past the cache: the flush is compiled out.         *)
(***************************************************************************)
WriteByte ==
    /\ Ready
    /\ \E offset \in Units, size \in 1 .. 2, bytes \in Payloads :
         LET units == offset .. offset + size - 1
             cached == {u \in units : BlockOf(u) \in DOMAIN cache}
         IN  /\ offset + size <= NumUnits
             /\ Asked(units, bytes)
             /\ \/ /\ dev' = Landed(units, bytes, size)
                   /\ Count(One(cached # {}))
                   /\ result' = "ok" /\ told' = told \ units
                \/ /\ Count(1)
                   /\ \E k \in 0 .. size - 1 : dev' = Landed(units, bytes, k)
                   /\ result' = "error" /\ told' = told \cup units
             /\ lost' = lost \ units
             /\ bypassed' = (bypassed \ units) \cup cached
    /\ NoAnswer
    /\ UNCHANGED <<open, bs, cache, order, job>>

Next ==
    \/ Request \/ ReadHit \/ ReadLast \/ ReadRun \/ WriteBlock
    \/ ReadDirect \/ WriteDirect \/ FlushFails \/ WriteByte
    \/ Flush \/ SetBlkSize \/ Close

Spec == Init /\ [][Next]_vars

(***************************************************************************)
(* Properties                                                              *)
(***************************************************************************)
Excused == told \cup lost \cup bypassed

(* The entries in use are at most CacheSize, for different blocks of the   *)
(* device, and each has its place among the access times.                  *)
TypeOK ==
    /\ bs \in BlockSizes /\ open \in BOOLEAN /\ faults \in 0 .. MaxFaults
    /\ DOMAIN cache \subseteq Blocks
    /\ \A b \in DOMAIN cache : DOMAIN cache[b].buf = UnitsOf(b) /\ cache[b].dirty \in BOOLEAN
    /\ DOMAIN cache = {order[k] : k \in DOMAIN order}
    /\ Len(order) = Cardinality(DOMAIN cache) /\ Len(order) <= CacheSize
    /\ DOMAIN dev = Units /\ DOMAIN want = Units
    /\ job = Idle \/ (job.count \in 1 .. WriteDirectSize /\ (job.block + job.count) * bs <= NumUnits)
    /\ result \in {"ok", "error", "synced"}

(* A read through the channel (unix_read_blk64) would return what was      *)
(* written last, whatever was evicted, flushed or resized in between,      *)
(* except where an error was reported, an eviction failed in reuse_cache,  *)
(* or unix_write_byte went past a cached copy.                             *)
SeesLastWritten == \A u \in Units \ Excused : Contents[u] = want[u]

(* Every round of unix_read_blk64 gives the caller what was written last,  *)
(* with the same exceptions.                                               *)
ReadsLastWritten == \A u \in DOMAIN served \ Excused : served[u] = want[u]

(* An entry whose dirty flag is clear may be dropped: the device has the   *)
(* same contents, unless unix_write_byte has gone past the entry.          *)
CleanMatchesDevice ==
    \A b \in DOMAIN cache \ Dirty : \A u \in UnitsOf(b) \ bypassed : cache[b].buf[u] = dev[u]

(* After a successful unix_flush, unix_close or unix_set_blksize the       *)
(* hooked functions hold what was written last, with the same exceptions.  *)
FlushedReachesDevice ==
    result = "synced" => \A u \in Units \ Excused : dev[u] = want[u]
=============================================================================
