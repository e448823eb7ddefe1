------------------------------ MODULE ResizeFs ------------------------------
(***************************************************************************)
(* resize2fs.c: how resize_fs grows an ext2/3/4 file system that is not    *)
(* mounted, on a device that may fail.  The layout is the one of a file    *)
(* system with sparse_super: block 0 is the superblock, the descriptors    *)
(* and the blocks reserved for more of them follow, and some groups keep   *)
(* a backup of both.  Each group has a block bitmap, an inode bitmap and   *)
(* an inode table.  When more descriptors are needed than there is room    *)
(* for, bitmaps, tables and the files' blocks give way.                    *)
(*                                                                         *)
(* Free counts, checksums, uninitialised groups, meta_bg, sparse_super2,   *)
(* bigalloc and shrinking are left out; an inode fills a table block.      *)
(*                                                                         *)
(* A write of a few blocks only fills the cache of unix_io.c (BlockCache). *)
(* It reaches the device when the cache is flushed or its entry is reused, *)
(* and often nobody looks whether it does.  Until then resize2fs reads     *)
(* what it wrote: disk is what it reads, device what may still be there.   *)
(* A larger write goes past the cache, which is flushed before.            *)
(***************************************************************************)
EXTENDS Integers, Sequences, FiniteSets, FiniteSetsExt

CONSTANTS
    PerGroup,       \* s_blocks_per_group
    DescPerBlock,   \* descriptors in a block
    InodeBlocks,    \* inode_blocks_per_group
    Slack,          \* what the last group needs besides its structures (50)
    WriteDirectSize,    \* WRITE_DIRECT_SIZE (4)
    Formats,        \* file systems to start from, see Mkfs
    NewSizes,       \* sizes asked for
    Pairs,          \* pairs of inodes in use
    Owned(_),       \* sets of free blocks that the first of them may own
    MaxReserved,    \* blocksize/4, the most blocks reserved for descriptors
    MaxFaults       \* bound: how often the device fails

ASSUME ResizeFsAssumption ==
    /\ PerGroup \in Nat \ {0, 1} /\ DescPerBlock \in Nat \ {0} /\ InodeBlocks \in Nat \ {0}
    /\ Slack \in Nat /\ WriteDirectSize \in Nat /\ MaxReserved \in Nat /\ MaxFaults \in Nat
    /\ NewSizes \subseteq Nat /\ \E m \in NewSizes : \A n \in NewSizes : n <= m
    /\ Formats \subseteq [size : Nat \ {0}, rsv : Nat, ri : BOOLEAN, flex : Nat \ {0}, stride : Nat]

VARIABLES
    disk,       \* block |-> contents, as resize2fs reads them
    device,     \* the same, without the writes that may wait in the cache
    lost,       \* whether such a write has failed and nobody looked
    resizeIno,  \* the descriptor region that the resize inode describes
    old,        \* rfs->old_fs
    new,        \* rfs->new_fs
    reserve,    \* rfs->reserve_blocks
    move,       \* rfs->move_blocks
    bmap,       \* rfs->bmap: <<old block, new block>>, in the order planned
    asked,      \* *new_size
    files,      \* what the file system holds: inode |-> how many blocks
    pc, k,      \* where resize_fs is, and in which round of its loop
    bbDirty,    \* EXT2_FLAG_BB_DIRTY of new_fs
    oldDirty,   \* EXT2_FLAG_DIRTY of old_fs
    faults

cache == <<device, lost>>
vars == <<disk, cache, resizeIno, old, new, reserve, move, bmap, asked, files, pc, k,
          bbDirty, oldDirty, faults>>

(***************************************************************************)
(* Layout                                                                  *)
(***************************************************************************)
Run(b, n) == b .. b + n - 1
Ascending(S) ==
    [n \in 1 .. Cardinality(S) |-> CHOOSE b \in S : Cardinality({c \in S : c < b}) = n - 1]
Nowhere == 0        \* block 0 is never free

Groups(size) == (size + PerGroup - 1) \div PerGroup
GroupsOf(fs) == 0 .. Groups(fs.size) - 1
DescBlocks(fs) == (Groups(fs.size) + DescPerBlock - 1) \div DescPerBlock

HasSuper(g) == g <= 1 \/ \E p \in {3, 5, 7}, e \in 1 .. g : g = p ^ e

FirstBlock(g) == g * PerGroup
LastBlock(fs, g) ==
    IF g = Groups(fs.size) - 1 THEN fs.size - 1 ELSE FirstBlock(g) + PerGroup - 1

\* The superblock and the descriptor region of a group.
SuperAndBgd(fs, g) ==
    IF HasSuper(g) THEN {b \in Run(FirstBlock(g), 1 + DescBlocks(fs) + fs.rsv) : b < fs.size} ELSE {}

NoStructures == [bbm |-> Nowhere, ibm |-> Nowhere, it |-> Nowhere]
Table(s) == IF s.it = Nowhere THEN {} ELSE Run(s.it, InodeBlocks)
Structures(s) == ({s.bbm, s.ibm} \ {Nowhere}) \cup Table(s)

MetaBlocks(fs) == UNION {SuperAndBgd(fs, g) \cup Structures(fs.gd[g]) : g \in GroupsOf(fs)}

(***************************************************************************)
(* Allocation of bitmaps and tables                                        *)
(***************************************************************************)
\* The last block of the range is not tried; a range that does not go up is
\* searched around the end of the file system.
GetFreeBlocks(fs, start, finish, num, map) ==
    LET Fits(b) == b + num <= fs.size /\ Run(b, num) \cap map = {}
        ahead == {b \in start .. (IF start < finish THEN finish ELSE fs.size) - 1 : Fits(b)}
        around == {b \in 0 .. finish - 1 : start >= finish /\ Fits(b)}
    IN  IF ahead # {} THEN Min(ahead) ELSE IF around # {} THEN Min(around) ELSE Nowhere

OrElse(b, c) == IF b # Nowhere THEN b ELSE c

Flex(fs) == fs.flex > 1
LastInFlex(fs, g) ==
    LET last == (g \div fs.flex) * fs.flex + fs.flex - 1
    IN  IF last > Groups(fs.size) - 1 THEN Groups(fs.size) - 1 ELSE last

FlexbgOffset(fs, g, prev, map, elem) ==
    LET rem == (LastInFlex(fs, g) - g + 1) * elem
        size == IF rem > PerGroup \div 4 THEN PerGroup \div 4 ELSE rem
        start == FirstBlock((g \div fs.flex) * fs.flex)
        last == LastBlock(fs, LastInFlex(fs, g))
        near == IF prev # 0 /\ prev < fs.size THEN GetFreeBlocks(fs, prev, prev + size, elem, map)
                                              ELSE Nowhere
    IN  OrElse(near, OrElse(GetFreeBlocks(fs, start, last, size, map),
            OrElse(GetFreeBlocks(fs, start, last, elem, map), GetFreeBlocks(fs, 0, last, elem, map))))

\* How far the bitmaps of a flex group are apart.
TableOffset(fs, g) ==
    IF g % fs.flex = 0 /\ LastInFlex(fs, g) = Groups(fs.size) - 1 /\ LastInFlex(fs, g) % fs.flex # 0
      THEN (LastInFlex(fs, g) % fs.flex) + 1 ELSE fs.flex

\* Bitmaps of a RAID are staggered, from the first free block of the group.
Staggers(fs, g, map) ==
    fs.stride = 0 \/ GetFreeBlocks(fs, FirstBlock(g), LastBlock(fs, g), 1, map) # Nowhere

\* Where s is the block after the last one the code divides by zero; that is
\* taken to be no stagger.
Staggered(fs, g, map) ==
    LET last == LastBlock(fs, g)
        free == GetFreeBlocks(fs, FirstBlock(g), last, 1, map)
        s == free + InodeBlocks
        t == s + ((fs.stride * g) % (last - s + 1))
    IN  IF fs.stride = 0 \/ free = Nowhere \/ s > last \/ t >= last THEN FirstBlock(g) ELSE t

Size(part) == IF part = "it" THEN InodeBlocks ELSE 1

\* After the same part of the group before, or after the part before.
Previous(fs, g, part) ==
    IF g % fs.flex # 0 THEN fs.gd[g - 1][part] + Size(part)
    ELSE IF part = "bbm" THEN 0
    ELSE fs.gd[g][IF part = "ibm" THEN "bbm" ELSE "ibm"] + TableOffset(fs, g)

SearchFrom(r, g, part, start) ==
    IF Flex(r.fs) THEN FlexbgOffset(r.fs, g, Previous(r.fs, g, part), r.map, Size(part))
    ELSE IF part = "it" THEN FirstBlock(g) ELSE start

SearchTo(fs, g) == LastBlock(fs, IF Flex(fs) THEN LastInFlex(fs, g) ELSE g)

\* A bitmap is marked in the map that was searched, the table in the file
\* system's own map, whichever was searched.
Put(r, g, part, b) ==
    [fs |-> [r.fs EXCEPT !.gd[g][part] = b, !.map = @ \cup (IF part = "it" THEN Run(b, InodeBlocks) ELSE {})],
     map |-> IF part = "it" THEN r.map ELSE r.map \cup {b},
     ok |-> b # Nowhere]

Found(r, g, part, from) ==
    OrElse(GetFreeBlocks(r.fs, from, SearchTo(r.fs, g), Size(part), r.map),
           IF part = "it" THEN Nowhere
           ELSE GetFreeBlocks(r.fs, FirstBlock(g), SearchTo(r.fs, g), 1, r.map))

\* r has a file system and a map; a part that has no place gets one.
Place(r, g, part, start) ==
    IF ~r.ok \/ r.fs.gd[g][part] # Nowhere THEN r
    ELSE Put(r, g, part, Found(r, g, part, SearchFrom(r, g, part, start)))

PlaceAll(r, g, start) ==
    Place(Place(Place(r, g, "bbm", start), g, "ibm", start), g, "it", start)

AllocateGroupTable(fs, g, map) ==
    PlaceAll([fs |-> fs, map |-> map, ok |-> Staggers(fs, g, map)], g, Staggered(fs, g, map))

\* With bmap = 0 the map that is searched is the file system's own.
AllocateIn(fs, g) ==
    LET OwnMap(a) == [fs |-> [a.fs EXCEPT !.map = @ \cup a.map], ok |-> a.ok]
    IN  OwnMap(AllocateGroupTable(fs, g, fs.map))

\* Group g gets its backups and its structures.
WithGroup(r, g) ==
    IF ~r.ok THEN r ELSE AllocateIn([r.fs EXCEPT !.map = @ \cup SuperAndBgd(r.fs, g)], g)

\* A new file system.  f has its size, the number of reserved blocks (with
\* the resize inode if ri holds), the groups in a flex group and the stride.
Mkfs(f) ==
    LET n == Groups(f.size)
        bare == [size |-> f.size, rsv |-> f.rsv, ri |-> f.ri, flex |-> f.flex, stride |-> f.stride,
                 jino |-> 0, jnl |-> << >>, error |-> FALSE, orig |-> << >>,
                 gd |-> [g \in 0 .. n - 1 |-> NoStructures], map |-> {}]
        made[g \in Nat] ==
            IF g = 0
              THEN [fs |-> [bare EXCEPT !.map = UNION {SuperAndBgd(bare, h) : h \in 0 .. n - 1}], ok |-> TRUE]
              ELSE WithGroup(made[g - 1], g - 1)
    IN  made[n]

(***************************************************************************)
(* Contents of the disk                                                    *)
(***************************************************************************)
Content(kind, val) == [kind |-> kind, val |-> val]
Same(c, d) == c.kind = d.kind /\ c.val = d.val
Is(b, kind) == disk[b].kind = kind

Blocks == 0 .. Max(NewSizes) - 1

\* The fields of the superblock, in the order in which they are written.
Fields == <<"size", "error", "rsv", "jnl">>
Super(fs) == [size |-> fs.size, error |-> fs.error, rsv |-> fs.rsv, jnl |-> fs.jnl]
GroupMap(fs, g) == fs.map \cap (FirstBlock(g) .. LastBlock(fs, g))

GroupOfInode(i) == (i - 1) \div InodeBlocks
InodeBlock(gd, i) == gd[GroupOfInode(i)].it + ((i - 1) % InodeBlocks)

\* blocks gives the blocks of each inode in use.
Formatted(fs, blocks) ==
    LET Owner(b) == {i \in DOMAIN blocks : \E n \in DOMAIN blocks[i] : blocks[i][n] = b}
        InodeAt(b) == {i \in DOMAIN blocks : b = InodeBlock(fs.gd, i)}
        WithSuper == {g \in GroupsOf(fs) : HasSuper(g)}
    IN  [b \in Blocks |->
           CASE Owner(b) # {} -> LET i == Min(Owner(b))
                                 IN  Content("data", <<i, CHOOSE n \in DOMAIN blocks[i] : blocks[i][n] = b>>)
             [] InodeAt(b) # {} -> Content("inode", <<Min(InodeAt(b)), blocks[Min(InodeAt(b))]>>)
             [] \E g \in GroupsOf(fs) : b = fs.gd[g].bbm ->
                  Content("map", GroupMap(fs, CHOOSE g \in GroupsOf(fs) : b = fs.gd[g].bbm))
             [] \E g \in GroupsOf(fs) : b = fs.gd[g].ibm -> Content("imap", 0)
             [] \E g \in WithSuper : b = FirstBlock(g) -> Content("super", Super(fs))
             [] \E g \in WithSuper : b \in Run(FirstBlock(g) + 1, DescBlocks(fs)) -> Content("gdt", fs.gd)
             [] InodeAt(b) = {} /\ \E g \in GroupsOf(fs) : b \in Table(fs.gd[g]) -> Content("zero", 0)
             [] OTHER -> Content("free", 0)]

Unused(fs) == (0 .. fs.size - 1) \ fs.map

\* One of two inodes owns the journal; the other one may own all that is left.
Init ==
    /\ \E fs \in {Mkfs(f).fs : f \in Formats}, p \in Pairs :
         /\ asked \in {n \in NewSizes : n > fs.size}
         /\ {p[1], p[2]} \subseteq 1 .. Groups(fs.size) * InodeBlocks
         /\ \E S \in Owned(Unused(fs)) : \E T \in {{}, Unused(fs) \ S} :
              \E blocks \in {[i \in {p[1], p[2]} |-> Ascending(IF i = p[1] THEN S ELSE T)]} :
                /\ \E owned \in {[fs EXCEPT !.map = @ \cup S \cup T, !.jino = p[1], !.jnl = blocks[p[1]]]} :
                     old = [owned EXCEPT !.orig = Super(owned)]
                /\ files = [i \in DOMAIN blocks |-> Len(blocks[i])]
                /\ disk = Formatted(old, blocks)
    /\ new = old /\ resizeIno = <<DescBlocks(old), old.rsv>>
    /\ reserve = {} /\ move = {} /\ bmap = << >> /\ pc = "start" /\ k = 0
    /\ device = disk /\ lost = FALSE /\ bbDirty = FALSE /\ oldDirty = FALSE /\ faults = 0

(***************************************************************************)
(* Steps.  A step that reads or writes may fail instead.                   *)
(***************************************************************************)
Fault == faults < MaxFaults /\ faults' = faults + 1
Faults(S) == faults' = faults + Cardinality(S) /\ faults' <= MaxFaults
Fail == pc' = "failed" /\ UNCHANGED k
Goto(place, round) == pc' = place /\ k' = round
Advance == pc' = pc /\ k' = k + 1
Write(b, content) == disk' = [disk EXCEPT ![b] = content]
WriteRun(b, n, content) == disk' = [c \in Blocks |-> IF c \in Run(b, n) THEN content ELSE disk[c]]

\* Of what a request of n blocks writes, the part that waits in the cache.
Cached(n, S) == IF n > WriteDirectSize THEN {} ELSE S

Waiting == {b \in Blocks : disk[b] # device[b]}

\* The blocks S, which are written, wait with those that do.
Waits(S) ==
    LET late == S \cup Waiting
    IN  device' = [b \in Blocks |-> IF b \in late THEN device[b] ELSE disk'[b]]

Flushed == device' = disk'

\* S is in the cache and a flush follows whose result nobody looks at; blocks
\* that fail stay in the cache.
FlushUnseen(S) ==
    \/ Flushed /\ UNCHANGED <<lost, faults>>
    \/ Fault /\ S \cup Waiting # {} /\ Waits(S) /\ lost' = TRUE

\* What is read when the entries of S are no longer there.
Without(S) == [b \in Blocks |-> IF b \in S THEN device[b] ELSE disk[b]]

handles == <<old, new, reserve, move, bmap>>
given == <<asked, files>>

\* write_primary_superblock: the first n fields, if they differ from what the
\* handle read or wrote last.
Stored(fs, n) ==
    Content("super", [f \in {Fields[j] : j \in 1 .. 4} |->
                        IF (\E j \in 1 .. n : f = Fields[j]) /\ Super(fs)[f] # fs.orig[f]
                          THEN Super(fs)[f] ELSE disk[0].val[f]])

\* ext2fs_flush(old_fs), whose result nobody looks at: the first copy of the
\* descriptors, a flush whose result is overwritten by that of the next write,
\* and the superblock, past the cache.
FlushOld(fs) ==
    LET region == Run(1, DescBlocks(fs))
        descs == [b \in Blocks |-> IF b \in region THEN Content("gdt", fs.gd) ELSE disk[b]]
    IN  \/ /\ disk' = [descs EXCEPT ![0] = Stored(fs, 4)]
           /\ FlushUnseen(Cached(DescBlocks(fs), region))
           /\ old' = [fs EXCEPT !.orig = Super(fs)] /\ oldDirty' = FALSE
        \/ /\ \/ DescBlocks(fs) > WriteDirectSize /\ UNCHANGED disk
              \/ \E n \in 0 .. 3 : disk' = [descs EXCEPT ![0] = Stored(fs, n)]
           /\ Fault /\ old' = fs /\ oldDirty' = TRUE /\ Flushed /\ UNCHANGED lost

\* The superblock is marked before anything else.
MarkError ==
    /\ pc = "start" /\ Goto("adjust", 0)
    /\ FlushOld([old EXCEPT !.error = TRUE]) /\ new' = old'
    /\ UNCHANGED <<resizeIno, reserve, move, bmap, given, bbDirty>>

(***************************************************************************)
(* Phase 1: adjust_superblock                                              *)
(***************************************************************************)
\* A last group too small for its structures is given up.
Fitted(fs, size) ==
    LET n == Groups(size)
        overhead == 2 + InodeBlocks + (IF HasSuper(n - 1) THEN 1 + DescBlocks([fs EXCEPT !.size = size]) + fs.rsv ELSE 0)
        rem == size % PerGroup
    IN  IF n > 1 /\ rem # 0 /\ rem < overhead + Slack THEN size - rem ELSE size

\* mke2fs has the same rule, and files own blocks that are free.
ASSUME FormatsAssumption ==
    \A f \in Formats : /\ Mkfs(f).ok /\ Fitted(f, f.size) = f.size
                       /\ \A S \in Owned(Unused(Mkfs(f).fs)) : S \subseteq Unused(Mkfs(f).fs)

\* With the resize inode the region keeps its size while it can.
AdjustReservedGdtBlocks(fs, next) ==
    LET rsv == fs.rsv + DescBlocks(fs) - DescBlocks(next)
    IN  IF ~fs.ri \/ DescBlocks(fs) = DescBlocks(next) THEN fs.rsv
        ELSE IF rsv < 0 THEN 0 ELSE IF rsv > MaxReserved THEN MaxReserved ELSE rsv

Resized(fs, size) ==
    LET next == [fs EXCEPT !.size = size]
    IN  [next EXCEPT !.rsv = AdjustReservedGdtBlocks(fs, next),
                     !.gd = [g \in GroupsOf(next) |-> IF g \in DOMAIN @ THEN @[g] ELSE NoStructures]]

\* The descriptor regions of the groups there are.
Regions(fs, next) == UNION {SuperAndBgd(next, g) : g \in GroupsOf(fs)}

\* The file system, and the blocks that are reserved.
AdjustFsInfo(fs, next) ==
    LET grown[g \in Nat] ==
            IF g <= Groups(fs.size) THEN [fs |-> [next EXCEPT !.map = @ \cup Regions(fs, next)], ok |-> TRUE]
                                    ELSE WithGroup(grown[g - 1], g - 1)
        Reserved(r) == [fs |-> r.fs, reserve |-> MetaBlocks(r.fs), ok |-> r.ok]
    IN  IF Groups(next.size) = Groups(fs.size) THEN [fs |-> next, reserve |-> {}, ok |-> TRUE]
                                               ELSE Reserved(grown[Groups(next.size)])

AdjustSuperblock ==
    /\ pc = "adjust"
    /\ \E r \in {AdjustFsInfo(new, Resized(new, Fitted(new, asked)))} :
           IF r.ok THEN /\ new' = r.fs /\ reserve' = r.reserve
                        /\ Goto("zero", Groups(old.size))
                   ELSE Fail /\ UNCHANGED <<new, reserve>>
    /\ bbDirty' = TRUE
    /\ UNCHANGED <<disk, cache, resizeIno, old, move, bmap, given, oldDirty, faults>>

\* A table for the cache is flushed afterwards, a larger one may fail.
ZeroNewTable ==
    /\ pc = "zero" /\ k < Groups(new.size)
    /\ \/ /\ WriteRun(new.gd[k].it, InodeBlocks, Content("zero", 0)) /\ Advance
          /\ FlushUnseen(Cached(InodeBlocks, Table(new.gd[k])))
       \/ /\ InodeBlocks > WriteDirectSize /\ Fault /\ Fail /\ UNCHANGED lost
          /\ \E n \in 0 .. InodeBlocks - 1 : WriteRun(new.gd[k].it, n, Content("zero", 0)) /\ Waits({})
    /\ UNCHANGED <<resizeIno, handles, given, bbDirty, oldDirty>>

(***************************************************************************)
(* Phase 2: blocks_to_move, block_mover                                    *)
(***************************************************************************)
\* Faulty variant: only the end of the table is looked at.
DisplacedByEnd(s, region) ==
    [bbm |-> IF s.bbm \in region THEN Nowhere ELSE s.bbm,
     ibm |-> IF s.ibm \in region THEN Nowhere ELSE s.ibm,
     it  |-> IF s.it + InodeBlocks - 1 \in region THEN Nowhere ELSE s.it]

\* Structures that a descriptor region takes over lose their place.
Displaced(s, region) ==
    [bbm |-> IF s.bbm \in region THEN Nowhere ELSE s.bbm,
     ibm |-> IF s.ibm \in region THEN Nowhere ELSE s.ibm,
     it  |-> IF Table(s) \cap region # {} THEN Nowhere ELSE s.it]

\* Faulty variant: what was free is moved, too.
BookedAll(r, a, fs, meta, g) ==
    LET taken == Structures(a.fs.gd[g]) \ Structures(fs.gd[g])
    IN  [fs |-> [a.fs EXCEPT !.map = @ \cup taken],
         reserve |-> a.map \cup (IF a.fs.gd[g].it # fs.gd[g].it THEN Table(fs.gd[g]) ELSE {}),
         move |-> r.move \cup (taken \ meta),
         ok |-> a.ok]

\* What is taken from the files has to move, and the old table has to stay.
Booked(r, a, fs, meta, g) ==
    LET taken == Structures(a.fs.gd[g]) \ Structures(fs.gd[g])
    IN  [fs |-> [a.fs EXCEPT !.map = @ \cup taken],
         reserve |-> a.map \cup (IF a.fs.gd[g].it # fs.gd[g].it THEN Table(fs.gd[g]) ELSE {}),
         move |-> r.move \cup ((taken \cap fs.map) \ meta),
         ok |-> a.ok]

\* Group g gets what it has lost; r has the file system, the blocks that are
\* reserved and the ones to be moved.
Reallocated(r, fs, meta, g) ==
    IF ~r.ok \/ Nowhere \notin {r.fs.gd[g].bbm, r.fs.gd[g].ibm, r.fs.gd[g].it} THEN r
    ELSE Booked(r, AllocateGroupTable(r.fs, g, r.reserve), fs, meta, g)

\* The regions are marked, and what they take over has lost its place.
Cleared(fs, next) ==
    LET Near(g) == IF Flex(fs) THEN Regions(fs, next) ELSE SuperAndBgd(next, g)
    IN  [next EXCEPT !.map = @ \cup Regions(fs, next),
                     !.gd = [g \in DOMAIN @ |-> IF g \in GroupsOf(fs) THEN Displaced(@[g], Near(g)) ELSE @[g]]]

\* Structures that are there are not allocated again.
Existing(fs, next) ==
    UNION {Structures(IF Flex(fs) THEN fs.gd[g] ELSE Cleared(fs, next).gd[g]) : g \in GroupsOf(fs)}

Displacing(fs, next, kept) ==
    [fs |-> Cleared(fs, next), reserve |-> kept \cup Regions(fs, next) \cup Existing(fs, next),
     move |-> (Regions(fs, next) \cap fs.map) \ MetaBlocks(fs), ok |-> TRUE]

ToMove(fs, next, kept) ==
    LET done[g \in Nat] ==
            IF g = 0 THEN Displacing(fs, next, kept) ELSE Reallocated(done[g - 1], fs, MetaBlocks(fs), g - 1)
    IN  IF DescBlocks(fs) + fs.rsv = DescBlocks(next) + next.rsv
          THEN [fs |-> next, reserve |-> kept, move |-> {}, ok |-> TRUE]
          ELSE done[Groups(fs.size)]

BlocksToMove ==
    /\ pc = "zero" /\ k = Groups(new.size)
    /\ \E r \in {ToMove(old, new, reserve)} :
           IF r.ok THEN /\ new' = r.fs /\ reserve' = r.reserve /\ move' = r.move
                        /\ Goto("plan", 0)
                   ELSE Fail /\ UNCHANGED <<new, reserve, move>>
    /\ UNCHANGED <<disk, cache, resizeIno, old, bmap, given, bbDirty, oldDirty, faults>>

\* Faulty variant: blocks in use are not avoided.
NewBlocksReservedOnly ==
    LET usable == (0 .. new.size - 1) \ reserve
    IN  Ascending(usable \ old.map) \o Ascending(usable \cap old.map)

\* get_new_block: what is free in the new file system and not reserved, what
\* was in use in the old one last.
NewBlocks ==
    LET usable == (0 .. new.size - 1) \ (new.map \cup reserve)
    IN  Ascending(usable \ old.map) \o Ascending(usable \cap old.map)

PlanMoves ==
    /\ pc = "plan"
    /\ LET from == Ascending(move \cap old.map)
       IN  IF Len(from) <= Len(NewBlocks)
             THEN /\ bmap' = [n \in DOMAIN from |-> <<from[n], NewBlocks[n]>>]
                  /\ new' = [new EXCEPT !.map = @ \cup {NewBlocks[n] : n \in DOMAIN from}]
                  /\ Goto("copy", 1)
             ELSE Fail /\ UNCHANGED <<new, bmap>>
    /\ UNCHANGED <<disk, cache, resizeIno, old, reserve, move, given, bbDirty, oldDirty, faults>>

\* Faulty variant: no flush after the copies.
CopyBlockUnflushed ==
    /\ pc = "copy" /\ k <= Len(bmap)
    /\ \/ /\ Write(bmap[k][2], disk[bmap[k][1]]) /\ Advance
          /\ Waits({bmap[k][2]}) /\ UNCHANGED <<lost, faults>>
       \/ Fault /\ Fail /\ UNCHANGED <<disk, cache>>
    /\ UNCHANGED <<resizeIno, handles, given, bbDirty, oldDirty>>

\* A block, alone or with its neighbours; the flush at the end of an extent is
\* taken with each of its blocks.  A failure is noticed if the block cannot be
\* read, or is one of many that go past the cache.
CopyBlock ==
    /\ pc = "copy" /\ k <= Len(bmap)
    /\ \/ /\ Write(bmap[k][2], disk[bmap[k][1]]) /\ Advance
          /\ FlushUnseen({bmap[k][2]})
       \/ Fault /\ Fail /\ UNCHANGED <<disk, cache>>
    /\ UNCHANGED <<resizeIno, handles, given, bbDirty, oldDirty>>

(***************************************************************************)
(* Phase 3: inode_scan_and_fix.  No inode moves when the file system       *)
(* grows, so that inode_ref_fix has nothing to do.                         *)
(***************************************************************************)
ExtentTranslate(b) ==
    IF \E n \in DOMAIN bmap : bmap[n][1] = b
      THEN bmap[CHOOSE n \in DOMAIN bmap : bmap[n][1] = b][2] ELSE b

InUse == Ascending(DOMAIN files)

\* The inode is written at the place old_fs knows, into the cache.  A failure is
\* noticed if it cannot be read.
FixInode ==
    /\ \/ pc = "copy" /\ k > Len(bmap) /\ bmap # << >>
       \/ pc = "fix" /\ k <= Len(InUse)
    /\ LET n == IF pc = "copy" THEN 1 ELSE k
           b == InodeBlock(old.gd, InUse[n])
           ptrs == disk[b].val[2]
           fixed == [j \in DOMAIN ptrs |-> ExtentTranslate(ptrs[j])]
       IN  \/ /\ Write(b, Content("inode", <<disk[b].val[1], fixed>>)) /\ Goto("fix", n + 1)
              /\ Waits({b}) /\ UNCHANGED <<lost, faults>>
           \/ Fault /\ Fail /\ UNCHANGED <<disk, cache>>
    /\ UNCHANGED <<resizeIno, handles, given, bbDirty, oldDirty>>

(***************************************************************************)
(* Phase 4: move_itables                                                   *)
(***************************************************************************)
TablesMove == \E g \in GroupsOf(old) : old.gd[g].it # new.gd[g].it

\* The scan over the inodes ends with a flush.
BeginTables ==
    /\ UNCHANGED <<disk, resizeIno, handles, given, bbDirty, oldDirty>>
    /\ \/ pc = "copy" /\ bmap = << >> /\ UNCHANGED <<cache, faults>>
       \/ pc = "fix" /\ k > Len(InUse) /\ FlushUnseen({})
    /\ IF TablesMove THEN Goto("tables", 0) ELSE Goto("stats", 0)

\* What is at the end of the table and known to be zero is not written.
ZeroTail(b) ==
    CHOOSE n \in 0 .. InodeBlocks :
      /\ \A j \in InodeBlocks - n .. InodeBlocks - 1 : Is(b + j, "zero")
      /\ n < InodeBlocks => ~Is(b + InodeBlocks - n - 1, "zero")

TableWritten(from, to, num) ==
    [b \in Blocks |-> IF b \in Run(to, num) THEN disk[from + (b - to)] ELSE disk[b]]

MoveTable ==
    /\ pc = "tables" /\ k < Groups(old.size)
    /\ LET from == old.gd[k].it
           to == new.gd[k].it
           diff == IF to < from THEN 0 ELSE to - from
           n == ZeroTail(from)
           num == IF n > diff THEN InodeBlocks - n ELSE InodeBlocks
           zeroes == IF n > diff THEN Run(from + InodeBlocks, diff) ELSE {}
           moved == [b \in Blocks |-> IF b \in zeroes THEN Content("zero", 0)
                                                      ELSE TableWritten(from, to, num)[b]]
       IN  \/ from = to /\ Advance /\ UNCHANGED <<disk, cache, old, new, faults>>
           \/ /\ from # to /\ Goto("flush", k)
              /\ disk' = moved
              /\ Waits(Cached(num, Run(to, num)) \cup Cached(diff, zeroes)) /\ UNCHANGED lost
              /\ new' = [new EXCEPT !.map = @ \ Table(old.gd[k])]
              /\ old' = [old EXCEPT !.gd[k].it = to]
              /\ UNCHANGED faults
           \/ /\ from # to /\ Fault /\ Fail /\ UNCHANGED <<old, new, lost>>
              \* the old table is written back
              /\ \E j \in 0 .. (IF num > WriteDirectSize THEN num ELSE 0), back \in {{}, Run(from, num)} :
                   disk' = [b \in Blocks |-> IF b \in back THEN disk[b] ELSE TableWritten(from, to, j)[b]]
              /\ Waits({})
    /\ UNCHANGED <<resizeIno, reserve, move, bmap, given, bbDirty, oldDirty>>

FlushTable ==
    /\ pc = "flush" /\ Goto("tables", k + 1)
    /\ FlushOld(old)
    /\ UNCHANGED <<resizeIno, new, reserve, move, bmap, given, bbDirty>>

\* Old tables may lie where new structures are: all are marked again.
EndTables ==
    /\ pc = "tables" /\ k = Groups(old.size)
    /\ new' = [new EXCEPT !.map = @ \cup MetaBlocks(new)]
    /\ Goto("bits", 0)
    /\ UNCHANGED <<disk, cache, resizeIno, old, reserve, move, bmap, given, bbDirty, oldDirty, faults>>

(***************************************************************************)
(* ext2fs_flush(new_fs): at the end of move_itables, where the result is   *)
(* not looked at and no backups are written, and in ext2fs_close.          *)
(***************************************************************************)
Closing == ~new.error
FlushFails == IF Closing THEN Fail ELSE Goto("stats", 0)

\* The bitmaps of a group go into the cache.
WriteBitmaps ==
    /\ pc = "bits"
    /\ \/ ~bbDirty /\ Goto("descs", 0) /\ UNCHANGED <<disk, device, bbDirty>>
       \/ /\ bbDirty
          /\ disk' = [disk EXCEPT ![new.gd[k].bbm] = Content("map", GroupMap(new, k)),
                                  ![new.gd[k].ibm] = Content("imap", 0)]
          /\ IF k = Groups(new.size) - 1 THEN bbDirty' = FALSE /\ Goto("descs", 0)
                                         ELSE Advance /\ UNCHANGED bbDirty
          /\ Waits({new.gd[k].bbm, new.gd[k].ibm})
    /\ UNCHANGED <<resizeIno, handles, given, oldDirty, lost, faults>>

\* The backup of the superblock is a request of bytes, past the cache, the
\* descriptors are one of blocks.  What goes past the cache flushes it first;
\* entries for which that fails are dropped, and the failure is reported.
WriteDescs ==
    /\ pc = "descs"
    /\ LET here == HasSuper(k) /\ (k = 0 \/ Closing)
           region == IF here THEN Run(FirstBlock(k) + 1, DescBlocks(new)) ELSE {}
           direct == here /\ (k > 0 \/ DescBlocks(new) > WriteDirectSize)
           backup == [b \in Blocks |-> IF here /\ k > 0 /\ b = FirstBlock(k) THEN Content("super", Super(new)) ELSE disk[b]]
       IN  \/ /\ disk' = [b \in Blocks |-> IF b \in region THEN Content("gdt", new.gd) ELSE backup[b]]
              /\ IF direct THEN device' = [b \in Blocks |-> IF b \in Cached(DescBlocks(new), region)
                                                             THEN disk[b] ELSE disk'[b]]
                           ELSE Waits(region)
              /\ IF k = Groups(new.size) - 1 THEN Goto("super", 0) ELSE Advance
              /\ UNCHANGED <<lost, faults>>
           \/ /\ direct /\ Fault /\ FlushFails
              /\ disk' \in {disk, backup} /\ Flushed /\ UNCHANGED lost
           \/ /\ direct /\ FlushFails /\ faults < MaxFaults
              /\ \E S \in SUBSET Waiting : S # {} /\ Faults(S) /\ disk' = Without(S)
              /\ Flushed /\ lost' = (lost \/ ~Closing)
    /\ UNCHANGED <<resizeIno, handles, given, bbDirty, oldDirty>>

\* Faulty variant: the superblock is written before the cache is flushed.
WriteSuperUnflushed ==
    /\ pc = "super"
    /\ disk' = [disk EXCEPT ![0] = Stored(new, 4)]
    /\ new' = [new EXCEPT !.orig = Super(new)]
    /\ IF Closing THEN Goto("done", 0) ELSE Goto("stats", 0)
    /\ UNCHANGED <<cache, resizeIno, old, reserve, move, bmap, given, bbDirty, oldDirty, faults>>

\* The cache is flushed first, and the result overwritten by that of the
\* superblock, of which a failure may be reported although it has arrived.
\* The flush that follows tries again what has failed in the first one.
WriteSuper ==
    /\ pc = "super"
    /\ \/ /\ disk' = [disk EXCEPT ![0] = Stored(new, 4)]
          /\ new' = [new EXCEPT !.orig = Super(new)]
          /\ IF Closing THEN Goto("done", 0) ELSE Goto("stats", 0)
          /\ FlushUnseen({})
       \/ /\ \E n \in 0 .. 4 : disk' = [disk EXCEPT ![0] = Stored(new, n)]
          /\ Fault /\ FlushFails /\ Flushed /\ UNCHANGED <<new, lost>>
       \/ /\ disk' = [disk EXCEPT ![0] = Stored(new, 4)]
          /\ Fault /\ Waiting # {} /\ FlushFails /\ Waits({}) /\ lost' = TRUE
          /\ new' = [new EXCEPT !.orig = Super(new)]
    /\ UNCHANGED <<resizeIno, old, reserve, move, bmap, given, bbDirty, oldDirty>>

(***************************************************************************)
(* The end of resize_fs, and of main                                       *)
(***************************************************************************)
\* The reserved blocks of group 0 are written as indirect blocks.
FixResizeInode ==
    /\ pc = "stats"
    /\ \/ ~new.ri /\ Goto("journal", 0) /\ UNCHANGED <<disk, device, resizeIno, faults>>
       \/ /\ new.ri /\ Goto("journal", 0)
          /\ WriteRun(1 + DescBlocks(new), new.rsv, Content("indirect", 0))
          /\ Waits(Run(1 + DescBlocks(new), new.rsv))
          /\ resizeIno' = <<DescBlocks(new), new.rsv>> /\ UNCHANGED faults
       \/ /\ new.ri /\ Fault /\ Fail /\ resizeIno' = << >>      \* to read
          /\ \E n \in 0 .. new.rsv : /\ WriteRun(1 + DescBlocks(new), n, Content("indirect", 0))
                                     /\ Waits(Run(1 + DescBlocks(new), n))
    /\ UNCHANGED <<handles, given, bbDirty, oldDirty, lost>>

\* What is read from where an inode should be.
InodeRead(b) == IF Is(b, "inode") THEN disk[b].val[2] ELSE << >>

\* fix_sb_journal_backup, and the error mark goes.
FixSbJournalBackup ==
    /\ pc = "journal" /\ Goto("bits", 0)
    /\ new' = [new EXCEPT !.jnl = InodeRead(InodeBlock(new.gd, new.jino)), !.error = FALSE]
    /\ UNCHANGED <<disk, cache, resizeIno, old, reserve, move, bmap, given, bbDirty, oldDirty, faults>>

\* main closes old_fs after a failure.  When it is clean its superblock may be
\* written for the count of kilobytes, which changes nothing else.
CloseOld ==
    /\ pc = "failed" /\ Goto("closed", 0)
    /\ IF oldDirty THEN FlushOld(old) ELSE UNCHANGED <<disk, old, oldDirty>> /\ FlushUnseen({})
    /\ UNCHANGED <<resizeIno, new, reserve, move, bmap, given, bbDirty>>

\* reuse_cache makes room for another block, and what waited in the entry fails
\* to reach the device.
LoseBlock ==
    /\ pc \notin {"done", "closed"} /\ Fault /\ lost' = TRUE
    /\ \E b \in Waiting : disk' = Without({b})
    /\ UNCHANGED <<device, resizeIno, handles, given, pc, k, bbDirty, oldDirty>>

Next ==
    \/ MarkError \/ AdjustSuperblock \/ ZeroNewTable
    \/ BlocksToMove \/ PlanMoves \/ CopyBlock
    \/ FixInode \/ BeginTables \/ MoveTable \/ FlushTable \/ EndTables
    \/ WriteBitmaps \/ WriteDescs \/ WriteSuper
    \/ FixResizeInode \/ FixSbJournalBackup \/ CloseOld \/ LoseBlock

Spec == Init /\ [][Next]_vars

(***************************************************************************)
(* Properties                                                              *)
(***************************************************************************)
Places == {"start", "adjust", "zero", "plan", "copy", "fix", "tables", "flush", "bits",
           "descs", "super", "stats", "journal", "done", "failed", "closed"}

(* Every structure that has a place has it inside the file system; a table *)
(* that has moved is beyond the end of the old one at times.               *)
TypeOK ==
    /\ pc \in Places /\ k \in Nat /\ faults \in 0 .. MaxFaults
    /\ DOMAIN disk = Blocks /\ DOMAIN device = Blocks /\ lost \in BOOLEAN
    /\ \A fs \in {old, new} : /\ fs.map \subseteq 0 .. fs.size - 1
                              /\ DOMAIN fs.gd = GroupsOf(fs)
                              /\ \A g \in DOMAIN fs.gd : Structures(fs.gd[g]) \subseteq 1 .. new.size - 1
    /\ reserve \subseteq 0 .. new.size - 1 /\ move \subseteq old.map

Readable(gd) ==
    \A i \in DOMAIN files :
      LET b == InodeBlock(gd, i)
          ptrs == disk[b].val[2]
      IN  /\ Is(b, "inode") /\ disk[b].val[1] = i /\ Len(ptrs) = files[i]
          /\ \A n \in DOMAIN ptrs : Is(ptrs[n], "data") /\ disk[ptrs[n]].val = <<i, n>>

\* Without flex groups, or with room for the descriptors of every size that is
\* asked for, as mke2fs reserves it: the descriptor region will keep its size.
Roomy(fs) ==
    /\ fs.ri /\ fs.rsv <= MaxReserved
    /\ \A n \in NewSizes : DescBlocks([size |-> n]) <= DescBlocks(fs) + fs.rsv
Covered == ~Flex(old) \/ Roomy(old)

\* What is on the device in block b if the write that may wait has arrived, or not.
Arrived(yes, b) == IF yes THEN disk[b] ELSE device[b]

(* Wherever resize2fs is cut off or fails (a flush is one step), each file *)
(* can be read through the descriptors that are on the device, whichever   *)
(* of the writes that wait in the cache have arrived: blocks are copied    *)
(* before the inodes point to the copies, and tables before the            *)
(* descriptors do.  Where a write that waited has failed and nobody        *)
(* looked, this cannot be said, nor of flex groups that have to give way.  *)
FilesReadable ==
    (~lost /\ Covered) =>
      \A x, y, z \in BOOLEAN, i \in DOMAIN files :
        LET descs == Arrived(x, 1)
            inode == Arrived(y, InodeBlock(descs.val, i))
        IN  /\ descs.kind = "gdt"
            /\ inode.kind = "inode" /\ inode.val[1] = i /\ Len(inode.val[2]) = files[i]
            /\ \A n \in DOMAIN inode.val[2] :
                 LET block == Arrived(z, inode.val[2][n])
                 IN  block.kind = "data" /\ block.val = <<i, n>>

StructuresApart ==
    /\ \A g \in GroupsOf(old) : Structures(new.gd[g]) \cap Regions(old, new) = {}
    /\ \A g, h \in GroupsOf(old) : g # h => Structures(new.gd[g]) \cap Structures(new.gd[h]) = {}

(* When blocks_to_move is done, nothing of a group that was there lies in  *)
(* a descriptor region or on what another group has: neither what keeps    *)
(* its place nor what is allocated anew, although the tables that are      *)
(* placed are marked in another map than the one that is searched.  With   *)
(* flex groups it may search that one wrongly where the region grows.      *)
SoundPlan == (pc = "plan" /\ Covered) => StructuresApart

(* Phases 1 and 2 write to space that the old file system does not use:    *)
(* "we can abort here without any side effects".                           *)
VirginSpaceOnly ==
    [][(pc \in {"zero", "copy"} /\ <<pc, k>>' # <<pc, k>> /\ pc' # "fix") =>
         \A b \in old.map : Same(disk'[b], disk[b])]_vars

\* The superblock is the one that was there or the new one, not a part of each.
Whole == disk[0].val \in {Super([old EXCEPT !.error = FALSE]), Super(new)}
Pointers == UNION {{disk[InodeBlock(disk[1].val, i)].val[2][n] : n \in 1 .. files[i]} : i \in DOMAIN files}

\* The flush of a moved table and the last write of the superblock failed, and
\* the old descriptors were written over the new ones.
Overwritten == pc = "closed" /\ faults > 1

(* A superblock without the error mark heads a consistent file system: the *)
(* bitmaps hold the structures and the files' blocks and nothing else, no  *)
(* block has two uses, tables are complete, backups and the resize inode   *)
(* and the journal's backup agree, and nothing of it waits in the cache;   *)
(* and the mark goes in the end.  Where writing the first mark failed this *)
(* holds of the finished file system only, and it says nothing of a        *)
(* superblock written in part, of what closing old_fs leaves after two     *)
(* faults, nor of waiting writes that fail when nobody looks.              *)
CleanIsConsistent ==
  /\ (pc = "done" /\ faults = 0) => ~disk[0].val.error
  /\ (~disk[0].val.error /\ ~lost /\ Whole /\ (pc = "done" \/ (~oldDirty /\ ~Overwritten))) =>
      LET sb == disk[0].val
          gd == disk[1].val
          all == DOMAIN gd
          super == UNION {SuperAndBgd(sb, g) : g \in all}
          meta == super \cup UNION {Structures(gd[g]) : g \in all}
      IN  /\ all = GroupsOf(sb) /\ Readable(gd) /\ Waiting = {}
          /\ Cardinality(meta) = Cardinality(super) + Cardinality(all) * (2 + InodeBlocks)
          /\ Pointers \cap meta = {}
          /\ \A g \in all :
               /\ Is(gd[g].bbm, "map")
               /\ disk[gd[g].bbm].val = (meta \cup Pointers) \cap (FirstBlock(g) .. LastBlock(sb, g))
               /\ Is(gd[g].ibm, "imap")
               /\ \A b \in Table(gd[g]) :
                    Is(b, "zero") \/ (Is(b, "inode") /\ disk[b].val[1] \in DOMAIN files)
               /\ (g > 0 /\ HasSuper(g)) =>
                    Is(FirstBlock(g), "super") /\ disk[FirstBlock(g)].val = sb
               /\ HasSuper(g) =>
                    \A b \in Run(FirstBlock(g) + 1, DescBlocks(sb)) : Is(b, "gdt") /\ disk[b].val = gd
          /\ resizeIno = <<DescBlocks(sb), sb.rsv>> \/ ~new.ri
          /\ sb.jnl = disk[InodeBlock(gd, new.jino)].val[2]
=============================================================================
