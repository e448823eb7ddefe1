------------------------- MODULE ResizeFiles_proofs -------------------------
(***************************************************************************)
(* Proofs that resize_fs keeps the files readable at every moment, through *)
(* the cache and whatever of it has arrived, and that what blocks_to_move  *)
(* plans is sound, for file systems of any size: FilesReadable and         *)
(* SoundPlan of ResizeFs.                                                  *)
(***************************************************************************)
EXTENDS ResizeFs_proofs

\* The descriptor regions of all groups.
AllRegions(fs) == UNION {SuperAndBgd(fs, g) : g \in GroupsOf(fs)}

\* A file system as mke2fs makes it: each part has a place of its own, beside
\* the descriptor regions, and all of it is marked.
Tidy(fs) ==
    /\ \A g \in GroupsOf(fs), p \in Parts : fs.gd[g][p] # Nowhere
    /\ MetaBlocks(fs) \subseteq fs.map
    /\ \A g \in GroupsOf(fs), p \in Parts : Spot(fs.gd[g], p) \cap AllRegions(fs) = {}
    /\ \A g, h \in GroupsOf(fs), p, q \in Parts :
         (g # h \/ p # q) => Spot(fs.gd[g], p) \cap Spot(fs.gd[h], q) = {}

\* Block b of disk d is the block of inode i, whose n blocks hold its data.
Holds(d, b, i, n) ==
    /\ b \in Blocks /\ d[b].kind = "inode" /\ d[b].val[1] = i
    /\ d[b].val[2] \in Seq(Blocks) /\ Len(d[b].val[2]) = n
    /\ \A j \in DOMAIN d[b].val[2] :
         d[d[b].val[2][j]].kind = "data" /\ d[d[b].val[2][j]].val = <<i, j>>

Kept(gd) == \A i \in DOMAIN files : Holds(disk, InodeBlock(gd, i), i, files[i])
Pointed(gd, i) == {disk[InodeBlock(gd, i)].val[2][j] : j \in 1 .. files[i]}

\* The superblock and the descriptors that old_fs is flushed to.
Heads == (0 .. DescBlocks(old)) \cap Blocks

\* At every moment: the files are there by the descriptors on the disk and by
\* the ones old_fs has; they differ in tables only that have moved.
Readiness ==
    /\ 0 .. new.size - 1 \subseteq Blocks /\ 1 \in Blocks
    /\ DOMAIN files \subseteq 1 .. Groups(old.size) * InodeBlocks /\ DOMAIN files # {}
    /\ \A b \in Heads : disk[b].kind \in {"super", "gdt"}
    /\ Is(1, "gdt")
    /\ Kept(disk[1].val) /\ Kept(old.gd)
    /\ \A g \in GroupsOf(old) : disk[1].val[g].it = old.gd[g].it \/ old.gd[g].it = new.gd[g].it

\* The blocks the resize inode gets.
Indirect == IF new.ri THEN Run(1 + DescBlocks(new), new.rsv) ELSE {}

\* Nothing that belonged to the files or to the old metadata gets another use
\* before it has moved.
MovesKnown ==
    /\ (old.map \cap MetaBlocks(new)) \ MetaBlocks(old) \subseteq move
    /\ move \cap MetaBlocks(old) = {}

\* Room for the descriptors is taken from the blocks reserved for them.
RoomTaken == new.ri => new.rsv = 0 \/ DescBlocks(new) + new.rsv <= DescBlocks(old) + old.rsv

Complete == \A g \in GroupsOf(new), p \in Parts : new.gd[g][p] # Nowhere

\* A part that is not where it was lies on no part of the old file system.
Elsewhere ==
    \A h \in GroupsOf(new), p \in Parts :
      \/ h \in GroupsOf(old) /\ new.gd[h][p] = old.gd[h][p]
      \/ \A g \in GroupsOf(old) : Spot(new.gd[h], p) \cap Structures(old.gd[g]) = {}

\* The structures of the groups there were, beside those of the groups there
\* were not, and within a group beside each other.
Beside ==
    /\ \A g \in GroupsOf(old), h \in GroupsOf(new) \ GroupsOf(old), p \in Parts :
         Spot(new.gd[g], p) \cap (SuperAndBgd(new, h) \cup Structures(new.gd[h])) = {}
    /\ \A g \in GroupsOf(old) : Table(new.gd[g]) \cap {new.gd[g].bbm, new.gd[g].ibm} = {}

\* The tables that hold files, in the new layout.
TablesApart ==
    /\ \A g \in GroupsOf(old) : Table(new.gd[g]) \cap (AllRegions(new) \cup Heads) = {}
    /\ \A g \in GroupsOf(old), h \in GroupsOf(new) :
         Table(new.gd[g]) \cap {new.gd[h].bbm, new.gd[h].ibm} = {}
    /\ \A g, h \in GroupsOf(old) : g # h => Table(new.gd[g]) \cap Table(new.gd[h]) = {}
    /\ \A h \in GroupsOf(new) : {new.gd[h].bbm, new.gd[h].ibm} \cap Heads = {}

\* A table is where the new layout has it, or where nothing of it will be.
Quiet(gd) ==
    \A g \in GroupsOf(old) :
      /\ gd[g].it \in Nat \ {Nowhere}
      /\ \/ gd[g].it = new.gd[g].it
         \/ Table(gd[g]) \cap (Indirect \cup UNION {Structures(new.gd[h]) : h \in GroupsOf(new)}) = {}

\* The files' blocks are no metadata of the new file system.
Clear(gd, i) == Pointed(gd, i) \subseteq (0 .. new.size - 1) \ MetaBlocks(new)
Owns(i) == Pointed(old.gd, i) \subseteq old.map \ MetaBlocks(old)

Before == {"start", "adjust", "zero", "plan", "copy", "fix"}
After == {"tables", "flush", "bits", "descs", "super", "stats", "journal", "done"}

MapOK ==
    /\ bmap \in Seq(move \X ((0 .. new.size - 1) \ (old.map \cup MetaBlocks(new))))
    /\ \A m, n \in 1 .. Len(bmap) : m # n => bmap[m][2] # bmap[n][2]
    /\ \A b \in move : \E n \in 1 .. Len(bmap) : bmap[n][1] = b

Copied(n) == disk[bmap[n][2]] = disk[bmap[n][1]]

\* After phase 1: all metadata is reserved, and the new groups are in the space
\* that is new.
Grown ==
    /\ RoomTaken /\ Complete
    /\ IF Groups(new.size) = Groups(old.size) THEN DescBlocks(new) + new.rsv = DescBlocks(old) + old.rsv
                                              ELSE reserve = MetaBlocks(new)
    /\ \A h \in GroupsOf(new) \ GroupsOf(old) :
         Structures(new.gd[h]) \cap old.map = {} /\ SuperAndBgd(new, h) \cap old.map = {}

\* After blocks_to_move.
Planned ==
    /\ MovesKnown /\ RoomTaken /\ Complete /\ Elsewhere /\ Beside
    /\ move # {} => MetaBlocks(new) \subseteq new.map \cup reserve
    /\ \A h \in GroupsOf(new) \ GroupsOf(old) : Structures(new.gd[h]) \cap Heads = {}

\* The tables of which the new places count.
TablesSoFar ==
    \A g \in GroupsOf(old) :
      ((pc = "tables" => g < k) /\ (pc = "flush" => g <= k)) => old.gd[g].it = new.gd[g].it

\* Where the last flush is: the first descriptors are written at once.
Rounds ==
    /\ pc \in {"bits", "descs"} => k \in GroupsOf(new)
    /\ pc = "descs" /\ k > 0 => disk[1].val = new.gd

\* The new layout, from the plan on.
NewPlaces == Complete /\ TablesApart

\* Once the inodes are fixed.
Settled ==
    /\ NewPlaces /\ Quiet(old.gd) /\ Quiet(disk[1].val)
    /\ \A i \in DOMAIN files : Clear(old.gd, i) /\ Clear(disk[1].val, i)

FilePhases ==
    /\ pc \in Before => Tidy(old) /\ \A g \in GroupsOf(old) : disk[1].val[g].it = old.gd[g].it
    /\ pc \in Before \ {"fix"} => \A i \in DOMAIN files : Owns(i)
    /\ pc = "zero" => Grown
    /\ pc = "plan" => Planned
    /\ pc \in {"copy", "fix"} => MovesKnown /\ MapOK /\ NewPlaces /\ Quiet(old.gd)
    /\ pc = "copy" => \A n \in 1 .. Len(bmap) : n < k => Copied(n)
    /\ pc = "fix" => /\ k # 0 /\ \A n \in 1 .. Len(bmap) : Copied(n)
                     /\ \A j \in 1 .. Len(InUse) : IF j < k THEN Clear(old.gd, InUse[j]) ELSE Owns(InUse[j])
    /\ pc \in After => Settled /\ TablesSoFar /\ Rounds

FilesInv == Readiness /\ FilePhases

\* No inode and no block of a file, as gd has them, is in W.
Safe(gd, W) == \A i \in DOMAIN files : InodeBlock(gd, i) \notin W /\ Pointed(gd, i) \cap W = {}

\* By c inode i has its n blocks, of which no write waits: e is the device, of
\* which d is read.
Proper(d, e, c, i, n) ==
    /\ c.kind = "inode" /\ c.val[1] = i /\ c.val[2] \in Seq(Blocks) /\ Len(c.val[2]) = n
    /\ \A j \in DOMAIN c.val[2] :
         d[c.val[2][j]].kind = "data" /\ d[c.val[2][j]].val = <<i, j>> /\ e[c.val[2][j]] = d[c.val[2][j]]

\* It does not matter which writes have arrived.
Alike(d, e, lengths, gd) ==
    \A i \in DOMAIN lengths :
      LET b == InodeBlock(gd, i)
      IN  Proper(d, e, d[b], i, lengths[i]) /\ Proper(d, e, e[b], i, lengths[i])

\* Where the cache has been flushed, and where bitmaps, descriptors and the
\* blocks of the resize inode wait.
Synced == {"start", "adjust", "zero", "plan", "copy", "tables", "stats", "done", "closed"}
Caching == {"bits", "descs", "super", "journal"}

\* What waits is no part of a file, by any descriptors there are.
Afloat ==
    /\ Safe(old.gd, Waiting) /\ Safe(disk[1].val, Waiting)
    /\ \A b \in Heads : device[b].kind \in {"super", "gdt"}

\* Descriptors that go through the cache have arrived after every move.
Small == DescBlocks(old) <= WriteDirectSize => \A g \in GroupsOf(old) : disk[1].val[g].it = old.gd[g].it

\* The device, as long as no write that waited was lost.
DeviceInv ==
    /\ \/ device[1] = disk[1]
       \/ /\ device[1].kind = "gdt"
          /\ \A g \in GroupsOf(old) : device[1].val[g].it = old.gd[g].it /\ disk[1].val[g].it = old.gd[g].it
    /\ Alike(disk, device, files, disk[1].val)
    /\ pc \in Synced => Waiting = {}
    /\ pc = "fix" => Waiting \subseteq {InodeBlock(old.gd, i) : i \in DOMAIN files}
    /\ pc \in After \ {"flush"} => Small
    /\ pc \in Caching => Afloat

(***************************************************************************)
(* Inodes and what they hold.                                              *)
(***************************************************************************)
(* An inode of the first n groups is in the table of one of them.          *)
LEMMA InodeGroup ==
    ASSUME NEW n \in Nat, NEW i \in 1 .. n * InodeBlocks
    PROVE  /\ GroupOfInode(i) \in 0 .. n - 1
           /\ (i - 1) % InodeBlocks \in 0 .. InodeBlocks - 1
           /\ i = GroupOfInode(i) * InodeBlocks + ((i - 1) % InodeBlocks) + 1
<1>1. PICK u, q, r : u = i - 1 /\ q = u \div InodeBlocks /\ r = u % InodeBlocks
  OBVIOUS
<1>2. n * InodeBlocks \in Nat /\ InodeBlocks \in Nat \ {0}
  BY Constants, TimesNat
<1>3. u \in Nat /\ u < n * InodeBlocks
  BY <1>1, <1>2
<1>4. /\ q \in Nat /\ q * InodeBlocks \in Nat /\ q * InodeBlocks <= u /\ r \in 0 .. InodeBlocks - 1
      /\ u = q * InodeBlocks + r
  BY <1>1, <1>2, <1>3, Quotient
<1>5. q < n
  <2> SUFFICES ASSUME n <= q PROVE FALSE
    BY <1>4
  <2>1. CASE n = q
    BY <1>2, <1>3, <1>4, <2>1
  <2>2. CASE n < q
    <3>1. n * InodeBlocks + InodeBlocks <= q * InodeBlocks
      BY <1>2, <1>4, <2>2, TimesLess
    <3> QED
      BY <1>2, <1>3, <1>4, <3>1
  <2> QED
    BY <1>4, <2>1, <2>2
<1>6. i = q * InodeBlocks + r + 1
  BY <1>1, <1>3, <1>4
<1> QED
  BY <1>1, <1>4, <1>5, <1>6 DEF GroupOfInode

LEMMA InodeInTable ==
    ASSUME NEW n \in Nat, NEW i \in 1 .. n * InodeBlocks, NEW gd,
           gd[GroupOfInode(i)].it \in Nat \ {Nowhere}
    PROVE  InodeBlock(gd, i) \in Table(gd[GroupOfInode(i)]) /\ InodeBlock(gd, i) \in Nat
<1>1. PICK r, t : r = (i - 1) % InodeBlocks /\ t = gd[GroupOfInode(i)].it
  OBVIOUS
<1>2. r \in 0 .. InodeBlocks - 1 /\ t \in Nat /\ t # Nowhere /\ InodeBlocks \in Nat
  BY <1>1, InodeGroup, Constants
<1>3. t + r \in Run(t, InodeBlocks) /\ t + r \in Nat
  BY <1>2 DEF Run
<1> QED
  BY <1>1, <1>2, <1>3 DEF InodeBlock, Table

(* Different inodes are in different blocks, if tables are apart.          *)
LEMMA SameOffset ==
    ASSUME NEW n \in Nat, NEW i \in 1 .. n * InodeBlocks, NEW j \in 1 .. n * InodeBlocks, NEW gd,
           GroupOfInode(i) = GroupOfInode(j), gd[GroupOfInode(i)].it \in Nat,
           InodeBlock(gd, i) = InodeBlock(gd, j)
    PROVE  i = j
<1>1. PICK r, s, t : r = (i - 1) % InodeBlocks /\ s = (j - 1) % InodeBlocks /\ t = gd[GroupOfInode(i)].it
  OBVIOUS
<1>2. r \in Nat /\ s \in Nat /\ t \in Nat /\ t + r = t + s
  BY <1>1, InodeGroup, Constants DEF InodeBlock
<1>3. PICK q : q = GroupOfInode(i) * InodeBlocks
  OBVIOUS
<1>4. i = q + r + 1 /\ j = q + s + 1
  BY <1>1, <1>3, InodeGroup
<1> QED
  BY <1>2, <1>4

LEMMA SameInodeBlock ==
    ASSUME NEW gd, NEW gd2, NEW i, gd[GroupOfInode(i)].it = gd2[GroupOfInode(i)].it
    PROVE  InodeBlock(gd, i) = InodeBlock(gd2, i)
BY DEF InodeBlock

(* A file is unharmed if neither its inode nor its blocks are written.     *)
LEMMA HoldsKept ==
    ASSUME NEW d, NEW e, NEW b, NEW i, NEW n, Holds(d, b, i, n),
           NEW W, \A x \in Blocks \ W : e[x] = d[x], b \notin W,
           {d[b].val[2][j] : j \in 1 .. n} \cap W = {}
    PROVE  Holds(e, b, i, n) /\ e[b] = d[b]
<1>1. b \in Blocks /\ e[b] = d[b]
  BY DEF Holds
<1>2. PICK s : s = d[b].val[2]
  OBVIOUS
<1>3. s \in Seq(Blocks) /\ Len(s) = n /\ DOMAIN s = 1 .. n
  BY <1>2 DEF Holds
<1>4. \A j \in DOMAIN s : s[j] \in Blocks /\ s[j] \notin W
  BY <1>2, <1>3
<1>5. \A j \in DOMAIN s : e[s[j]] = d[s[j]]
  BY <1>4
<1>6. \A j \in DOMAIN s : e[s[j]].kind = "data" /\ e[s[j]].val = <<i, j>>
  <2>1. \A j \in DOMAIN s : d[s[j]].kind = "data" /\ d[s[j]].val = <<i, j>>
    BY <1>2 DEF Holds
  <2> QED
    BY <1>5, <2>1
<1>7. e[b].kind = "inode" /\ e[b].val[1] = i /\ e[b].val[2] = s
  BY <1>1, <1>2 DEF Holds
<1> QED
  BY <1>1, <1>3, <1>6, <1>7 DEF Holds

(* Neither is among blocks of another kind.                                *)
LEMMA HoldsElsewhere ==
    ASSUME NEW d, NEW b, NEW i, NEW n, Holds(d, b, i, n),
           NEW W, \A x \in W : d[x].kind \notin {"inode", "data"}
    PROVE  b \notin W /\ {d[b].val[2][j] : j \in 1 .. n} \cap W = {}
<1>1. PICK s : s = d[b].val[2]
  OBVIOUS
<1>2. s \in Seq(Blocks) /\ Len(s) = n /\ DOMAIN s = 1 .. n
  BY <1>1 DEF Holds
<1>3. \A j \in 1 .. n : d[s[j]].kind = "data"
  BY <1>1, <1>2 DEF Holds
<1>4. b \notin W
  BY DEF Holds
<1> QED
  BY <1>1, <1>3, <1>4

LEMMA PointedIn ==
    ASSUME NEW d, NEW b, NEW i, NEW n, Holds(d, b, i, n)
    PROVE  /\ d[b].val[2] \in Seq(Blocks) /\ DOMAIN d[b].val[2] = 1 .. n /\ Len(d[b].val[2]) = n
           /\ \A j \in 1 .. n : d[b].val[2][j] \in Blocks
<1>1. PICK s : s = d[b].val[2]
  OBVIOUS
<1>2. s \in Seq(Blocks) /\ Len(s) = n
  BY <1>1 DEF Holds
<1> QED
  BY <1>1, <1>2

(***************************************************************************)
(* Handles whose layout stays.                                             *)
(***************************************************************************)
Stays(fs, next) ==
    next.size = fs.size /\ next.rsv = fs.rsv /\ next.ri = fs.ri /\ next.gd = fs.gd

LEMMA StaysSame ==
    ASSUME NEW fs, NEW next, next.size = fs.size, next.rsv = fs.rsv, next.gd = fs.gd
    PROVE  /\ GroupsOf(next) = GroupsOf(fs) /\ DescBlocks(next) = DescBlocks(fs)
           /\ \A g : SuperAndBgd(next, g) = SuperAndBgd(fs, g)
           /\ MetaBlocks(next) = MetaBlocks(fs) /\ AllRegions(next) = AllRegions(fs)
<1>1. GroupsOf(next) = GroupsOf(fs)
  BY DEF GroupsOf
<1>2. DescBlocks(next) = DescBlocks(fs)
  BY DEF DescBlocks
<1>3. \A g : SuperAndBgd(next, g) = SuperAndBgd(fs, g)
  BY <1>2 DEF SuperAndBgd
<1>4. MetaBlocks(next) = MetaBlocks(fs)
  BY <1>1, <1>3 DEF MetaBlocks
<1>5. AllRegions(next) = AllRegions(fs)
  BY <1>1, <1>3 DEF AllRegions
<1> QED
  BY <1>1, <1>2, <1>3, <1>4, <1>5

LEMMA SameHeads ==
    ASSUME old'.size = old.size
    PROVE  GroupsOf(old)' = GroupsOf(old) /\ DescBlocks(old)' = DescBlocks(old) /\ Heads' = Heads
<1>1. GroupsOf(old') = GroupsOf(old) /\ DescBlocks(old') = DescBlocks(old)
  BY DEF GroupsOf, DescBlocks
<1> QED
  BY <1>1 DEF Heads

LEMMA NewPlacesStay ==
    ASSUME NewPlaces, Stays(new, new'), old'.size = old.size
    PROVE  NewPlaces'
<1>1. /\ GroupsOf(new') = GroupsOf(new) /\ AllRegions(new') = AllRegions(new) /\ new'.gd = new.gd
  BY StaysSame DEF Stays
<1>2. GroupsOf(old') = GroupsOf(old) /\ Heads' = Heads
  BY SameHeads
<1>3. Complete'
  BY <1>1 DEF NewPlaces, Complete
<1>4. TablesApart'
  BY <1>1, <1>2 DEF NewPlaces, TablesApart
<1> QED
  BY <1>3, <1>4 DEF NewPlaces

LEMMA IndirectStays == Stays(new, new') => Indirect' = Indirect
<1> SUFFICES ASSUME Stays(new, new') PROVE Indirect' = Indirect
  OBVIOUS
<1>1. DescBlocks(new') = DescBlocks(new) /\ new'.ri = new.ri /\ new'.rsv = new.rsv
  BY StaysSame DEF Stays
<1> QED
  BY <1>1 DEF Indirect

\* Quiet of the table of one group.
QuietTable(t, g) ==
    /\ t \in Nat \ {Nowhere}
    /\ \/ t = new.gd[g].it
       \/ Run(t, InodeBlocks) \cap (Indirect \cup UNION {Structures(new.gd[h]) : h \in GroupsOf(new)}) = {}

LEMMA QuietIs == ASSUME NEW gd PROVE Quiet(gd) <=> \A g \in GroupsOf(old) : QuietTable(gd[g].it, g)
BY DEF Quiet, QuietTable, Table

LEMMA QuietTableStays ==
    ASSUME NEW t, NEW g, QuietTable(t, g), Stays(new, new')
    PROVE  QuietTable(t, g)'
<1>1. GroupsOf(new') = GroupsOf(new) /\ new'.gd = new.gd /\ Indirect' = Indirect
  BY StaysSame, IndirectStays DEF Stays
<1> QED
  BY <1>1 DEF QuietTable

(***************************************************************************)
(* Steps that write blocks no file is in.                                  *)
(***************************************************************************)
\* Only blocks of W are written.
Writes(W) == \A x \in Blocks \ W : disk'[x] = disk[x]

\* By gd as it is now, each inode keeps its contents.
Unharmed(gd) ==
    \A i \in DOMAIN files : /\ Holds(disk', InodeBlock(gd, i), i, files[i])
                            /\ disk'[InodeBlock(gd, i)] = disk[InodeBlock(gd, i)]

LEMMA SafeWrite ==
    ASSUME NEW gd, Kept(gd), NEW W, Writes(W), Safe(gd, W)
    PROVE  Unharmed(gd)
<1> SUFFICES ASSUME NEW i \in DOMAIN files
             PROVE  /\ Holds(disk', InodeBlock(gd, i), i, files[i])
                    /\ disk'[InodeBlock(gd, i)] = disk[InodeBlock(gd, i)]
  BY DEF Unharmed
<1>1. Holds(disk, InodeBlock(gd, i), i, files[i])
  BY DEF Kept
<1>2. InodeBlock(gd, i) \notin W /\ {disk[InodeBlock(gd, i)].val[2][j] : j \in 1 .. files[i]} \cap W = {}
  BY DEF Safe, Pointed
<1> QED
  BY <1>1, <1>2, HoldsKept DEF Writes

LEMMA HeadsSafe ==
    ASSUME Readiness, NEW gd, Kept(gd)
    PROVE  Safe(gd, Heads)
<1> SUFFICES ASSUME NEW i \in DOMAIN files
             PROVE  InodeBlock(gd, i) \notin Heads /\ Pointed(gd, i) \cap Heads = {}
  BY DEF Safe
<1>1. \A x \in Heads : disk[x].kind \notin {"inode", "data"}
  BY DEF Readiness
<1>2. Holds(disk, InodeBlock(gd, i), i, files[i])
  BY DEF Kept
<1> QED
  BY <1>1, <1>2, HoldsElsewhere DEF Pointed

(* What gd has of the files after a step, where the new gd has the same    *)
(* tables.                                                                 *)
LEMMA UnharmedKept ==
    ASSUME NEW gd, Unharmed(gd), files' = files, NEW gd2,
           \A i \in DOMAIN files : gd2[GroupOfInode(i)].it = gd[GroupOfInode(i)].it
    PROVE  /\ \A i \in DOMAIN files' : Holds(disk', InodeBlock(gd2, i), i, files'[i])
           /\ \A i \in DOMAIN files : {disk'[InodeBlock(gd2, i)].val[2][j] : j \in 1 .. files'[i]} = Pointed(gd, i)
<1>1. \A i \in DOMAIN files : InodeBlock(gd2, i) = InodeBlock(gd, i)
  BY SameInodeBlock
<1> QED
  BY <1>1 DEF Unharmed, Pointed

LEMMA InodeGroups ==
    ASSUME Readiness, ResizeInv, NEW i \in DOMAIN files
    PROVE  GroupOfInode(i) \in GroupsOf(old) /\ i \in 1 .. Groups(old.size) * InodeBlocks /\ Groups(old.size) \in Nat
<1>1. old.size \in Nat \ {0}
  BY DEF ResizeInv, Layout, FsOK
<1>2. Groups(old.size) \in Nat
  BY <1>1, GroupsNat
<1>3. i \in 1 .. Groups(old.size) * InodeBlocks
  BY DEF Readiness
<1> QED
  BY <1>2, <1>3, InodeGroup DEF GroupsOf

\* A step that keeps the tables old_fs knows, and either keeps the descriptors
\* on the disk or writes those tables into them.
HarmlessWrite(W) ==
    /\ Writes(W) /\ Safe(old.gd, W)
    /\ \A b \in Heads \cap W : disk'[b].kind \in {"super", "gdt"}
    /\ \/ disk'[1] = disk[1] /\ Safe(disk[1].val, W)
       \/ disk'[1].kind = "gdt" /\ \A g \in GroupsOf(old) : disk'[1].val[g].it = old.gd[g].it

LEMMA HarmlessReadiness ==
    ASSUME ResizeInv, Readiness, NEW W, HarmlessWrite(W), files' = files,
           old'.size = old.size, old'.gd = old.gd, 0 .. new'.size - 1 \subseteq Blocks,
           new' = old' \/ new'.gd = new.gd
    PROVE  /\ Readiness'
           /\ \A i \in DOMAIN files : Pointed(old.gd, i)' = Pointed(old.gd, i)
           /\ \/ /\ disk'[1] = disk[1]
                 /\ \A i \in DOMAIN files : Pointed(disk[1].val, i)' = Pointed(disk[1].val, i)
              \/ /\ \A g \in GroupsOf(old) : disk'[1].val[g].it = old.gd[g].it
                 /\ \A i \in DOMAIN files : Pointed(disk[1].val, i)' = Pointed(old.gd, i)
<1>1. GroupsOf(old') = GroupsOf(old) /\ Heads' = Heads
  BY SameHeads
<1>2. Kept(old.gd) /\ Kept(disk[1].val)
  BY DEF Readiness
<1>3. Unharmed(old.gd)
  BY <1>2, SafeWrite DEF HarmlessWrite
<1>4. /\ \A i \in DOMAIN files' : Holds(disk', InodeBlock(old'.gd, i), i, files'[i])
      /\ \A i \in DOMAIN files : {disk'[InodeBlock(old'.gd, i)].val[2][j] : j \in 1 .. files'[i]} = Pointed(old.gd, i)
  BY <1>3, UnharmedKept
<1>5. \A i \in DOMAIN files : GroupOfInode(i) \in GroupsOf(old)
  BY InodeGroups
<1> DEFINE dg == disk'[1].val
<1>6. CASE disk'[1] = disk[1] /\ Safe(disk[1].val, W)
  <2>1. Unharmed(disk[1].val)
    BY <1>2, <1>6, SafeWrite DEF HarmlessWrite
  <2>2. /\ \A i \in DOMAIN files' : Holds(disk', InodeBlock(dg, i), i, files'[i])
        /\ \A i \in DOMAIN files : {disk'[InodeBlock(dg, i)].val[2][j] : j \in 1 .. files'[i]} = Pointed(disk[1].val, i)
    BY <1>6, <2>1, UnharmedKept
  <2>3. Readiness'
    <3>1. \A b \in Heads : disk'[b].kind \in {"super", "gdt"}
      BY DEF Readiness, HarmlessWrite, Writes, Heads
    <3>2. \A g \in GroupsOf(old) : disk'[1].val[g].it = old'.gd[g].it \/ old'.gd[g].it = new'.gd[g].it
      BY <1>6 DEF Readiness
    <3> QED
      BY <1>1, <1>4, <1>6, <2>2, <3>1, <3>2 DEF Readiness, Kept, Is
  <2> QED
    BY <1>4, <1>6, <2>2, <2>3 DEF Pointed
<1>7. CASE disk'[1].kind = "gdt" /\ \A g \in GroupsOf(old) : disk'[1].val[g].it = old.gd[g].it
  <2>2. /\ \A i \in DOMAIN files' : Holds(disk', InodeBlock(dg, i), i, files'[i])
        /\ \A i \in DOMAIN files : {disk'[InodeBlock(dg, i)].val[2][j] : j \in 1 .. files'[i]} = Pointed(old.gd, i)
    BY <1>3, <1>5, <1>7, UnharmedKept
  <2>3. Readiness'
    <3>1. \A b \in Heads : disk'[b].kind \in {"super", "gdt"}
      BY DEF Readiness, HarmlessWrite, Writes, Heads
    <3>2. \A g \in GroupsOf(old) : disk'[1].val[g].it = old'.gd[g].it \/ old'.gd[g].it = new'.gd[g].it
      BY <1>7
    <3> QED
      BY <1>1, <1>4, <1>7, <2>2, <3>1, <3>2 DEF Readiness, Kept, Is
  <2> QED
    BY <1>4, <1>7, <2>2, <2>3 DEF Pointed
<1> QED
  BY <1>6, <1>7 DEF HarmlessWrite

(* The same once the inodes are fixed.                                     *)
LEMMA SettledStep ==
    ASSUME ResizeInv, Readiness, Settled, NEW W, HarmlessWrite(W), files' = files,
           old'.size = old.size, old'.gd = old.gd, Stays(new, new')
    PROVE  Readiness' /\ Settled'
<1>1. GroupsOf(old') = GroupsOf(old)
  BY SameHeads
<1>2. /\ new'.gd = new.gd /\ new'.size = new.size /\ MetaBlocks(new') = MetaBlocks(new)
      /\ 0 .. new'.size - 1 \subseteq Blocks
  BY StaysSame DEF Stays, Readiness
<1>3. /\ Readiness'
      /\ \A i \in DOMAIN files : Pointed(old.gd, i)' = Pointed(old.gd, i)
      /\ \/ /\ disk'[1] = disk[1]
            /\ \A i \in DOMAIN files : Pointed(disk[1].val, i)' = Pointed(disk[1].val, i)
         \/ /\ \A g \in GroupsOf(old) : disk'[1].val[g].it = old.gd[g].it
            /\ \A i \in DOMAIN files : Pointed(disk[1].val, i)' = Pointed(old.gd, i)
  BY <1>2, HarmlessReadiness
<1>4. NewPlaces'
  BY NewPlacesStay DEF Settled
<1>5. \A g \in GroupsOf(old) : QuietTable(old.gd[g].it, g) /\ QuietTable(disk[1].val[g].it, g)
  BY QuietIs DEF Settled
<1>6. ASSUME NEW g \in GroupsOf(old) PROVE QuietTable(old.gd[g].it, g)' /\ QuietTable(disk[1].val[g].it, g)'
  <2>1. PICK s, t, u : s = old.gd[g].it /\ t = disk[1].val[g].it /\ u = disk'[1].val[g].it
    OBVIOUS
  <2>2. QuietTable(s, g) /\ QuietTable(t, g)
    BY <1>5, <2>1
  <2>3. QuietTable(s, g)' /\ QuietTable(t, g)'
    BY <2>2, QuietTableStays
  <2>4. u = s \/ u = t
    BY <1>3, <2>1
  <2> QED
    BY <2>1, <2>3, <2>4 DEF QuietTable
<1>7. Quiet(old.gd)' /\ Quiet(disk[1].val)'
  BY <1>1, <1>6 DEF Quiet, QuietTable, Table
<1>8. \A i \in DOMAIN files' : Clear(old.gd, i)' /\ Clear(disk[1].val, i)'
  BY <1>2, <1>3 DEF Settled, Clear
<1> QED
  BY <1>3, <1>4, <1>7, <1>8 DEF Settled

LEMMA DescBlocksPositive ==
    ASSUME NEW fs, fs.size \in Nat \ {0}
    PROVE  DescBlocks(fs) \in Nat \ {0}
<1>1. PICK n, u, q : n = Groups(fs.size) /\ u = n + DescPerBlock - 1 /\ q = u \div DescPerBlock
  OBVIOUS
<1>2. n \in Nat \ {0} /\ DescPerBlock \in Nat \ {0}
  BY <1>1, GroupsNat, Constants
<1>3. u \in Nat /\ u >= DescPerBlock
  BY <1>1, <1>2
<1>4. q \in Nat /\ u < q * DescPerBlock + DescPerBlock
  BY <1>1, <1>2, <1>3, Quotient
<1>5. q # 0
  <2> SUFFICES ASSUME q = 0 PROVE FALSE
    OBVIOUS
  <2>1. q * DescPerBlock = 0
    BY <1>2
  <2> QED
    BY <1>2, <1>3, <1>4, <2>1
<1> QED
  BY <1>1, <1>4, <1>5 DEF DescBlocks

LEMMA BlocksInt == Blocks \subseteq Int /\ (1 \in Blocks => 0 \in Blocks)
<1>1. PICK m : m = Max(NewSizes)
  OBVIOUS
<1>2. m \in Nat
  <2>1. PICK n \in NewSizes : TRUE
    BY ResizeFsAssumption
  <2> QED
    BY <1>1, BlocksBelow
<1> QED
  BY <1>1, <1>2 DEF Blocks

(* ext2fs_flush(old_fs) writes nothing but the heads.                      *)
LEMMA FlushHarmless ==
    ASSUME ResizeInv, Readiness, NEW fs, FlushOld(fs), fs.gd = old.gd, fs.size = old.size
    PROVE  HarmlessWrite(Heads)
<1> DEFINE descs == [b \in Blocks |-> IF b \in Run(1, DescBlocks(fs)) THEN Content("gdt", fs.gd) ELSE disk[b]]
<1>1. DescBlocks(fs) = DescBlocks(old)
  BY DEF DescBlocks
<1>2. PICK n : n = DescBlocks(old)
  OBVIOUS
<1>3. n \in Nat \ {0}
  BY <1>2, DescBlocksPositive DEF ResizeInv, Layout, FsOK
<1>4. 1 \in Blocks /\ 0 \in Blocks /\ Blocks \subseteq Int
  BY BlocksInt DEF Readiness
<1>5. Heads = (0 .. n) \cap Blocks /\ Run(1, DescBlocks(fs)) = 1 .. n
  BY <1>1, <1>2, <1>3 DEF Heads, Run
<1>6. Kept(old.gd) /\ Kept(disk[1].val)
  BY DEF Readiness
<1>7. Safe(old.gd, Heads) /\ Safe(disk[1].val, Heads)
  BY <1>6, HeadsSafe
<1>8. CASE disk' = disk
  <2>1. Writes(Heads) /\ \A b \in Heads : disk'[b].kind \in {"super", "gdt"}
    BY <1>8 DEF Writes, Readiness
  <2> QED
    BY <1>7, <1>8, <2>1 DEF HarmlessWrite
<1>9. ASSUME NEW m \in 0 .. 4, disk' = [descs EXCEPT ![0] = Stored(fs, m)] PROVE HarmlessWrite(Heads)
  <2>1. PICK c : c = Stored(fs, m)
    OBVIOUS
  <2>2. c.kind = "super"
    BY <2>1 DEF Stored, Content
  <2>3. \A b \in Blocks : disk'[b] = IF b = 0 THEN c ELSE IF b \in 1 .. n THEN Content("gdt", fs.gd) ELSE disk[b]
    BY <1>5, <1>9, <2>1
  <2>4. Writes(Heads)
    <3>1. \A b \in Blocks \ Heads : b # 0 /\ b \notin 1 .. n
      BY <1>3, <1>4, <1>5
    <3> QED
      BY <2>3, <3>1 DEF Writes
  <2>5. \A b \in Heads : disk'[b].kind \in {"super", "gdt"}
    <3>1. \A b \in Heads : b = 0 \/ b \in 1 .. n
      BY <1>3, <1>5
    <3>2. Content("gdt", fs.gd).kind = "gdt"
      BY DEF Content
    <3> QED
      BY <1>5, <2>2, <2>3, <3>1, <3>2
  <2>6. disk'[1].kind = "gdt" /\ disk'[1].val = old.gd
    <3>1. disk'[1] = Content("gdt", fs.gd)
      BY <1>3, <1>4, <2>3
    <3> QED
      BY <3>1 DEF Content
  <2> QED
    BY <1>7, <2>4, <2>5, <2>6 DEF HarmlessWrite
<1>10. \/ disk' = disk
       \/ \E m \in 0 .. 4 : disk' = [descs EXCEPT ![0] = Stored(fs, m)]
  <2>1. 0 .. 3 \subseteq 0 .. 4 /\ 4 \in 0 .. 4
    OBVIOUS
  <2> QED
    BY <2>1 DEF FlushOld
<1> QED
  BY <1>8, <1>9, <1>10

LEMMA FailedPhases == ASSUME pc' \in {"failed", "closed"} PROVE FilePhases'
BY DEF FilePhases, Before, After

LEMMA AfterPhases ==
    ASSUME pc' \in After, Settled', TablesSoFar', Rounds'
    PROVE  FilePhases'
BY DEF FilePhases, Before, After

LEMMA AfterFacts ==
    ASSUME FilesInv, pc \in After
    PROVE  Readiness /\ Settled /\ TablesSoFar /\ Rounds
BY DEF FilesInv, FilePhases

LEMMA NoWrite == ASSUME UNCHANGED disk PROVE HarmlessWrite({})
BY DEF HarmlessWrite, Writes, Safe

\* The tables old_fs knows are those of the new layout.
Current == \A g \in GroupsOf(old) : old.gd[g].it = new.gd[g].it

LEMMA CurrentSoFar ==
    ASSUME Current, old'.size = old.size, old'.gd = old.gd, new'.gd = new.gd
    PROVE  TablesSoFar'
<1>1. GroupsOf(old') = GroupsOf(old)
  BY SameHeads
<1> QED
  BY <1>1 DEF Current, TablesSoFar

(***************************************************************************)
(* The end of phase 4 and the last flush, action by action.                *)
(***************************************************************************)
LEMMA FlushLayout ==
    ASSUME ResizeInv, NEW fs, FlushOld(fs), FsOK(fs, new.size)
    PROVE  old'.gd = fs.gd /\ old'.size = fs.size /\ old'.map = fs.map /\ old'.rsv = fs.rsv
<1>1. SameLayout(fs, old')
  BY FlushOldOK DEF ResizeInv
<1> QED
  BY <1>1, LayoutOK

LEMMA CloseOldFiles == ResizeInv /\ FilesInv /\ CloseOld => FilesInv'
<1> SUFFICES ASSUME ResizeInv, FilesInv, CloseOld PROVE FilesInv'
  OBVIOUS
<1>1. pc' = "closed" /\ new' = new /\ files' = files
  BY DEF CloseOld, Goto, given
<1>2. Readiness
  BY DEF FilesInv
<1>3. 0 .. new'.size - 1 \subseteq Blocks
  BY <1>1, <1>2 DEF Readiness
<1>4. CASE oldDirty
  <2>1. FlushOld(old)
    BY <1>4 DEF CloseOld
  <2>2. old'.gd = old.gd /\ old'.size = old.size
    BY <2>1, FlushLayout DEF ResizeInv, Layout
  <2>3. HarmlessWrite(Heads)
    BY <1>2, <2>1, FlushHarmless
  <2>4. Readiness'
    BY <1>1, <1>2, <1>3, <2>2, <2>3, HarmlessReadiness
  <2> QED
    BY <1>1, <2>4, FailedPhases DEF FilesInv
<1>5. CASE ~oldDirty
  <2>1. UNCHANGED <<disk, old>>
    BY <1>5 DEF CloseOld
  <2>2. Readiness'
    BY <1>1, <1>2, <1>3, <2>1, NoWrite, HarmlessReadiness
  <2> QED
    BY <1>1, <2>2, FailedPhases DEF FilesInv
<1> QED
  BY <1>4, <1>5

LEMMA FlushTableFiles == ResizeInv /\ FilesInv /\ FlushTable => FilesInv'
<1> SUFFICES ASSUME ResizeInv, FilesInv, FlushTable PROVE FilesInv'
  OBVIOUS
<1>1. pc = "flush" /\ pc' = "tables" /\ k' = k + 1 /\ new' = new /\ files' = files /\ FlushOld(old) /\ k \in Nat
  BY DEF FlushTable, Goto, given, ResizeInv, Control
<1>2. Readiness /\ Settled /\ TablesSoFar
  BY <1>1, AfterFacts DEF After
<1>3. old'.gd = old.gd /\ old'.size = old.size
  BY <1>1, FlushLayout DEF ResizeInv, Layout
<1>4. HarmlessWrite(Heads)
  BY <1>1, <1>2, FlushHarmless
<1>5. Readiness' /\ Settled'
  BY <1>1, <1>2, <1>3, <1>4, SettledStep DEF Stays
<1>6. TablesSoFar'
  <2>1. GroupsOf(old') = GroupsOf(old)
    BY <1>3, SameHeads
  <2>2. \A g \in GroupsOf(old) : g < k + 1 => g <= k
    BY <1>1 DEF GroupsOf
  <2> QED
    BY <1>1, <1>2, <1>3, <2>1, <2>2 DEF TablesSoFar
<1> QED
  BY <1>1, <1>5, <1>6, AfterPhases DEF FilesInv, After, Rounds

LEMMA GroupZero ==
    ASSUME NEW fs, fs.size \in Nat \ {0}
    PROVE  0 \in GroupsOf(fs) /\ HasSuper(0) /\ FirstBlock(0) = 0
<1>1. Groups(fs.size) \in Nat \ {0}
  BY GroupsNat
<1>2. FirstBlock(0) = 0
  BY Constants DEF FirstBlock
<1> QED
  BY <1>1, <1>2 DEF GroupsOf, HasSuper

LEMMA EndTablesFiles == ResizeInv /\ FilesInv /\ EndTables => FilesInv'
<1> SUFFICES ASSUME ResizeInv, FilesInv, EndTables PROVE FilesInv'
  OBVIOUS
<1>1. /\ pc = "tables" /\ k = Groups(old.size) /\ pc' = "bits" /\ k' = 0
      /\ new' = [new EXCEPT !.map = @ \cup MetaBlocks(new)]
      /\ UNCHANGED <<disk, old, files>>
  BY DEF EndTables, Goto, given
<1>2. Readiness /\ Settled /\ TablesSoFar
  BY <1>1, AfterFacts DEF After
<1>3. Stays(new, new') /\ new'.size \in Nat \ {0}
  BY <1>1 DEF ResizeInv, Layout, FsOK, FsFields, Stays
<1>4. Readiness' /\ Settled'
  BY <1>1, <1>2, <1>3, NoWrite, SettledStep
<1>5. Current
  <2>1. Groups(old.size) \in Nat
    BY GroupsNat DEF ResizeInv, Layout, FsOK
  <2>2. \A g \in GroupsOf(old) : g < k
    BY <1>1, <2>1 DEF GroupsOf
  <2> QED
    BY <1>1, <1>2, <2>2 DEF TablesSoFar, Current
<1>6. TablesSoFar'
  BY <1>1, <1>3, <1>5, CurrentSoFar DEF Stays
<1>7. Rounds'
  BY <1>1, <1>3, GroupZero DEF Rounds
<1> QED
  BY <1>1, <1>4, <1>6, <1>7, AfterPhases DEF FilesInv, After

\* gd has the files in places that the new layout leaves alone.
Resting(gd) == Kept(gd) /\ Quiet(gd) /\ \A i \in DOMAIN files : Clear(gd, i)

LEMMA SettledResting ==
    ASSUME Readiness, Settled
    PROVE  Resting(old.gd) /\ Resting(disk[1].val)
BY DEF Readiness, Settled, Resting

\* The table of an inode in use, and what Quiet says of it.
LEMMA RestingTable ==
    ASSUME ResizeInv, Readiness, NEW gd, Resting(gd), NEW i \in DOMAIN files
    PROVE  \E g \in GroupsOf(old), t \in Nat \ {Nowhere} :
             /\ QuietTable(t, g) /\ gd[g].it = t /\ InodeBlock(gd, i) \in Run(t, InodeBlocks) /\ g \in GroupsOf(new)
<1>1. PICK g, t : g = GroupOfInode(i) /\ t = gd[g].it
  OBVIOUS
<1>2. g \in GroupsOf(old) /\ i \in 1 .. Groups(old.size) * InodeBlocks /\ Groups(old.size) \in Nat
  BY <1>1, InodeGroups
<1>3. QuietTable(t, g)
  BY <1>1, <1>2, QuietIs DEF Resting
<1>4. t \in Nat \ {Nowhere}
  BY <1>3 DEF QuietTable
<1>5. InodeBlock(gd, i) \in Table(gd[g])
  BY <1>1, <1>2, <1>4, InodeInTable
<1>6. InodeBlock(gd, i) \in Run(t, InodeBlocks)
  BY <1>1, <1>4, <1>5 DEF Table
<1>7. g \in GroupsOf(new)
  BY <1>2 DEF ResizeInv, Layout
<1> QED
  BY <1>1, <1>2, <1>3, <1>4, <1>6, <1>7

LEMMA NewTableIs ==
    ASSUME ResizeInv, Complete, NEW g \in GroupsOf(new)
    PROVE  /\ Table(new.gd[g]) = Run(new.gd[g].it, InodeBlocks)
           /\ {new.gd[g].bbm, new.gd[g].ibm} \cup Table(new.gd[g]) = Structures(new.gd[g])
           /\ Structures(new.gd[g]) \subseteq 1 .. new.size - 1
           /\ Structures(new.gd[g]) \subseteq MetaBlocks(new)
<1>1. new.gd[g].bbm # Nowhere /\ new.gd[g].ibm # Nowhere /\ new.gd[g].it # Nowhere
  BY DEF Complete, Parts
<1>2. Structures(new.gd[g]) \subseteq 1 .. new.size - 1
  BY StructuresInside DEF ResizeInv, Layout, FsOK
<1> QED
  BY <1>1, <1>2 DEF Table, Structures, MetaBlocks

LEMMA BitmapsSafe ==
    ASSUME ResizeInv, Readiness, NewPlaces, NEW gd, Resting(gd), NEW h \in GroupsOf(new),
           NEW W, W \subseteq {new.gd[h].bbm, new.gd[h].ibm}
    PROVE  Safe(gd, W)
<1> SUFFICES ASSUME NEW i \in DOMAIN files
             PROVE  InodeBlock(gd, i) \notin W /\ Pointed(gd, i) \cap W = {}
  BY DEF Safe
<1>1. W \subseteq Structures(new.gd[h]) /\ Structures(new.gd[h]) \subseteq MetaBlocks(new)
  BY NewTableIs DEF NewPlaces
<1>2. Pointed(gd, i) \cap W = {}
  BY <1>1 DEF Resting, Clear
<1>3. PICK g \in GroupsOf(old), t \in Nat \ {Nowhere} :
        QuietTable(t, g) /\ gd[g].it = t /\ InodeBlock(gd, i) \in Run(t, InodeBlocks) /\ g \in GroupsOf(new)
  BY RestingTable
<1>4. CASE t = new.gd[g].it
  <2>1. InodeBlock(gd, i) \in Table(new.gd[g])
    BY <1>3, <1>4, NewTableIs DEF NewPlaces
  <2>2. Table(new.gd[g]) \cap {new.gd[h].bbm, new.gd[h].ibm} = {}
    BY DEF NewPlaces, TablesApart
  <2> QED
    BY <1>2, <2>1, <2>2
<1>5. CASE t # new.gd[g].it
  <2>1. Run(t, InodeBlocks) \cap UNION {Structures(new.gd[x]) : x \in GroupsOf(new)} = {}
    BY <1>3, <1>5 DEF QuietTable
  <2>2. Run(t, InodeBlocks) \cap Structures(new.gd[h]) = {}
    BY <2>1
  <2> QED
    BY <1>1, <1>2, <1>3, <2>2
<1> QED
  BY <1>4, <1>5

LEMMA HeadBlocks ==
    ASSUME ResizeInv, Readiness
    PROVE  0 \in Heads /\ 1 \in Heads /\ Heads \subseteq Blocks
<1>1. DescBlocks(old) \in Nat \ {0}
  BY DescBlocksPositive DEF ResizeInv, Layout, FsOK
<1> QED
  BY <1>1, BlocksInt DEF Heads, Readiness

LEMMA BitmapsHarmless ==
    ASSUME ResizeInv, Readiness, Settled, NEW h \in GroupsOf(new),
           NEW W, W \subseteq {new.gd[h].bbm, new.gd[h].ibm}, Writes(W)
    PROVE  HarmlessWrite(W)
<1>1. Safe(old.gd, W) /\ Safe(disk[1].val, W)
  BY SettledResting, BitmapsSafe DEF Settled
<1>2. Heads \cap W = {}
  BY DEF Settled, NewPlaces, TablesApart
<1>3. 1 \in Heads
  <2>1. DescBlocks(old) \in Nat \ {0}
    BY DescBlocksPositive DEF ResizeInv, Layout, FsOK
  <2> QED
    BY <2>1 DEF Heads, Readiness
<1>4. disk'[1] = disk[1]
  BY <1>2, <1>3 DEF Writes, Heads
<1> QED
  BY <1>1, <1>2, <1>4 DEF HarmlessWrite

LEMMA WriteBitmapsFiles ==
    ASSUME ResizeInv, FilesInv, WriteBitmaps
    PROVE  FilesInv' /\ disk'[1] = disk[1] /\ \E W : HarmlessWrite(W)
<1>1. pc = "bits" /\ UNCHANGED <<old, new, files>> /\ k \in Nat
  BY DEF WriteBitmaps, handles, given, ResizeInv, Control
<1>2. Readiness /\ Settled /\ TablesSoFar /\ Rounds
  BY <1>1, AfterFacts DEF After
<1>3. k \in GroupsOf(new) /\ Groups(new.size) \in Nat \ {0} /\ new.size \in Nat \ {0}
  BY <1>1, <1>2, GroupsNat DEF Rounds, ResizeInv, Layout, FsOK
<1>4. Current
  BY <1>1, <1>2 DEF TablesSoFar, Current
<1>5. TablesSoFar'
  BY <1>1, <1>4, CurrentSoFar
<1> DEFINE W == {new.gd[k].bbm, new.gd[k].ibm}
<1>6. DOMAIN disk = Blocks
  BY DEF ResizeInv, Control
<1>7. Writes(W)
  BY <1>6 DEF WriteBitmaps, Writes, Write
<1>8. HarmlessWrite(W) /\ disk'[1] = disk[1]
  <2>1. HarmlessWrite(W)
    BY <1>2, <1>3, <1>7, BitmapsHarmless
  <2>2. 1 \in Heads /\ Heads \subseteq Blocks
    BY <1>2, HeadBlocks
  <2>3. Heads \cap W = {}
    BY <1>2, <1>3 DEF Settled, NewPlaces, TablesApart
  <2> HIDE DEF W
  <2> QED
    BY <1>7, <2>1, <2>2, <2>3 DEF Writes
<1> HIDE DEF W
<1>9. Readiness' /\ Settled'
  BY <1>1, <1>2, <1>8, SettledStep DEF Stays
<1>10. FilesInv'
  <2>1. \/ pc' = "descs" /\ k' = 0
        \/ pc' = "bits" /\ k' = k + 1 /\ k # Groups(new.size) - 1
    BY <1>1 DEF WriteBitmaps, Goto, Advance
  <2>2. 0 \in GroupsOf(new) /\ (k # Groups(new.size) - 1 => k + 1 \in GroupsOf(new))
    BY <1>1, <1>3 DEF GroupsOf
  <2>3. Rounds'
    BY <1>1, <2>1, <2>2 DEF Rounds
  <2>4. pc' \in After
    BY <2>1 DEF After
  <2> QED
    BY <1>5, <1>9, <2>3, <2>4, AfterPhases DEF FilesInv
<1> QED
  BY <1>8, <1>10

(* More groups need at least as many blocks for their descriptors.         *)
LEMMA DescBlocksMonotone ==
    ASSUME NEW fs, NEW next, fs.size \in Nat \ {0}, next.size \in Nat \ {0}, fs.size <= next.size
    PROVE  DescBlocks(fs) <= DescBlocks(next)
<1>1. PICK m, n, d, u, v, p, q :
        /\ m = Groups(fs.size) /\ n = Groups(next.size) /\ d = DescPerBlock
        /\ u = m + d - 1 /\ v = n + d - 1 /\ p = u \div d /\ q = v \div d
  OBVIOUS
<1>2. m \in Nat \ {0} /\ n \in Nat \ {0} /\ d \in Nat \ {0} /\ m <= n
  BY <1>1, GroupsNat, GroupsMonotone, Constants
<1>3. u \in Nat /\ v \in Nat /\ u <= v
  BY <1>1, <1>2
<1>4. p \in Nat /\ q \in Nat /\ p * d \in Nat /\ q * d \in Nat /\ p * d <= u /\ v < q * d + d
  BY <1>1, <1>2, <1>3, Quotient
<1>5. p <= q
  <2> SUFFICES ASSUME q < p PROVE FALSE
    BY <1>4
  <2>1. q * d + d <= p * d
    BY <1>2, <1>4, TimesLess
  <2> QED
    BY <1>2, <1>3, <1>4, <2>1
<1> QED
  BY <1>1, <1>5 DEF DescBlocks

LEMMA RegionIn ==
    ASSUME NEW fs, NEW h \in GroupsOf(fs), HasSuper(h),
           NEW b \in Run(FirstBlock(h), 1 + DescBlocks(fs) + fs.rsv), b < fs.size
    PROVE  b \in AllRegions(fs) /\ b \in MetaBlocks(fs)
<1>1. b \in SuperAndBgd(fs, h)
  BY DEF SuperAndBgd
<1> QED
  BY <1>1 DEF AllRegions, MetaBlocks

(* Blocks of the descriptor regions, where the tables are in their new     *)
(* places.                                                                 *)
LEMMA RegionSafe ==
    ASSUME ResizeInv, Readiness, NewPlaces, NEW gd, Resting(gd), NEW h \in GroupsOf(new), HasSuper(h),
           NEW W, W \subseteq Run(FirstBlock(h), 1 + DescBlocks(new) + new.rsv),
           (\A g \in GroupsOf(old) : gd[g].it = new.gd[g].it) \/ W \subseteq Indirect
    PROVE  Safe(gd, W)
<1> SUFFICES ASSUME NEW i \in DOMAIN files
             PROVE  InodeBlock(gd, i) \notin W /\ Pointed(gd, i) \cap W = {}
  BY DEF Safe
<1>0. new.size \in Nat
  BY DEF ResizeInv, Layout, FsOK
<1>1. \A b \in W : b < new.size => b \in AllRegions(new) /\ b \in MetaBlocks(new)
  BY RegionIn
<1>2. Pointed(gd, i) \cap W = {}
  <2>1. Pointed(gd, i) \subseteq (0 .. new.size - 1) \ MetaBlocks(new)
    BY DEF Resting, Clear
  <2>2. \A b \in 0 .. new.size - 1 : b < new.size
    BY <1>0
  <2> QED
    BY <1>1, <2>1, <2>2
<1>3. PICK g \in GroupsOf(old), t \in Nat \ {Nowhere} :
        QuietTable(t, g) /\ gd[g].it = t /\ InodeBlock(gd, i) \in Run(t, InodeBlocks) /\ g \in GroupsOf(new)
  BY RestingTable
<1>4. CASE t = new.gd[g].it
  <2>1. InodeBlock(gd, i) \in Table(new.gd[g]) /\ Table(new.gd[g]) \subseteq 1 .. new.size - 1
    BY <1>3, <1>4, NewTableIs DEF NewPlaces
  <2>2. InodeBlock(gd, i) < new.size
    BY <1>0, <2>1
  <2>3. Table(new.gd[g]) \cap AllRegions(new) = {}
    BY DEF NewPlaces, TablesApart
  <2> QED
    BY <1>1, <1>2, <2>1, <2>2, <2>3
<1>5. CASE t # new.gd[g].it
  <2>1. Run(t, InodeBlocks) \cap Indirect = {}
    BY <1>3, <1>5 DEF QuietTable
  <2> QED
    BY <1>2, <1>3, <1>5, <2>1
<1> QED
  BY <1>4, <1>5

LEMMA FirstBlocks ==
    ASSUME NEW g \in Nat \ {0}
    PROVE  FirstBlock(g) \in Nat /\ FirstBlock(g) >= 2
<1>1. PerGroup \in Nat /\ PerGroup >= 2
  BY ResizeFsAssumption
<1>2. g = 1 \/ 1 < g
  OBVIOUS
<1>3. g * PerGroup \in Nat /\ 1 * PerGroup = PerGroup
  BY <1>1, TimesNat
<1>4. g * PerGroup >= PerGroup
  <2>1. CASE g = 1
    BY <1>1, <2>1
  <2>2. CASE 1 < g
    <3>1. 1 * PerGroup + PerGroup <= g * PerGroup
      BY <1>1, <2>2, TimesLess
    <3> QED
      BY <1>1, <1>3, <3>1
  <2> QED
    BY <1>2, <2>1, <2>2
<1> QED
  BY <1>1, <1>3, <1>4 DEF FirstBlock

(* Writing the descriptors and their backups writes descriptor regions, if *)
(* it does not drop what waits.                                            *)
DescsHere == HasSuper(k) /\ (k = 0 \/ Closing)
Dropped == pc' \in {"failed", "stats"} /\ Flushed /\ \E S \in SUBSET Waiting : disk' = Without(S)

LEMMA DescsWritten ==
    ASSUME WriteDescs, ~Dropped, k \in Nat, 1 \in Blocks, DescBlocks(new) \in Nat \ {0}
    PROVE  /\ \A b \in Blocks : \/ disk'[b] = disk[b]
                                \/ /\ DescsHere /\ b \in Run(FirstBlock(k), 1 + DescBlocks(new))
                                   /\ disk'[b].kind \in {"super", "gdt"}
           /\ k = 0 => \/ disk'[1].kind = "gdt" /\ disk'[1].val = new.gd
                       \/ (pc' = "failed" \/ pc' = "stats") /\ \A b \in Blocks : disk'[b] = disk[b]
<1> DEFINE here == DescsHere
           backup == [b \in Blocks |-> IF here /\ k > 0 /\ b = FirstBlock(k) THEN Content("super", Super(new)) ELSE disk[b]]
           all == [b \in Blocks |-> IF here /\ b \in Run(FirstBlock(k) + 1, DescBlocks(new))
                                      THEN Content("gdt", new.gd) ELSE backup[b]]
<1>1. \/ disk' = all
      \/ (pc' = "failed" \/ pc' = "stats") /\ disk' \in {disk, backup}
  BY DEF WriteDescs, DescsHere, Dropped, FlushFails, Fail, Goto
<1>2. PICK f, d : f = FirstBlock(k) /\ d = DescBlocks(new)
  OBVIOUS
<1>3. f \in Nat /\ d \in Nat \ {0}
  BY <1>2, TimesNat, Constants DEF FirstBlock
<1>4. f \in Run(f, 1 + d) /\ Run(f + 1, d) \subseteq Run(f, 1 + d)
  BY <1>3 DEF Run
<1>5. \A b \in Blocks : backup[b] = disk[b] \/ (here /\ k > 0 /\ b = f /\ backup[b].kind = "super")
  BY <1>2 DEF Content
<1>6. \A b \in Blocks : \/ all[b] = backup[b]
                        \/ here /\ b \in Run(f + 1, d) /\ all[b].kind = "gdt"
  BY <1>2 DEF Content
<1>7. \A b \in Blocks : \/ disk'[b] = disk[b]
                        \/ here /\ b \in Run(f, 1 + d) /\ disk'[b].kind \in {"super", "gdt"}
  <2>1. CASE disk' = all
    BY <1>4, <1>5, <1>6, <2>1
  <2>2. CASE disk' \in {disk, backup}
    BY <1>4, <1>5, <2>2
  <2> QED
    BY <1>1, <2>1, <2>2
<1>8. ASSUME k = 0
      PROVE  \/ disk'[1].kind = "gdt" /\ disk'[1].val = new.gd
             \/ (pc' = "failed" \/ pc' = "stats") /\ \A b \in Blocks : disk'[b] = disk[b]
  <2>1. here /\ f = 0
    BY <1>2, <1>8, Constants DEF DescsHere, HasSuper, FirstBlock
  <2>2. 1 \in Run(f + 1, d)
    BY <1>3, <2>1 DEF Run
  <2>3. CASE disk' = all
    <3>1. all[1] = Content("gdt", new.gd)
      BY <1>2, <2>1, <2>2
    <3> QED
      BY <2>3, <3>1 DEF Content
  <2>4. \A b \in Blocks : backup[b] = disk[b]
    BY <1>5, <1>8
  <2> QED
    BY <1>1, <2>3, <2>4
<1> QED
  BY <1>2, <1>7, <1>8

LEMMA DroppedHarmless ==
    ASSUME Readiness, DeviceInv, pc \in Caching, Dropped
    PROVE  HarmlessWrite(Waiting)
<1>1. PICK S \in SUBSET Waiting : disk' = Without(S)
  BY DEF Dropped
<1>2. \A b \in Blocks : disk'[b] = IF b \in S THEN device[b] ELSE disk[b]
  BY <1>1 DEF Without
<1>3. Writes(Waiting)
  BY <1>2 DEF Writes
<1>4. Safe(old.gd, Waiting) /\ Safe(disk[1].val, Waiting) /\ \A b \in Heads : device[b].kind \in {"super", "gdt"}
  BY DEF DeviceInv, Afloat
<1>5. \A b \in Heads : disk'[b].kind \in {"super", "gdt"}
  BY <1>2, <1>4 DEF Readiness, Heads
<1>6. 1 \in Blocks
  BY DEF Readiness
<1>7. CASE disk'[1] = disk[1]
  BY <1>3, <1>4, <1>5, <1>7 DEF HarmlessWrite
<1>8. CASE disk'[1] # disk[1]
  <2>1. disk'[1] = device[1]
    BY <1>2, <1>6, <1>8
  <2>2. device[1].kind = "gdt" /\ \A g \in GroupsOf(old) : device[1].val[g].it = old.gd[g].it
    BY <1>8, <2>1 DEF DeviceInv
  <2> QED
    BY <1>3, <1>4, <1>5, <2>1, <2>2 DEF HarmlessWrite
<1> QED
  BY <1>7, <1>8

LEMMA WriteDescsFiles ==
    ASSUME ResizeInv, FilesInv, DeviceInv, WriteDescs
    PROVE  FilesInv' /\ \E W : HarmlessWrite(W)
<1>1. pc = "descs" /\ UNCHANGED <<old, new, files>> /\ k \in Nat
  BY DEF WriteDescs, handles, given, ResizeInv, Control
<1>2. Readiness /\ Settled /\ TablesSoFar /\ Rounds
  BY <1>1, AfterFacts DEF After
<1>3. k \in GroupsOf(new) /\ Groups(new.size) \in Nat \ {0} /\ new.size \in Nat \ {0} /\ new.rsv \in Nat
  BY <1>1, <1>2, GroupsNat DEF Rounds, ResizeInv, Layout, FsOK
<1>4. Current
  BY <1>1, <1>2 DEF TablesSoFar, Current
<1>5. TablesSoFar'
  BY <1>1, <1>4, CurrentSoFar
<1>6. 1 \in Blocks /\ DescBlocks(new) \in Nat \ {0}
  BY <1>2, <1>3, DescBlocksPositive DEF Readiness
<1>7. ~Dropped =>
      /\ \A b \in Blocks : \/ disk'[b] = disk[b]
                           \/ /\ DescsHere /\ b \in Run(FirstBlock(k), 1 + DescBlocks(new))
                              /\ disk'[b].kind \in {"super", "gdt"}
      /\ k = 0 => \/ disk'[1].kind = "gdt" /\ disk'[1].val = new.gd
                  \/ (pc' = "failed" \/ pc' = "stats") /\ \A b \in Blocks : disk'[b] = disk[b]
  BY <1>1, <1>6, DescsWritten
<1>8. Resting(old.gd) /\ Resting(disk[1].val) /\ NewPlaces
  BY <1>2, SettledResting DEF Settled
<1> DEFINE W == IF DescsHere THEN Run(FirstBlock(k), 1 + DescBlocks(new)) ELSE {}
<1>9. ~Dropped => Writes(W) /\ \A b \in Heads \cap W : disk'[b].kind \in {"super", "gdt"}
  BY <1>2, <1>7 DEF Writes, Heads, Readiness
<1>10. W = {} \/ (HasSuper(k) /\ W \subseteq Run(FirstBlock(k), 1 + DescBlocks(new) + new.rsv))
  <2>1. PICK f, d, e : f = FirstBlock(k) /\ d = DescBlocks(new) /\ e = new.rsv
    OBVIOUS
  <2>2. f \in Nat /\ d \in Nat /\ e \in Nat
    BY <1>1, <1>3, <1>6, <2>1, TimesNat, Constants DEF FirstBlock
  <2>3. Run(f, 1 + d) \subseteq Run(f, 1 + d + e)
    BY <2>2 DEF Run
  <2> QED
    BY <2>1, <2>3 DEF DescsHere
<1>11. Safe(old.gd, W)
  <2>1. CASE W = {}
    BY <2>1 DEF Safe
  <2> QED
    BY <1>2, <1>3, <1>4, <1>8, <1>10, <2>1, RegionSafe DEF Current
<1>12. PICK V : HarmlessWrite(V)
  <2>0. CASE Dropped
    BY <1>1, <1>2, <2>0, DroppedHarmless DEF Caching
  <2> SUFFICES ASSUME ~Dropped PROVE \E V : HarmlessWrite(V)
    BY <2>0
  <2>1. CASE k = 0 /\ disk'[1].kind = "gdt" /\ disk'[1].val = new.gd
    BY <1>4, <1>9, <1>11, <2>1 DEF HarmlessWrite, Current
  <2>2. CASE \A b \in Blocks : disk'[b] = disk[b]
    <3>1. HarmlessWrite({})
      BY <1>6, <2>2 DEF HarmlessWrite, Writes, Safe
    <3> QED
      BY <3>1
  <2>3. CASE k # 0
    <3>1. disk[1].val = new.gd
      BY <1>1, <1>2, <2>3 DEF Rounds
    <3>2. Safe(disk[1].val, W)
      <4>1. CASE W = {}
        BY <4>1 DEF Safe
      <4> QED
        BY <1>2, <1>3, <1>8, <1>10, <3>1, <4>1, RegionSafe
    <3>3. 1 \notin Run(FirstBlock(k), 1 + DescBlocks(new))
      <4>1. FirstBlock(k) \in Nat /\ FirstBlock(k) >= 2
        BY <1>1, <2>3, FirstBlocks
      <4> QED
        BY <4>1 DEF Run
    <3>4. disk'[1] = disk[1]
      BY <1>6, <1>7, <3>3
    <3> QED
      BY <1>9, <1>11, <3>2, <3>4 DEF HarmlessWrite
  <2> QED
    BY <1>7, <2>1, <2>2, <2>3
<1>13. Readiness' /\ Settled'
  BY <1>1, <1>2, <1>12, SettledStep DEF Stays
<1>14. pc' = "failed" => FilesInv'
  BY <1>13, FailedPhases DEF FilesInv
<1>15. ASSUME pc' # "failed" PROVE FilesInv'
  <2>1. \/ pc' = "super"
        \/ pc' = "stats"
        \/ pc' = "descs" /\ k' = k + 1 /\ k # Groups(new.size) - 1
    BY <1>1, <1>15 DEF WriteDescs, Goto, Advance, FlushFails, Fail
  <2>2. k # Groups(new.size) - 1 => k + 1 \in GroupsOf(new)
    BY <1>1, <1>3 DEF GroupsOf
  <2>3. pc' = "descs" => disk'[1].val = new.gd
    <3> SUFFICES ASSUME pc' = "descs" PROVE disk'[1].val = new.gd
      OBVIOUS
    <3>0. ~Dropped
      BY DEF Dropped
    <3>1. CASE k = 0
      BY <1>7, <2>1, <3>0, <3>1
    <3>2. CASE k # 0
      <4>1. disk[1].val = new.gd
        BY <1>1, <1>2, <3>2 DEF Rounds
      <4>2. FirstBlock(k) \in Nat /\ FirstBlock(k) >= 2
        BY <1>1, <3>2, FirstBlocks
      <4>3. 1 \notin Run(FirstBlock(k), 1 + DescBlocks(new))
        BY <4>2 DEF Run
      <4> QED
        BY <1>6, <1>7, <3>0, <4>1, <4>3
    <3> QED
      BY <3>1, <3>2
  <2>4. Rounds'
    BY <1>1, <2>1, <2>2, <2>3 DEF Rounds
  <2>5. pc' \in After
    BY <2>1 DEF After
  <2> QED
    BY <1>5, <1>13, <2>4, <2>5, AfterPhases DEF FilesInv
<1> QED
  BY <1>12, <1>14, <1>15

LEMMA WriteSuperFiles == ResizeInv /\ FilesInv /\ WriteSuper => FilesInv'
<1> SUFFICES ASSUME ResizeInv, FilesInv, WriteSuper PROVE FilesInv'
  OBVIOUS
<1>1. pc = "super" /\ UNCHANGED <<old, files>>
  BY DEF WriteSuper, given
<1>2. Readiness /\ Settled /\ TablesSoFar
  BY <1>1, AfterFacts DEF After
<1>3. Stays(new, new')
  BY DEF WriteSuper, ResizeInv, Layout, FsOK, FsFields, Stays
<1>4. Current
  BY <1>1, <1>2 DEF TablesSoFar, Current
<1>5. TablesSoFar'
  BY <1>1, <1>3, <1>4, CurrentSoFar DEF Stays
<1>6. \E n \in 0 .. 4 : disk' = [disk EXCEPT ![0] = Stored(new, n)]
  <2>1. 4 \in 0 .. 4
    OBVIOUS
  <2> QED
    BY <2>1 DEF WriteSuper
<1>7. PICK c : c.kind = "super" /\ disk' = [disk EXCEPT ![0] = c]
  BY <1>6 DEF Stored, Content
<1>8. 0 \in Heads /\ 1 \in Heads /\ Heads \subseteq Blocks /\ DOMAIN disk = Blocks
  BY <1>2, HeadBlocks DEF ResizeInv, Control
<1>9. Writes({0}) /\ disk'[0].kind = "super" /\ disk'[1] = disk[1]
  BY <1>7, <1>8 DEF Writes
<1>10. Safe(old.gd, Heads) /\ Safe(disk[1].val, Heads)
  BY <1>2, HeadsSafe DEF Readiness
<1>11. Safe(old.gd, {0}) /\ Safe(disk[1].val, {0})
  BY <1>8, <1>10 DEF Safe
<1>12. HarmlessWrite({0})
  BY <1>9, <1>11 DEF HarmlessWrite
<1>13. Readiness' /\ Settled'
  BY <1>1, <1>2, <1>3, <1>12, SettledStep
<1>14. pc' \in {"failed", "stats", "done"}
  BY DEF WriteSuper, Goto, FlushFails, Fail
<1>15. CASE pc' = "failed"
  BY <1>13, <1>15, FailedPhases DEF FilesInv
<1>16. CASE pc' # "failed"
  BY <1>5, <1>13, <1>14, <1>16, AfterPhases DEF FilesInv, After, Rounds
<1> QED
  BY <1>15, <1>16

LEMMA FixResizeInodeFiles ==
    ASSUME ResizeInv, FilesInv, FixResizeInode
    PROVE  FilesInv' /\ disk'[1] = disk[1] /\ \E W : HarmlessWrite(W)
<1>1. pc = "stats" /\ UNCHANGED <<old, new, files>>
  BY DEF FixResizeInode, handles, given
<1>2. Readiness /\ Settled /\ TablesSoFar
  BY <1>1, AfterFacts DEF After
<1>3. Current
  BY <1>1, <1>2 DEF TablesSoFar, Current
<1>4. TablesSoFar'
  BY <1>1, <1>3, CurrentSoFar
<1>5. /\ old.size \in Nat \ {0} /\ new.size \in Nat \ {0} /\ old.size <= new.size /\ new.rsv \in Nat
  BY DEF ResizeInv, Layout, FsOK
<1>6. PICK d, e, n : d = DescBlocks(old) /\ e = DescBlocks(new) /\ n = new.rsv
  OBVIOUS
<1>7. d \in Nat \ {0} /\ e \in Nat \ {0} /\ d <= e /\ n \in Nat
  BY <1>5, <1>6, DescBlocksPositive, DescBlocksMonotone
<1>8. Writes(Indirect)
  <2>1. CASE UNCHANGED disk
    BY <2>1 DEF Writes
  <2>2. CASE new.ri /\ \E m \in 0 .. new.rsv : WriteRun(1 + DescBlocks(new), m, Content("indirect", 0))
    <3>1. PICK m \in 0 .. n : WriteRun(1 + e, m, Content("indirect", 0))
      BY <1>6, <2>2
    <3>2. Run(1 + e, m) \subseteq Run(1 + e, n) /\ Indirect = Run(1 + e, n)
      BY <1>6, <1>7, <2>2 DEF Run, Indirect
    <3> QED
      BY <3>1, <3>2 DEF WriteRun, Writes
  <2>3. new.rsv \in 0 .. new.rsv
    BY <1>5
  <2> QED
    BY <2>1, <2>2, <2>3 DEF FixResizeInode
<1>9. Heads \cap Indirect = {} /\ 1 \notin Indirect
  <2>1. Indirect \subseteq 1 + e .. e + n
    BY <1>6, <1>7 DEF Indirect, Run
  <2> QED
    BY <1>6, <1>7, <2>1 DEF Heads
<1>10. 0 \in GroupsOf(new) /\ HasSuper(0) /\ Indirect \subseteq Run(FirstBlock(0), 1 + DescBlocks(new) + new.rsv)
  <2>1. 0 \in GroupsOf(new) /\ HasSuper(0) /\ FirstBlock(0) = 0
    BY <1>5, GroupZero
  <2>2. Run(1 + e, n) \subseteq Run(0, 1 + e + n)
    BY <1>7 DEF Run
  <2> QED
    BY <1>6, <2>1, <2>2 DEF Indirect
<1>11. Safe(old.gd, Indirect) /\ Safe(disk[1].val, Indirect)
  BY <1>2, <1>10, SettledResting, RegionSafe DEF Settled
<1>12. HarmlessWrite(Indirect) /\ disk'[1] = disk[1]
  BY <1>2, <1>8, <1>9, <1>11 DEF HarmlessWrite, Writes, Readiness
<1>13. Readiness' /\ Settled'
  BY <1>1, <1>2, <1>12, SettledStep DEF Stays
<1>14. pc' \in {"failed", "journal"}
  BY DEF FixResizeInode, Goto, Fail
<1>15. pc' = "failed" => FilesInv'
  BY <1>13, FailedPhases DEF FilesInv
<1>16. pc' # "failed" => FilesInv'
  BY <1>4, <1>13, <1>14, AfterPhases DEF FilesInv, After, Rounds
<1> QED
  BY <1>12, <1>15, <1>16

LEMMA FixSbJournalBackupFiles == ResizeInv /\ FilesInv /\ FixSbJournalBackup => FilesInv'
<1> SUFFICES ASSUME ResizeInv, FilesInv, FixSbJournalBackup PROVE FilesInv'
  OBVIOUS
<1>1. pc = "journal" /\ pc' = "bits" /\ k' = 0 /\ UNCHANGED <<disk, old, files>>
  BY DEF FixSbJournalBackup, Goto, given
<1>2. Readiness /\ Settled /\ TablesSoFar
  BY <1>1, AfterFacts DEF After
<1>3. Stays(new, new')
  BY DEF FixSbJournalBackup, ResizeInv, Layout, FsOK, FsFields, Stays
<1>4. Current
  BY <1>1, <1>2 DEF TablesSoFar, Current
<1>5. TablesSoFar'
  BY <1>1, <1>3, <1>4, CurrentSoFar DEF Stays
<1>6. Readiness' /\ Settled'
  BY <1>1, <1>2, <1>3, NoWrite, SettledStep
<1>7. Rounds'
  <2>1. new'.size \in Nat \ {0}
    BY <1>3 DEF Stays, ResizeInv, Layout, FsOK
  <2> QED
    BY <1>1, <2>1, GroupZero DEF Rounds
<1> QED
  BY <1>1, <1>5, <1>6, <1>7, AfterPhases DEF FilesInv, After

(***************************************************************************)
(* Sets in ascending order.                                                *)
(***************************************************************************)
(* Each element is there, and once.                                        *)
LEMMA AscendingAll ==
    ASSUME NEW S, S \subseteq Nat, IsFiniteSet(S)
    PROVE  /\ Ascending(S) \in Seq(S)
           /\ \A m, n \in 1 .. Len(Ascending(S)) : m # n => Ascending(S)[m] # Ascending(S)[n]
           /\ \A b \in S : \E n \in 1 .. Len(Ascending(S)) : Ascending(S)[n] = b
<1> DEFINE Below(b) == {c \in S : c < b}
           N == Cardinality(S)
<1>1. N \in Nat
  BY FS_CardinalityType
<1>2. PICK A : A = Ascending(S)
  OBVIOUS
<1>3. A \in Seq(S)
  BY <1>2, AscendingSeq
<1>4. A = [n \in 1 .. N |-> CHOOSE b \in S : Cardinality(Below(b)) = n - 1]
  BY <1>2 DEF Ascending
<1>5. DOMAIN A = 1 .. N /\ Len(A) = N
  BY <1>1, <1>3, <1>4
<1>6. \A n \in 1 .. N : \E b \in S : Cardinality(Below(b)) = n - 1
  BY RankTaken
<1>7. \A n \in 1 .. N : A[n] \in S /\ Cardinality(Below(A[n])) = n - 1
  <2> SUFFICES ASSUME NEW n \in 1 .. N PROVE A[n] \in S /\ Cardinality(Below(A[n])) = n - 1
    OBVIOUS
  <2> DEFINE P(b) == Cardinality(Below(b)) = n - 1
  <2>1. \E b \in S : P(b)
    BY <1>6
  <2>2. A[n] = CHOOSE b \in S : P(b)
    BY <1>4
  <2> HIDE DEF P
  <2>3. A[n] \in S /\ P(A[n])
    BY <2>1, <2>2
  <2> QED
    BY <2>3 DEF P
<1>8. ASSUME NEW b \in S PROVE IsFiniteSet(Below(b)) /\ Cardinality(Below(b)) \in Nat /\ Cardinality(Below(b)) < N
  <2>1. Below(b) \subseteq S /\ b \notin Below(b)
    OBVIOUS
  <2> HIDE DEF Below
  <2>2. IsFiniteSet(Below(b)) /\ Cardinality(Below(b)) <= N /\ (N = Cardinality(Below(b)) => S = Below(b))
    BY <2>1, FS_Subset
  <2>3. Cardinality(Below(b)) \in Nat
    BY <2>2, FS_CardinalityType
  <2> QED
    BY <1>1, <2>1, <2>2, <2>3
<1>9. ASSUME NEW b \in S, NEW c \in S, b < c PROVE Cardinality(Below(b)) < Cardinality(Below(c))
  <2>a. \A d \in S : d < b => d < c
    <3>1. \A d \in S : d \in Nat
      OBVIOUS
    <3> QED
      BY <1>9, <3>1
  <2>b. Below(b) \subseteq Below(c)
    BY <2>a
  <2>c. b \in Below(c)
    BY <1>9
  <2>d. b \notin Below(b)
    OBVIOUS
  <2>1. Below(b) \subseteq Below(c) /\ b \in Below(c) /\ b \notin Below(b)
    BY <2>b, <2>c, <2>d
  <2>2. IsFiniteSet(Below(c)) /\ Cardinality(Below(c)) \in Nat /\ Cardinality(Below(b)) \in Nat
    BY <1>8
  <2> HIDE DEF Below
  <2>3. Cardinality(Below(b)) <= Cardinality(Below(c)) /\ (Cardinality(Below(c)) = Cardinality(Below(b)) => Below(c) = Below(b))
    BY <2>1, <2>2, FS_Subset
  <2> QED
    BY <2>1, <2>2, <2>3
<1>10. \A m, n \in 1 .. N : m # n => A[m] # A[n]
  <2> SUFFICES ASSUME NEW m \in 1 .. N, NEW n \in 1 .. N, A[m] = A[n] PROVE m = n
    OBVIOUS
  <2>1. Cardinality(Below(A[m])) = m - 1 /\ Cardinality(Below(A[n])) = n - 1
    BY <1>7
  <2> HIDE DEF Below
  <2>2. m - 1 = n - 1
    BY <2>1
  <2> QED
    BY <1>1, <2>2
<1>11. ASSUME NEW b \in S PROVE \E n \in 1 .. N : A[n] = b
  <2>1. PICK n : n = Cardinality(Below(b)) + 1
    OBVIOUS
  <2>2. n \in 1 .. N
    BY <1>1, <1>8, <2>1
  <2>3. A[n] \in S /\ Cardinality(Below(A[n])) = n - 1
    BY <1>7, <2>2
  <2>4. Cardinality(Below(A[n])) = Cardinality(Below(b)) /\ Cardinality(Below(b)) \in Nat
    BY <1>8, <2>1, <2>3
  <2>5. A[n] \in Nat /\ b \in Nat
    BY <2>3
  <2>6. PICK c : c = A[n]
    OBVIOUS
  <2>7. ~(c < b) /\ ~(b < c)
    <3>1. c \in S /\ Cardinality(Below(c)) = Cardinality(Below(b))
      BY <2>3, <2>4, <2>6
    <3> HIDE DEF Below
    <3>2. c < b => Cardinality(Below(c)) < Cardinality(Below(b))
      BY <1>9, <3>1
    <3>3. b < c => Cardinality(Below(b)) < Cardinality(Below(c))
      BY <1>9, <3>1
    <3> QED
      BY <2>4, <3>1, <3>2, <3>3
  <2> QED
    BY <2>2, <2>5, <2>6, <2>7
<1> HIDE DEF N, Below
<1> QED
  BY <1>2, <1>3, <1>5, <1>10, <1>11

LEMMA InUseAll ==
    ASSUME ResizeInv, Readiness
    PROVE  /\ InUse \in Seq(DOMAIN files)
           /\ \A m, n \in 1 .. Len(InUse) : m # n => InUse[m] # InUse[n]
           /\ \A i \in DOMAIN files : \E n \in 1 .. Len(InUse) : InUse[n] = i
<1>1. PICK m : m = Groups(old.size) * InodeBlocks
  OBVIOUS
<1>2. m \in Nat
  BY <1>1, GroupsNat, Constants, TimesNat DEF ResizeInv, Layout, FsOK
<1>3. DOMAIN files \subseteq 1 .. m
  BY <1>1 DEF Readiness
<1>4. IsFiniteSet(1 .. m) /\ DOMAIN files \subseteq Nat
  BY <1>2, <1>3, FS_Interval
<1>5. IsFiniteSet(DOMAIN files)
  BY <1>3, <1>4, FS_Subset
<1> QED
  BY <1>4, <1>5, AscendingAll DEF InUse

(***************************************************************************)
(* Phase 4.                                                                *)
(***************************************************************************)
LEMMA BeforeFacts ==
    ASSUME FilesInv, pc \in {"copy", "fix"}
    PROVE  /\ Readiness /\ Tidy(old) /\ \A g \in GroupsOf(old) : disk[1].val[g].it = old.gd[g].it
           /\ MovesKnown /\ MapOK /\ NewPlaces /\ Quiet(old.gd)
           /\ pc = "copy" => \A i \in DOMAIN files : Owns(i)
BY DEF FilesInv, FilePhases, Before

LEMMA OwnedBelow ==
    ASSUME ResizeInv
    PROVE  old.map \subseteq 0 .. new.size - 1 /\ old.size \in Nat /\ new.size \in Nat
<1>1. old.map \subseteq 0 .. old.size - 1 /\ old.size \in Nat /\ new.size \in Nat /\ old.size <= new.size
  BY DEF ResizeInv, Layout, FsOK
<1> QED
  BY <1>1

(* With the descriptors on the disk like old_fs's.                         *)
LEMMA SamePointed ==
    ASSUME ResizeInv, Readiness, \A g \in GroupsOf(old) : disk[1].val[g].it = old.gd[g].it
    PROVE  /\ \A i \in DOMAIN files : InodeBlock(disk[1].val, i) = InodeBlock(old.gd, i)
           /\ \A i \in DOMAIN files : Pointed(disk[1].val, i) = Pointed(old.gd, i)
           /\ Quiet(old.gd) => Quiet(disk[1].val)
<1>1. \A i \in DOMAIN files : InodeBlock(disk[1].val, i) = InodeBlock(old.gd, i)
  BY InodeGroups, SameInodeBlock
<1>2. Quiet(old.gd) => Quiet(disk[1].val)
  BY QuietIs
<1> QED
  BY <1>1, <1>2 DEF Pointed

LEMMA BeginTablesFiles == ResizeInv /\ FilesInv /\ BeginTables => FilesInv'
<1> SUFFICES ASSUME ResizeInv, FilesInv, BeginTables PROVE FilesInv'
  OBVIOUS
<1>1. /\ UNCHANGED <<disk, old, new, files>> /\ k' = 0
      /\ \/ pc = "copy" /\ bmap = << >>
         \/ pc = "fix" /\ k > Len(InUse)
      /\ \/ pc' = "tables"
         \/ pc' = "stats" /\ ~TablesMove
  BY DEF BeginTables, handles, given, Goto
<1>2. /\ Readiness /\ \A g \in GroupsOf(old) : disk[1].val[g].it = old.gd[g].it
      /\ MovesKnown /\ MapOK /\ NewPlaces /\ Quiet(old.gd)
      /\ pc = "copy" => \A i \in DOMAIN files : Owns(i)
  BY <1>1, BeforeFacts
<1>3. ASSUME NEW i \in DOMAIN files PROVE Clear(old.gd, i)
  <2>1. CASE pc = "copy" /\ bmap = << >>
    <3>1. move = {}
      BY <1>2, <2>1 DEF MapOK
    <3>2. old.map \cap MetaBlocks(new) \subseteq MetaBlocks(old)
      BY <1>2, <3>1 DEF MovesKnown
    <3>3. Pointed(old.gd, i) \subseteq old.map \ MetaBlocks(old)
      BY <1>2, <2>1 DEF Owns
    <3> QED
      BY <3>2, <3>3, OwnedBelow DEF Clear
  <2>2. CASE pc = "fix" /\ k > Len(InUse)
    <3>1. \A j \in 1 .. Len(InUse) : IF j < k THEN Clear(old.gd, InUse[j]) ELSE Owns(InUse[j])
      BY <2>2 DEF FilesInv, FilePhases
    <3>2. PICK j \in 1 .. Len(InUse) : InUse[j] = i
      BY <1>2, InUseAll
    <3>3. InUse \in Seq(DOMAIN files) /\ k \in Nat
      BY <1>2, InUseAll DEF ResizeInv, Control
    <3>4. j < k
      BY <2>2, <3>3
    <3> QED
      BY <3>1, <3>2, <3>4
  <2> QED
    BY <1>1, <2>1, <2>2
<1>4. Settled
  BY <1>2, <1>3, SamePointed DEF Settled, Clear
<1>5. Readiness' /\ Settled'
  BY <1>1, <1>2, <1>4, NoWrite, SettledStep DEF Stays
<1>6. TablesSoFar'
  <2>1. \A g \in GroupsOf(old) : ~(g < 0)
    BY DEF GroupsOf
  <2>2. ~TablesMove => Current
    BY DEF TablesMove, Current
  <2> QED
    BY <1>1, <2>1, <2>2, CurrentSoFar DEF TablesSoFar
<1> QED
  BY <1>1, <1>5, <1>6, AfterPhases DEF FilesInv, After, Rounds

(* A table that moves goes where no file is.                               *)
LEMMA NewTableSafe ==
    ASSUME ResizeInv, Readiness, NewPlaces, NEW gd, Resting(gd),
           NEW g \in GroupsOf(old), gd[g].it # new.gd[g].it
    PROVE  Safe(gd, Table(new.gd[g])) /\ Table(gd[g]) \cap Table(new.gd[g]) = {}
<1>0. g \in GroupsOf(new)
  BY DEF ResizeInv, Layout
<1>1. Table(new.gd[g]) \subseteq Structures(new.gd[g]) /\ Structures(new.gd[g]) \subseteq MetaBlocks(new)
  BY <1>0, NewTableIs DEF NewPlaces
<1>2. ASSUME NEW t, NEW h, QuietTable(t, h), t # new.gd[h].it
      PROVE  Run(t, InodeBlocks) \cap Table(new.gd[g]) = {}
  <2>1. Run(t, InodeBlocks) \cap UNION {Structures(new.gd[x]) : x \in GroupsOf(new)} = {}
    BY <1>2 DEF QuietTable
  <2> QED
    BY <1>0, <1>1, <2>1
<1>3. ASSUME NEW i \in DOMAIN files
      PROVE  InodeBlock(gd, i) \notin Table(new.gd[g]) /\ Pointed(gd, i) \cap Table(new.gd[g]) = {}
  <2>1. Pointed(gd, i) \cap Table(new.gd[g]) = {}
    BY <1>1 DEF Resting, Clear
  <2>2. PICK h \in GroupsOf(old), t \in Nat \ {Nowhere} :
          QuietTable(t, h) /\ gd[h].it = t /\ InodeBlock(gd, i) \in Run(t, InodeBlocks) /\ h \in GroupsOf(new)
    BY RestingTable
  <2>3. CASE t # new.gd[h].it
    BY <1>2, <2>1, <2>2, <2>3
  <2>4. CASE t = new.gd[h].it
    <3>1. h # g
      BY <2>2, <2>4
    <3>2. Table(new.gd[h]) \cap Table(new.gd[g]) = {}
      BY <3>1 DEF NewPlaces, TablesApart
    <3>3. InodeBlock(gd, i) \in Table(new.gd[h])
      BY <2>2, <2>4, NewTableIs DEF NewPlaces
    <3> QED
      BY <2>1, <3>2, <3>3
  <2> QED
    BY <2>3, <2>4
<1>4. Table(gd[g]) \cap Table(new.gd[g]) = {}
  <2>1. QuietTable(gd[g].it, g)
    BY QuietIs DEF Resting
  <2>2. Run(gd[g].it, InodeBlocks) \cap Table(new.gd[g]) = {}
    BY <1>2, <2>1
  <2> QED
    BY <2>2 DEF Table
<1> QED
  BY <1>3, <1>4 DEF Safe

(* What is not written of a table is zero.                                 *)
LEMMA ZeroTailIs ==
    ASSUME NEW b \in Nat
    PROVE  /\ ZeroTail(b) \in 0 .. InodeBlocks
           /\ \A j \in InodeBlocks - ZeroTail(b) .. InodeBlocks - 1 : Is(b + j, "zero")
<1>1. InodeBlocks \in Nat
  BY Constants
<1> DEFINE U == {u \in Nat : u \in 0 .. InodeBlocks /\ \A j \in u .. InodeBlocks - 1 : Is(b + j, "zero")}
           P(n) == /\ \A j \in InodeBlocks - n .. InodeBlocks - 1 : Is(b + j, "zero")
                   /\ n < InodeBlocks => ~Is(b + InodeBlocks - n - 1, "zero")
<1>2. U \subseteq Nat /\ U # {}
  <2>1. InodeBlocks .. InodeBlocks - 1 = {}
    BY <1>1
  <2>2. InodeBlocks \in U
    BY <1>1, <2>1
  <2> QED
    BY <2>2
<1>3. PICK u \in U : \A v \in U : u <= v
  <2> HIDE DEF U
  <2> QED
    BY <1>2, LeastNatural
<1>4. u \in Nat /\ u \in 0 .. InodeBlocks /\ \A j \in u .. InodeBlocks - 1 : Is(b + j, "zero")
  OBVIOUS
<1>5. ASSUME u > 0 PROVE ~Is(b + (u - 1), "zero")
  <2> SUFFICES ASSUME Is(b + (u - 1), "zero") PROVE FALSE
    OBVIOUS
  <2>1. \A j \in u - 1 .. InodeBlocks - 1 : Is(b + j, "zero")
    <3>1. \A j \in u - 1 .. InodeBlocks - 1 : j = u - 1 \/ j \in u .. InodeBlocks - 1
      BY <1>1, <1>4
    <3> QED
      BY <1>4, <3>1
  <2>2. u - 1 \in U
    BY <1>1, <1>4, <1>5, <2>1
  <2> QED
    BY <1>3, <1>4, <2>2
<1>6. PICK n : n = InodeBlocks - u
  OBVIOUS
<1>7. n \in 0 .. InodeBlocks /\ InodeBlocks - n = u
  BY <1>1, <1>4, <1>6
<1> HIDE DEF U
<1>8. P(n)
  <2>1. n < InodeBlocks => u > 0
    BY <1>1, <1>4, <1>7
  <2>2. b + InodeBlocks - n - 1 = b + (u - 1)
    BY <1>1, <1>4, <1>6
  <2> QED
    BY <1>4, <1>5, <1>7, <2>1, <2>2
<1>9. \E m \in 0 .. InodeBlocks : P(m)
  BY <1>7, <1>8
<1>10. ZeroTail(b) = CHOOSE m \in 0 .. InodeBlocks : P(m)
  BY DEF ZeroTail
<1> HIDE DEF P
<1>11. ZeroTail(b) \in 0 .. InodeBlocks /\ P(ZeroTail(b))
  BY <1>9, <1>10
<1> QED
  BY <1>11 DEF P

(* A file whose inode is copied.                                           *)
LEMMA HoldsMoved ==
    ASSUME NEW d, NEW e, NEW b, NEW i, NEW n, Holds(d, b, i, n), NEW c \in Blocks, e[c] = d[b],
           NEW W, \A x \in Blocks \ W : e[x] = d[x], {d[b].val[2][j] : j \in 1 .. n} \cap W = {}
    PROVE  Holds(e, c, i, n)
<1>1. PICK s : s = d[b].val[2]
  OBVIOUS
<1>2. s \in Seq(Blocks) /\ Len(s) = n /\ DOMAIN s = 1 .. n
  BY <1>1 DEF Holds
<1>3. \A j \in DOMAIN s : e[s[j]] = d[s[j]]
  BY <1>1, <1>2
<1>4. \A j \in DOMAIN s : d[s[j]].kind = "data" /\ d[s[j]].val = <<i, j>>
  BY <1>1 DEF Holds
<1>5. \A j \in DOMAIN s : e[s[j]].kind = "data" /\ e[s[j]].val = <<i, j>>
  BY <1>3, <1>4
<1>6. e[c].kind = "inode" /\ e[c].val[1] = i /\ e[c].val[2] = s
  BY <1>1 DEF Holds
<1> QED
  BY <1>2, <1>5, <1>6 DEF Holds

\* The table of group k goes from one place to another.
From == old.gd[k].it
To == new.gd[k].it

(* What MoveTable writes: the new place only, with at least the part of    *)
(* the table that is not zero.                                             *)
LEMMA TableCopied ==
    ASSUME ResizeInv, MoveTable, From # To, From \in Nat, To \in Nat,
           Run(From, InodeBlocks) \cap Run(To, InodeBlocks) = {}
    PROVE  /\ Writes(Run(To, InodeBlocks))
           /\ \/ /\ pc' = "flush" /\ k' = k /\ old' = [old EXCEPT !.gd[k].it = To] /\ Stays(new, new')
                 /\ \A j \in 0 .. InodeBlocks - 1 :
                      To + j \in Blocks => disk'[To + j] = disk[From + j] \/ Is(From + j, "zero")
              \/ pc' = "failed" /\ UNCHANGED <<old, new>>
<1>1. PICK n, diff, num :
        /\ n = ZeroTail(From)
        /\ diff = (IF To < From THEN 0 ELSE To - From)
        /\ num = (IF n > diff THEN InodeBlocks - n ELSE InodeBlocks)
  OBVIOUS
<1>2. InodeBlocks \in Nat \ {0}
  BY Constants
<1>3. n \in 0 .. InodeBlocks /\ \A j \in InodeBlocks - n .. InodeBlocks - 1 : Is(From + j, "zero")
  BY <1>1, ZeroTailIs
<1>4. diff = 0 \/ diff >= InodeBlocks
  <2> SUFFICES ASSUME ~(To < From), To - From < InodeBlocks PROVE FALSE
    BY <1>1, <1>2
  <2>1. To \in Run(From, InodeBlocks) /\ To \in Run(To, InodeBlocks)
    BY <1>2 DEF Run
  <2> QED
    BY <2>1
<1>5. num \in 0 .. InodeBlocks /\ (n > diff => diff = 0) /\ num >= InodeBlocks - n
  BY <1>1, <1>2, <1>3, <1>4
<1> DEFINE zeroes == IF n > diff THEN Run(From + InodeBlocks, diff) ELSE {}
           moved == [b \in Blocks |-> IF b \in zeroes THEN Content("zero", 0) ELSE TableWritten(From, To, num)[b]]
<1>6. zeroes = {}
  BY <1>2, <1>5 DEF Run
<1>7. \A m \in 0 .. InodeBlocks : Run(To, m) \subseteq Run(To, InodeBlocks)
  BY <1>2 DEF Run
<1>8. \A m \in 0 .. InodeBlocks, b \in Blocks :
        TableWritten(From, To, m)[b] = IF b \in Run(To, m) THEN disk[From + (b - To)] ELSE disk[b]
  BY DEF TableWritten
<1>9. \/ /\ pc' = "flush" /\ k' = k /\ old' = [old EXCEPT !.gd[k].it = To] /\ disk' = moved
         /\ new' = [new EXCEPT !.map = @ \ Table(old.gd[k])]
      \/ /\ pc' = "failed" /\ UNCHANGED <<old, new>>
         /\ \E j \in 0 .. (IF num > WriteDirectSize THEN num ELSE 0), back \in {{}, Run(From, num)} :
              disk' = [b \in Blocks |-> IF b \in back THEN disk[b] ELSE TableWritten(From, To, j)[b]]
  <2> HIDE DEF zeroes
  <2> QED
    BY <1>1 DEF MoveTable, From, To, Goto, Fail, zeroes
<1>10. CASE pc' = "failed"
  <2>0. pc' # "flush"
    BY <1>10
  <2>1. PICK j, back :
          /\ j \in 0 .. (IF num > WriteDirectSize THEN num ELSE 0)
          /\ disk' = [b \in Blocks |-> IF b \in back THEN disk[b] ELSE TableWritten(From, To, j)[b]]
    BY <1>9, <2>0
  <2>2. j \in 0 .. InodeBlocks
    BY <1>2, <1>5, <2>1
  <2>3. Writes(Run(To, InodeBlocks))
    BY <1>7, <1>8, <2>1, <2>2 DEF Writes
  <2> QED
    BY <1>9, <1>10, <2>0, <2>3
<1>11. CASE pc' = "flush"
  <2>0. pc' # "failed"
    BY <1>11
  <2>1. \A b \in Blocks : disk'[b] = IF b \in Run(To, num) THEN disk[From + (b - To)] ELSE disk[b]
    <3>1. disk' = moved
      BY <1>9, <2>0
    <3> HIDE DEF zeroes
    <3> QED
      BY <1>5, <1>6, <1>8, <3>1
  <2>2. Writes(Run(To, InodeBlocks))
    BY <1>5, <1>7, <2>1 DEF Writes
  <2>3. ASSUME NEW j \in 0 .. InodeBlocks - 1, To + j \in Blocks
        PROVE  disk'[To + j] = disk[From + j] \/ Is(From + j, "zero")
    <3>1. CASE j < num
      <4>1. To + j \in Run(To, num) /\ From + ((To + j) - To) = From + j
        BY <1>2, <1>5, <3>1 DEF Run
      <4> QED
        BY <2>1, <2>3, <4>1
    <3>2. CASE ~(j < num)
      <4>1. j \in InodeBlocks - n .. InodeBlocks - 1
        BY <1>2, <1>3, <1>5, <3>2
      <4> QED
        BY <1>3, <4>1
    <3> QED
      BY <3>1, <3>2
  <2>4. Stays(new, new')
    BY <1>9, <2>0 DEF ResizeInv, Layout, FsOK, FsFields, Stays
  <2> QED
    BY <1>9, <2>0, <2>2, <2>3, <2>4
<1> QED
  BY <1>9, <1>10, <1>11

\* A table that has moved lies where no file was, by the descriptors on the disk.
Landed(W) == Writes(W) /\ Safe(disk[1].val, W) /\ 1 \notin W

LEMMA MoveTableFiles ==
    ASSUME ResizeInv, FilesInv, MoveTable
    PROVE  FilesInv' /\ (pc' = "flush" => Landed(Table(new.gd[k])))
<1>1. pc = "tables" /\ k < Groups(old.size) /\ k \in Nat /\ files' = files
  BY DEF MoveTable, given, ResizeInv, Control
<1>2. Readiness /\ Settled /\ TablesSoFar
  BY <1>1, AfterFacts DEF After
<1>3. k \in GroupsOf(old) /\ k \in GroupsOf(new) /\ Groups(old.size) \in Nat
  <2>1. Groups(old.size) \in Nat
    BY GroupsNat DEF ResizeInv, Layout, FsOK
  <2>2. k \in GroupsOf(old)
    BY <1>1, <2>1 DEF GroupsOf
  <2> QED
    BY <2>1, <2>2 DEF ResizeInv, Layout
<1>4. CASE From = To
  <2>1. UNCHANGED <<disk, old, new>> /\ pc' = "tables" /\ k' = k + 1
    BY <1>1, <1>4 DEF MoveTable, Advance, From, To
  <2>2. Readiness' /\ Settled'
    BY <1>1, <1>2, <2>1, NoWrite, SettledStep DEF Stays
  <2>3. TablesSoFar'
    <3>1. \A g \in GroupsOf(old) : g < k + 1 => g < k \/ g = k
      BY <1>1 DEF GroupsOf
    <3> QED
      BY <1>1, <1>2, <1>4, <2>1, <3>1 DEF TablesSoFar, From, To
  <2> QED
    BY <2>1, <2>2, <2>3, AfterPhases DEF FilesInv, After, Rounds
<1>5. CASE From # To
  <2>1. NewPlaces /\ Resting(old.gd) /\ Resting(disk[1].val)
    BY <1>2, SettledResting DEF Settled
  <2>2. disk[1].val[k].it = From
    BY <1>2, <1>3, <1>5 DEF Readiness, From, To
  <2> DEFINE W == Table(new.gd[k])
  <2>3. Safe(old.gd, W) /\ Safe(disk[1].val, W) /\ Table(old.gd[k]) \cap W = {}
    BY <1>2, <1>3, <1>5, <2>1, <2>2, NewTableSafe DEF From, To
  <2>4. From \in Nat \ {Nowhere} /\ To \in Nat \ {Nowhere}
    <3>1. From \in Nat \ {Nowhere}
      BY <1>2, <1>3, QuietIs DEF Settled, QuietTable, From
    <3>2. To \in Nat
      BY <1>3 DEF ResizeInv, Layout, FsOK, GroupOK, SpotOK, Parts, To
    <3>3. To # Nowhere
      BY <1>3, <2>1 DEF NewPlaces, Complete, Parts, To
    <3> QED
      BY <3>1, <3>2, <3>3
  <2>5. W = Run(To, InodeBlocks) /\ Table(old.gd[k]) = Run(From, InodeBlocks) /\ W \subseteq 1 .. new.size - 1
    <3>1. W = Run(To, InodeBlocks) /\ W \subseteq 1 .. new.size - 1
      BY <1>3, <2>1, NewTableIs DEF NewPlaces, To
    <3> QED
      BY <2>4, <3>1 DEF Table, From
  <2>6. /\ Writes(W)
        /\ \/ /\ pc' = "flush" /\ k' = k /\ old' = [old EXCEPT !.gd[k].it = To] /\ Stays(new, new')
              /\ \A j \in 0 .. InodeBlocks - 1 :
                   To + j \in Blocks => disk'[To + j] = disk[From + j] \/ Is(From + j, "zero")
           \/ pc' = "failed" /\ UNCHANGED <<old, new>>
    BY <1>5, <2>3, <2>4, <2>5, TableCopied
  <2>7. Heads \cap W = {}
    BY <1>3, <2>1 DEF NewPlaces, TablesApart
  <2>8. disk'[1] = disk[1] /\ \A b \in Heads : disk'[b] = disk[b]
    BY <1>2, <2>6, <2>7, HeadBlocks DEF Writes
  <2>9. W \subseteq Blocks
    <3>1. 1 .. new.size - 1 \subseteq 0 .. new.size - 1
      BY OwnedBelow
    <3> QED
      BY <1>2, <2>5, <3>1 DEF Readiness
  <2>10. CASE pc' = "failed"
    <3>0. UNCHANGED <<old, new>>
      BY <2>6, <2>10
    <3>1. HarmlessWrite(W)
      BY <2>3, <2>6, <2>7, <2>8 DEF HarmlessWrite
    <3>2. Readiness'
      <4> HIDE DEF W
      <4> QED
        BY <1>1, <1>2, <3>0, <3>1, HarmlessReadiness DEF Readiness
    <3> QED
      BY <2>10, <3>2, FailedPhases DEF FilesInv
  <2>11. CASE pc' = "flush"
    <3>1. /\ k' = k /\ old' = [old EXCEPT !.gd[k].it = To] /\ Stays(new, new')
          /\ \A j \in 0 .. InodeBlocks - 1 :
               To + j \in Blocks => disk'[To + j] = disk[From + j] \/ Is(From + j, "zero")
      BY <2>6, <2>11
    <3>2. old'.size = old.size
      BY <3>1 DEF ResizeInv, Layout, FsOK, FsFields
    <3>3. \A g \in GroupsOf(old) : old'.gd[g].it = IF g = k THEN To ELSE old.gd[g].it
      <4>1. DOMAIN old = FsFields /\ DOMAIN old.gd = GroupsOf(old) /\ DOMAIN old.gd[k] = Parts
        BY <1>3 DEF ResizeInv, Layout, FsOK, GroupOK
      <4>2. old'.gd = [old.gd EXCEPT ![k].it = To]
        BY <3>1, <4>1 DEF FsFields
      <4> QED
        BY <1>3, <4>1, <4>2 DEF Parts
    <3>4. GroupsOf(old') = GroupsOf(old) /\ Heads' = Heads
      BY <3>2, SameHeads
    <3>5. new'.gd = new.gd /\ new'.size = new.size /\ MetaBlocks(new') = MetaBlocks(new)
      BY <3>1, StaysSame DEF Stays
    <3>6. Unharmed(old.gd) /\ Unharmed(disk[1].val)
      BY <2>1, <2>3, <2>6, SafeWrite DEF Resting
    <3>7. ASSUME NEW i \in DOMAIN files
          PROVE  /\ Holds(disk', InodeBlock(old'.gd, i), i, files[i])
                 /\ disk'[InodeBlock(old'.gd, i)] = disk[InodeBlock(old.gd, i)]
      <4>1. GroupOfInode(i) \in GroupsOf(old) /\ i \in 1 .. Groups(old.size) * InodeBlocks
        BY <1>2, InodeGroups
      <4>2. CASE GroupOfInode(i) # k
        <5>1. InodeBlock(old'.gd, i) = InodeBlock(old.gd, i)
          BY <3>3, <4>1, <4>2, SameInodeBlock
        <5> QED
          BY <3>6, <5>1 DEF Unharmed
      <4>3. CASE GroupOfInode(i) = k
        <5>1. PICK r : r = (i - 1) % InodeBlocks
          OBVIOUS
        <5>2. r \in 0 .. InodeBlocks - 1
          BY <1>3, <4>1, <5>1, InodeGroup
        <5>3. InodeBlock(old'.gd, i) = To + r
          BY <1>3, <3>3, <4>3, <5>1 DEF InodeBlock
        <5>a. InodeBlock(old.gd, i) = From + r
          BY <4>3, <5>1 DEF InodeBlock, From
        <5>4. To + r \in W
          BY <2>4, <2>5, <5>2, Constants DEF Run
        <5>5. Holds(disk, From + r, i, files[i])
          BY <1>2, <5>a DEF Readiness, Kept
        <5>6. ~Is(From + r, "zero")
          BY <5>5 DEF Holds, Is
        <5>7. disk'[To + r] = disk[From + r] /\ To + r \in Blocks
          BY <2>9, <3>1, <5>2, <5>4, <5>6
        <5>8. {disk[From + r].val[2][j] : j \in 1 .. files[i]} \cap W = {}
          BY <2>3, <5>a DEF Safe, Pointed
        <5>9. Holds(disk', To + r, i, files[i])
          <6> HIDE DEF W
          <6> QED
            BY <2>6, <5>5, <5>7, <5>8, HoldsMoved DEF Writes
        <5> QED
          BY <5>3, <5>a, <5>7, <5>9
      <4> QED
        BY <4>2, <4>3
    <3>8. Readiness'
      <4>1. Kept(old.gd)'
        BY <1>1, <3>7 DEF Kept
      <4>2. Kept(disk[1].val)'
        BY <1>1, <2>8, <3>6 DEF Kept, Unharmed
      <4>3. \A g \in GroupsOf(old) : disk'[1].val[g].it = old'.gd[g].it \/ old'.gd[g].it = new'.gd[g].it
        BY <1>2, <2>8, <3>3, <3>5 DEF Readiness, To
      <4>4. Is(1, "gdt")' /\ \A b \in Heads' : disk'[b].kind \in {"super", "gdt"}
        BY <1>2, <2>8, <3>4 DEF Readiness, Is
      <4>5. /\ 0 .. new'.size - 1 \subseteq Blocks /\ 1 \in Blocks
            /\ DOMAIN files' \subseteq 1 .. Groups(old'.size) * InodeBlocks /\ DOMAIN files' # {}
        BY <1>1, <1>2, <3>2, <3>5 DEF Readiness
      <4> QED
        BY <3>4, <4>1, <4>2, <4>3, <4>4, <4>5 DEF Readiness
    <3>9. Settled'
      <4>1. NewPlaces'
        BY <2>1, <3>1, <3>2, NewPlacesStay
      <4>2. \A g \in GroupsOf(old) : QuietTable(old.gd[g].it, g) /\ QuietTable(disk[1].val[g].it, g)
        BY <1>2, QuietIs DEF Settled
      <4>3. ASSUME NEW g \in GroupsOf(old) PROVE QuietTable(old.gd[g].it, g)' /\ QuietTable(disk[1].val[g].it, g)'
        <5>1. PICK s, t, u : s = old.gd[g].it /\ t = disk[1].val[g].it /\ u = old'.gd[g].it
          OBVIOUS
        <5>2. QuietTable(s, g)' /\ QuietTable(t, g)'
          BY <3>1, <4>2, <5>1, QuietTableStays
        <5>3. QuietTable(u, g)'
          <6>1. CASE g = k
            <7>1. u = To /\ u = new'.gd[g].it
              BY <3>3, <3>5, <5>1, <6>1 DEF To
            <7> QED
              BY <2>4, <7>1 DEF QuietTable
          <6>2. CASE g # k
            BY <3>3, <5>1, <5>2, <6>2
          <6> QED
            BY <6>1, <6>2
        <5>4. t = disk'[1].val[g].it
          BY <2>8, <5>1
        <5> QED
          BY <5>1, <5>2, <5>3, <5>4 DEF QuietTable
      <4>4. Quiet(old.gd)' /\ Quiet(disk[1].val)'
        BY <3>4, <4>3 DEF Quiet, QuietTable, Table
      <4>5. \A i \in DOMAIN files : Clear(old.gd, i) /\ Clear(disk[1].val, i)
        BY <1>2 DEF Settled
      <4>6. \A i \in DOMAIN files : Pointed(old.gd, i)' = Pointed(old.gd, i)
        BY <1>1, <3>7 DEF Pointed
      <4>7. \A i \in DOMAIN files : Pointed(disk[1].val, i)' = Pointed(disk[1].val, i)
        BY <1>1, <2>8, <3>6 DEF Pointed, Unharmed
      <4>8. \A i \in DOMAIN files' : Clear(old.gd, i)' /\ Clear(disk[1].val, i)'
        BY <1>1, <3>5, <4>5, <4>6, <4>7 DEF Clear
      <4> QED
        BY <4>1, <4>4, <4>8 DEF Settled
    <3>10. TablesSoFar'
      <4>1. \A g \in GroupsOf(old) : g <= k => g < k \/ g = k
        BY <1>1 DEF GroupsOf
      <4> QED
        BY <1>1, <1>2, <2>11, <3>1, <3>3, <3>4, <3>5, <4>1 DEF TablesSoFar, To
    <3>11. Landed(W)
      BY <1>2, <2>3, <2>6, <2>7, HeadBlocks DEF Landed
    <3> QED
      BY <2>11, <3>8, <3>9, <3>10, <3>11, AfterPhases DEF FilesInv, After, Rounds
  <2> QED
    BY <2>6, <2>10, <2>11
<1> QED
  BY <1>4, <1>5

(***************************************************************************)
(* Phases 1 to 3.                                                          *)
(***************************************************************************)
(* The tables old_fs knows, before they move.                              *)
LEMMA TidyTable ==
    ASSUME ResizeInv, Tidy(old), NEW g \in GroupsOf(old)
    PROVE  /\ old.gd[g].it \in Nat \ {Nowhere} /\ Table(old.gd[g]) = Spot(old.gd[g], "it")
           /\ Table(old.gd[g]) \subseteq MetaBlocks(old) /\ Table(old.gd[g]) \subseteq old.map
<1>1. old.gd[g].it # Nowhere
  BY DEF Tidy, Parts
<1>2. old.gd[g].it \in Nat
  BY DEF ResizeInv, Layout, FsOK, GroupOK, SpotOK, Parts
<1>3. Table(old.gd[g]) = Spot(old.gd[g], "it")
  BY <1>1 DEF Table, Spot, Size
<1>4. Table(old.gd[g]) \subseteq MetaBlocks(old)
  BY DEF MetaBlocks, Structures
<1> QED
  BY <1>1, <1>2, <1>3, <1>4 DEF Tidy

LEMMA TidyInode ==
    ASSUME ResizeInv, Readiness, Tidy(old), NEW i \in DOMAIN files
    PROVE  InodeBlock(old.gd, i) \in MetaBlocks(old) /\ InodeBlock(old.gd, i) \in old.map
<1>1. GroupOfInode(i) \in GroupsOf(old) /\ i \in 1 .. Groups(old.size) * InodeBlocks /\ Groups(old.size) \in Nat
  BY InodeGroups
<1>2. old.gd[GroupOfInode(i)].it \in Nat \ {Nowhere}
  BY <1>1, TidyTable
<1>3. InodeBlock(old.gd, i) \in Table(old.gd[GroupOfInode(i)])
  BY <1>1, <1>2, InodeInTable
<1> QED
  BY <1>1, <1>3, TidyTable

LEMMA InodesApart ==
    ASSUME ResizeInv, Readiness, Tidy(old), NEW i \in DOMAIN files, NEW j \in DOMAIN files,
           InodeBlock(old.gd, i) = InodeBlock(old.gd, j)
    PROVE  i = j
<1>1. PICK g, h : g = GroupOfInode(i) /\ h = GroupOfInode(j)
  OBVIOUS
<1>2. /\ g \in GroupsOf(old) /\ i \in 1 .. Groups(old.size) * InodeBlocks /\ Groups(old.size) \in Nat
      /\ h \in GroupsOf(old) /\ j \in 1 .. Groups(old.size) * InodeBlocks
  BY <1>1, InodeGroups
<1>3. old.gd[g].it \in Nat \ {Nowhere} /\ old.gd[h].it \in Nat \ {Nowhere}
  BY <1>2, TidyTable
<1>4. InodeBlock(old.gd, i) \in Table(old.gd[g]) /\ InodeBlock(old.gd, j) \in Table(old.gd[h])
  BY <1>1, <1>2, <1>3, InodeInTable
<1>5. g = h
  <2> SUFFICES ASSUME g # h PROVE FALSE
    OBVIOUS
  <2>1. Spot(old.gd[g], "it") \cap Spot(old.gd[h], "it") = {}
    BY <1>2 DEF Tidy, Parts
  <2> QED
    BY <1>2, <1>4, <2>1, TidyTable
<1> QED
  BY <1>1, <1>2, <1>3, <1>5, SameOffset

(* Space that the old file system does not use.                            *)
LEMMA VirginHarmless ==
    ASSUME ResizeInv, Readiness, Tidy(old), \A g \in GroupsOf(old) : disk[1].val[g].it = old.gd[g].it,
           \A i \in DOMAIN files : Owns(i),
           NEW W, Writes(W), W \cap old.map = {}, W \cap Heads = {}
    PROVE  HarmlessWrite(W)
<1>1. Safe(old.gd, W)
  BY TidyInode DEF Safe, Owns
<1>2. Safe(disk[1].val, W)
  BY <1>1, SamePointed DEF Safe
<1>3. disk'[1] = disk[1]
  BY HeadBlocks DEF Writes
<1> QED
  BY <1>1, <1>2, <1>3 DEF HarmlessWrite

LEMMA TidyStays ==
    ASSUME NEW fs, NEW next, Tidy(fs),
           next.size = fs.size, next.rsv = fs.rsv, next.gd = fs.gd, next.map = fs.map
    PROVE  Tidy(next)
<1>1. GroupsOf(next) = GroupsOf(fs) /\ MetaBlocks(next) = MetaBlocks(fs) /\ AllRegions(next) = AllRegions(fs)
  BY StaysSame
<1> QED
  BY <1>1 DEF Tidy

(* The descriptors of the old file system are among the new metadata.      *)
LEMMA HeadsInNew ==
    ASSUME ResizeInv, NEW b \in Heads, b < new.size
    PROVE  b \in MetaBlocks(new) /\ b \in AllRegions(new)
<1>1. PICK d, e, n : d = DescBlocks(old) /\ e = DescBlocks(new) /\ n = new.rsv
  OBVIOUS
<1>2. /\ old.size \in Nat \ {0} /\ new.size \in Nat \ {0} /\ old.size <= new.size /\ n \in Nat
  BY <1>1 DEF ResizeInv, Layout, FsOK
<1>3. d \in Nat \ {0} /\ e \in Nat \ {0} /\ d <= e
  BY <1>1, <1>2, DescBlocksPositive, DescBlocksMonotone
<1>4. 0 \in GroupsOf(new) /\ HasSuper(0) /\ FirstBlock(0) = 0
  BY <1>2, GroupZero
<1>5. b \in 0 .. d
  BY <1>1 DEF Heads
<1>6. b \in Run(0, 1 + e + n)
  BY <1>2, <1>3, <1>5 DEF Run
<1> QED
  BY <1>1, <1>4, <1>6, RegionIn

(* In phase 1 they are marked in the old one.                              *)
LEMMA HeadsOwned ==
    ASSUME FsOK(old, old.size), Tidy(old)
    PROVE  Heads \subseteq old.map /\ Heads \subseteq MetaBlocks(old)
<1>1. PICK d, n, b : d = DescBlocks(old) /\ n = old.rsv /\ b = old.gd[0].bbm
  OBVIOUS
<1>2. old.size \in Nat \ {0} /\ n \in Nat /\ d \in Nat \ {0}
  BY <1>1, DescBlocksPositive DEF FsOK
<1>3. 0 \in GroupsOf(old) /\ HasSuper(0) /\ FirstBlock(0) = 0
  BY <1>2, GroupZero
<1>4. b \in Nat /\ b # Nowhere /\ b + 1 <= old.size
  <2>1. SpotOK(old.gd[0].bbm, Size("bbm"), old.size)
    BY <1>3 DEF FsOK, GroupOK, Parts
  <2>2. old.gd[0].bbm # Nowhere
    BY <1>3 DEF Tidy, Parts
  <2> QED
    BY <1>1, <2>1, <2>2 DEF SpotOK, Size
<1>5. b \notin AllRegions(old)
  <2>1. Spot(old.gd[0], "bbm") \cap AllRegions(old) = {}
    BY <1>3 DEF Tidy, Parts
  <2>2. b \in Spot(old.gd[0], "bbm")
    BY <1>1, <1>4 DEF Spot, Size, Run
  <2> QED
    BY <2>1, <2>2
<1>6. ~(b \in Run(0, 1 + d + n))
  <2>1. b < old.size
    BY <1>2, <1>4
  <2> QED
    BY <1>1, <1>3, <1>5, <2>1, RegionIn
<1>7. b > d
  BY <1>2, <1>4, <1>6 DEF Run
<1>8. ASSUME NEW c \in Heads PROVE c \in old.map /\ c \in MetaBlocks(old)
  <2>1. c \in 0 .. d
    BY <1>1 DEF Heads
  <2>2. c \in Run(0, 1 + d + n) /\ c < old.size
    BY <1>2, <1>4, <1>7, <2>1 DEF Run
  <2>3. c \in MetaBlocks(old)
    BY <1>1, <1>3, <2>2, RegionIn
  <2> QED
    BY <2>3 DEF Tidy
<1> QED
  BY <1>8

\* What phases 1 to 3 rest on.
Untouched ==
    /\ Tidy(old) /\ (\A g \in GroupsOf(old) : disk[1].val[g].it = old.gd[g].it)
    /\ \A i \in DOMAIN files : Owns(i)

LEMMA EarlyFacts ==
    ASSUME FilesInv, pc \in Before \ {"fix"}
    PROVE  Readiness /\ Untouched
BY DEF FilesInv, FilePhases, Untouched, Before

(* A write that harms nothing leaves it so.                                *)
LEMMA UntouchedStep ==
    ASSUME ResizeInv, Readiness, Untouched, NEW W, HarmlessWrite(W), files' = files,
           old'.size = old.size, old'.rsv = old.rsv, old'.gd = old.gd, old'.map = old.map,
           0 .. new'.size - 1 \subseteq Blocks, new' = old' \/ new'.gd = new.gd
    PROVE  Readiness' /\ Untouched'
<1>1. /\ Readiness'
      /\ \A i \in DOMAIN files : Pointed(old.gd, i)' = Pointed(old.gd, i)
      /\ \/ disk'[1] = disk[1]
         \/ \A g \in GroupsOf(old) : disk'[1].val[g].it = old.gd[g].it
  BY HarmlessReadiness
<1>2. GroupsOf(old') = GroupsOf(old) /\ MetaBlocks(old') = MetaBlocks(old)
  BY StaysSame
<1>3. Tidy(old')
  BY TidyStays DEF Untouched
<1>4. \A g \in GroupsOf(old') : disk'[1].val[g].it = old'.gd[g].it
  BY <1>1, <1>2 DEF Untouched
<1>5. \A i \in DOMAIN files' : Owns(i)'
  BY <1>1, <1>2 DEF Owns, Untouched
<1> QED
  BY <1>1, <1>3, <1>4, <1>5 DEF Untouched

LEMMA MarkErrorFiles == ResizeInv /\ FilesInv /\ MarkError => FilesInv'
<1> SUFFICES ASSUME ResizeInv, FilesInv, MarkError PROVE FilesInv'
  OBVIOUS
<1>1. PICK fs : fs = [old EXCEPT !.error = TRUE]
  OBVIOUS
<1>2. pc = "start" /\ pc' = "adjust" /\ FlushOld(fs) /\ new' = old' /\ files' = files
  BY <1>1 DEF MarkError, Goto, given
<1>3. Readiness /\ Untouched /\ new = old
  BY <1>2, EarlyFacts DEF Before, ResizeInv, Phases
<1>4. DOMAIN old = FsFields /\ FsOK(old, new.size)
  BY DEF ResizeInv, Layout, FsOK
<1>5. SameLayout(old, fs)
  BY <1>1, <1>4 DEF SameLayout, LayoutFields, FsFields
<1>6. FsOK(fs, new.size) /\ fs.size = old.size /\ fs.map = old.map /\ fs.gd = old.gd /\ fs.rsv = old.rsv
  BY <1>4, <1>5, LayoutOK
<1>7. old'.gd = old.gd /\ old'.size = old.size /\ old'.map = old.map /\ old'.rsv = old.rsv
  BY <1>2, <1>6, FlushLayout
<1>8. HarmlessWrite(Heads)
  BY <1>2, <1>3, <1>6, FlushHarmless
<1>9. 0 .. new'.size - 1 \subseteq Blocks
  BY <1>2, <1>3, <1>7 DEF Readiness
<1>10. Readiness' /\ Untouched'
  BY <1>2, <1>3, <1>7, <1>8, <1>9, UntouchedStep
<1> QED
  BY <1>2, <1>10 DEF FilesInv, FilePhases, Untouched, Before, After

LEMMA ZeroNewTableFiles == ResizeInv /\ FilesInv /\ ZeroNewTable => FilesInv'
<1> SUFFICES ASSUME ResizeInv, FilesInv, ZeroNewTable PROVE FilesInv'
  OBVIOUS
<1>1. pc = "zero" /\ k < Groups(new.size) /\ UNCHANGED <<old, new, reserve, files>> /\ k \in Nat
  BY DEF ZeroNewTable, handles, given, ResizeInv, Control
<1>2. Readiness /\ Untouched /\ Grown
  BY <1>1, EarlyFacts DEF Before, FilesInv, FilePhases
<1>3. FsOK(old, old.size) /\ k >= Groups(old.size)
  BY <1>1 DEF ResizeInv, Phases
<1>4. k \in GroupsOf(new) \ GroupsOf(old)
  <2>1. Groups(old.size) \in Nat /\ Groups(new.size) \in Nat
    BY GroupsNat DEF ResizeInv, Layout, FsOK
  <2> QED
    BY <1>1, <1>3, <2>1 DEF GroupsOf
<1>5. PICK t : t = new.gd[k].it
  OBVIOUS
<1>6. t \in Nat /\ Run(t, InodeBlocks) = Table(new.gd[k])
  <2>1. t # Nowhere
    BY <1>2, <1>4, <1>5 DEF Grown, Complete, Parts
  <2>2. t \in Nat
    BY <1>4, <1>5 DEF ResizeInv, Layout, FsOK, GroupOK, SpotOK, Parts
  <2> QED
    BY <1>5, <2>1, <2>2 DEF Table
<1> DEFINE W == Run(t, InodeBlocks)
<1>7. W \cap old.map = {}
  <2>1. Structures(new.gd[k]) \cap old.map = {}
    BY <1>2, <1>4 DEF Grown
  <2> QED
    BY <1>6, <2>1 DEF Structures
<1>8. Writes(W)
  <2>1. \E n \in 0 .. InodeBlocks : WriteRun(t, n, Content("zero", 0))
    <3>1. InodeBlocks \in 0 .. InodeBlocks /\ 0 .. InodeBlocks - 1 \subseteq 0 .. InodeBlocks
      BY Constants
    <3> QED
      BY <1>5, <3>1 DEF ZeroNewTable
  <2>2. PICK n \in 0 .. InodeBlocks : WriteRun(t, n, Content("zero", 0))
    BY <2>1
  <2>3. Run(t, n) \subseteq W
    BY <1>6, Constants DEF Run
  <2> HIDE DEF W
  <2> QED
    BY <2>2, <2>3 DEF WriteRun, Writes
<1> HIDE DEF W
<1>9. W \cap Heads = {}
  BY <1>2, <1>3, <1>7, HeadsOwned DEF Untouched
<1>10. HarmlessWrite(W)
  BY <1>2, <1>7, <1>8, <1>9, VirginHarmless DEF Untouched
<1>11. Readiness' /\ Untouched'
  BY <1>1, <1>2, <1>10, UntouchedStep DEF Readiness
<1>12. pc' = "zero" \/ pc' = "failed"
  BY <1>1 DEF ZeroNewTable, Advance, Fail
<1>13. Grown'
  BY <1>1, <1>2 DEF Grown, RoomTaken, Complete
<1> QED
  BY <1>11, <1>12, <1>13 DEF FilesInv, FilePhases, Untouched, Before, After

LEMMA MovePairs ==
    ASSUME MapOK, NEW n \in 1 .. Len(bmap)
    PROVE  bmap[n][1] \in move /\ bmap[n][2] \in (0 .. new.size - 1) \ (old.map \cup MetaBlocks(new))
<1>1. PICK room : room = (0 .. new.size - 1) \ (old.map \cup MetaBlocks(new))
  OBVIOUS
<1>2. bmap \in Seq(move \X room)
  BY <1>1 DEF MapOK
<1>3. bmap[n] \in move \X room
  BY <1>2
<1> QED
  BY <1>1, <1>3

LEMMA PlanStays ==
    ASSUME MovesKnown, MapOK, NewPlaces, Quiet(old.gd), UNCHANGED <<old, new, move, bmap>>
    PROVE  MovesKnown' /\ MapOK' /\ NewPlaces' /\ Quiet(old.gd)'
<1>1. MovesKnown'
  BY DEF MovesKnown
<1>2. MapOK'
  BY DEF MapOK
<1>3. NewPlaces'
  BY NewPlacesStay DEF Stays
<1>4. Quiet(old.gd)'
  BY DEF Quiet, Indirect
<1> QED
  BY <1>1, <1>2, <1>3, <1>4

LEMMA CopyBlockFiles == ResizeInv /\ FilesInv /\ CopyBlock => FilesInv'
<1> SUFFICES ASSUME ResizeInv, FilesInv, CopyBlock PROVE FilesInv'
  OBVIOUS
<1>1. pc = "copy" /\ k <= Len(bmap) /\ UNCHANGED <<old, new, move, bmap, files>> /\ k \in Nat \ {0}
  BY DEF CopyBlock, handles, given, ResizeInv, Control, Phases
<1>2. Readiness /\ Untouched /\ MovesKnown /\ MapOK /\ NewPlaces /\ Quiet(old.gd)
  BY <1>1, EarlyFacts, BeforeFacts DEF Before
<1>3. \A n \in 1 .. Len(bmap) : n < k => Copied(n)
  BY <1>1 DEF FilesInv, FilePhases
<1>4. Len(bmap) \in Nat /\ k \in 1 .. Len(bmap) /\ move \subseteq old.map
  BY <1>1, <1>2 DEF MapOK, ResizeInv, Layout
<1>5. PICK s, t : s = bmap[k][1] /\ t = bmap[k][2]
  OBVIOUS
<1>6. s \in move /\ t \in (0 .. new.size - 1) \ (old.map \cup MetaBlocks(new)) /\ new.size \in Nat
  BY <1>2, <1>4, <1>5, MovePairs, OwnedBelow
<1>7. DOMAIN disk = Blocks /\ t \in Blocks
  BY <1>2, <1>6 DEF ResizeInv, Control, Readiness
<1>8. \/ disk' = [disk EXCEPT ![t] = disk[s]] /\ pc' = "copy" /\ k' = k + 1
      \/ disk' = disk /\ pc' = "failed"
  BY <1>1, <1>5 DEF CopyBlock, Write, Advance, Fail
<1>9. Writes({t})
  BY <1>7, <1>8 DEF Writes
<1>10. {t} \cap old.map = {} /\ {t} \cap Heads = {}
  <2>1. t < new.size
    BY <1>6
  <2> QED
    BY <1>6, <2>1, HeadsInNew
<1>11. HarmlessWrite({t})
  BY <1>2, <1>9, <1>10, VirginHarmless DEF Untouched
<1>12. Readiness' /\ Untouched'
  BY <1>1, <1>2, <1>11, UntouchedStep DEF Readiness
<1>13. CASE pc' = "failed"
  BY <1>12, <1>13, FailedPhases DEF FilesInv
<1>14. CASE pc' = "copy"
  <2>1. disk' = [disk EXCEPT ![t] = disk[s]] /\ k' = k + 1
    BY <1>8, <1>14
  <2>2. MovesKnown' /\ MapOK' /\ NewPlaces' /\ Quiet(old.gd)'
    BY <1>1, <1>2, PlanStays
  <2>3. ASSUME NEW n \in 1 .. Len(bmap), n < k + 1 PROVE Copied(n)'
    <3>1. PICK x, y : x = bmap[n][1] /\ y = bmap[n][2]
      OBVIOUS
    <3>2. x \in move /\ y \in 0 .. new.size - 1
      BY <1>2, <3>1, MovePairs
    <3>3. x # t /\ s # t /\ x \in Blocks /\ y \in Blocks /\ s \in Blocks
      BY <1>2, <1>4, <1>6, <3>2 DEF Readiness, ResizeInv, Layout
    <3>4. CASE n = k
      BY <1>1, <1>5, <1>7, <2>1, <3>3, <3>4 DEF Copied
    <3>5. CASE n # k
      <4>1. n < k
        BY <1>1, <1>4, <2>3, <3>5
      <4>2. disk[y] = disk[x]
        BY <1>3, <3>1, <4>1 DEF Copied
      <4>3. y # t
        BY <1>2, <1>4, <1>5, <3>1, <3>5 DEF MapOK
      <4> QED
        BY <1>1, <1>7, <2>1, <3>1, <3>3, <4>2, <4>3 DEF Copied
    <3> QED
      BY <3>4, <3>5
  <2>4. \A n \in 1 .. Len(bmap)' : n < k' => Copied(n)'
    BY <1>1, <2>1, <2>3
  <2> QED
    BY <1>12, <1>14, <2>2, <2>4 DEF FilesInv, FilePhases, Untouched, Before, After
<1> QED
  BY <1>8, <1>13, <1>14

(* A file's block, or its copy, lies beside the new metadata.              *)
LEMMA TranslateIs ==
    ASSUME ResizeInv, MovesKnown, MapOK, \A n \in 1 .. Len(bmap) : Copied(n),
           NEW p \in old.map \ MetaBlocks(old)
    PROVE  /\ ExtentTranslate(p) \in (0 .. new.size - 1) \ MetaBlocks(new)
           /\ disk[ExtentTranslate(p)] = disk[p]
<1>1. DOMAIN bmap = 1 .. Len(bmap)
  BY DEF MapOK
<1>2. CASE \E n \in DOMAIN bmap : bmap[n][1] = p
  <2> DEFINE P(n) == bmap[n][1] = p
  <2>1. \E n \in DOMAIN bmap : P(n)
    BY <1>2
  <2>2. PICK m : m = CHOOSE n \in DOMAIN bmap : P(n)
    OBVIOUS
  <2>3. ExtentTranslate(p) = bmap[m][2]
    BY <1>2, <2>2 DEF ExtentTranslate
  <2> HIDE DEF P
  <2>4. m \in DOMAIN bmap /\ P(m)
    BY <2>1, <2>2
  <2>5. m \in 1 .. Len(bmap) /\ bmap[m][1] = p
    BY <1>1, <2>4 DEF P
  <2>6. disk[bmap[m][2]] = disk[p]
    BY <2>5 DEF Copied
  <2> QED
    BY <2>3, <2>5, <2>6, MovePairs
<1>3. CASE ~\E n \in DOMAIN bmap : bmap[n][1] = p
  <2>1. ExtentTranslate(p) = p
    BY <1>3 DEF ExtentTranslate
  <2>2. p \notin move
    BY <1>1, <1>3 DEF MapOK
  <2>3. p \notin MetaBlocks(new)
    BY <2>2 DEF MovesKnown
  <2> QED
    BY <2>1, <2>3, OwnedBelow
<1> QED
  BY <1>2, <1>3

\* The inode that FixInode is at.
Turn == IF pc = "copy" THEN 1 ELSE k

(* Before it, the inodes up to there are fixed.                            *)
LEMMA FixTurn ==
    ASSUME ResizeInv, FilesInv, FixInode
    PROVE  /\ pc \in {"copy", "fix"} /\ Turn \in 1 .. Len(InUse)
           /\ \A n \in 1 .. Len(bmap) : Copied(n)
           /\ \A j \in 1 .. Len(InUse) : IF j < Turn THEN Clear(old.gd, InUse[j]) ELSE Owns(InUse[j])
<1>1. Readiness /\ pc \in {"copy", "fix"} /\ k \in Nat
  BY DEF FilesInv, FixInode, ResizeInv, Control
<1>2. InUse \in Seq(DOMAIN files) /\ \A i \in DOMAIN files : \E n \in 1 .. Len(InUse) : InUse[n] = i
  BY <1>1, InUseAll
<1>3. Len(InUse) \in Nat /\ 1 <= Len(InUse)
  <2>1. PICK i \in DOMAIN files : TRUE
    BY <1>1 DEF Readiness
  <2>2. PICK n \in 1 .. Len(InUse) : InUse[n] = i
    BY <1>2
  <2> QED
    BY <1>2, <2>2
<1>4. CASE pc = "copy"
  <2>1. k > Len(bmap) /\ MapOK /\ \A n \in 1 .. Len(bmap) : n < k => Copied(n)
    BY <1>4 DEF FixInode, FilesInv, FilePhases
  <2>2. Len(bmap) \in Nat
    BY <2>1 DEF MapOK
  <2>3. \A n \in 1 .. Len(bmap) : n < k
    BY <1>1, <2>1, <2>2
  <2>4. \A i \in DOMAIN files : Owns(i)
    BY <1>4 DEF FilesInv, FilePhases, Before
  <2>5. \A j \in 1 .. Len(InUse) : ~(j < 1) /\ InUse[j] \in DOMAIN files
    BY <1>2, <1>3
  <2> QED
    BY <1>3, <1>4, <2>1, <2>3, <2>4, <2>5 DEF Turn
<1>5. CASE pc = "fix"
  <2>1. /\ \A n \in 1 .. Len(bmap) : Copied(n)
        /\ \A j \in 1 .. Len(InUse) : IF j < k THEN Clear(old.gd, InUse[j]) ELSE Owns(InUse[j])
    BY <1>5 DEF FilesInv, FilePhases
  <2>2. k <= Len(InUse) /\ k # 0
    BY <1>5 DEF FixInode, FilesInv, FilePhases
  <2> QED
    BY <1>1, <1>3, <1>5, <2>1, <2>2 DEF Turn
<1> QED
  BY <1>1, <1>4, <1>5

LEMMA SeqIs == ASSUME NEW S, NEW n \in Nat, NEW f \in [1 .. n -> S] PROVE f \in Seq(S)
BY SeqDef

LEMMA FixInodeFiles == ResizeInv /\ FilesInv /\ FixInode => FilesInv'
<1> SUFFICES ASSUME ResizeInv, FilesInv, FixInode PROVE FilesInv'
  OBVIOUS
<1>1. UNCHANGED <<old, new, move, bmap, files>>
  BY DEF FixInode, handles, given
<1>2. /\ pc \in {"copy", "fix"} /\ Turn \in 1 .. Len(InUse)
      /\ \A n \in 1 .. Len(bmap) : Copied(n)
      /\ \A j \in 1 .. Len(InUse) : IF j < Turn THEN Clear(old.gd, InUse[j]) ELSE Owns(InUse[j])
  BY FixTurn
<1>3. /\ Readiness /\ Tidy(old) /\ \A g \in GroupsOf(old) : disk[1].val[g].it = old.gd[g].it
      /\ MovesKnown /\ MapOK /\ NewPlaces /\ Quiet(old.gd)
  BY <1>2, BeforeFacts
<1>4. /\ InUse \in Seq(DOMAIN files)
      /\ \A m, n \in 1 .. Len(InUse) : m # n => InUse[m] # InUse[n]
      /\ \A i \in DOMAIN files : \E n \in 1 .. Len(InUse) : InUse[n] = i
  BY <1>3, InUseAll
<1>5. PICK n, i, b, ptrs, fixed :
        /\ n = Turn /\ i = InUse[n] /\ b = InodeBlock(old.gd, i) /\ ptrs = disk[b].val[2]
        /\ fixed = [j \in DOMAIN ptrs |-> ExtentTranslate(ptrs[j])]
  OBVIOUS
<1>6. n \in 1 .. Len(InUse) /\ n \in Nat /\ Len(InUse) \in Nat /\ i \in DOMAIN files
  BY <1>2, <1>4, <1>5
<1>7. \/ disk' = [disk EXCEPT ![b] = Content("inode", <<disk[b].val[1], fixed>>)] /\ pc' = "fix" /\ k' = n + 1
      \/ disk' = disk /\ pc' = "failed"
  <2>1. PICK written : written = Content("inode", <<disk[b].val[1], fixed>>)
    OBVIOUS
  <2>2. \/ Write(b, written) /\ Goto("fix", n + 1)
        \/ Fail /\ UNCHANGED disk
    BY <1>5, <2>1 DEF FixInode, Turn
  <2> QED
    BY <2>1, <2>2 DEF Write, Goto, Fail
<1>8. CASE pc' = "failed"
  <2>1. disk' = disk
    BY <1>7, <1>8
  <2>2. Readiness'
    BY <1>1, <1>3, <2>1, NoWrite, HarmlessReadiness DEF Readiness
  <2> QED
    BY <1>8, <2>2, FailedPhases DEF FilesInv
<1>9. CASE pc' = "fix"
  <2>1. disk' = [disk EXCEPT ![b] = Content("inode", <<disk[b].val[1], fixed>>)] /\ k' = n + 1
    BY <1>7, <1>9
  <2>2. \A x \in DOMAIN files : Holds(disk, InodeBlock(old.gd, x), x, files[x])
    BY <1>3 DEF Readiness, Kept
  <2>3. Holds(disk, b, i, files[i]) /\ b \in Blocks /\ disk[b].kind = "inode" /\ disk[b].val[1] = i
    <3>1. Holds(disk, b, i, files[i])
      BY <1>5, <1>6, <2>2
    <3> QED
      BY <3>1 DEF Holds
  <2>4. /\ ptrs \in Seq(Blocks) /\ DOMAIN ptrs = 1 .. files[i] /\ Len(ptrs) = files[i]
        /\ \A j \in 1 .. files[i] : disk[ptrs[j]].kind = "data" /\ disk[ptrs[j]].val = <<i, j>>
    <3>1. ptrs \in Seq(Blocks) /\ DOMAIN ptrs = 1 .. files[i] /\ Len(ptrs) = files[i]
      BY <1>5, <2>3, PointedIn
    <3> QED
      BY <1>5, <2>3, <3>1 DEF Holds
  <2>5. Pointed(old.gd, i) \subseteq old.map \ MetaBlocks(old)
    <3>1. ~(n < n)
      BY <1>6
    <3>2. Owns(i)
      BY <1>2, <1>5, <1>6, <3>1
    <3> QED
      BY <3>2 DEF Owns
  <2>6. ASSUME NEW j \in 1 .. files[i]
        PROVE  /\ fixed[j] \in (0 .. new.size - 1) \ MetaBlocks(new) /\ fixed[j] \in Blocks /\ fixed[j] # b
               /\ disk[fixed[j]].kind = "data" /\ disk[fixed[j]].val = <<i, j>>
    <3>1. ptrs[j] \in old.map \ MetaBlocks(old)
      BY <1>5, <2>5 DEF Pointed
    <3>2. fixed[j] = ExtentTranslate(ptrs[j])
      BY <1>5, <2>4
    <3>3. fixed[j] \in (0 .. new.size - 1) \ MetaBlocks(new) /\ disk[fixed[j]] = disk[ptrs[j]]
      BY <1>2, <1>3, <3>1, <3>2, TranslateIs
    <3> QED
      BY <1>3, <2>3, <2>4, <3>3 DEF Readiness
  <2>7. PICK c : c = disk'[b]
    OBVIOUS
  <2>8. c.kind = "inode" /\ c.val[1] = i /\ c.val[2] = fixed
    <3>1. c = Content("inode", <<i, fixed>>)
      BY <2>1, <2>3, <2>7 DEF ResizeInv, Control
    <3> QED
      BY <3>1 DEF Content
  <2>9. \A x \in Blocks \ {b} : disk'[x] = disk[x]
    BY <2>1 DEF ResizeInv, Control
  <2>10. Holds(disk', b, i, files[i])
    <3>1. DOMAIN fixed = 1 .. files[i]
      BY <1>5, <2>4
    <3>2. fixed \in Seq(Blocks) /\ Len(fixed) = files[i]
      <4>1. files[i] \in Nat
        BY <2>4
      <4>2. fixed = [j \in 1 .. files[i] |-> fixed[j]]
        BY <1>5, <2>4
      <4>3. \A j \in 1 .. files[i] : fixed[j] \in Blocks
        BY <2>6
      <4>4. fixed \in Seq(Blocks)
        <5>1. fixed \in [1 .. files[i] -> Blocks]
          BY <4>2, <4>3
        <5> QED
          BY <4>1, <5>1, SeqIs
      <4> QED
        BY <3>1, <4>1, <4>4
    <3>3. \A j \in DOMAIN fixed : disk'[fixed[j]].kind = "data" /\ disk'[fixed[j]].val = <<i, j>>
      BY <2>6, <2>9, <3>1
    <3> QED
      BY <2>3, <2>7, <2>8, <3>2, <3>3 DEF Holds
  <2>11. ASSUME NEW x \in DOMAIN files, x # i
         PROVE  /\ Holds(disk', InodeBlock(old.gd, x), x, files[x])
                /\ disk'[InodeBlock(old.gd, x)] = disk[InodeBlock(old.gd, x)]
    <3>1. InodeBlock(old.gd, x) # b
      BY <1>3, <1>5, <1>6, <2>11, InodesApart
    <3>2. PICK y : y = InodeBlock(old.gd, x)
      OBVIOUS
    <3>3. Holds(disk, y, x, files[x])
      BY <2>2, <3>2
    <3>4. DOMAIN disk[y].val[2] = 1 .. files[x]
      BY <3>3, PointedIn
    <3>5. \A j \in 1 .. files[x] : disk[disk[y].val[2][j]].kind = "data"
      BY <3>3, <3>4 DEF Holds
    <3>6. {disk[y].val[2][j] : j \in 1 .. files[x]} \cap {b} = {}
      BY <2>3, <3>5
    <3>7. Holds(disk', y, x, files[x]) /\ disk'[y] = disk[y]
      <4>1. PICK W : W = {b}
        OBVIOUS
      <4>2. /\ y \notin W /\ \A z \in Blocks \ W : disk'[z] = disk[z]
            /\ {disk[y].val[2][j] : j \in 1 .. files[x]} \cap W = {}
        BY <2>9, <3>1, <3>2, <3>6, <4>1
      <4> QED
        BY <3>3, <4>2, HoldsKept
    <3> QED
      BY <3>2, <3>7
  <2>12. b \notin Heads /\ disk'[1] = disk[1]
    <3>1. b \notin Heads
      BY <1>3, <2>3 DEF Readiness
    <3> QED
      BY <1>3, <2>9, <3>1, HeadBlocks
  <2>13. Kept(old.gd)' /\ Kept(disk[1].val)'
    <3>1. \A x \in DOMAIN files : Holds(disk', InodeBlock(old.gd, x), x, files[x])
      BY <1>5, <2>10, <2>11
    <3>2. \A x \in DOMAIN files : InodeBlock(disk[1].val, x) = InodeBlock(old.gd, x)
      BY <1>3, SamePointed
    <3> QED
      BY <1>1, <2>12, <3>1, <3>2 DEF Kept
  <2>14. Readiness'
    <3>1. \A x \in Heads' : disk'[x].kind \in {"super", "gdt"}
      BY <1>1, <1>3, <2>9, <2>12 DEF Readiness, Heads
    <3> QED
      BY <1>1, <1>3, <2>12, <2>13, <3>1 DEF Readiness, Is
  <2>15. Clear(old.gd, i)'
    <3>1. {disk'[InodeBlock(old.gd, i)].val[2][j] : j \in 1 .. files[i]} = {fixed[j] : j \in 1 .. files[i]}
      BY <1>5, <2>7, <2>8
    <3>2. Pointed(old.gd, i)' = {fixed[j] : j \in 1 .. files[i]}
      BY <1>1, <3>1 DEF Pointed
    <3> QED
      BY <1>1, <2>6, <3>2 DEF Clear
  <2>16. ASSUME NEW x \in DOMAIN files, x # i PROVE Pointed(old.gd, x)' = Pointed(old.gd, x)
    BY <1>1, <2>11, <2>16 DEF Pointed
  <2>17. \A j \in 1 .. Len(InUse) : IF j < n + 1 THEN Clear(old.gd, InUse[j])' ELSE Owns(InUse[j])'
    <3> SUFFICES ASSUME NEW j \in 1 .. Len(InUse)
                 PROVE  IF j < n + 1 THEN Clear(old.gd, InUse[j])' ELSE Owns(InUse[j])'
      OBVIOUS
    <3>1. CASE j = n
      <4>1. j < n + 1
        BY <1>6, <3>1
      <4> QED
        BY <1>1, <1>5, <2>15, <3>1, <4>1 DEF InUse
    <3>2. CASE j # n
      <4>1. (j < n + 1) <=> (j < n)
        BY <1>6, <3>2
      <4>2. PICK x : x = InUse[j]
        OBVIOUS
      <4>3. x \in DOMAIN files /\ x # i
        <5>1. InUse[j] \in DOMAIN files
          BY <1>4
        <5>2. InUse[j] # InUse[n]
          BY <1>4, <1>6, <3>2
        <5> QED
          BY <1>5, <4>2, <5>1, <5>2
      <4>4. IF j < n THEN Clear(old.gd, x) ELSE Owns(x)
        BY <1>2, <1>5, <4>2
      <4>5. Pointed(old.gd, x)' = Pointed(old.gd, x)
        BY <2>16, <4>3
      <4>6. IF j < n THEN Clear(old.gd, x)' ELSE Owns(x)'
        BY <1>1, <4>4, <4>5 DEF Clear, Owns
      <4> QED
        BY <1>1, <4>1, <4>2, <4>6 DEF InUse
    <3> QED
      BY <3>1, <3>2
  <2>18. ASSUME NEW m \in 1 .. Len(bmap) PROVE Copied(m)'
    <3>1. PICK s, t : s = bmap[m][1] /\ t = bmap[m][2]
      OBVIOUS
    <3>2. s \in move /\ t \in (0 .. new.size - 1) \ (old.map \cup MetaBlocks(new))
      BY <1>3, <3>1, MovePairs
    <3>3. b \in MetaBlocks(old) /\ b \in old.map
      BY <1>3, <1>5, <1>6, TidyInode
    <3>4. s # b /\ t # b
      BY <1>3, <3>2, <3>3 DEF MovesKnown
    <3>5. s \in Blocks /\ t \in Blocks
      BY <1>3, <3>2 DEF Readiness, ResizeInv, Layout
    <3>6. disk[t] = disk[s]
      BY <1>2, <3>1 DEF Copied
    <3> QED
      BY <1>1, <2>9, <3>1, <3>4, <3>5, <3>6 DEF Copied
  <2>19. MovesKnown' /\ MapOK' /\ NewPlaces' /\ Quiet(old.gd)'
    BY <1>1, <1>3, PlanStays
  <2>20. Tidy(old)' /\ \A g \in GroupsOf(old)' : disk'[1].val[g].it = old'.gd[g].it
    BY <1>1, <1>3, <2>12
  <2>21. InUse' = InUse /\ Len(bmap)' = Len(bmap) /\ k' # 0
    BY <1>1, <1>6, <2>1 DEF InUse
  <2>22. \A j \in 1 .. Len(InUse)' : IF j < k' THEN Clear(old.gd, InUse[j])' ELSE Owns(InUse[j])'
    BY <2>1, <2>17, <2>21
  <2>23. \A m \in 1 .. Len(bmap)' : Copied(m)'
    BY <2>18, <2>21
  <2> QED
    BY <1>9, <2>14, <2>19, <2>20, <2>21, <2>22, <2>23 DEF FilesInv, FilePhases, Before, After
<1> QED
  BY <1>7, <1>8, <1>9

(***************************************************************************)
(* The plan.                                                               *)
(***************************************************************************)
LEMMA PartsIn ==
    ASSUME NEW s, \A p \in Parts : s[p] \in Nat \ {Nowhere}
    PROVE  /\ Structures(s) = UNION {Spot(s, p) : p \in Parts}
           /\ Table(s) = Spot(s, "it") /\ Spot(s, "bbm") = {s.bbm} /\ Spot(s, "ibm") = {s.ibm}
<1>1. s.bbm \in Nat /\ s.ibm \in Nat /\ s.bbm # Nowhere /\ s.ibm # Nowhere /\ s.it # Nowhere
  BY DEF Parts
<1>2. \A b \in Nat : Run(b, 1) = {b}
  BY DEF Run
<1>3. Spot(s, "bbm") = {s.bbm} /\ Spot(s, "ibm") = {s.ibm}
  BY <1>1, <1>2 DEF Spot, Size
<1>4. Table(s) = Spot(s, "it")
  BY <1>1 DEF Table, Spot, Size
<1>5. Structures(s) = Spot(s, "bbm") \cup Spot(s, "ibm") \cup Spot(s, "it")
  BY <1>1, <1>3, <1>4 DEF Structures
<1> QED
  BY <1>3, <1>4, <1>5 DEF Parts

LEMMA NewParts ==
    ASSUME ResizeInv, Complete, NEW h \in GroupsOf(new)
    PROVE  \A p \in Parts : new.gd[h][p] \in Nat \ {Nowhere}
BY DEF ResizeInv, Layout, FsOK, GroupOK, SpotOK, Complete

LEMMA OldParts ==
    ASSUME ResizeInv, Tidy(old), NEW h \in GroupsOf(old)
    PROVE  \A p \in Parts : old.gd[h][p] \in Nat \ {Nowhere}
BY DEF ResizeInv, Layout, FsOK, GroupOK, SpotOK, Tidy

(* If the structures lie apart, so do the tables.                          *)
LEMMA PlanApart ==
    ASSUME ResizeInv, Planned, StructuresApart
    PROVE  TablesApart
<1>1. new.size \in Nat /\ old.size \in Nat \ {0} /\ GroupsOf(old) \subseteq GroupsOf(new)
  BY DEF ResizeInv, Layout, FsOK
<1>2. ASSUME NEW h \in GroupsOf(new)
      PROVE  /\ Table(new.gd[h]) \subseteq Structures(new.gd[h]) /\ {new.gd[h].bbm, new.gd[h].ibm} \subseteq Structures(new.gd[h])
             /\ Structures(new.gd[h]) \subseteq 1 .. new.size - 1 /\ Table(new.gd[h]) = Spot(new.gd[h], "it")
  <2>1. {new.gd[h].bbm, new.gd[h].ibm} \cup Table(new.gd[h]) = Structures(new.gd[h]) /\ Structures(new.gd[h]) \subseteq 1 .. new.size - 1
    BY NewTableIs DEF Planned
  <2>2. Table(new.gd[h]) = Spot(new.gd[h], "it")
    BY NewParts, PartsIn DEF Planned
  <2> QED
    BY <2>1, <2>2
<1>3. ASSUME NEW b \in Heads, NEW h \in GroupsOf(new), b \in Structures(new.gd[h])
      PROVE  b \in AllRegions(new) /\ b \in Regions(old, new)
  <2>1. b < new.size
    BY <1>1, <1>2, <1>3
  <2>2. PICK d, e, n : d = DescBlocks(old) /\ e = DescBlocks(new) /\ n = new.rsv
    OBVIOUS
  <2>3. d \in Nat \ {0} /\ e \in Nat \ {0} /\ d <= e /\ n \in Nat
    BY <2>2, DescBlocksPositive, DescBlocksMonotone DEF ResizeInv, Layout, FsOK
  <2>4. 0 \in GroupsOf(old) /\ HasSuper(0) /\ FirstBlock(0) = 0
    BY <1>1, GroupZero
  <2>5. b \in Run(0, 1 + e + n)
    <3>1. b \in 0 .. d
      BY <2>2 DEF Heads
    <3> QED
      BY <2>3, <3>1 DEF Run
  <2>6. b \in SuperAndBgd(new, 0)
    BY <2>1, <2>2, <2>4, <2>5 DEF SuperAndBgd
  <2> QED
    BY <1>1, <2>4, <2>6 DEF AllRegions, Regions
<1>4. ASSUME NEW g \in GroupsOf(old) PROVE Table(new.gd[g]) \cap (AllRegions(new) \cup Heads) = {}
  <2>1. Structures(new.gd[g]) \cap Regions(old, new) = {}
    BY DEF StructuresApart
  <2>2. ASSUME NEW h \in GroupsOf(new) PROVE Table(new.gd[g]) \cap SuperAndBgd(new, h) = {}
    <3>1. CASE h \in GroupsOf(old)
      BY <1>1, <1>2, <2>1, <3>1 DEF Regions
    <3>2. CASE h \notin GroupsOf(old)
      <4>1. Spot(new.gd[g], "it") \cap (SuperAndBgd(new, h) \cup Structures(new.gd[h])) = {}
        BY <3>2 DEF Planned, Beside, Parts
      <4> QED
        BY <1>1, <1>2, <4>1
    <3> QED
      BY <3>1, <3>2
  <2>3. Table(new.gd[g]) \cap AllRegions(new) = {}
    BY <2>2 DEF AllRegions
  <2> QED
    BY <1>1, <1>2, <1>3, <2>3
<1>5. ASSUME NEW g \in GroupsOf(old), NEW h \in GroupsOf(new)
      PROVE  Table(new.gd[g]) \cap {new.gd[h].bbm, new.gd[h].ibm} = {}
  <2>1. CASE h = g
    BY <2>1 DEF Planned, Beside
  <2>2. CASE h \in GroupsOf(old) /\ h # g
    <3>1. Structures(new.gd[g]) \cap Structures(new.gd[h]) = {}
      BY <2>2 DEF StructuresApart
    <3> QED
      BY <1>1, <1>2, <3>1
  <2>3. CASE h \notin GroupsOf(old)
    <3>1. Spot(new.gd[g], "it") \cap Structures(new.gd[h]) = {}
      BY <2>3 DEF Planned, Beside, Parts
    <3> QED
      BY <1>1, <1>2, <3>1
  <2> QED
    BY <2>1, <2>2, <2>3
<1>6. ASSUME NEW g \in GroupsOf(old), NEW h \in GroupsOf(old), g # h PROVE Table(new.gd[g]) \cap Table(new.gd[h]) = {}
  BY <1>1, <1>2, <1>6 DEF StructuresApart
<1>7. ASSUME NEW h \in GroupsOf(new) PROVE {new.gd[h].bbm, new.gd[h].ibm} \cap Heads = {}
  <2>1. CASE h \in GroupsOf(old)
    BY <1>2, <1>3, <2>1 DEF StructuresApart
  <2>2. CASE h \notin GroupsOf(old)
    BY <1>2, <2>2 DEF Planned
  <2> QED
    BY <2>1, <2>2
<1> QED
  BY <1>4, <1>5, <1>6, <1>7 DEF TablesApart

(* A table that moves leaves a place that nothing of the new layout takes. *)
LEMMA PlanQuiet ==
    ASSUME ResizeInv, Planned, Tidy(old)
    PROVE  Quiet(old.gd)
<1>1. ASSUME NEW g \in GroupsOf(old), old.gd[g].it # new.gd[g].it, NEW h \in GroupsOf(new)
      PROVE  Table(old.gd[g]) \cap Structures(new.gd[h]) = {}
  <2>1. Structures(new.gd[h]) = UNION {Spot(new.gd[h], p) : p \in Parts}
    BY NewParts, PartsIn DEF Planned
  <2>2. Table(old.gd[g]) = Spot(old.gd[g], "it") /\ Table(old.gd[g]) \subseteq Structures(old.gd[g])
    BY TidyTable DEF Structures
  <2>3. ASSUME NEW p \in Parts PROVE Table(old.gd[g]) \cap Spot(new.gd[h], p) = {}
    <3>1. CASE h \in GroupsOf(old) /\ new.gd[h][p] = old.gd[h][p]
      <4>1. g # h \/ "it" # p
        BY <1>1, <3>1
      <4>2. Spot(old.gd[g], "it") \cap Spot(old.gd[h], p) = {}
        BY <3>1, <4>1 DEF Tidy, Parts
      <4>3. Spot(new.gd[h], p) = Spot(old.gd[h], p)
        BY <3>1 DEF Spot
      <4> QED
        BY <2>2, <4>2, <4>3
    <3>2. CASE Spot(new.gd[h], p) \cap Structures(old.gd[g]) = {}
      BY <2>2, <3>2
    <3> QED
      BY <3>1, <3>2 DEF Planned, Elsewhere
  <2> QED
    BY <2>1, <2>3
<1>2. ASSUME NEW g \in GroupsOf(old) PROVE Table(old.gd[g]) \cap Indirect = {}
  <2> SUFFICES ASSUME NEW b \in Table(old.gd[g]), b \in Indirect PROVE FALSE
    OBVIOUS
  <2>1. PICK d, e, m, n : d = DescBlocks(old) /\ m = old.rsv /\ e = DescBlocks(new) /\ n = new.rsv
    OBVIOUS
  <2>2. d \in Nat \ {0} /\ e \in Nat \ {0} /\ m \in Nat /\ n \in Nat /\ old.size \in Nat \ {0} /\ old.map \subseteq 0 .. old.size - 1
    BY <2>1, DescBlocksPositive DEF ResizeInv, Layout, FsOK
  <2>3. new.ri /\ b \in Run(1 + e, n)
    BY <2>1 DEF Indirect
  <2>4. n = 0 \/ e + n <= d + m
    BY <2>1, <2>3 DEF Planned, RoomTaken
  <2>5. b \in Run(0, 1 + d + m)
    BY <2>2, <2>3, <2>4 DEF Run
  <2>6. b \in old.map /\ Table(old.gd[g]) = Spot(old.gd[g], "it")
    BY TidyTable
  <2>7. b < old.size
    BY <2>2, <2>6
  <2>8. 0 \in GroupsOf(old) /\ HasSuper(0) /\ FirstBlock(0) = 0
    BY <2>2, GroupZero
  <2>9. b \in AllRegions(old)
    BY <2>1, <2>5, <2>7, <2>8, RegionIn
  <2>10. Spot(old.gd[g], "it") \cap AllRegions(old) = {}
    BY DEF Tidy, Parts
  <2> QED
    BY <2>6, <2>9, <2>10
<1>3. ASSUME NEW g \in GroupsOf(old), old.gd[g].it # new.gd[g].it
      PROVE  Table(old.gd[g]) \cap (Indirect \cup UNION {Structures(new.gd[h]) : h \in GroupsOf(new)}) = {}
  BY <1>1, <1>2, <1>3
<1> QED
  BY <1>3, TidyTable DEF Quiet

(* Each block gets a place of its own, free and not reserved.              *)
LEMMA NewBlocksApart ==
    ASSUME ResizeInv, old.map \subseteq new.map
    PROVE  /\ NewBlocks \in Seq((0 .. new.size - 1) \ (new.map \cup reserve))
           /\ \A m, n \in 1 .. Len(NewBlocks) : m # n => NewBlocks[m] # NewBlocks[n]
<1>1. PICK U : U = (0 .. new.size - 1) \ (new.map \cup reserve)
  OBVIOUS
<1>2. U \ old.map = U /\ U \cap old.map = {}
  BY <1>1
<1>3. new.size \in Nat
  BY OwnedBelow
<1>4. IsFiniteSet(0 .. new.size - 1) /\ U \subseteq 0 .. new.size - 1 /\ U \subseteq Nat
  BY <1>1, <1>3, FS_Interval
<1>5. IsFiniteSet(U)
  BY <1>4, FS_Subset
<1>6. PICK A, E : A = Ascending(U) /\ E = Ascending({})
  OBVIOUS
<1>7. A \in Seq(U) /\ \A m, n \in 1 .. Len(A) : m # n => A[m] # A[n]
  BY <1>4, <1>5, <1>6, AscendingAll
<1>8. E \in Seq({})
  <2>1. {} \subseteq Nat /\ IsFiniteSet({})
    BY FS_EmptySet
  <2> QED
    BY <1>6, <2>1, AscendingSeq
<1>9. Len(E) = 0
  <2>1. Len(E) \in Nat /\ \A n \in 1 .. Len(E) : E[n] \in {}
    BY <1>8
  <2>2. ~(1 \in 1 .. Len(E))
    BY <2>1
  <2> QED
    BY <2>1, <2>2
<1>10. E \in Seq(U)
  BY <1>8, SeqSubset
<1>11. NewBlocks = A \o E
  BY <1>1, <1>2, <1>6 DEF NewBlocks
<1>12. Len(NewBlocks) = Len(A) /\ NewBlocks \in Seq(U) /\ \A n \in 1 .. Len(A) : NewBlocks[n] = A[n]
  BY <1>7, <1>9, <1>10, <1>11
<1> QED
  BY <1>1, <1>7, <1>12

LEMMA PlanMovesFiles == ResizeInv /\ FilesInv /\ SoundPlan /\ Covered /\ PlanMoves => FilesInv'
<1> SUFFICES ASSUME ResizeInv, FilesInv, SoundPlan, Covered, PlanMoves PROVE FilesInv'
  OBVIOUS
<1>1. PICK from, to : from = Ascending(move \cap old.map) /\ to = NewBlocks
  OBVIOUS
<1>2. /\ pc = "plan" /\ UNCHANGED <<disk, old, reserve, move, files>>
      /\ IF Len(from) <= Len(to)
           THEN /\ bmap' = [n \in DOMAIN from |-> <<from[n], to[n]>>]
                /\ new' = [new EXCEPT !.map = @ \cup {to[n] : n \in DOMAIN from}]
                /\ Goto("copy", 1)
           ELSE Fail /\ UNCHANGED <<new, bmap>>
  BY <1>1 DEF PlanMoves, given
<1>3. Readiness /\ Untouched /\ Planned /\ StructuresApart
  BY <1>2, EarlyFacts DEF Before, FilesInv, FilePhases, SoundPlan
<1>4. old.map \subseteq new.map /\ move \subseteq old.map
  BY <1>2 DEF ResizeInv, Phases, Layout
<1>5. Stays(new, new')
  BY <1>2 DEF ResizeInv, Layout, FsOK, FsFields, Stays
<1>6. 0 .. new'.size - 1 \subseteq Blocks /\ new'.gd = new.gd
  BY <1>3, <1>5 DEF Stays, Readiness
<1>7. Readiness' /\ Untouched'
  BY <1>2, <1>3, <1>6, NoWrite, UntouchedStep
<1>8. CASE ~(Len(from) <= Len(to))
  <2>1. pc' = "failed"
    BY <1>2, <1>8 DEF Fail
  <2> QED
    BY <1>7, <2>1, FailedPhases DEF FilesInv
<1>9. CASE Len(from) <= Len(to)
  <2>1. bmap' = [n \in DOMAIN from |-> <<from[n], to[n]>>] /\ pc' = "copy" /\ k' = 1
    BY <1>2, <1>9 DEF Goto
  <2>2. NewPlaces' /\ Quiet(old.gd)'
    <3>1. NewPlaces /\ Quiet(old.gd)
      BY <1>3, PlanApart, PlanQuiet DEF Planned, NewPlaces, Untouched
    <3>2. \A g \in GroupsOf(old) : QuietTable(old.gd[g].it, g)
      BY <3>1, QuietIs
    <3>3. ASSUME NEW g \in GroupsOf(old) PROVE QuietTable(old.gd[g].it, g)'
      <4>1. PICK t : t = old.gd[g].it
        OBVIOUS
      <4>2. QuietTable(t, g)'
        BY <1>5, <3>2, <4>1, QuietTableStays
      <4> QED
        BY <1>2, <4>1, <4>2 DEF QuietTable
    <3>4. Quiet(old.gd)'
      BY <1>2, <3>3 DEF Quiet, QuietTable, Table
    <3> QED
      BY <1>2, <1>5, <3>1, <3>4, NewPlacesStay
  <2>3. MetaBlocks(new') = MetaBlocks(new) /\ new'.size = new.size
    BY <1>5, StaysSame DEF Stays
  <2>4. MovesKnown'
    BY <1>2, <1>3, <2>3 DEF Planned, MovesKnown
  <2>5. move \cap old.map = move /\ move \subseteq Nat /\ IsFiniteSet(move)
    <3>1. new.size \in Nat /\ move \subseteq 0 .. new.size - 1
      BY <1>4, OwnedBelow
    <3>2. IsFiniteSet(0 .. new.size - 1)
      BY <3>1, FS_Interval
    <3>3. IsFiniteSet(move)
      BY <3>1, <3>2, FS_Subset
    <3>4. move \cap old.map = move
      BY <1>4
    <3>5. 0 .. new.size - 1 \subseteq Nat
      BY <3>1
    <3> QED
      BY <3>1, <3>3, <3>4, <3>5
  <2>6. /\ from \in Seq(move)
        /\ \A b \in move : \E n \in 1 .. Len(from) : from[n] = b
    BY <1>1, <2>5, AscendingAll
  <2>7. /\ to \in Seq((0 .. new.size - 1) \ (new.map \cup reserve))
        /\ \A m, n \in 1 .. Len(to) : m # n => to[m] # to[n]
    BY <1>1, <1>4, NewBlocksApart
  <2>8. DOMAIN from = 1 .. Len(from) /\ Len(from) \in Nat /\ Len(to) \in Nat
    BY <2>6, <2>7
  <2>9. PICK n, target : n = Len(from) /\ target = (0 .. new.size - 1) \ (old.map \cup MetaBlocks(new))
    OBVIOUS
  <2>10. ASSUME NEW j \in 1 .. n PROVE j \in 1 .. Len(to) /\ from[j] \in move /\ to[j] \in target
    <3>1. j \in 1 .. Len(to) /\ from[j] \in move
      BY <1>9, <2>6, <2>8, <2>9
    <3>2. to[j] \in (0 .. new.size - 1) \ (new.map \cup reserve)
      BY <2>7, <3>1
    <3>3. MetaBlocks(new) \subseteq new.map \cup reserve
      BY <1>3, <3>1 DEF Planned
    <3> QED
      BY <1>4, <2>9, <3>1, <3>2, <3>3
  <2>11. bmap' = [j \in 1 .. n |-> <<from[j], to[j]>>]
    BY <2>1, <2>8, <2>9
  <2>12. bmap' \in [1 .. n -> move \X target]
    BY <2>10, <2>11
  <2>13. bmap' \in Seq(move \X target) /\ Len(bmap') = n
    <3>1. n \in Nat
      BY <2>8, <2>9
    <3>2. bmap' \in Seq(move \X target)
      BY <2>12, <3>1, SeqIs
    <3>3. DOMAIN bmap' = 1 .. n
      BY <2>11
    <3> QED
      BY <3>1, <3>2, <3>3
  <2>14. \A j \in 1 .. n : bmap'[j][1] = from[j] /\ bmap'[j][2] = to[j]
    BY <2>11
  <2>15. \A i, j \in 1 .. n : i # j => bmap'[i][2] # bmap'[j][2]
    BY <2>7, <2>10, <2>14
  <2>16. \A b \in move : \E j \in 1 .. n : bmap'[j][1] = b
    BY <2>6, <2>9, <2>14
  <2>17. MapOK'
    BY <1>2, <2>3, <2>9, <2>13, <2>15, <2>16 DEF MapOK
  <2>18. \A j \in 1 .. Len(bmap') : ~(j < k')
    BY <2>1, <2>8, <2>9, <2>13
  <2> QED
    BY <1>7, <2>1, <2>2, <2>4, <2>17, <2>18 DEF FilesInv, FilePhases, Untouched, Before, After
<1> QED
  BY <1>8, <1>9

(***************************************************************************)
(* Phase 1: adjust_superblock.                                             *)
(***************************************************************************)
(* The groups that are new begin behind the old file system.               *)
LEMMA NewGroupsBehind ==
    ASSUME NEW size \in Nat \ {0}, NEW h \in Nat, h >= Groups(size)
    PROVE  FirstBlock(h) \in Nat /\ FirstBlock(h) >= size
<1>1. PICK n, w : n = Groups(size) /\ w = n * PerGroup
  OBVIOUS
<1>2. n \in Nat \ {0} /\ size <= w /\ w \in Nat /\ PerGroup \in Nat \ {0}
  BY <1>1, GroupsNat, Constants, TimesNat
<1>3. PICK v : v = h * PerGroup
  OBVIOUS
<1>4. v \in Nat
  BY <1>2, <1>3, TimesNat
<1>5. w <= v
  <2>1. CASE h = n
    BY <1>1, <1>2, <1>3, <2>1
  <2>2. CASE n < h
    <3>1. n * PerGroup + PerGroup <= h * PerGroup
      BY <1>2, <2>2, TimesLess
    <3> QED
      BY <1>1, <1>2, <1>3, <1>4, <3>1
  <2> QED
    BY <1>1, <1>2, <2>1, <2>2
<1> QED
  BY <1>2, <1>3, <1>4, <1>5 DEF FirstBlock

LEMMA NewRegionsBehind ==
    ASSUME NEW fs, FsOK(fs, fs.size), NEW next, FsOK(next, next.size), NEW h \in GroupsOf(next) \ GroupsOf(fs)
    PROVE  SuperAndBgd(next, h) \cap fs.map = {}
<1>1. fs.size \in Nat \ {0} /\ fs.map \subseteq 0 .. fs.size - 1 /\ next.size \in Nat \ {0} /\ next.rsv \in Nat
  BY DEF FsOK
<1>2. Groups(fs.size) \in Nat /\ Groups(next.size) \in Nat
  BY <1>1, GroupsNat
<1>3. h \in Nat /\ h >= Groups(fs.size)
  BY <1>2 DEF GroupsOf
<1>4. PICK f, n : f = FirstBlock(h) /\ n = 1 + DescBlocks(next) + next.rsv
  OBVIOUS
<1>5. f \in Nat /\ f >= fs.size /\ n \in Nat
  BY <1>1, <1>3, <1>4, NewGroupsBehind, DescBlocksNat
<1>6. Run(f, n) \cap fs.map = {}
  BY <1>1, <1>5 DEF Run
<1> QED
  BY <1>4, <1>6 DEF SuperAndBgd

(* How many blocks stay reserved for descriptors.                          *)
LEMMA ReservedRoom ==
    ASSUME NEW fs, FsOK(fs, fs.size), NEW next, next.size \in Nat \ {0},
           next.rsv = AdjustReservedGdtBlocks(fs, [fs EXCEPT !.size = next.size])
    PROVE  /\ fs.ri => next.rsv = 0 \/ DescBlocks(next) + next.rsv <= DescBlocks(fs) + fs.rsv
           /\ Groups(next.size) = Groups(fs.size) => DescBlocks(next) + next.rsv = DescBlocks(fs) + fs.rsv
<1>1. PICK mid : mid = [fs EXCEPT !.size = next.size]
  OBVIOUS
<1>2. mid.size = next.size /\ fs.size \in Nat \ {0} /\ fs.rsv \in Nat
  BY <1>1 DEF FsOK, FsFields
<1>3. DescBlocks(mid) = DescBlocks(next)
  BY <1>2 DEF DescBlocks
<1>4. PICK d, e : d = DescBlocks(fs) /\ e = DescBlocks(next)
  OBVIOUS
<1>5. d \in Nat /\ e \in Nat
  BY <1>2, <1>4, DescBlocksNat
<1>6. next.rsv = IF ~fs.ri \/ d = e THEN fs.rsv ELSE IF fs.rsv + d - e < 0 THEN 0
                 ELSE IF fs.rsv + d - e > MaxReserved THEN MaxReserved ELSE fs.rsv + d - e
  BY <1>1, <1>3, <1>4 DEF AdjustReservedGdtBlocks
<1>7. Groups(next.size) = Groups(fs.size) => d = e
  BY <1>4 DEF DescBlocks
<1>8. MaxReserved \in Nat
  BY Constants
<1>9. fs.ri => next.rsv = 0 \/ e + next.rsv <= d + fs.rsv
  BY <1>2, <1>5, <1>6, <1>8
<1>10. d = e => e + next.rsv = d + fs.rsv
  BY <1>2, <1>5, <1>6
<1> QED
  BY <1>4, <1>7, <1>9, <1>10

LEMMA AdjustedGrown ==
    ASSUME NEW fs, FsOK(fs, fs.size), Tidy(fs), NEW next, NEW reserved,
           Enlarged(fs, next, reserved), Outfitted(fs, next, reserved)
    PROVE  /\ next.ri => next.rsv = 0 \/ DescBlocks(next) + next.rsv <= DescBlocks(fs) + fs.rsv
           /\ \A g \in GroupsOf(next), p \in Parts : next.gd[g][p] # Nowhere
           /\ IF Groups(next.size) = Groups(fs.size) THEN DescBlocks(next) + next.rsv = DescBlocks(fs) + fs.rsv
                                                     ELSE reserved = MetaBlocks(next)
           /\ \A h \in GroupsOf(next) \ GroupsOf(fs) :
                Structures(next.gd[h]) \cap fs.map = {} /\ SuperAndBgd(next, h) \cap fs.map = {}
<1>1. FsOK(next, next.size) /\ next.ri = fs.ri
  BY DEF Enlarged, Outfitted
<1>2. next.size \in Nat \ {0}
  BY <1>1 DEF FsOK
<1>3. /\ fs.ri => next.rsv = 0 \/ DescBlocks(next) + next.rsv <= DescBlocks(fs) + fs.rsv
      /\ Groups(next.size) = Groups(fs.size) => DescBlocks(next) + next.rsv = DescBlocks(fs) + fs.rsv
  BY <1>2, ReservedRoom DEF Outfitted
<1>4. ASSUME NEW g \in GroupsOf(next), NEW p \in Parts PROVE next.gd[g][p] # Nowhere
  BY DEF Tidy, Enlarged, Outfitted
<1>5. ASSUME NEW h \in GroupsOf(next) \ GroupsOf(fs) PROVE Structures(next.gd[h]) \cap fs.map = {}
  <2>1. \A p \in Parts : next.gd[h][p] \in Nat \ {Nowhere}
    BY <1>1, <1>4 DEF FsOK, GroupOK, SpotOK
  <2>2. Structures(next.gd[h]) = UNION {Spot(next.gd[h], p) : p \in Parts}
    BY <2>1, PartsIn
  <2>3. \A p \in Parts : Spot(next.gd[h], p) \cap fs.map = {}
    BY DEF Outfitted
  <2> QED
    BY <2>2, <2>3
<1>6. \A h \in GroupsOf(next) \ GroupsOf(fs) : SuperAndBgd(next, h) \cap fs.map = {}
  BY <1>1, NewRegionsBehind
<1>7. IF Groups(next.size) = Groups(fs.size) THEN DescBlocks(next) + next.rsv = DescBlocks(fs) + fs.rsv
                                             ELSE reserved = MetaBlocks(next)
  BY <1>3 DEF Outfitted
<1>8. next.ri => next.rsv = 0 \/ DescBlocks(next) + next.rsv <= DescBlocks(fs) + fs.rsv
  BY <1>1, <1>3
<1> QED
  BY <1>4, <1>5, <1>6, <1>7, <1>8

LEMMA AdjustSuperblockFiles == ResizeInv /\ FilesInv /\ AdjustSuperblock => FilesInv'
<1> SUFFICES ASSUME ResizeInv, FilesInv, AdjustSuperblock PROVE FilesInv'
  OBVIOUS
<1>1. PICK r : /\ r = AdjustFsInfo(new, Resized(new, Fitted(new, asked)))
               /\ IF r.ok THEN /\ new' = r.fs /\ reserve' = r.reserve
                               /\ Goto("zero", Groups(old.size))
                          ELSE Fail /\ UNCHANGED <<new, reserve>>
  BY DEF AdjustSuperblock
<1>2. pc = "adjust" /\ UNCHANGED <<disk, old, files>>
  BY DEF AdjustSuperblock, given
<1>3. /\ new = old /\ FsOK(old, old.size) /\ Fitted(old, old.size) = old.size
      /\ asked \in NewSizes /\ old.size < asked
  BY <1>2 DEF ResizeInv, Phases
<1>4. Readiness /\ Untouched
  BY <1>2, EarlyFacts DEF Before
<1>5. ASSUME 0 .. new'.size - 1 \subseteq Blocks PROVE Readiness' /\ Untouched'
  <2>1. \A g \in GroupsOf(old) : disk[1].val[g].it = old.gd[g].it
    BY <1>4 DEF Untouched
  <2>2. GroupsOf(old') = GroupsOf(old) /\ Heads' = Heads
    BY <1>2, SameHeads
  <2>3. Kept(disk[1].val)' /\ Kept(old.gd)' /\ Is(1, "gdt")'
    BY <1>2, <1>4 DEF Readiness, Kept, Is
  <2>4. Readiness'
    BY <1>2, <1>4, <1>5, <2>1, <2>2, <2>3 DEF Readiness
  <2>5. Untouched'
    BY <1>2, <1>4, <2>2 DEF Untouched, Owns, Pointed
  <2> QED
    BY <2>4, <2>5
<1>6. CASE r.ok
  <2>1. pc' = "zero" /\ new' = r.fs /\ reserve' = r.reserve
    BY <1>1, <1>6 DEF Goto
  <2>2. PICK size : size = Fitted(old, asked)
    OBVIOUS
  <2>3. old.size \in Nat \ {0} /\ "size" \in DOMAIN old /\ old.rsv \in Nat /\ asked \in Nat
    BY <1>3, BlocksBelow DEF FsOK, FsFields
  <2>4. size \in Nat /\ old.size <= size /\ size <= asked
    BY <1>3, <2>2, <2>3, FittedGrows
  <2>5. Enlarged(old, r.fs, r.reserve) /\ r.fs.size = size /\ Outfitted(old, r.fs, r.reserve)
    BY <1>1, <1>3, <1>6, <2>2, <2>4, AdjustedOK
  <2>6. 0 .. new'.size - 1 \subseteq Blocks
    <3>1. PICK m : m = Max(NewSizes)
      OBVIOUS
    <3>2. m \in Nat /\ asked <= m
      BY <1>3, <3>1, BlocksBelow
    <3> QED
      BY <2>1, <2>3, <2>4, <2>5, <3>1, <3>2 DEF Blocks
  <2>7. Tidy(old)
    BY <1>4 DEF Untouched
  <2>8. Grown'
    <3>1. PICK fs, next, held : fs = old /\ next = new' /\ held = reserve'
      OBVIOUS
    <3>2. FsOK(fs, fs.size) /\ Tidy(fs) /\ Enlarged(fs, next, held) /\ Outfitted(fs, next, held)
      BY <1>3, <2>1, <2>5, <2>7, <3>1
    <3>3. /\ next.ri => next.rsv = 0 \/ DescBlocks(next) + next.rsv <= DescBlocks(fs) + fs.rsv
          /\ \A g \in GroupsOf(next), p \in Parts : next.gd[g][p] # Nowhere
          /\ IF Groups(next.size) = Groups(fs.size) THEN DescBlocks(next) + next.rsv = DescBlocks(fs) + fs.rsv
                                                    ELSE held = MetaBlocks(next)
          /\ \A h \in GroupsOf(next) \ GroupsOf(fs) :
               Structures(next.gd[h]) \cap fs.map = {} /\ SuperAndBgd(next, h) \cap fs.map = {}
      BY <3>2, AdjustedGrown
    <3> QED
      BY <1>2, <3>1, <3>3 DEF Grown, RoomTaken, Complete
  <2> QED
    BY <1>5, <2>1, <2>6, <2>8 DEF FilesInv, FilePhases, Untouched, Before, After
<1>7. CASE ~r.ok
  <2>1. pc' = "failed" /\ new' = new
    BY <1>1, <1>7 DEF Fail
  <2>2. Readiness'
    BY <1>4, <1>5, <2>1 DEF Readiness
  <2> QED
    BY <2>1, <2>2, FailedPhases DEF FilesInv
<1> QED
  BY <1>6, <1>7

(***************************************************************************)
(* Phase 2: blocks_to_move.                                                *)
(***************************************************************************)
\* The file system as it was, as phase 1 has made it, and what is reserved.
Growing(fs, next, held) ==
    /\ FsOK(fs, fs.size) /\ Tidy(fs) /\ FsOK(next, next.size) /\ fs.size <= next.size
    /\ GroupsOf(fs) \subseteq GroupsOf(next) /\ \A g \in GroupsOf(fs) : next.gd[g] = fs.gd[g]
    /\ held \subseteq 0 .. next.size - 1 /\ MetaBlocks(next) \subseteq held

\* A group that has all it needs: each part stayed, or is where nothing was
\* reserved; what it has taken from the files is to be moved.
Served(fs, held, r, g) ==
    /\ \A p \in Parts : /\ r.fs.gd[g][p] # Nowhere
                        /\ r.fs.gd[g][p] = fs.gd[g][p] \/ Spot(r.fs.gd[g], p) \cap held = {}
    /\ \A p, o \in Parts : p # o => Spot(r.fs.gd[g], p) \cap Spot(r.fs.gd[g], o) = {}
    /\ Structures(r.fs.gd[g]) \subseteq r.fs.map \cup held
    /\ (Structures(r.fs.gd[g]) \cap fs.map) \ MetaBlocks(fs) \subseteq r.move

\* One whose turn has not come has lost parts at most.
Expecting(fs, r, g) == \A p \in Parts : r.fs.gd[g][p] \in {Nowhere, fs.gd[g][p]}

\* After m groups.
Progress(fs, next, held, r, m) ==
    /\ Relocated(fs, next, r) /\ held \subseteq r.reserve
    /\ (Regions(fs, next) \cap fs.map) \ MetaBlocks(fs) \subseteq r.move /\ r.move \cap MetaBlocks(fs) = {}
    /\ Regions(fs, next) \subseteq r.fs.map
    /\ \A g \in GroupsOf(next) \ GroupsOf(fs) : r.fs.gd[g] = next.gd[g]
    /\ \A g \in GroupsOf(fs) : IF g < m THEN Served(fs, held, r, g) ELSE Expecting(fs, r, g)

LEMMA GrowingParts ==
    ASSUME NEW fs, NEW next, NEW held, Growing(fs, next, held), NEW g \in GroupsOf(fs)
    PROVE  /\ \A p \in Parts : fs.gd[g][p] \in Nat \ {Nowhere}
           /\ Structures(fs.gd[g]) \subseteq held /\ Structures(fs.gd[g]) \subseteq MetaBlocks(fs)
           /\ \A p \in Parts : Spot(fs.gd[g], p) \subseteq Structures(fs.gd[g])
           /\ \A p, o \in Parts : p # o => Spot(fs.gd[g], p) \cap Spot(fs.gd[g], o) = {}
<1>1. \A p \in Parts : fs.gd[g][p] \in Nat \ {Nowhere}
  BY DEF Growing, FsOK, GroupOK, SpotOK, Tidy
<1>2. Structures(fs.gd[g]) = UNION {Spot(fs.gd[g], p) : p \in Parts}
  BY <1>1, PartsIn
<1>3. Structures(fs.gd[g]) \subseteq MetaBlocks(fs)
  BY DEF MetaBlocks
<1>4. Structures(fs.gd[g]) \subseteq held
  <2>1. g \in GroupsOf(next) /\ next.gd[g] = fs.gd[g] /\ MetaBlocks(next) \subseteq held
    BY DEF Growing
  <2>2. Structures(next.gd[g]) \subseteq MetaBlocks(next)
    BY <2>1 DEF MetaBlocks
  <2> QED
    BY <2>1, <2>2
<1>5. \A p, o \in Parts : p # o => Spot(fs.gd[g], p) \cap Spot(fs.gd[g], o) = {}
  BY DEF Growing, Tidy
<1> QED
  BY <1>1, <1>2, <1>3, <1>4, <1>5

(* A group that has lost nothing is served.                                *)
LEMMA NothingLost ==
    ASSUME NEW fs, NEW next, NEW held, Growing(fs, next, held), NEW g \in GroupsOf(fs),
           NEW r, \A p \in Parts : r.fs.gd[g][p] = fs.gd[g][p]
    PROVE  Served(fs, held, r, g)
<1>1. \A p \in Parts : Spot(r.fs.gd[g], p) = Spot(fs.gd[g], p)
  BY DEF Spot
<1>2. \A p \in Parts : r.fs.gd[g][p] \in Nat \ {Nowhere}
  BY GrowingParts
<1>3. Structures(r.fs.gd[g]) = UNION {Spot(r.fs.gd[g], p) : p \in Parts}
  BY <1>2, PartsIn
<1>4. Structures(r.fs.gd[g]) \subseteq Structures(fs.gd[g])
  BY <1>1, <1>3, GrowingParts
<1>5. Structures(fs.gd[g]) \subseteq held /\ Structures(fs.gd[g]) \subseteq MetaBlocks(fs)
  BY GrowingParts
<1>6. \A p, o \in Parts : p # o => Spot(r.fs.gd[g], p) \cap Spot(r.fs.gd[g], o) = {}
  BY <1>1, GrowingParts
<1> QED
  BY <1>2, <1>4, <1>5, <1>6 DEF Served

(* One that has is served by the allocator.                                *)
LEMMA GroupServed ==
    ASSUME NEW fs, NEW next, NEW held, Growing(fs, next, held), NEW g \in GroupsOf(fs),
           NEW r, Relocated(fs, next, r), held \subseteq r.reserve, Expecting(fs, r, g),
           NEW a, Furnished([fs |-> r.fs, map |-> r.reserve, ok |-> TRUE], a, g),
           NEW q, q = Booked(r, a, fs, MetaBlocks(fs), g), FsOK(q.fs, q.fs.size), g \in GroupsOf(q.fs)
    PROVE  Served(fs, held, q, g)
<1>1. PICK c : c = [fs |-> r.fs, map |-> r.reserve, ok |-> TRUE]
  OBVIOUS
<1>2. c.fs = r.fs /\ c.map = r.reserve /\ Furnished(c, a, g)
  BY <1>1
<1>3. PICK taken : taken = Structures(a.fs.gd[g]) \ Structures(fs.gd[g])
  OBVIOUS
<1>4. q.fs = Marked(a.fs, taken) /\ q.move = r.move \cup ((taken \cap fs.map) \ MetaBlocks(fs))
  BY <1>3 DEF Booked, Marked
<1>5. q.fs.gd = a.fs.gd /\ q.fs.map = a.fs.map \cup taken
  <2>1. FsOK(a.fs, a.fs.size)
    BY <1>2 DEF Furnished, SearchOK
  <2> QED
    BY <1>4, <2>1 DEF Marked, FsOK, FsFields
<1>6. \A p \in Parts : q.fs.gd[g][p] \in Nat \ {Nowhere}
  BY <1>2, <1>5 DEF Furnished, FsOK, GroupOK, SpotOK
<1>7. ASSUME NEW p \in Parts, ~Lost(c, g, p)
      PROVE  q.fs.gd[g][p] = fs.gd[g][p] /\ Spot(q.fs.gd[g], p) = Spot(fs.gd[g], p)
  <2>1. KeptOrNew(c, a, g, p)
    BY <1>2 DEF Furnished
  <2>2. q.fs.gd[g][p] = r.fs.gd[g][p]
    BY <1>2, <1>5, <1>7, <2>1 DEF KeptOrNew
  <2>3. r.fs.gd[g][p] = fs.gd[g][p]
    BY <1>2, <1>7 DEF Expecting, Lost
  <2> QED
    BY <2>2, <2>3 DEF Spot
<1>8. ASSUME NEW p \in Parts, Lost(c, g, p) PROVE Spot(q.fs.gd[g], p) \cap held = {}
  <2>1. KeptOrNew(c, a, g, p)
    BY <1>2 DEF Furnished
  <2> QED
    BY <1>2, <1>5, <1>8, <2>1 DEF KeptOrNew
<1>9. \A p \in Parts : Avoided(c, g, p)
  <2> SUFFICES ASSUME NEW p \in Parts, ~Lost(c, g, p) PROVE Spot(c.fs.gd[g], p) \subseteq c.map
    BY DEF Avoided
  <2>1. c.fs.gd[g][p] = fs.gd[g][p]
    BY <1>2 DEF Expecting, Lost
  <2>2. Spot(c.fs.gd[g], p) = Spot(fs.gd[g], p)
    BY <2>1 DEF Spot
  <2>3. Spot(fs.gd[g], p) \subseteq held
    BY GrowingParts
  <2> QED
    BY <1>2, <2>2, <2>3
<1>10. ASSUME NEW p \in Parts, NEW o \in Parts, p # o PROVE Spot(q.fs.gd[g], p) \cap Spot(q.fs.gd[g], o) = {}
  <2>1. CASE Lost(c, g, p)
    BY <1>2, <1>5, <1>9, <1>10, <2>1 DEF Furnished
  <2>2. CASE Lost(c, g, o)
    <3>1. Spot(q.fs.gd[g], o) \cap Spot(q.fs.gd[g], p) = {}
      BY <1>2, <1>5, <1>9, <1>10, <2>2 DEF Furnished
    <3> QED
      BY <3>1
  <2>3. CASE ~Lost(c, g, p) /\ ~Lost(c, g, o)
    BY <1>7, <1>10, <2>3, GrowingParts
  <2> QED
    BY <2>1, <2>2, <2>3
<1>11. Structures(q.fs.gd[g]) \subseteq taken \cup Structures(fs.gd[g])
  BY <1>3, <1>5
<1>12. Structures(fs.gd[g]) \subseteq held /\ Structures(fs.gd[g]) \subseteq MetaBlocks(fs)
  BY GrowingParts
<1>13. Structures(q.fs.gd[g]) \subseteq q.fs.map \cup held
  BY <1>5, <1>11, <1>12
<1>14. (Structures(q.fs.gd[g]) \cap fs.map) \ MetaBlocks(fs) \subseteq q.move
  BY <1>4, <1>11, <1>12
<1>15. \A p \in Parts : q.fs.gd[g][p] = fs.gd[g][p] \/ Spot(q.fs.gd[g], p) \cap held = {}
  BY <1>7, <1>8
<1> QED
  BY <1>6, <1>10, <1>13, <1>14, <1>15 DEF Served

LEMMA RoundProgress ==
    ASSUME NEW fs, NEW next, NEW held, Growing(fs, next, held), NEW g \in GroupsOf(fs), NEW m, m = g + 1,
           NEW r, r.ok, Progress(fs, next, held, r, g),
           NEW q, q = Reallocated(r, fs, MetaBlocks(fs), g), q.ok
    PROVE  Progress(fs, next, held, q, m)
<1>1. FsOK(fs, fs.size) /\ FsOK(next, next.size) /\ fs.size <= next.size /\ GroupsOf(fs) \subseteq GroupsOf(next)
  BY DEF Growing
<1>2. \A h \in GroupsOf(fs) : h \in Nat /\ (h < m <=> h < g \/ h = g)
  <2>1. fs.size \in Nat \ {0}
    BY <1>1 DEF FsOK
  <2>2. \A h \in GroupsOf(fs) : h \in Nat
    BY <2>1, GroupNumbers
  <2> QED
    BY <2>2
<1>3. Relocated(fs, next, r) /\ held \subseteq r.reserve /\ Expecting(fs, r, g)
  BY <1>2 DEF Progress
<1>4. Relocated(fs, next, q)
  BY <1>1, <1>3, ReallocatedOK
<1>5. CASE q = r /\ Nowhere \notin {r.fs.gd[g].bbm, r.fs.gd[g].ibm, r.fs.gd[g].it}
  <2>1. \A p \in Parts : r.fs.gd[g][p] = fs.gd[g][p]
    BY <1>3, <1>5 DEF Expecting, Parts
  <2>2. Served(fs, held, r, g)
    BY <2>1, NothingLost
  <2> QED
    BY <1>2, <1>5, <2>2 DEF Progress
<1>6. CASE ~(q = r /\ Nowhere \notin {r.fs.gd[g].bbm, r.fs.gd[g].ibm, r.fs.gd[g].it})
  <2>1. PICK a, c : a = AllocateGroupTable(r.fs, g, r.reserve) /\ c = [fs |-> r.fs, map |-> r.reserve, ok |-> TRUE]
    OBVIOUS
  <2>2. q = Booked(r, a, fs, MetaBlocks(fs), g)
    BY <1>6, <2>1 DEF Reallocated
  <2>3. PICK taken : taken = Structures(a.fs.gd[g]) \ Structures(fs.gd[g])
    OBVIOUS
  <2>4. /\ q.fs = Marked(a.fs, taken) /\ a.map \subseteq q.reserve
        /\ q.move = r.move \cup ((taken \cap fs.map) \ MetaBlocks(fs))
    BY <2>2, <2>3 DEF Booked, Marked
  <2>5. a.ok
    <3>1. Booked(r, a, fs, MetaBlocks(fs), g).ok = a.ok
      BY DEF Booked
    <3> QED
      BY <2>2, <3>1
  <2>6. r.fs.size = next.size /\ FsOK(r.fs, r.fs.size) /\ q.fs.size = next.size /\ FsOK(q.fs, q.fs.size)
    BY <1>3, <1>4 DEF Relocated, Extends
  <2>7. GroupsOf(r.fs) = GroupsOf(next) /\ GroupsOf(q.fs) = GroupsOf(next) /\ g \in GroupsOf(next)
    BY <1>1, <2>6 DEF GroupsOf
  <2>8. r.reserve \subseteq 0 .. r.fs.size - 1
    BY <1>3, <2>6 DEF Relocated
  <2>9. Furnished(c, a, g)
    BY <2>1, <2>5, <2>6, <2>7, <2>8, GroupTableAllocated
  <2>10. Served(fs, held, q, g)
    BY <1>3, <2>1, <2>2, <2>6, <2>7, <2>9, GroupServed
  <2>11. c.fs = r.fs /\ c.map = r.reserve
    BY <2>1
  <2>12. q.fs.gd = a.fs.gd /\ q.fs.map = a.fs.map \cup taken
    <3>1. FsOK(a.fs, a.fs.size)
      BY <2>9 DEF Furnished, SearchOK
    <3> QED
      BY <2>4, <3>1 DEF Marked, FsOK, FsFields
  <2>13. r.fs.map \subseteq q.fs.map /\ r.reserve \subseteq q.reserve /\ r.move \subseteq q.move
    BY <2>4, <2>9, <2>11, <2>12 DEF Furnished, Extends
  <2>14. \A h \in GroupsOf(next) : h # g => q.fs.gd[h] = r.fs.gd[h]
    BY <2>7, <2>9, <2>11, <2>12 DEF Furnished
  <2>15. ASSUME NEW h \in GroupsOf(fs) PROVE IF h < m THEN Served(fs, held, q, h) ELSE Expecting(fs, q, h)
    <3>1. CASE h = g
      BY <1>2, <2>10, <3>1
    <3>2. CASE h # g
      <4>1. q.fs.gd[h] = r.fs.gd[h]
        BY <1>1, <2>14, <3>2
      <4>2. h < g => Served(fs, held, q, h)
        BY <2>13, <4>1 DEF Progress, Served
      <4>3. ~(h < g) => Expecting(fs, q, h)
        BY <4>1 DEF Progress, Expecting
      <4> QED
        BY <1>2, <3>2, <4>2, <4>3
    <3> QED
      BY <3>1, <3>2
  <2>16. \A h \in GroupsOf(next) \ GroupsOf(fs) : q.fs.gd[h] = next.gd[h]
    BY <2>14 DEF Progress
  <2>17. q.move \cap MetaBlocks(fs) = {}
    BY <2>4 DEF Progress
  <2>18. /\ held \subseteq q.reserve /\ (Regions(fs, next) \cap fs.map) \ MetaBlocks(fs) \subseteq q.move
         /\ Regions(fs, next) \subseteq q.fs.map
    BY <2>13 DEF Progress
  <2> QED
    BY <1>4, <2>15, <2>16, <2>17, <2>18 DEF Progress
<1> QED
  BY <1>5, <1>6

(* Before the first group.                                                 *)
LEMMA DisplacedProgress ==
    ASSUME NEW fs, NEW next, NEW held, Growing(fs, next, held)
    PROVE  Progress(fs, next, held, Displacing(fs, next, held), 0)
<1>1. PICK b, c : b = Displacing(fs, next, held) /\ c = Cleared(fs, next)
  OBVIOUS
<1>2. FsOK(fs, fs.size) /\ FsOK(next, next.size) /\ fs.size <= next.size /\ held \subseteq 0 .. next.size - 1
  BY DEF Growing
<1>3. Relocated(fs, next, b)
  BY <1>1, <1>2, DisplacingOK
<1>4. /\ b.fs = c /\ b.move = (Regions(fs, next) \cap fs.map) \ MetaBlocks(fs)
      /\ held \subseteq b.reserve
  BY <1>1 DEF Displacing
<1> DEFINE Near(g) == IF Flex(fs) THEN Regions(fs, next) ELSE SuperAndBgd(next, g)
<1>5. /\ c.map = next.map \cup Regions(fs, next)
      /\ c.gd = [g \in GroupsOf(next) |-> IF g \in GroupsOf(fs) THEN Displaced(next.gd[g], Near(g)) ELSE next.gd[g]]
  BY <1>1, <1>2 DEF Cleared, FsOK, FsFields
<1> HIDE DEF Near
<1>6. ASSUME NEW g \in GroupsOf(fs) PROVE Expecting(fs, b, g)
  <2>1. c.gd[g] = Displaced(fs.gd[g], Near(g))
    BY <1>5 DEF Growing
  <2> QED
    BY <1>4, <2>1 DEF Expecting, Displaced, Parts
<1>7. \A g \in GroupsOf(next) \ GroupsOf(fs) : b.fs.gd[g] = next.gd[g]
  BY <1>4, <1>5
<1>8. \A g \in GroupsOf(fs) : ~(g < 0)
  <2>1. fs.size \in Nat \ {0}
    BY <1>2 DEF FsOK
  <2>2. \A g \in GroupsOf(fs) : g \in Nat
    BY <2>1, GroupNumbers
  <2> QED
    BY <2>2
<1> QED
  BY <1>1, <1>3, <1>4, <1>5, <1>6, <1>7, <1>8 DEF Progress

LEMMA LoopProgress ==
    ASSUME NEW fs, NEW next, NEW held, Growing(fs, next, held), NEW b, Progress(fs, next, held, b, 0),
           NEW f, Loop(f, <<fs, MetaBlocks(fs)>>, b, 0), f[Groups(fs.size)].ok
    PROVE  Progress(fs, next, held, f[Groups(fs.size)], Groups(fs.size))
<1>1. PICK n, meta : n = Groups(fs.size) /\ meta = MetaBlocks(fs)
  OBVIOUS
<1>2. n \in Nat
  BY <1>1, GroupsNat DEF Growing, FsOK
<1>3. \A r, g : Round(<<fs, meta>>, r, g) = Reallocated(r, fs, meta, g)
  BY DEF Round
<1>4. f[0] = b
  BY DEF Loop
<1>5. \A g \in Nat : g # 0 => f[g] = Reallocated(f[g - 1], fs, meta, g - 1)
  <2>1. \A g \in Nat : g # 0 => ~(g <= 0)
    OBVIOUS
  <2> QED
    BY <1>1, <1>3, <2>1 DEF Loop
<1> DEFINE T == {m \in Nat : m <= n /\ f[m].ok /\ ~Progress(fs, next, held, f[m], m)}
<1>6. T = {}
  <2> SUFFICES ASSUME T # {} PROVE FALSE
    OBVIOUS
  <2>1. PICK m \in T : \A j \in T : m <= j
    <3>1. T \subseteq Nat
      OBVIOUS
    <3> HIDE DEF T
    <3> QED
      BY <3>1, LeastNatural
  <2>2. m \in Nat /\ m # 0 /\ m <= n /\ f[m].ok /\ ~Progress(fs, next, held, f[m], m)
    BY <1>4, <2>1
  <2>3. PICK r, q, g : r = f[m - 1] /\ q = f[m] /\ g = m - 1
    OBVIOUS
  <2>4. q = Reallocated(r, fs, meta, g) /\ q.ok
    BY <1>5, <2>2, <2>3
  <2>5. r.ok
    BY <2>4 DEF Reallocated
  <2>6. g \in Nat /\ g < m /\ g <= n /\ g \in GroupsOf(fs) /\ m = g + 1
    BY <1>1, <1>2, <2>2, <2>3 DEF GroupsOf
  <2>7. Progress(fs, next, held, r, g)
    <3>1. ~(g \in T)
      BY <2>1, <2>2, <2>6
    <3> QED
      BY <2>3, <2>5, <2>6, <3>1
  <2>8. Progress(fs, next, held, q, m)
    BY <1>1, <2>4, <2>5, <2>6, <2>7, RoundProgress
  <2> QED
    BY <2>2, <2>3, <2>8
<1> QED
  BY <1>1, <1>2, <1>6

LEMMA ToMoveProgress ==
    ASSUME NEW fs, NEW next, NEW held, Growing(fs, next, held),
           DescBlocks(fs) + fs.rsv # DescBlocks(next) + next.rsv,
           NEW r, r = ToMove(fs, next, held), r.ok
    PROVE  Progress(fs, next, held, r, Groups(fs.size))
<1> DEFINE L == CHOOSE f : MoveLoop(f, Displacing(fs, next, held), fs, MetaBlocks(fs))
<1>1. MoveLoop(L, Displacing(fs, next, held), fs, MetaBlocks(fs))
  BY MoveLoopExists
<1>2. ToMove(fs, next, held) = L[Groups(fs.size)]
  BY DEF ToMove, MoveLoop
<1> HIDE DEF L
<1>3. Loop(L, <<fs, MetaBlocks(fs)>>, Displacing(fs, next, held), 0)
  BY <1>1, MoveLoopExists
<1> QED
  BY <1>2, <1>3, DisplacedProgress, LoopProgress

(* What comes out of it, for any handles.                                  *)
Moved(fs, next, reserved, moved) ==
    /\ (fs.map \cap MetaBlocks(next)) \ MetaBlocks(fs) \subseteq moved /\ moved \cap MetaBlocks(fs) = {}
    /\ \A g \in GroupsOf(next), p \in Parts : next.gd[g][p] # Nowhere
    /\ \A h \in GroupsOf(next), p \in Parts :
         \/ h \in GroupsOf(fs) /\ next.gd[h][p] = fs.gd[h][p]
         \/ \A g \in GroupsOf(fs) : Spot(next.gd[h], p) \cap Structures(fs.gd[g]) = {}
    /\ \A g \in GroupsOf(fs), h \in GroupsOf(next) \ GroupsOf(fs), p \in Parts :
         Spot(next.gd[g], p) \cap (SuperAndBgd(next, h) \cup Structures(next.gd[h])) = {}
    /\ \A g \in GroupsOf(fs) : Table(next.gd[g]) \cap {next.gd[g].bbm, next.gd[g].ibm} = {}
    /\ moved # {} => MetaBlocks(next) \subseteq next.map \cup reserved

\* The groups that are new: complete, in space that was not in use.
NewGroups(fs, next) ==
    /\ \A h \in GroupsOf(next), p \in Parts : next.gd[h][p] # Nowhere
    /\ \A h \in GroupsOf(next) \ GroupsOf(fs) :
         Structures(next.gd[h]) \cap fs.map = {} /\ SuperAndBgd(next, h) \cap fs.map = {}

LEMMA PartsApart ==
    ASSUME NEW s, \A p \in Parts : s[p] \in Nat \ {Nowhere},
           \A p, o \in Parts : p # o => Spot(s, p) \cap Spot(s, o) = {}
    PROVE  Table(s) \cap {s.bbm, s.ibm} = {}
<1>1. Table(s) = Spot(s, "it") /\ Spot(s, "bbm") = {s.bbm} /\ Spot(s, "ibm") = {s.ibm}
  BY PartsIn
<1>2. Spot(s, "it") \cap Spot(s, "bbm") = {} /\ Spot(s, "it") \cap Spot(s, "ibm") = {}
  BY DEF Parts
<1> QED
  BY <1>1, <1>2

LEMMA AllParts ==
    ASSUME NEW fs, FsOK(fs, fs.size), NEW g \in GroupsOf(fs), \A p \in Parts : fs.gd[g][p] # Nowhere
    PROVE  /\ \A p \in Parts : fs.gd[g][p] \in Nat \ {Nowhere}
           /\ Structures(fs.gd[g]) = UNION {Spot(fs.gd[g], p) : p \in Parts}
<1>1. \A p \in Parts : fs.gd[g][p] \in Nat \ {Nowhere}
  BY DEF FsOK, GroupOK, SpotOK
<1> QED
  BY <1>1, PartsIn

(* The region of descriptors keeps its size: nothing moves.                *)
LEMMA NothingMoves ==
    ASSUME NEW fs, FsOK(fs, fs.size), Tidy(fs), NEW next, NEW reserved, Enlarged(fs, next, reserved),
           NewGroups(fs, next), DescBlocks(fs) + fs.rsv = DescBlocks(next) + next.rsv
    PROVE  Moved(fs, next, reserved, {})
<1>1. /\ FsOK(next, next.size) /\ GroupsOf(fs) \subseteq GroupsOf(next)
      /\ \A g \in GroupsOf(fs) : next.gd[g] = fs.gd[g]
  BY DEF Enlarged
<1>2. fs.map \subseteq 0 .. fs.size - 1 /\ fs.size \in Nat
  BY DEF FsOK
<1>3. \A g \in GroupsOf(fs) : /\ \A p \in Parts : fs.gd[g][p] \in Nat \ {Nowhere}
                              /\ Structures(fs.gd[g]) = UNION {Spot(fs.gd[g], p) : p \in Parts}
  BY AllParts DEF Tidy
<1>4. \A g \in GroupsOf(fs) : Structures(fs.gd[g]) \subseteq fs.map
  BY DEF Tidy, MetaBlocks
<1>5. ASSUME NEW g \in GroupsOf(next), NEW b \in fs.map, b \in SuperAndBgd(next, g) PROVE b \in MetaBlocks(fs)
  <2>1. g \in GroupsOf(fs)
    BY <1>5 DEF NewGroups
  <2>2. PICK d, e : d = DescBlocks(fs) + fs.rsv /\ e = DescBlocks(next) + next.rsv
    OBVIOUS
  <2>3. 1 + DescBlocks(fs) + fs.rsv = 1 + d /\ 1 + DescBlocks(next) + next.rsv = 1 + e
    <3>1. DescBlocks(fs) \in Nat /\ DescBlocks(next) \in Nat /\ fs.rsv \in Nat /\ next.rsv \in Nat
      BY <1>1, DescBlocksNat DEF FsOK
    <3> QED
      BY <2>2, <3>1
  <2>4. HasSuper(g) /\ b \in Run(FirstBlock(g), 1 + e)
    BY <1>5, <2>3 DEF SuperAndBgd
  <2>5. b \in Run(FirstBlock(g), 1 + DescBlocks(fs) + fs.rsv) /\ b < fs.size
    BY <1>2, <2>2, <2>3, <2>4
  <2> QED
    BY <2>1, <2>4, <2>5, RegionIn
<1>6. ASSUME NEW b \in fs.map, b \in MetaBlocks(next) PROVE b \in MetaBlocks(fs)
  <2>1. PICK g \in GroupsOf(next) : b \in SuperAndBgd(next, g) \cup Structures(next.gd[g])
    BY <1>6 DEF MetaBlocks
  <2>2. CASE b \in SuperAndBgd(next, g)
    BY <1>5, <2>2
  <2>3. CASE b \in Structures(next.gd[g])
    <3>1. g \in GroupsOf(fs)
      BY <2>3 DEF NewGroups
    <3> QED
      BY <1>1, <2>3, <3>1 DEF MetaBlocks
  <2> QED
    BY <2>1, <2>2, <2>3
<1>7. ASSUME NEW h \in GroupsOf(next), NEW p \in Parts
      PROVE  \/ h \in GroupsOf(fs) /\ next.gd[h][p] = fs.gd[h][p]
             \/ \A g \in GroupsOf(fs) : Spot(next.gd[h], p) \cap Structures(fs.gd[g]) = {}
  <2>1. CASE h \in GroupsOf(fs)
    BY <1>1, <2>1
  <2>2. CASE h \notin GroupsOf(fs)
    <3>1. Spot(next.gd[h], p) \subseteq Structures(next.gd[h])
      BY <1>1, AllParts DEF NewGroups
    <3>2. Structures(next.gd[h]) \cap fs.map = {}
      BY <2>2 DEF NewGroups
    <3> QED
      BY <1>4, <3>1, <3>2
  <2> QED
    BY <2>1, <2>2
<1>8. ASSUME NEW g \in GroupsOf(fs), NEW h \in GroupsOf(next) \ GroupsOf(fs), NEW p \in Parts
      PROVE  Spot(next.gd[g], p) \cap (SuperAndBgd(next, h) \cup Structures(next.gd[h])) = {}
  <2>1. Spot(next.gd[g], p) \subseteq fs.map
    BY <1>1, <1>3, <1>4
  <2> QED
    BY <2>1 DEF NewGroups
<1>9. ASSUME NEW g \in GroupsOf(fs) PROVE Table(next.gd[g]) \cap {next.gd[g].bbm, next.gd[g].ibm} = {}
  <2>1. \A p, o \in Parts : p # o => Spot(fs.gd[g], p) \cap Spot(fs.gd[g], o) = {}
    BY DEF Tidy
  <2>2. Table(fs.gd[g]) \cap {fs.gd[g].bbm, fs.gd[g].ibm} = {}
    BY <1>3, <2>1, PartsApart
  <2> QED
    BY <1>1, <2>2
<1>10. \A g \in GroupsOf(next), p \in Parts : next.gd[g][p] # Nowhere
  BY DEF NewGroups
<1> QED
  BY <1>6, <1>7, <1>8, <1>9, <1>10 DEF Moved

(* Where it grows, what it takes is known.                                 *)
LEMMA AllServed ==
    ASSUME NEW fs, NEW next, NEW held, Growing(fs, next, held), NewGroups(fs, next),
           NEW r, Progress(fs, next, held, r, Groups(fs.size))
    PROVE  Moved(fs, r.fs, r.reserve, r.move)
<1>1. /\ FsOK(fs, fs.size) /\ GroupsOf(fs) \subseteq GroupsOf(next) /\ MetaBlocks(next) \subseteq held
      /\ held \subseteq r.reserve
  BY DEF Growing, Progress
<1>2. FsOK(r.fs, r.fs.size) /\ Extends(next, r.fs)
  BY DEF Progress, Relocated
<1>3. r.fs.size = next.size /\ r.fs.rsv = next.rsv
  BY <1>2 DEF Extends, FsFields
<1>4. GroupsOf(r.fs) = GroupsOf(next) /\ DescBlocks(r.fs) = DescBlocks(next)
  BY <1>3 DEF GroupsOf, DescBlocks
<1>5. \A h : SuperAndBgd(r.fs, h) = SuperAndBgd(next, h)
  BY <1>3, <1>4 DEF SuperAndBgd
<1>6. ASSUME NEW g \in GroupsOf(fs) PROVE Served(fs, held, r, g)
  <2>1. g < Groups(fs.size)
    <3>1. fs.size \in Nat \ {0}
      BY <1>1 DEF FsOK
    <3>2. g \in Nat /\ g <= Groups(fs.size) - 1 /\ Groups(fs.size) \in Nat \ {0}
      BY <3>1, GroupNumbers
    <3> QED
      BY <3>2
  <2> QED
    BY <2>1 DEF Progress
<1>7. \A g \in GroupsOf(next) \ GroupsOf(fs) : r.fs.gd[g] = next.gd[g]
  BY DEF Progress
<1>8. ASSUME NEW g \in GroupsOf(r.fs), NEW p \in Parts PROVE r.fs.gd[g][p] # Nowhere
  BY <1>4, <1>6, <1>7 DEF Served, NewGroups
<1>9. \A g \in GroupsOf(r.fs) : /\ \A p \in Parts : r.fs.gd[g][p] \in Nat \ {Nowhere}
                                /\ Structures(r.fs.gd[g]) = UNION {Spot(r.fs.gd[g], p) : p \in Parts}
  BY <1>2, <1>8, AllParts
<1>10. \A g \in GroupsOf(fs) : Structures(fs.gd[g]) \subseteq held /\ Structures(fs.gd[g]) \subseteq fs.map
  <2>1. \A g \in GroupsOf(fs) : Structures(fs.gd[g]) \subseteq held /\ Structures(fs.gd[g]) \subseteq MetaBlocks(fs)
    BY GrowingParts
  <2> QED
    BY <2>1 DEF Growing, Tidy
<1>11. \A h \in GroupsOf(next) \ GroupsOf(fs) :
         /\ Structures(r.fs.gd[h]) \cap fs.map = {} /\ SuperAndBgd(next, h) \cap fs.map = {}
         /\ Structures(r.fs.gd[h]) \subseteq held /\ SuperAndBgd(next, h) \subseteq held
  <2>1. \A h \in GroupsOf(next) : Structures(next.gd[h]) \subseteq MetaBlocks(next) /\ SuperAndBgd(next, h) \subseteq MetaBlocks(next)
    BY DEF MetaBlocks
  <2> QED
    BY <1>1, <1>7, <2>1 DEF NewGroups
<1>12. ASSUME NEW b \in fs.map, b \in MetaBlocks(r.fs), b \notin MetaBlocks(fs) PROVE b \in r.move
  <2>1. PICK g \in GroupsOf(next) : b \in SuperAndBgd(next, g) \cup Structures(r.fs.gd[g])
    BY <1>4, <1>5, <1>12 DEF MetaBlocks
  <2>2. g \in GroupsOf(fs)
    BY <1>11, <2>1
  <2>3. CASE b \in SuperAndBgd(next, g)
    <3>1. b \in Regions(fs, next)
      BY <2>2, <2>3 DEF Regions
    <3> QED
      BY <1>12, <3>1 DEF Progress
  <2>4. CASE b \in Structures(r.fs.gd[g])
    BY <1>6, <1>12, <2>2, <2>4 DEF Served
  <2> QED
    BY <2>1, <2>3, <2>4
<1>13. ASSUME NEW h \in GroupsOf(r.fs), NEW p \in Parts
       PROVE  \/ h \in GroupsOf(fs) /\ r.fs.gd[h][p] = fs.gd[h][p]
              \/ \A g \in GroupsOf(fs) : Spot(r.fs.gd[h], p) \cap Structures(fs.gd[g]) = {}
  <2>1. CASE h \in GroupsOf(fs)
    <3>1. r.fs.gd[h][p] = fs.gd[h][p] \/ Spot(r.fs.gd[h], p) \cap held = {}
      BY <1>6, <2>1 DEF Served
    <3> QED
      BY <1>10, <2>1, <3>1
  <2>2. CASE h \notin GroupsOf(fs)
    <3>1. Spot(r.fs.gd[h], p) \subseteq Structures(r.fs.gd[h])
      BY <1>9
    <3>2. Structures(r.fs.gd[h]) \cap fs.map = {}
      BY <1>4, <1>11, <2>2
    <3> QED
      BY <1>10, <3>1, <3>2
  <2> QED
    BY <2>1, <2>2
<1>14. ASSUME NEW g \in GroupsOf(fs), NEW h \in GroupsOf(next) \ GroupsOf(fs), NEW p \in Parts
       PROVE  Spot(r.fs.gd[g], p) \cap (SuperAndBgd(next, h) \cup Structures(r.fs.gd[h])) = {}
  <2>1. r.fs.gd[g][p] = fs.gd[g][p] \/ Spot(r.fs.gd[g], p) \cap held = {}
    BY <1>6 DEF Served
  <2>2. CASE r.fs.gd[g][p] = fs.gd[g][p]
    <3>1. Spot(r.fs.gd[g], p) = Spot(fs.gd[g], p)
      BY <2>2 DEF Spot
    <3>2. Spot(fs.gd[g], p) \subseteq fs.map
      BY <1>10, GrowingParts
    <3> QED
      BY <1>11, <3>1, <3>2
  <2>3. CASE Spot(r.fs.gd[g], p) \cap held = {}
    BY <1>11, <2>3
  <2> QED
    BY <2>1, <2>2, <2>3
<1>15. ASSUME NEW g \in GroupsOf(fs) PROVE Table(r.fs.gd[g]) \cap {r.fs.gd[g].bbm, r.fs.gd[g].ibm} = {}
  <2>1. \A p, o \in Parts : p # o => Spot(r.fs.gd[g], p) \cap Spot(r.fs.gd[g], o) = {}
    BY <1>6 DEF Served
  <2>2. \A p \in Parts : r.fs.gd[g][p] \in Nat \ {Nowhere}
    BY <1>1, <1>4, <1>9
  <2> QED
    BY <2>1, <2>2, PartsApart
<1>16. ASSUME NEW b \in MetaBlocks(r.fs) PROVE b \in r.fs.map \cup r.reserve
  <2>1. PICK g \in GroupsOf(next) : b \in SuperAndBgd(next, g) \cup Structures(r.fs.gd[g])
    BY <1>4, <1>5, <1>16 DEF MetaBlocks
  <2>2. CASE g \notin GroupsOf(fs)
    BY <1>1, <1>11, <2>1, <2>2
  <2>3. CASE g \in GroupsOf(fs) /\ b \in SuperAndBgd(next, g)
    <3>1. b \in Regions(fs, next)
      BY <2>3 DEF Regions
    <3> QED
      BY <3>1 DEF Progress
  <2>4. CASE g \in GroupsOf(fs) /\ b \in Structures(r.fs.gd[g])
    BY <1>1, <1>6, <2>4 DEF Served
  <2> QED
    BY <2>1, <2>2, <2>3, <2>4
<1>17. r.move \cap MetaBlocks(fs) = {}
  BY DEF Progress
<1> QED
  BY <1>4, <1>5, <1>8, <1>12, <1>13, <1>14, <1>15, <1>16, <1>17 DEF Moved

LEMMA BlocksToMoveFiles == ResizeInv /\ FilesInv /\ BlocksToMove => FilesInv'
<1> SUFFICES ASSUME ResizeInv, FilesInv, BlocksToMove PROVE FilesInv'
  OBVIOUS
<1>1. PICK r : /\ r = ToMove(old, new, reserve)
               /\ IF r.ok THEN /\ new' = r.fs /\ reserve' = r.reserve /\ move' = r.move
                               /\ Goto("plan", 0)
                          ELSE Fail /\ UNCHANGED <<new, reserve, move>>
  BY DEF BlocksToMove
<1>2. pc = "zero" /\ UNCHANGED <<disk, old, files>>
  BY DEF BlocksToMove, given
<1>3. FsOK(old, old.size) /\ Enlarged(old, new, reserve)
  BY <1>2 DEF ResizeInv, Phases
<1>4. Readiness /\ Untouched /\ Grown
  BY <1>2, EarlyFacts DEF Before, FilesInv, FilePhases
<1>5. ASSUME new'.size = new.size PROVE Readiness' /\ Untouched'
  <2>1. \A g \in GroupsOf(old) : disk[1].val[g].it = old.gd[g].it
    BY <1>4 DEF Untouched
  <2>2. GroupsOf(old') = GroupsOf(old) /\ Heads' = Heads
    BY <1>2, SameHeads
  <2>3. Kept(disk[1].val)' /\ Kept(old.gd)' /\ Is(1, "gdt")'
    BY <1>2, <1>4 DEF Readiness, Kept, Is
  <2>4. Readiness'
    BY <1>2, <1>4, <1>5, <2>1, <2>2, <2>3 DEF Readiness
  <2>5. Untouched'
    BY <1>2, <1>4, <2>2 DEF Untouched, Owns, Pointed
  <2> QED
    BY <2>4, <2>5
<1>6. CASE r.ok
  <2>1. pc' = "plan" /\ new' = r.fs /\ reserve' = r.reserve /\ move' = r.move
    BY <1>1, <1>6 DEF Goto
  <2>2. Relocated(old, new, r)
    BY <1>1, <1>3, <1>6, ToMoveOK DEF Enlarged
  <2>3. r.fs.size = new.size /\ r.fs.rsv = new.rsv /\ r.fs.ri = new.ri
    BY <2>2 DEF Relocated, Extends, FsFields
  <2>4. GroupsOf(r.fs) = GroupsOf(new) /\ DescBlocks(r.fs) = DescBlocks(new)
    BY <2>3 DEF GroupsOf, DescBlocks
  <2>5. Tidy(old) /\ NewGroups(old, new)
    BY <1>4 DEF Untouched, Grown, Complete, NewGroups
  <2>6. /\ Moved(old, r.fs, r.reserve, r.move)
        /\ \A h \in GroupsOf(new) \ GroupsOf(old) : r.fs.gd[h] = new.gd[h]
    <3>1. CASE DescBlocks(old) + old.rsv = DescBlocks(new) + new.rsv
      <4>1. r.fs = new /\ r.reserve = reserve /\ r.move = {}
        BY <1>1, <3>1 DEF ToMove
      <4> QED
        BY <1>3, <2>5, <3>1, <4>1, NothingMoves
    <3>2. CASE DescBlocks(old) + old.rsv # DescBlocks(new) + new.rsv
      <4>1. reserve = MetaBlocks(new)
        BY <1>4, <3>2 DEF Grown
      <4>2. Growing(old, new, reserve)
        BY <1>3, <2>5, <4>1 DEF Growing, Enlarged
      <4>3. Progress(old, new, reserve, r, Groups(old.size))
        BY <1>1, <1>6, <3>2, <4>2, ToMoveProgress
      <4> QED
        BY <2>5, <4>2, <4>3, AllServed DEF Progress
    <3> QED
      BY <3>1, <3>2
  <2>7. Readiness' /\ Untouched'
    BY <1>5, <2>1, <2>3
  <2>8. RoomTaken'
    BY <1>2, <1>4, <2>1, <2>3, <2>4 DEF Grown, RoomTaken
  <2>9. ASSUME NEW h \in GroupsOf(r.fs) \ GroupsOf(old) PROVE Structures(r.fs.gd[h]) \cap Heads = {}
    <3>1. Structures(r.fs.gd[h]) \cap old.map = {}
      BY <2>4, <2>5, <2>6 DEF NewGroups
    <3> QED
      BY <1>3, <2>5, <3>1, HeadsOwned
  <2>10. Heads' = Heads
    BY <1>2, SameHeads
  <2>11. MovesKnown' /\ Complete' /\ Elsewhere' /\ Beside'
    BY <1>2, <2>1, <2>6 DEF Moved, MovesKnown, Complete, Elsewhere, Beside
  <2>12. (move # {} => MetaBlocks(new) \subseteq new.map \cup reserve)'
    BY <2>1, <2>6 DEF Moved
  <2>13. Planned'
    BY <1>2, <2>1, <2>8, <2>9, <2>10, <2>11, <2>12 DEF Planned
  <2> QED
    BY <2>1, <2>7, <2>13 DEF FilesInv, FilePhases, Untouched, Before, After
<1>7. CASE ~r.ok
  <2>1. pc' = "failed" /\ new' = new
    BY <1>1, <1>7 DEF Fail
  <2>2. Readiness'
    BY <1>5, <2>1
  <2> QED
    BY <2>1, <2>2, FailedPhases DEF FilesInv
<1> QED
  BY <1>6, <1>7

(***************************************************************************)
(* The file system to start from.                                          *)
(***************************************************************************)
(* mke2fs makes it tidy.                                                   *)
LEMMA MadeTidy ==
    ASSUME NEW f \in Formats, NEW fs, fs = Mkfs(f).fs
    PROVE  Tidy(fs)
<1>1. PICK from : /\ FsOK(from, from.size) /\ from.size = f.size
                  /\ from.map = Regions(from, from) /\ \A g \in GroupsOf(from) : Bare(from.gd[g])
                  /\ Added(from, fs, 0, Groups(f.size))
  BY MadeAdded
<1>2. FsOK(fs, fs.size) /\ Extends(from, fs)
  BY <1>1 DEF Added
<1>3. fs.size = from.size /\ fs.rsv = from.rsv /\ from.map \subseteq fs.map
  BY <1>2 DEF Extends, FsFields
<1>4. GroupsOf(fs) = GroupsOf(from) /\ DescBlocks(fs) = DescBlocks(from)
  BY <1>3 DEF GroupsOf, DescBlocks
<1>5. \A g : SuperAndBgd(fs, g) = SuperAndBgd(from, g)
  BY <1>3, <1>4 DEF SuperAndBgd
<1>6. AllRegions(fs) = from.map
  BY <1>1, <1>4, <1>5 DEF AllRegions, Regions
<1>7. \A g \in GroupsOf(fs) : g \in Nat /\ g >= 0 /\ g < Groups(f.size)
  <2>1. from.size \in Nat \ {0}
    BY <1>1 DEF FsOK
  <2>2. \A g \in GroupsOf(fs) : g \in Nat /\ g <= Groups(f.size) - 1 /\ Groups(f.size) \in Nat
    BY <1>1, <1>4, <2>1, GroupNumbers
  <2> QED
    BY <2>2
<1>8. ASSUME NEW g \in GroupsOf(fs)
      PROVE  Fresh(fs.gd[g], from.map, fs.map) /\ \A p \in Parts : fs.gd[g][p] # Nowhere
  BY <1>1, <1>4, <1>7 DEF Added
<1>9. \A g, h \in GroupsOf(fs), p, q \in Parts : g < h => Spot(fs.gd[g], p) \cap Spot(fs.gd[h], q) = {}
  BY <1>1, <1>4, <1>7 DEF Added
<1>10. ASSUME NEW g \in GroupsOf(fs), NEW h \in GroupsOf(fs), NEW p \in Parts, NEW q \in Parts, g # h \/ p # q
       PROVE  Spot(fs.gd[g], p) \cap Spot(fs.gd[h], q) = {}
  <2>1. CASE g = h
    BY <1>8, <1>10, <2>1 DEF Fresh
  <2>2. CASE g < h
    BY <1>9, <2>2
  <2>3. CASE h < g
    <3>1. Spot(fs.gd[h], q) \cap Spot(fs.gd[g], p) = {}
      BY <1>9, <2>3
    <3> QED
      BY <3>1
  <2> QED
    BY <1>7, <2>1, <2>2, <2>3
<1>11. MetaBlocks(fs) \subseteq fs.map
  <2>1. \A g \in GroupsOf(fs) : SuperAndBgd(fs, g) \subseteq fs.map
    BY <1>3, <1>6 DEF AllRegions
  <2>2. \A g \in GroupsOf(fs) : Structures(fs.gd[g]) = UNION {Spot(fs.gd[g], p) : p \in Parts}
    BY <1>2, <1>8, AllParts
  <2>3. \A g \in GroupsOf(fs) : Structures(fs.gd[g]) \subseteq fs.map
    BY <1>8, <2>2 DEF Fresh
  <2> QED
    BY <2>1, <2>3 DEF MetaBlocks
<1>12. \A g \in GroupsOf(fs), p \in Parts : Spot(fs.gd[g], p) \cap AllRegions(fs) = {}
  BY <1>6, <1>8 DEF Fresh
<1> QED
  BY <1>8, <1>10, <1>11, <1>12 DEF Tidy

LEMMA TidyMarked ==
    ASSUME NEW fs, NEW next, Tidy(fs),
           next.size = fs.size, next.rsv = fs.rsv, next.gd = fs.gd, fs.map \subseteq next.map
    PROVE  Tidy(next) /\ MetaBlocks(next) \subseteq fs.map
<1>1. GroupsOf(next) = GroupsOf(fs) /\ MetaBlocks(next) = MetaBlocks(fs) /\ AllRegions(next) = AllRegions(fs)
  BY StaysSame
<1> QED
  BY <1>1 DEF Tidy

(* What Formatted puts where.                                              *)
OwnersOf(blocks, b) == {i \in DOMAIN blocks : \E n \in DOMAIN blocks[i] : blocks[i][n] = b}
InodesAt(fs, blocks, b) == {i \in DOMAIN blocks : b = InodeBlock(fs.gd, i)}
BitmapAt(fs, b) == \E g \in GroupsOf(fs) : b = fs.gd[g].bbm \/ b = fs.gd[g].ibm
SuperAt(fs, b) == \E g \in {h \in GroupsOf(fs) : HasSuper(h)} : b = FirstBlock(g)
DescsAt(fs, b) == \E g \in {h \in GroupsOf(fs) : HasSuper(h)} : b \in Run(FirstBlock(g) + 1, DescBlocks(fs))
TableAt(fs, b) == \E g \in GroupsOf(fs) : b \in Table(fs.gd[g])
RankOf(blocks, i, b) == CHOOSE n \in DOMAIN blocks[i] : blocks[i][n] = b

LEMMA DataAt ==
    ASSUME NEW fs, NEW blocks, NEW b \in Blocks, OwnersOf(blocks, b) # {}, InodesAt(fs, blocks, b) = {},
           ~BitmapAt(fs, b), ~SuperAt(fs, b), ~DescsAt(fs, b), ~TableAt(fs, b)
    PROVE  Formatted(fs, blocks)[b] =
             Content("data", <<Min(OwnersOf(blocks, b)), RankOf(blocks, Min(OwnersOf(blocks, b)), b)>>)
BY DEF Formatted, OwnersOf, InodesAt, BitmapAt, SuperAt, DescsAt, TableAt, RankOf

LEMMA InodeAtBlock ==
    ASSUME NEW fs, NEW blocks, NEW b \in Blocks, OwnersOf(blocks, b) = {}, InodesAt(fs, blocks, b) # {},
           ~BitmapAt(fs, b), ~SuperAt(fs, b), ~DescsAt(fs, b)
    PROVE  Formatted(fs, blocks)[b] =
             Content("inode", <<Min(InodesAt(fs, blocks, b)), blocks[Min(InodesAt(fs, blocks, b))]>>)
BY DEF Formatted, OwnersOf, InodesAt, BitmapAt, SuperAt, DescsAt

LEMMA HeadAt ==
    ASSUME NEW fs, NEW blocks, NEW b \in Blocks, OwnersOf(blocks, b) = {}, InodesAt(fs, blocks, b) = {},
           ~BitmapAt(fs, b), ~TableAt(fs, b), SuperAt(fs, b) \/ DescsAt(fs, b)
    PROVE  /\ Formatted(fs, blocks)[b].kind \in {"super", "gdt"}
           /\ ~SuperAt(fs, b) => Formatted(fs, blocks)[b] = Content("gdt", fs.gd)
<1>1. CASE SuperAt(fs, b)
  <2>1. Formatted(fs, blocks)[b] \in {Content("super", Super(fs)), Content("gdt", fs.gd)}
    BY <1>1 DEF Formatted, OwnersOf, InodesAt, BitmapAt, SuperAt, TableAt
  <2> QED
    BY <1>1, <2>1 DEF Content
<1>2. CASE ~SuperAt(fs, b)
  <2>1. Formatted(fs, blocks)[b] = Content("gdt", fs.gd)
    BY <1>2 DEF Formatted, OwnersOf, InodesAt, BitmapAt, SuperAt, DescsAt, TableAt
  <2> QED
    BY <1>2, <2>1 DEF Content
<1> QED
  BY <1>1, <1>2

\* Files in a tidy file system: each block belongs to one, once, and is none of
\* the metadata.
Holding(fs, blocks) ==
    /\ FsOK(fs, fs.size) /\ Tidy(fs) /\ 0 .. fs.size - 1 \subseteq Blocks
    /\ DOMAIN blocks \subseteq 1 .. Groups(fs.size) * InodeBlocks
    /\ \A i \in DOMAIN blocks : blocks[i] \in Seq((0 .. fs.size - 1) \ MetaBlocks(fs))
    /\ \A i, j \in DOMAIN blocks : \A m \in DOMAIN blocks[i], n \in DOMAIN blocks[j] :
         blocks[i][m] = blocks[j][n] => i = j /\ m = n

LEMMA HoldingInode ==
    ASSUME NEW fs, NEW blocks, Holding(fs, blocks), NEW i \in DOMAIN blocks
    PROVE  /\ GroupOfInode(i) \in GroupsOf(fs)
           /\ InodeBlock(fs.gd, i) \in Table(fs.gd[GroupOfInode(i)])
           /\ Table(fs.gd[GroupOfInode(i)]) = Spot(fs.gd[GroupOfInode(i)], "it")
           /\ \A j \in DOMAIN blocks : InodeBlock(fs.gd, j) = InodeBlock(fs.gd, i) => j = i
<1>1. fs.size \in Nat \ {0}
  BY DEF Holding, FsOK
<1>2. PICK n : n = Groups(fs.size)
  OBVIOUS
<1>3. n \in Nat /\ \A j \in DOMAIN blocks : j \in 1 .. n * InodeBlocks
  BY <1>1, <1>2, GroupsNat DEF Holding
<1>4. \A j \in DOMAIN blocks : GroupOfInode(j) \in GroupsOf(fs)
  BY <1>2, <1>3, InodeGroup DEF GroupsOf
<1>5. ASSUME NEW g \in GroupsOf(fs)
      PROVE  fs.gd[g].it \in Nat \ {Nowhere} /\ Table(fs.gd[g]) = Spot(fs.gd[g], "it")
  <2>1. \A p \in Parts : fs.gd[g][p] \in Nat \ {Nowhere}
    BY AllParts DEF Holding, Tidy
  <2> QED
    BY <2>1, PartsIn DEF Parts
<1>6. \A j \in DOMAIN blocks : InodeBlock(fs.gd, j) \in Table(fs.gd[GroupOfInode(j)])
  BY <1>3, <1>4, <1>5, InodeInTable
<1>7. ASSUME NEW j \in DOMAIN blocks, InodeBlock(fs.gd, j) = InodeBlock(fs.gd, i) PROVE j = i
  <2>1. GroupOfInode(i) = GroupOfInode(j)
    <3> SUFFICES ASSUME GroupOfInode(i) # GroupOfInode(j) PROVE FALSE
      OBVIOUS
    <3>1. Spot(fs.gd[GroupOfInode(i)], "it") \cap Spot(fs.gd[GroupOfInode(j)], "it") = {}
      BY <1>4 DEF Holding, Tidy, Parts
    <3> QED
      BY <1>4, <1>5, <1>6, <1>7, <3>1
  <2>2. fs.gd[GroupOfInode(i)].it \in Nat
    BY <1>4, <1>5
  <2> QED
    BY <1>3, <1>7, <2>1, <2>2, SameOffset
<1> QED
  BY <1>4, <1>5, <1>6, <1>7

LEMMA RegionAt ==
    ASSUME NEW fs, FsOK(fs, fs.size), NEW b, b < fs.size, SuperAt(fs, b) \/ DescsAt(fs, b)
    PROVE  b \in AllRegions(fs) /\ b \in MetaBlocks(fs)
<1>1. PICK g \in GroupsOf(fs) : HasSuper(g) /\ (b = FirstBlock(g) \/ b \in Run(FirstBlock(g) + 1, DescBlocks(fs)))
  BY DEF SuperAt, DescsAt
<1>2. PICK f, d, n : f = FirstBlock(g) /\ d = DescBlocks(fs) /\ n = fs.rsv
  OBVIOUS
<1>3. f \in Nat /\ d \in Nat /\ n \in Nat
  <2>1. fs.size \in Nat \ {0} /\ fs.rsv \in Nat
    BY DEF FsOK
  <2> QED
    BY <1>2, <2>1, GroupNumbers, DescBlocksNat
<1>4. b \in Run(f, 1 + d + n)
  BY <1>1, <1>2, <1>3 DEF Run
<1> QED
  BY <1>1, <1>2, <1>4, RegionIn

LEMMA StructureAt ==
    ASSUME NEW fs, NEW blocks, Holding(fs, blocks), NEW b,
           BitmapAt(fs, b) \/ TableAt(fs, b) \/ InodesAt(fs, blocks, b) # {}
    PROVE  b \in MetaBlocks(fs) /\ b \notin AllRegions(fs)
<1>1. PICK g \in GroupsOf(fs) : b \in Structures(fs.gd[g])
  <2>1. CASE BitmapAt(fs, b)
    <3>1. PICK g \in GroupsOf(fs) : b = fs.gd[g].bbm \/ b = fs.gd[g].ibm
      BY <2>1 DEF BitmapAt
    <3>2. fs.gd[g].bbm # Nowhere /\ fs.gd[g].ibm # Nowhere
      BY DEF Holding, Tidy, Parts
    <3> QED
      BY <3>1, <3>2 DEF Structures
  <2>2. CASE TableAt(fs, b)
    BY <2>2 DEF TableAt, Structures
  <2>3. CASE InodesAt(fs, blocks, b) # {}
    <3>1. PICK i \in DOMAIN blocks : b = InodeBlock(fs.gd, i)
      BY <2>3 DEF InodesAt
    <3> QED
      BY <3>1, HoldingInode DEF Structures
  <2> QED
    BY <2>1, <2>2, <2>3
<1>2. Structures(fs.gd[g]) = UNION {Spot(fs.gd[g], p) : p \in Parts}
  BY AllParts DEF Holding, Tidy
<1>3. \A p \in Parts : Spot(fs.gd[g], p) \cap AllRegions(fs) = {}
  BY DEF Holding, Tidy
<1> QED
  BY <1>1, <1>2, <1>3 DEF MetaBlocks

(* The blocks of the files.                                                *)
LEMMA DataLaidOut ==
    ASSUME NEW fs, NEW blocks, Holding(fs, blocks), NEW i \in DOMAIN blocks, NEW n \in DOMAIN blocks[i]
    PROVE  Formatted(fs, blocks)[blocks[i][n]] = Content("data", <<i, n>>)
<1>1. PICK b : b = blocks[i][n]
  OBVIOUS
<1>2. b \in (0 .. fs.size - 1) \ MetaBlocks(fs) /\ fs.size \in Nat
  BY <1>1 DEF Holding, FsOK
<1>3. b \in Blocks /\ b < fs.size
  <2>1. 0 .. fs.size - 1 \subseteq Blocks
    BY DEF Holding
  <2> QED
    BY <1>2, <2>1
<1>4. InodesAt(fs, blocks, b) = {} /\ ~BitmapAt(fs, b) /\ ~TableAt(fs, b)
  BY <1>2, StructureAt
<1>5. ~SuperAt(fs, b) /\ ~DescsAt(fs, b)
  BY <1>2, <1>3, RegionAt DEF Holding
<1>6. OwnersOf(blocks, b) = {i}
  BY <1>1 DEF OwnersOf, Holding
<1>7. i \in Nat
  <2>1. i \in 1 .. Groups(fs.size) * InodeBlocks
    BY DEF Holding
  <2> QED
    BY <2>1
<1>8. Min({i}) = i
  BY <1>7 DEF Min
<1>9. RankOf(blocks, i, b) = n
  <2>1. \A m \in DOMAIN blocks[i] : blocks[i][m] = b <=> m = n
    BY <1>1 DEF Holding
  <2> QED
    BY <2>1 DEF RankOf
<1> QED
  BY <1>1, <1>3, <1>4, <1>5, <1>6, <1>8, <1>9, DataAt

(* Their inodes.                                                           *)
LEMMA InodeLaidOut ==
    ASSUME NEW fs, NEW blocks, Holding(fs, blocks), NEW i \in DOMAIN blocks
    PROVE  /\ InodeBlock(fs.gd, i) \in Blocks
           /\ Formatted(fs, blocks)[InodeBlock(fs.gd, i)] = Content("inode", <<i, blocks[i]>>)
<1>1. PICK b, g : b = InodeBlock(fs.gd, i) /\ g = GroupOfInode(i)
  OBVIOUS
<1>2. g \in GroupsOf(fs) /\ b \in Spot(fs.gd[g], "it") /\ \A j \in DOMAIN blocks : InodeBlock(fs.gd, j) = b => j = i
  BY <1>1, HoldingInode
<1>3. InodesAt(fs, blocks, b) = {i}
  BY <1>1, <1>2 DEF InodesAt
<1>4. b \in MetaBlocks(fs) /\ b \notin AllRegions(fs)
  BY <1>3, StructureAt
<1>5. b \in 0 .. fs.size - 1 /\ fs.size \in Nat
  BY <1>4, MetaInside DEF Holding, FsOK
<1>6. b \in Blocks /\ b < fs.size
  <2>1. 0 .. fs.size - 1 \subseteq Blocks
    BY DEF Holding
  <2> QED
    BY <1>5, <2>1
<1>7. ~SuperAt(fs, b) /\ ~DescsAt(fs, b)
  BY <1>4, <1>6, RegionAt DEF Holding
<1>8. OwnersOf(blocks, b) = {}
  <2> SUFFICES ASSUME NEW j \in DOMAIN blocks, NEW m \in DOMAIN blocks[j], blocks[j][m] = b PROVE FALSE
    BY DEF OwnersOf
  <2>1. blocks[j][m] \in (0 .. fs.size - 1) \ MetaBlocks(fs)
    BY DEF Holding
  <2> QED
    BY <1>4, <2>1
<1>9. ~BitmapAt(fs, b)
  <2> SUFFICES ASSUME NEW h \in GroupsOf(fs), b = fs.gd[h].bbm \/ b = fs.gd[h].ibm PROVE FALSE
    BY DEF BitmapAt
  <2>1. \A p \in Parts : fs.gd[h][p] \in Nat \ {Nowhere}
    BY AllParts DEF Holding, Tidy
  <2>2. Spot(fs.gd[h], "bbm") = {fs.gd[h].bbm} /\ Spot(fs.gd[h], "ibm") = {fs.gd[h].ibm}
    BY <2>1, PartsIn
  <2>3. /\ Spot(fs.gd[g], "it") \cap Spot(fs.gd[h], "bbm") = {}
        /\ Spot(fs.gd[g], "it") \cap Spot(fs.gd[h], "ibm") = {}
    BY <1>2 DEF Holding, Tidy, Parts
  <2> QED
    BY <1>2, <2>2, <2>3
<1>10. i \in Nat
  <2>1. i \in 1 .. Groups(fs.size) * InodeBlocks
    BY DEF Holding
  <2> QED
    BY <2>1
<1>11. Min({i}) = i
  BY <1>10 DEF Min
<1>12. Formatted(fs, blocks)[b] = Content("inode", <<i, blocks[i]>>)
  BY <1>3, <1>6, <1>7, <1>8, <1>9, <1>11, InodeAtBlock
<1> QED
  BY <1>1, <1>6, <1>12

(* The superblock and the descriptors.                                     *)
LEMMA HeadsLaidOut ==
    ASSUME NEW fs, NEW blocks, Holding(fs, blocks), NEW b \in 0 .. DescBlocks(fs), b \in MetaBlocks(fs), b < fs.size
    PROVE  /\ Formatted(fs, blocks)[b].kind \in {"super", "gdt"}
           /\ b = 1 => Formatted(fs, blocks)[b] = Content("gdt", fs.gd)
<1>1. fs.size \in Nat \ {0} /\ FsOK(fs, fs.size)
  BY DEF Holding, FsOK
<1>2. PICK d : d = DescBlocks(fs)
  OBVIOUS
<1>3. d \in Nat \ {0} /\ b \in 0 .. d
  BY <1>1, <1>2, DescBlocksPositive
<1>4. 0 \in GroupsOf(fs) /\ HasSuper(0) /\ FirstBlock(0) = 0
  BY <1>1, GroupZero
<1>5. b = 0 => SuperAt(fs, b)
  BY <1>4 DEF SuperAt
<1>6. b # 0 => DescsAt(fs, b)
  <2>1. b # 0 => b \in Run(0 + 1, d)
    BY <1>3 DEF Run
  <2> QED
    BY <1>2, <1>4, <2>1 DEF DescsAt
<1>7. b \in AllRegions(fs)
  BY <1>1, <1>5, <1>6, RegionAt
<1>8. ~BitmapAt(fs, b) /\ ~TableAt(fs, b) /\ InodesAt(fs, blocks, b) = {}
  BY <1>7, StructureAt
<1>9. OwnersOf(blocks, b) = {}
  <2> SUFFICES ASSUME NEW j \in DOMAIN blocks, NEW m \in DOMAIN blocks[j], blocks[j][m] = b PROVE FALSE
    BY DEF OwnersOf
  <2>1. blocks[j][m] \in (0 .. fs.size - 1) \ MetaBlocks(fs)
    BY DEF Holding
  <2> QED
    BY <2>1
<1>10. b \in Blocks
  <2>1. b \in 0 .. fs.size - 1
    BY <1>1, <1>3
  <2> QED
    BY <2>1 DEF Holding
<1>11. b = 1 => ~SuperAt(fs, b)
  <2> SUFFICES ASSUME b = 1, NEW g \in GroupsOf(fs), b = FirstBlock(g) PROVE FALSE
    BY DEF SuperAt
  <2>1. g \in Nat
    BY <1>1, GroupNumbers
  <2>2. CASE g = 0
    BY <1>4, <2>2
  <2>3. CASE g # 0
    <3>1. FirstBlock(g) \in Nat /\ FirstBlock(g) >= 2
      BY <2>1, <2>3, FirstBlocks
    <3> QED
      BY <3>1
  <2> QED
    BY <2>2, <2>3
<1>12. SuperAt(fs, b) \/ DescsAt(fs, b)
  BY <1>5, <1>6
<1> QED
  BY <1>8, <1>9, <1>10, <1>11, <1>12, HeadAt

(* The blocks the two inodes own.                                          *)
\* The blocks of the two files that Init has.
FilesOn(p, S, T) == [i \in {p[1], p[2]} |-> Ascending(IF i = p[1] THEN S ELSE T)]

\* next is fs with two files: one on the blocks S, the other on T.
Filled(next, fs, p, S, T) ==
    /\ {p[1], p[2]} \subseteq 1 .. Groups(fs.size) * InodeBlocks
    /\ S \in Owned(Unused(fs)) /\ T \in {{}, Unused(fs) \ S}
    /\ FsOK(next, next.size) /\ next.size = fs.size /\ next.rsv = fs.rsv /\ next.gd = fs.gd
    /\ next.map = fs.map \cup (S \cup T) /\ 0 .. fs.size - 1 \subseteq Blocks

LEMMA InitHolding ==
    ASSUME NEW f \in Formats, NEW p, NEW S, NEW T, NEW next, Filled(next, Mkfs(f).fs, p, S, T)
    PROVE  /\ Holding(next, FilesOn(p, S, T))
           /\ \A i \in DOMAIN FilesOn(p, S, T) : \A n \in DOMAIN FilesOn(p, S, T)[i] :
                FilesOn(p, S, T)[i][n] \in next.map
<1>0. PICK fs, blocks : fs = Mkfs(f).fs /\ blocks = FilesOn(p, S, T)
  OBVIOUS
<1>a. /\ {p[1], p[2]} \subseteq 1 .. Groups(fs.size) * InodeBlocks
      /\ S \in Owned(Unused(fs)) /\ T \in {{}, Unused(fs) \ S}
      /\ FsOK(next, next.size) /\ next.size = fs.size /\ next.rsv = fs.rsv /\ next.gd = fs.gd
      /\ next.map = fs.map \cup (S \cup T) /\ 0 .. fs.size - 1 \subseteq Blocks
  BY <1>0 DEF Filled
<1>1. Tidy(next) /\ MetaBlocks(next) \subseteq fs.map
  BY <1>0, <1>a, MadeTidy, TidyMarked
<1>2. S \subseteq Unused(fs) /\ T \subseteq Unused(fs) /\ S \cap T = {}
  BY <1>0, <1>a, FormatsAssumption
<1>3. fs.size \in Nat
  BY <1>0, MadeOK DEF FsOK
<1>4. Unused(fs) \subseteq 0 .. fs.size - 1 /\ Unused(fs) \cap fs.map = {}
  BY DEF Unused
<1> DEFINE M(i) == IF i = p[1] THEN S ELSE T
<1>5. DOMAIN blocks = {p[1], p[2]} /\ \A i \in DOMAIN blocks : blocks[i] = Ascending(M(i))
  BY <1>0 DEF FilesOn
<1>6. \A i \in DOMAIN blocks : M(i) \subseteq Unused(fs) /\ M(i) \subseteq next.map
  BY <1>2, <1>a
<1>7. \A i, j \in DOMAIN blocks : i # j => M(i) \cap M(j) = {}
  BY <1>2, <1>5
<1> HIDE DEF M
<1>8. ASSUME NEW i \in DOMAIN blocks
      PROVE  /\ blocks[i] \in Seq(M(i))
             /\ \A m, n \in DOMAIN blocks[i] : blocks[i][m] = blocks[i][n] => m = n
  <2>1. PICK U : U = M(i)
    OBVIOUS
  <2>2. U \subseteq 0 .. fs.size - 1
    BY <1>4, <1>6, <2>1
  <2>3. PICK w, W : w = fs.size - 1 /\ W = 0 .. w
    OBVIOUS
  <2>4. IsFiniteSet(U) /\ U \subseteq Nat
    <3>1. w \in Int
      BY <1>3, <2>3
    <3>2. IsFiniteSet(W)
      BY <2>3, <3>1, FS_Interval
    <3>3. U \subseteq W
      BY <2>2, <2>3
    <3>4. IsFiniteSet(U)
      BY <3>2, <3>3, FS_Subset
    <3> QED
      BY <2>3, <3>1, <3>3, <3>4
  <2>5. PICK s : s = Ascending(U)
    OBVIOUS
  <2>6. s \in Seq(U) /\ \A m, n \in 1 .. Len(s) : m # n => s[m] # s[n]
    <3>1. /\ Ascending(U) \in Seq(U)
          /\ \A m, n \in 1 .. Len(Ascending(U)) : m # n => Ascending(U)[m] # Ascending(U)[n]
      BY <2>4, AscendingAll
    <3> QED
      BY <2>5, <3>1
  <2>7. DOMAIN s = 1 .. Len(s)
    BY <2>6
  <2>8. blocks[i] = s
    BY <1>5, <2>1, <2>5
  <2> QED
    BY <2>1, <2>6, <2>7, <2>8
<1>9. ASSUME NEW i \in DOMAIN blocks PROVE blocks[i] \in Seq((0 .. next.size - 1) \ MetaBlocks(next))
  <2>1. PICK U, V, s : U = M(i) /\ V = (0 .. next.size - 1) \ MetaBlocks(next) /\ s = blocks[i]
    OBVIOUS
  <2>2. U \subseteq V
    BY <1>a, <1>1, <1>4, <1>6, <2>1
  <2>3. s \in Seq(U)
    BY <1>8, <2>1
  <2>4. s \in Seq(V)
    BY <2>2, <2>3, SeqSubset
  <2> QED
    BY <2>1, <2>4
<1>10. ASSUME NEW i \in DOMAIN blocks, NEW n \in DOMAIN blocks[i] PROVE blocks[i][n] \in M(i)
  <2>1. PICK U, s : U = M(i) /\ s = blocks[i]
    OBVIOUS
  <2>2. s \in Seq(U) /\ n \in DOMAIN s
    BY <1>8, <2>1
  <2> QED
    BY <2>1, <2>2
<1>11. ASSUME NEW i \in DOMAIN blocks, NEW j \in DOMAIN blocks, NEW m \in DOMAIN blocks[i], NEW n \in DOMAIN blocks[j],
              blocks[i][m] = blocks[j][n]
       PROVE  i = j /\ m = n
  <2>1. blocks[i][m] \in M(i) /\ blocks[j][n] \in M(j)
    BY <1>10
  <2>2. i = j
    BY <1>7, <1>11, <2>1
  <2> QED
    BY <1>8, <1>11, <2>2
<1>12. Holding(next, blocks)
  BY <1>a, <1>1, <1>5, <1>9, <1>11 DEF Holding
<1> QED
  BY <1>0, <1>6, <1>10, <1>12

LEMMA InitFiles == Init => FilesInv
<1> SUFFICES ASSUME Init PROVE FilesInv
  OBVIOUS
<1>1. PICK fs \in {Mkfs(f).fs : f \in Formats}, p \in Pairs :
        /\ asked \in {n \in NewSizes : n > fs.size}
        /\ {p[1], p[2]} \subseteq 1 .. Groups(fs.size) * InodeBlocks
        /\ \E S \in Owned(Unused(fs)) : \E T \in {{}, Unused(fs) \ S} :
             \E blocks \in {[i \in {p[1], p[2]} |-> Ascending(IF i = p[1] THEN S ELSE T)]} :
               /\ \E owned \in {[fs EXCEPT !.map = @ \cup S \cup T, !.jino = p[1], !.jnl = blocks[p[1]]]} :
                    old = [owned EXCEPT !.orig = Super(owned)]
               /\ files = [i \in DOMAIN blocks |-> Len(blocks[i])]
               /\ disk = Formatted(old, blocks)
  BY DEF Init
<1>2. PICK f \in Formats : fs = Mkfs(f).fs
  OBVIOUS
<1>3. PICK S, T, blocks, owned :
        /\ S \in Owned(Unused(fs)) /\ T \in {{}, Unused(fs) \ S}
        /\ blocks = [i \in {p[1], p[2]} |-> Ascending(IF i = p[1] THEN S ELSE T)]
        /\ owned = [fs EXCEPT !.map = @ \cup S \cup T, !.jino = p[1], !.jnl = blocks[p[1]]]
        /\ old = [owned EXCEPT !.orig = Super(owned)]
        /\ files = [i \in DOMAIN blocks |-> Len(blocks[i])]
        /\ disk = Formatted(old, blocks)
  BY <1>1
<1>4. ResizeInv /\ new = old /\ pc = "start"
  BY InitInv DEF Init
<1>5. FsOK(old, old.size) /\ old.size < asked /\ asked \in NewSizes
  BY <1>4 DEF ResizeInv, Phases
<1>6. DOMAIN fs = FsFields /\ fs.size \in Nat \ {0}
  BY <1>2, MadeOK DEF FsOK
<1>7. old.size = fs.size /\ old.rsv = fs.rsv /\ old.gd = fs.gd /\ old.map = fs.map \cup (S \cup T)
  <2>1. DOMAIN owned = FsFields
    BY <1>3, <1>6
  <2>2. old.size = owned.size /\ old.rsv = owned.rsv /\ old.gd = owned.gd /\ old.map = owned.map
    BY <1>3, <2>1 DEF FsFields
  <2>3. owned.size = fs.size /\ owned.rsv = fs.rsv /\ owned.gd = fs.gd /\ owned.map = fs.map \cup S \cup T
    BY <1>3, <1>6 DEF FsFields
  <2> QED
    BY <2>2, <2>3
<1>8. 0 .. old.size - 1 \subseteq Blocks /\ 1 \in Blocks
  <2>1. PICK m, s : m = Max(NewSizes) /\ s = fs.size
    OBVIOUS
  <2>2. m \in Nat /\ asked <= m /\ asked \in Nat /\ s \in Nat \ {0} /\ s < asked
    BY <1>5, <1>6, <1>7, <2>1, BlocksBelow
  <2>3. 0 .. s - 1 \subseteq 0 .. m - 1 /\ 1 \in 0 .. m - 1
    BY <2>2
  <2> QED
    BY <1>7, <2>1, <2>3 DEF Blocks
<1>9. Holding(old, blocks) /\ \A i \in DOMAIN blocks : \A n \in DOMAIN blocks[i] : blocks[i][n] \in old.map
  <2>1. PICK next : next = old
    OBVIOUS
  <2>2. Filled(next, Mkfs(f).fs, p, S, T)
    <3>1. /\ FsOK(next, next.size) /\ next.size = fs.size /\ next.rsv = fs.rsv /\ next.gd = fs.gd
          /\ next.map = fs.map \cup (S \cup T) /\ 0 .. fs.size - 1 \subseteq Blocks
      BY <1>5, <1>7, <1>8, <2>1
    <3>2. /\ {p[1], p[2]} \subseteq 1 .. Groups(fs.size) * InodeBlocks
          /\ S \in Owned(Unused(fs)) /\ T \in {{}, Unused(fs) \ S}
      BY <1>1, <1>3
    <3>3. Filled(next, fs, p, S, T)
      BY <3>1, <3>2 DEF Filled
    <3> QED
      BY <1>2, <3>3
  <2>3. blocks = FilesOn(p, S, T)
    BY <1>3 DEF FilesOn
  <2> QED
    BY <2>1, <2>2, <2>3, InitHolding
<1>10. DOMAIN files = DOMAIN blocks /\ DOMAIN blocks = {p[1], p[2]}
  BY <1>3
<1>11. Tidy(old)
  BY <1>9 DEF Holding
<1>12. \A b \in Heads : b \in 0 .. DescBlocks(old) /\ b \in MetaBlocks(old) /\ b < old.size
  <2>1. old.size \in Nat /\ MetaBlocks(old) \subseteq 0 .. old.size - 1
    BY <1>5, MetaInside DEF FsOK
  <2>2. Heads \subseteq MetaBlocks(old)
    BY <1>5, <1>11, HeadsOwned
  <2> QED
    BY <2>1, <2>2 DEF Heads
<1>13. ASSUME NEW b \in Heads
       PROVE  disk[b].kind \in {"super", "gdt"} /\ (b = 1 => disk[b] = Content("gdt", old.gd))
  <2>1. PICK fsys, d : fsys = old /\ d = Formatted(fsys, blocks)
    OBVIOUS
  <2>2. Holding(fsys, blocks) /\ b \in 0 .. DescBlocks(fsys) /\ b \in MetaBlocks(fsys) /\ b < fsys.size
    BY <1>9, <1>12, <2>1
  <2>3. d[b].kind \in {"super", "gdt"} /\ (b = 1 => d[b] = Content("gdt", fsys.gd))
    BY <2>1, <2>2, HeadsLaidOut
  <2>4. disk = d
    BY <1>3, <2>1
  <2> QED
    BY <2>1, <2>3, <2>4
<1>14. disk[1] = Content("gdt", old.gd)
  <2>1. DescBlocks(old) \in Nat \ {0}
    BY <1>5, DescBlocksPositive DEF FsOK
  <2>2. 1 \in Heads
    BY <1>8, <2>1 DEF Heads
  <2> QED
    BY <1>13, <2>2
<1>15. disk[1].kind = "gdt" /\ disk[1].val = old.gd
  BY <1>14 DEF Content
<1>16. ASSUME NEW i \in DOMAIN files
       PROVE  Holds(disk, InodeBlock(old.gd, i), i, files[i]) /\ disk[InodeBlock(old.gd, i)].val[2] = blocks[i]
              /\ blocks[i] \in Seq((0 .. old.size - 1) \ MetaBlocks(old)) /\ files[i] = Len(blocks[i])
  <2>1. PICK b, s : b = InodeBlock(old.gd, i) /\ s = blocks[i]
    OBVIOUS
  <2>2. b \in Blocks /\ disk[b] = Content("inode", <<i, s>>)
    <3>1. PICK fsys, d : fsys = old /\ d = Formatted(fsys, blocks)
      OBVIOUS
    <3>2. Holding(fsys, blocks) /\ i \in DOMAIN blocks
      BY <1>9, <1>10, <3>1
    <3>3. InodeBlock(fsys.gd, i) \in Blocks /\ d[InodeBlock(fsys.gd, i)] = Content("inode", <<i, blocks[i]>>)
      BY <3>1, <3>2, InodeLaidOut
    <3>4. disk = d
      BY <1>3, <3>1
    <3> QED
      BY <2>1, <3>1, <3>3, <3>4
  <2>3. disk[b].kind = "inode" /\ disk[b].val = <<i, s>>
    BY <2>2 DEF Content
  <2>4. s \in Seq((0 .. old.size - 1) \ MetaBlocks(old)) /\ files[i] = Len(s)
    BY <1>3, <1>9, <1>10, <2>1 DEF Holding
  <2>5. s \in Seq(Blocks)
    BY <1>8, <2>4, SeqSubset
  <2>6. \A j \in DOMAIN s : disk[s[j]] = Content("data", <<i, j>>)
    BY <1>3, <1>9, <1>10, <2>1, DataLaidOut
  <2>7. ASSUME NEW j \in DOMAIN s PROVE disk[s[j]].kind = "data" /\ disk[s[j]].val = <<i, j>>
    <3>1. PICK c, v : c = disk[s[j]] /\ v = <<i, j>>
      OBVIOUS
    <3>2. c = Content("data", v)
      BY <2>6, <3>1
    <3>3. c.kind = "data" /\ c.val = v
      BY <3>2 DEF Content
    <3> QED
      BY <3>1, <3>3
  <2>8. disk[b].val[1] = i /\ disk[b].val[2] = s
    BY <2>3
  <2>9. Holds(disk, b, i, files[i])
    BY <2>2, <2>3, <2>4, <2>5, <2>7, <2>8 DEF Holds
  <2> QED
    BY <2>1, <2>4, <2>8, <2>9
<1>17. Kept(old.gd) /\ Kept(disk[1].val)
  BY <1>15, <1>16 DEF Kept
<1>18. DOMAIN files \subseteq 1 .. Groups(old.size) * InodeBlocks /\ DOMAIN files # {}
  BY <1>1, <1>7, <1>10
<1>19. Readiness
  BY <1>4, <1>8, <1>13, <1>15, <1>17, <1>18 DEF Readiness, Is
<1>20. ASSUME NEW i \in DOMAIN files PROVE Owns(i)
  <2>1. PICK s : s = blocks[i]
    OBVIOUS
  <2>2. s \in Seq((0 .. old.size - 1) \ MetaBlocks(old)) /\ files[i] = Len(s)
    BY <1>16, <2>1
  <2>3. DOMAIN s = 1 .. files[i] /\ \A n \in 1 .. files[i] : s[n] \notin MetaBlocks(old)
    BY <2>2
  <2>4. \A n \in 1 .. files[i] : s[n] \in old.map
    BY <1>9, <1>10, <2>1, <2>3
  <2>5. Pointed(old.gd, i) = {s[n] : n \in 1 .. files[i]}
    BY <1>16, <2>1 DEF Pointed
  <2> QED
    BY <2>3, <2>4, <2>5 DEF Owns
<1>21. FilePhases
  BY <1>4, <1>11, <1>15, <1>20 DEF FilePhases, Before, After
<1> QED
  BY <1>19, <1>21 DEF FilesInv

LEMMA StutterFiles == ResizeInv /\ FilesInv /\ UNCHANGED vars => FilesInv'
<1> SUFFICES ASSUME ResizeInv, FilesInv, UNCHANGED vars PROVE FilesInv'
  OBVIOUS
<1>1. /\ disk' = disk /\ old' = old /\ new' = new /\ reserve' = reserve /\ move' = move /\ bmap' = bmap
      /\ files' = files /\ pc' = pc /\ k' = k
  BY DEF vars
<1>2. Readiness'
  <2>1. Blocks' = Blocks /\ Heads' = Heads /\ Is(1, "gdt")' = Is(1, "gdt")
    BY <1>1 DEF Blocks, Heads, Is
  <2>2. Kept(disk[1].val)' = Kept(disk[1].val) /\ Kept(old.gd)' = Kept(old.gd)
    BY <1>1, <2>1 DEF Kept, Holds
  <2> QED
    BY <1>1, <2>1, <2>2 DEF FilesInv, Readiness
<1>3. \A gd, i : Pointed(gd, i)' = Pointed(gd, i) /\ Clear(gd, i)' = Clear(gd, i) /\ Owns(i)' = Owns(i)
  BY <1>1 DEF Pointed, Clear, Owns
<1>4. \A gd : Quiet(gd)' = Quiet(gd)
  BY <1>1 DEF Quiet, Indirect
<1>5. Grown' = Grown /\ Planned' = Planned /\ MovesKnown' = MovesKnown /\ NewPlaces' = NewPlaces
  BY <1>1 DEF Grown, Planned, MovesKnown, NewPlaces, RoomTaken, Complete, Elsewhere, Beside, TablesApart, Heads, Blocks
<1>6. MapOK' = MapOK /\ (\A n : Copied(n)' = Copied(n)) /\ TablesSoFar' = TablesSoFar /\ Rounds' = Rounds
      /\ InUse' = InUse
  BY <1>1 DEF MapOK, Copied, TablesSoFar, Rounds, InUse
<1>7. Settled' = Settled
  BY <1>1 DEF Settled, Quiet, Clear, Pointed, Indirect, NewPlaces, Complete, TablesApart, Heads, Blocks
<1>8. FilePhases'
  BY <1>1, <1>3, <1>4, <1>5, <1>6, <1>7 DEF FilesInv, FilePhases
<1> QED
  BY <1>2, <1>8 DEF FilesInv

(***************************************************************************)
(* The device.                                                             *)
(***************************************************************************)
LEMMA AlikeIf ==
    ASSUME NEW d, NEW e, NEW W, \A b \in Blocks \ W : e[b] = d[b], NEW gd,
           \A i \in DOMAIN files :
             /\ Holds(d, InodeBlock(gd, i), i, files[i]) /\ InodeBlock(gd, i) \notin W
             /\ {d[InodeBlock(gd, i)].val[2][j] : j \in 1 .. files[i]} \cap W = {}
    PROVE  Alike(d, e, files, gd)
<1> SUFFICES ASSUME NEW i \in DOMAIN files
             PROVE  Proper(d, e, d[InodeBlock(gd, i)], i, files[i]) /\ Proper(d, e, e[InodeBlock(gd, i)], i, files[i])
  BY DEF Alike
<1>1. PICK b : b = InodeBlock(gd, i)
  OBVIOUS
<1>2. Holds(d, b, i, files[i]) /\ b \notin W /\ {d[b].val[2][j] : j \in 1 .. files[i]} \cap W = {}
  BY <1>1
<1>3. e[b] = d[b]
  BY <1>2 DEF Holds
<1>4. PICK s : s = d[b].val[2]
  OBVIOUS
<1>5. s \in Seq(Blocks) /\ DOMAIN s = 1 .. files[i] /\ Len(s) = files[i] /\ \A j \in 1 .. files[i] : s[j] \in Blocks
  BY <1>2, <1>4, PointedIn
<1>6. \A j \in DOMAIN s : e[s[j]] = d[s[j]]
  BY <1>2, <1>4, <1>5
<1>7. \A j \in DOMAIN s : d[s[j]].kind = "data" /\ d[s[j]].val = <<i, j>>
  BY <1>2, <1>4 DEF Holds
<1>8. d[b].kind = "inode" /\ d[b].val[1] = i
  BY <1>2 DEF Holds
<1>9. Proper(d, e, d[b], i, files[i])
  <2>1. PICK c, n : c = d[b] /\ n = files[i]
    OBVIOUS
  <2>2. c.kind = "inode" /\ c.val[1] = i /\ c.val[2] = s /\ s \in Seq(Blocks) /\ Len(s) = n
    BY <1>4, <1>5, <1>8, <2>1
  <2>3. \A j \in DOMAIN s : d[s[j]].kind = "data" /\ d[s[j]].val = <<i, j>> /\ e[s[j]] = d[s[j]]
    BY <1>6, <1>7
  <2>4. Proper(d, e, c, i, n)
    BY <2>2, <2>3 DEF Proper
  <2> QED
    BY <2>1, <2>4
<1> QED
  BY <1>1, <1>3, <1>9

LEMMA AlikeNext ==
    ASSUME files' = files, NEW gd, gd = disk'[1].val, Alike(disk', device', files, gd)
    PROVE  Alike(disk, device, files, disk[1].val)'
OBVIOUS

(* Where nothing waits.                                                    *)
LEMMA FlushedDevice ==
    ASSUME Readiness', files' = files, \A b \in Blocks : device'[b] = disk'[b],
           pc' \in After \ {"flush"} => Small'
    PROVE  DeviceInv'
<1>1. 1 \in Blocks /\ Blocks' = Blocks
  BY DEF Readiness, Blocks
<1>2. PICK gd : gd = disk'[1].val
  OBVIOUS
<1>3. \A i \in DOMAIN files : Holds(disk', InodeBlock(gd, i), i, files[i])
  BY <1>2 DEF Readiness, Kept
<1>4. Alike(disk', device', files, gd)
  <2>1. PICK W : W = {}
    OBVIOUS
  <2>2. \A i \in DOMAIN files :
          InodeBlock(gd, i) \notin W /\ {disk'[InodeBlock(gd, i)].val[2][j] : j \in 1 .. files[i]} \cap W = {}
    BY <2>1
  <2>3. \A b \in Blocks \ W : device'[b] = disk'[b]
    OBVIOUS
  <2> QED
    BY <1>3, <2>2, <2>3, AlikeIf
<1>5. Waiting' = {}
  BY <1>1 DEF Waiting
<1>6. Afloat'
  BY <1>1, <1>5 DEF Afloat, Safe, Readiness, Heads
<1> QED
  BY <1>1, <1>2, <1>4, <1>5, <1>6, AlikeNext DEF DeviceInv

(* A harmless step that leaves its writes, or what waited, behind.         *)
LEMMA AfloatStep ==
    ASSUME ResizeInv, Readiness, DeviceInv, Afloat, Readiness', NEW W, HarmlessWrite(W),
           files' = files, old'.size = old.size, old'.gd = old.gd,
           \A b \in Blocks : device'[b] \in {device[b], disk[b], disk'[b]},
           device'[1] \in {device[1], disk'[1]},
           \/ disk'[1] = disk[1]
           \/ device'[1] = disk'[1]
           \/ \A g \in GroupsOf(old) : disk[1].val[g].it = old.gd[g].it
    PROVE  /\ Afloat' /\ Alike(disk, device, files, disk[1].val)'
           /\ \/ device'[1] = disk'[1]
              \/ /\ device'[1].kind = "gdt"
                 /\ \A g \in GroupsOf(old') : device'[1].val[g].it = old'.gd[g].it /\ disk'[1].val[g].it = old'.gd[g].it
<1>1. GroupsOf(old') = GroupsOf(old) /\ Heads' = Heads /\ Blocks' = Blocks
  BY SameHeads DEF Blocks
<1>2. PICK V : V = W \cup Waiting
  OBVIOUS
<1>3. Kept(old.gd) /\ Kept(disk[1].val)
  BY DEF Readiness
<1>4. \A b \in Blocks \ V : device'[b] = disk'[b]
  BY <1>2 DEF HarmlessWrite, Writes, Waiting
<1>5. Waiting' \subseteq V
  BY <1>1, <1>4 DEF Waiting
<1>6. ASSUME NEW gd, Kept(gd), Safe(gd, W), Safe(gd, Waiting), NEW gd2,
             \A i \in DOMAIN files : gd2[GroupOfInode(i)].it = gd[GroupOfInode(i)].it
      PROVE  \A i \in DOMAIN files :
               /\ Holds(disk', InodeBlock(gd2, i), i, files[i]) /\ InodeBlock(gd2, i) \notin V
               /\ {disk'[InodeBlock(gd2, i)].val[2][j] : j \in 1 .. files[i]} \cap V = {}
  <2>1. Unharmed(gd)
    BY <1>6, SafeWrite DEF HarmlessWrite
  <2>2. /\ \A i \in DOMAIN files' : Holds(disk', InodeBlock(gd2, i), i, files'[i])
        /\ \A i \in DOMAIN files : {disk'[InodeBlock(gd2, i)].val[2][j] : j \in 1 .. files'[i]} = Pointed(gd, i)
    BY <1>6, <2>1, UnharmedKept
  <2>3. \A i \in DOMAIN files : InodeBlock(gd2, i) = InodeBlock(gd, i)
    BY <1>6, SameInodeBlock
  <2>4. \A i \in DOMAIN files : InodeBlock(gd, i) \notin V /\ Pointed(gd, i) \cap V = {}
    BY <1>2, <1>6 DEF Safe
  <2> QED
    BY <2>2, <2>3, <2>4
<1>7. \A i \in DOMAIN files : GroupOfInode(i) \in GroupsOf(old)
  BY InodeGroups
<1>8. Safe(old.gd, W) /\ Safe(old.gd, Waiting) /\ Safe(disk[1].val, Waiting)
  BY DEF HarmlessWrite, Afloat
<1>9. PICK og, dg : og = old'.gd /\ dg = disk'[1].val
  OBVIOUS
<1>10. \A i \in DOMAIN files :
         /\ Holds(disk', InodeBlock(og, i), i, files[i]) /\ InodeBlock(og, i) \notin V
         /\ {disk'[InodeBlock(og, i)].val[2][j] : j \in 1 .. files[i]} \cap V = {}
  BY <1>3, <1>6, <1>8, <1>9
<1>11. \A i \in DOMAIN files :
         /\ Holds(disk', InodeBlock(dg, i), i, files[i]) /\ InodeBlock(dg, i) \notin V
         /\ {disk'[InodeBlock(dg, i)].val[2][j] : j \in 1 .. files[i]} \cap V = {}
  <2>1. CASE disk'[1] = disk[1] /\ Safe(disk[1].val, W)
    BY <1>3, <1>6, <1>8, <1>9, <2>1
  <2>2. CASE \A g \in GroupsOf(old) : disk'[1].val[g].it = old.gd[g].it
    BY <1>3, <1>6, <1>7, <1>8, <1>9, <2>2
  <2> QED
    BY <2>1, <2>2 DEF HarmlessWrite
<1>12. Alike(disk, device, files, disk[1].val)'
  <2>1. Alike(disk', device', files, dg)
    BY <1>4, <1>11, AlikeIf
  <2> QED
    BY <1>9, <2>1, AlikeNext
<1>13. Afloat'
  <2>1. Safe(old.gd, Waiting)' /\ Safe(disk[1].val, Waiting)'
    BY <1>5, <1>9, <1>10, <1>11 DEF Safe, Pointed
  <2>2. \A b \in Heads : disk[b].kind \in {"super", "gdt"} /\ disk'[b].kind \in {"super", "gdt"}
    BY <1>1 DEF Readiness
  <2>3. \A b \in Heads : device'[b].kind \in {"super", "gdt"}
    <3>1. \A b \in Heads : device'[b] \in {device[b], disk[b], disk'[b]}
      BY DEF Heads
    <3> QED
      BY <2>2, <3>1 DEF Afloat
  <2> QED
    BY <1>1, <2>1, <2>3 DEF Afloat
<1>14. ASSUME device'[1] # disk'[1]
       PROVE  /\ device'[1].kind = "gdt"
              /\ \A g \in GroupsOf(old) : device'[1].val[g].it = old.gd[g].it /\ disk'[1].val[g].it = old.gd[g].it
  <2>1. device'[1] = device[1]
    BY <1>14
  <2>2. CASE disk'[1] = disk[1]
    BY <1>14, <2>1, <2>2 DEF DeviceInv
  <2>3. CASE disk'[1] # disk[1]
    <3>1. \A g \in GroupsOf(old) : disk[1].val[g].it = old.gd[g].it
      BY <1>14, <2>3
    <3>2. \A g \in GroupsOf(old) : disk'[1].val[g].it = old.gd[g].it
      BY <2>3 DEF HarmlessWrite
    <3>3. device[1].kind = "gdt" /\ \A g \in GroupsOf(old) : device[1].val[g].it = old.gd[g].it
      BY <3>1 DEF DeviceInv, Readiness, Is
    <3> QED
      BY <2>1, <3>2, <3>3
  <2> QED
    BY <2>2, <2>3
<1> QED
  BY <1>1, <1>12, <1>13, <1>14

LEMMA SmallKept ==
    ASSUME Small, NEW W, HarmlessWrite(W), old'.size = old.size, old'.gd = old.gd
    PROVE  Small'
BY SameHeads DEF Small, HarmlessWrite

LEMMA UnseenFlushed ==
    ASSUME NEW S, FlushUnseen(S), ~lost'
    PROVE  \A b \in Blocks : device'[b] = disk'[b]
BY DEF FlushUnseen, Flushed

LEMMA OldFlushed ==
    ASSUME NEW fs, FlushOld(fs), ~lost'
    PROVE  \A b \in Blocks : device'[b] = disk'[b]
BY DEF FlushOld, FlushUnseen, Flushed

LEMMA WaitsNot ==
    ASSUME Waits({}), Waiting = {}
    PROVE  \A b \in Blocks : device'[b] = disk'[b]
BY DEF Waits

(* The steps that leave nothing behind, unless it is lost.                 *)
LEMMA EarlyFlushed ==
    ASSUME DeviceInv, ~lost',
           \/ MarkError \/ AdjustSuperblock \/ ZeroNewTable \/ BlocksToMove \/ PlanMoves \/ CopyBlock \/ CloseOld
    PROVE  /\ \A b \in Blocks : device'[b] = disk'[b]
           /\ files' = files /\ pc' \notin After
<1>1. CASE MarkError
  BY <1>1, OldFlushed DEF MarkError, Goto, given, After
<1>2. CASE AdjustSuperblock \/ BlocksToMove \/ PlanMoves
  <2>1. pc \in {"adjust", "zero", "plan"} /\ UNCHANGED <<disk, device, files>>
    BY <1>2 DEF AdjustSuperblock, BlocksToMove, PlanMoves, cache, given
  <2>2. Waiting = {}
    BY <2>1 DEF DeviceInv, Synced
  <2>3. pc' \in {"zero", "plan", "copy", "failed"}
    BY <1>2 DEF AdjustSuperblock, BlocksToMove, PlanMoves, Goto, Fail
  <2> QED
    BY <2>1, <2>2, <2>3 DEF Waiting, After
<1>3. CASE ZeroNewTable
  <2>1. Waiting = {}
    BY <1>3 DEF ZeroNewTable, DeviceInv, Synced
  <2>2. pc' \in {"zero", "failed"} /\ files' = files
    BY <1>3 DEF ZeroNewTable, Advance, Fail, given
  <2>3. Waits({}) \/ \E S : FlushUnseen(S)
    BY <1>3 DEF ZeroNewTable
  <2> QED
    BY <2>1, <2>2, <2>3, WaitsNot, UnseenFlushed DEF After
<1>4. CASE CopyBlock
  <2>1. Waiting = {}
    BY <1>4 DEF CopyBlock, DeviceInv, Synced
  <2>2. pc' \in {"copy", "failed"} /\ files' = files
    BY <1>4 DEF CopyBlock, Advance, Fail, given
  <2>3. UNCHANGED <<disk, device>> \/ \E S : FlushUnseen(S)
    BY <1>4 DEF CopyBlock, cache
  <2> QED
    BY <2>1, <2>2, <2>3, UnseenFlushed DEF After, Waiting
<1>5. CASE CloseOld
  <2>1. FlushOld(old) \/ FlushUnseen({})
    BY <1>5 DEF CloseOld
  <2> QED
    BY <1>5, <2>1, OldFlushed, UnseenFlushed DEF CloseOld, Goto, given, After
<1> QED
  BY <1>1, <1>2, <1>3, <1>4, <1>5

(***************************************************************************)
(* The last flush, and the resize inode.                                   *)
(***************************************************************************)
LEMMA WriteBitmapsDevice ==
    ASSUME ResizeInv, FilesInv, DeviceInv, WriteBitmaps
    PROVE  DeviceInv'
<1>1. FilesInv' /\ disk'[1] = disk[1]
  BY WriteBitmapsFiles
<1>2. PICK W : HarmlessWrite(W)
  BY WriteBitmapsFiles
<1>3. pc = "bits" /\ pc' \in {"bits", "descs"} /\ UNCHANGED <<old, files>>
  BY DEF WriteBitmaps, Goto, Advance, handles, given
<1>4. Afloat /\ Small /\ Readiness /\ Readiness'
  BY <1>1, <1>3 DEF DeviceInv, Caching, After, FilesInv
<1>5. \A b \in Blocks : device'[b] \in {device[b], disk'[b]}
  BY DEF WriteBitmaps, Waits
<1>6. device'[1] \in {device[1], disk'[1]}
  BY <1>4, <1>5 DEF Readiness
<1>7. Small'
  BY <1>2, <1>3, <1>4, SmallKept
<1> QED
  BY <1>1, <1>2, <1>3, <1>4, <1>5, <1>6, <1>7, AfloatStep DEF DeviceInv, Synced

LEMMA FixResizeInodeDevice ==
    ASSUME ResizeInv, FilesInv, DeviceInv, FixResizeInode
    PROVE  DeviceInv'
<1>1. FilesInv' /\ disk'[1] = disk[1]
  BY FixResizeInodeFiles
<1>2. PICK W : HarmlessWrite(W)
  BY FixResizeInodeFiles
<1>3. pc = "stats" /\ pc' \in {"journal", "failed"} /\ UNCHANGED <<old, files>>
  BY DEF FixResizeInode, Goto, Fail, handles, given
<1>4. Waiting = {} /\ Small /\ Readiness /\ Readiness'
  BY <1>1, <1>3 DEF DeviceInv, Synced, After, FilesInv
<1>5. Afloat
  BY <1>4 DEF Afloat, Safe, Readiness, Waiting, Heads
<1>6. \A b \in Blocks : device'[b] \in {device[b], disk'[b]}
  BY DEF FixResizeInode, Waits
<1>7. device'[1] \in {device[1], disk'[1]}
  BY <1>4, <1>6 DEF Readiness
<1>8. Small'
  BY <1>2, <1>3, <1>4, SmallKept
<1> QED
  BY <1>1, <1>2, <1>3, <1>4, <1>5, <1>6, <1>7, <1>8, AfloatStep DEF DeviceInv, Synced

LEMMA FixSbJournalBackupDevice ==
    ASSUME ResizeInv, FilesInv, DeviceInv, FixSbJournalBackup
    PROVE  DeviceInv'
<1>1. pc = "journal" /\ pc' = "bits" /\ UNCHANGED <<disk, device, old, files>>
  BY DEF FixSbJournalBackup, Goto, cache, given
<1>2. Afloat /\ Small
  BY <1>1 DEF DeviceInv, Caching, After
<1>3. Waiting' = Waiting /\ Heads' = Heads
  BY <1>1 DEF Waiting, Heads, Blocks, DescBlocks
<1>4. Afloat' /\ Small'
  BY <1>1, <1>2, <1>3 DEF Afloat, Safe, Pointed, Small
<1>5. Alike(disk, device, files, disk[1].val)'
  BY <1>1 DEF DeviceInv
<1> QED
  BY <1>1, <1>4, <1>5 DEF DeviceInv, Synced

\* The descriptors themselves are written at once, or through the cache.
LEMMA WriteDescsLeaves ==
    ASSUME ResizeInv, Readiness, DeviceInv, WriteDescs
    PROVE  \/ \A b \in Blocks : device'[b] = disk'[b]
           \/ /\ pc' \in {"descs", "super"}
              /\ \A b \in Blocks : device'[b] \in {device[b], disk[b], disk'[b]}
              /\ device'[1] \in {device[1], disk'[1]}
              /\ \/ disk'[1] = disk[1]
                 \/ device'[1] = disk'[1]
                 \/ \A g \in GroupsOf(old) : disk[1].val[g].it = old.gd[g].it
<1> DEFINE here == HasSuper(k) /\ (k = 0 \/ Closing)
           region == IF here THEN Run(FirstBlock(k) + 1, DescBlocks(new)) ELSE {}
           direct == here /\ (k > 0 \/ DescBlocks(new) > WriteDirectSize)
           backup == [b \in Blocks |-> IF here /\ k > 0 /\ b = FirstBlock(k) THEN Content("super", Super(new)) ELSE disk[b]]
<1>1. \/ Flushed
      \/ /\ disk' = [b \in Blocks |-> IF b \in region THEN Content("gdt", new.gd) ELSE backup[b]]
         /\ IF direct THEN device' = [b \in Blocks |-> IF b \in Cached(DescBlocks(new), region) THEN disk[b] ELSE disk'[b]]
                      ELSE Waits(region)
         /\ pc' \in {"descs", "super"}
  BY DEF WriteDescs, Goto, Advance
<1>2. CASE Flushed
  BY <1>2 DEF Flushed
<1>3. CASE ~Flushed
  <2>1. 1 \in Blocks /\ k \in Nat /\ pc = "descs" /\ pc' \in {"descs", "super"}
    BY <1>1, <1>3 DEF Readiness, ResizeInv, Control, WriteDescs
  <2>2. \A b \in Blocks : device'[b] \in {device[b], disk[b], disk'[b]}
    BY <1>1, <1>3 DEF Waits
  <2>3. CASE k = 0
    <3>1. here
      BY <2>3 DEF HasSuper
    <3>2. CASE DescBlocks(new) > WriteDirectSize
      <4>1. Cached(DescBlocks(new), region) = {}
        BY <3>2 DEF Cached
      <4>2. device'[1] = disk'[1]
        BY <1>1, <1>3, <2>1, <3>1, <3>2, <4>1
      <4> QED
        BY <2>1, <2>2, <4>2
    <3>3. CASE ~(DescBlocks(new) > WriteDirectSize)
      <4>1. ~direct
        BY <2>3, <3>3
      <4>2. Waits(region)
        BY <1>1, <1>3, <4>1
      <4>3. device'[1] \in {device[1], disk'[1]}
        BY <2>1, <4>2 DEF Waits
      <4>4. DescBlocks(old) <= WriteDirectSize
        <5>1. /\ old.size \in Nat \ {0} /\ new.size \in Nat \ {0} /\ old.size <= new.size
          BY DEF ResizeInv, Layout, FsOK
        <5>2. DescBlocks(old) <= DescBlocks(new) /\ DescBlocks(old) \in Nat /\ DescBlocks(new) \in Nat
          BY <5>1, DescBlocksMonotone, DescBlocksPositive
        <5>3. WriteDirectSize \in Nat
          BY ResizeFsAssumption
        <5> QED
          BY <3>3, <5>2, <5>3
      <4>5. \A g \in GroupsOf(old) : disk[1].val[g].it = old.gd[g].it
        BY <2>1, <4>4 DEF DeviceInv, After, Small
      <4> QED
        BY <2>1, <2>2, <4>3, <4>5
    <3> QED
      BY <3>2, <3>3
  <2>4. CASE k # 0
    <3>1. FirstBlock(k) \in Nat /\ FirstBlock(k) >= 2
      BY <2>1, <2>4, FirstBlocks
    <3>2. 1 \notin region /\ 1 # FirstBlock(k)
      BY <3>1 DEF Run
    <3>3. disk'[1] = disk[1]
      <4>1. backup[1] = disk[1]
        BY <2>1, <3>2
      <4>2. disk' = [b \in Blocks |-> IF b \in region THEN Content("gdt", new.gd) ELSE backup[b]]
        BY <1>1, <1>3
      <4> HIDE DEF backup, region
      <4> QED
        BY <2>1, <3>2, <4>1, <4>2
    <3>4. device'[1] \in {device[1], disk'[1]}
      <4>1. 1 \notin Cached(DescBlocks(new), region)
        BY <3>2 DEF Cached
      <4> QED
        BY <1>1, <1>3, <2>1, <4>1 DEF Waits
    <3> QED
      BY <2>1, <2>2, <3>3, <3>4
  <2> QED
    BY <2>3, <2>4
<1> QED
  BY <1>2, <1>3

LEMMA WriteDescsDevice ==
    ASSUME ResizeInv, FilesInv, DeviceInv, WriteDescs
    PROVE  DeviceInv'
<1>1. FilesInv'
  BY WriteDescsFiles
<1>2. PICK W : HarmlessWrite(W)
  BY WriteDescsFiles
<1>3. pc = "descs" /\ UNCHANGED <<old, files>>
  BY DEF WriteDescs, handles, given
<1>4. Afloat /\ Small /\ Readiness /\ Readiness'
  BY <1>1, <1>3 DEF DeviceInv, Caching, After, FilesInv
<1>5. Small'
  BY <1>2, <1>3, <1>4, SmallKept
<1>6. CASE \A b \in Blocks : device'[b] = disk'[b]
  BY <1>3, <1>4, <1>5, <1>6, FlushedDevice
<1>7. CASE ~\A b \in Blocks : device'[b] = disk'[b]
  <2>1. /\ pc' \in {"descs", "super"}
        /\ \A b \in Blocks : device'[b] \in {device[b], disk[b], disk'[b]}
        /\ device'[1] \in {device[1], disk'[1]}
        /\ \/ disk'[1] = disk[1]
           \/ device'[1] = disk'[1]
           \/ \A g \in GroupsOf(old) : disk[1].val[g].it = old.gd[g].it
    BY <1>4, <1>7, WriteDescsLeaves
  <2> QED
    BY <1>2, <1>3, <1>4, <1>5, <2>1, AfloatStep DEF DeviceInv, Synced
<1> QED
  BY <1>6, <1>7

LEMMA WriteSuperDevice ==
    ASSUME ResizeInv, FilesInv, DeviceInv, ~lost', WriteSuper
    PROVE  DeviceInv'
<1>1. FilesInv'
  BY WriteSuperFiles
<1>2. pc = "super" /\ UNCHANGED <<old, files>>
  BY DEF WriteSuper, given
<1>3. Small /\ Readiness /\ Readiness'
  BY <1>1, <1>2 DEF DeviceInv, After, FilesInv
<1>4. \A b \in Blocks : device'[b] = disk'[b]
  <2>1. Flushed \/ FlushUnseen({})
    BY DEF WriteSuper
  <2> QED
    BY <2>1, UnseenFlushed DEF Flushed
<1>5. disk'[1] = disk[1]
  <2>1. 4 \in 0 .. 4
    OBVIOUS
  <2>2. PICK n \in 0 .. 4 : disk' = [disk EXCEPT ![0] = Stored(new, n)]
    BY <2>1 DEF WriteSuper
  <2> QED
    BY <2>2
<1>6. Small'
  BY <1>2, <1>3, <1>5 DEF Small
<1> QED
  BY <1>2, <1>3, <1>4, <1>6, FlushedDevice

(***************************************************************************)
(* Inodes and tables.                                                      *)
(***************************************************************************)
LEMMA BeginTablesDevice ==
    ASSUME ResizeInv, FilesInv, DeviceInv, ~lost', BeginTables
    PROVE  DeviceInv'
<1>1. FilesInv'
  BY BeginTablesFiles
<1>2. pc \in {"copy", "fix"} /\ UNCHANGED <<disk, old, files>>
  BY DEF BeginTables, handles, given
<1>3. Readiness /\ Readiness' /\ \A g \in GroupsOf(old) : disk[1].val[g].it = old.gd[g].it
  BY <1>1, <1>2, BeforeFacts DEF FilesInv
<1>4. Small'
  BY <1>2, <1>3 DEF Small
<1>5. \A b \in Blocks : device'[b] = disk'[b]
  <2>1. CASE pc = "copy" /\ device' = device
    <3>1. Waiting = {}
      BY <2>1 DEF DeviceInv, Synced
    <3> QED
      BY <1>2, <2>1, <3>1 DEF Waiting
  <2>2. CASE FlushUnseen({})
    BY <2>2, UnseenFlushed
  <2> QED
    BY <2>1, <2>2 DEF BeginTables, cache
<1> QED
  BY <1>2, <1>3, <1>4, <1>5, FlushedDevice

LEMMA EndTablesDevice ==
    ASSUME ResizeInv, FilesInv, DeviceInv, EndTables
    PROVE  DeviceInv'
<1>1. FilesInv'
  BY EndTablesFiles
<1>2. pc = "tables" /\ UNCHANGED <<disk, device, old, files>>
  BY DEF EndTables, cache, given
<1>3. Small /\ Waiting = {} /\ Readiness'
  BY <1>1, <1>2 DEF DeviceInv, After, Synced, FilesInv
<1>4. Small' /\ \A b \in Blocks : device'[b] = disk'[b]
  BY <1>2, <1>3 DEF Small, Waiting
<1> QED
  BY <1>2, <1>3, <1>4, FlushedDevice

LEMMA FlushTableDevice ==
    ASSUME ResizeInv, FilesInv, DeviceInv, ~lost', FlushTable
    PROVE  DeviceInv'
<1>1. FilesInv'
  BY FlushTableFiles
<1>2. FlushOld(old) /\ files' = files /\ Readiness /\ Readiness'
  BY <1>1 DEF FlushTable, given, FilesInv
<1>3. \A b \in Blocks : device'[b] = disk'[b]
  BY <1>2, OldFlushed
<1>4. old'.gd = old.gd /\ old'.size = old.size
  <2>1. FsOK(old, new.size)
    BY DEF ResizeInv, Layout
  <2> QED
    BY <1>2, <2>1, FlushLayout
<1>5. Small'
  <2>1. GroupsOf(old') = GroupsOf(old) /\ DescBlocks(old') = DescBlocks(old)
    BY <1>4, SameHeads
  <2>2. ASSUME DescBlocks(old) <= WriteDirectSize PROVE disk'[1].val = old.gd
    <3> DEFINE descs == [b \in Blocks |-> IF b \in Run(1, DescBlocks(old)) THEN Content("gdt", old.gd) ELSE disk[b]]
    <3>1. DescBlocks(old) \in Nat \ {0} /\ WriteDirectSize \in Nat
      BY DescBlocksPositive, ResizeFsAssumption DEF ResizeInv, Layout, FsOK
    <3>2. ~(DescBlocks(old) > WriteDirectSize)
      BY <2>2, <3>1
    <3>3. PICK c : disk' = [descs EXCEPT ![0] = c]
      BY <1>2, <3>2 DEF FlushOld
    <3>4. 1 \in Run(1, DescBlocks(old)) /\ 1 \in Blocks
      BY <1>2, <3>1 DEF Run, Readiness
    <3>5. descs[1] = Content("gdt", old.gd)
      BY <3>4
    <3> HIDE DEF descs
    <3>6. disk'[1] = descs[1]
      BY <3>3
    <3> QED
      BY <3>5, <3>6 DEF Content
  <2> QED
    BY <1>4, <2>1, <2>2 DEF Small
<1> QED
  BY <1>2, <1>3, <1>5, FlushedDevice

LEMMA MoveTableDevice ==
    ASSUME ResizeInv, FilesInv, DeviceInv, MoveTable
    PROVE  DeviceInv'
<1>1. FilesInv' /\ (pc' = "flush" => Landed(Table(new.gd[k])))
  BY MoveTableFiles
<1>2. pc = "tables" /\ files' = files
  BY DEF MoveTable, given
<1>3. Waiting = {} /\ Small /\ Readiness /\ Readiness'
  BY <1>1, <1>2 DEF DeviceInv, Synced, After, FilesInv
<1>4. \/ pc' = "tables" /\ UNCHANGED <<disk, device, old>>
      \/ pc' = "flush" /\ \E S : Waits(S)
      \/ pc' = "failed" /\ Waits({})
  BY <1>2 DEF MoveTable, Advance, Goto, Fail, cache
<1>5. CASE pc' = "tables" /\ UNCHANGED <<disk, device, old>>
  <2>1. Small' /\ \A b \in Blocks : device'[b] = disk'[b]
    BY <1>3, <1>5 DEF Small, Waiting
  <2> QED
    BY <1>2, <1>3, <2>1, FlushedDevice
<1>6. CASE pc' = "failed" /\ Waits({})
  BY <1>2, <1>3, <1>6, WaitsNot, FlushedDevice DEF After
<1>7. CASE pc' = "flush" /\ \E S : Waits(S)
  <2>1. PICK W : W = Table(new.gd[k])
    OBVIOUS
  <2>2. Writes(W) /\ Safe(disk[1].val, W) /\ 1 \notin W
    BY <1>1, <1>7, <2>1 DEF Landed
  <2>3. \A b \in Blocks : device'[b] \in {device[b], disk'[b]}
    BY <1>7 DEF Waits
  <2>4. \A b \in Blocks \ W : device'[b] = disk'[b]
    BY <1>3, <2>2, <2>3 DEF Waiting, Writes
  <2>5. 1 \in Blocks /\ disk'[1] = disk[1] /\ device'[1] = disk'[1]
    BY <1>3, <2>2, <2>4 DEF Readiness, Writes
  <2>6. PICK gd : gd = disk[1].val
    OBVIOUS
  <2>7. Kept(gd) /\ Safe(gd, W) /\ Unharmed(gd)
    BY <1>3, <2>2, <2>6, SafeWrite DEF Readiness
  <2>8. \A i \in DOMAIN files :
          /\ Holds(disk', InodeBlock(gd, i), i, files[i]) /\ InodeBlock(gd, i) \notin W
          /\ {disk'[InodeBlock(gd, i)].val[2][j] : j \in 1 .. files[i]} \cap W = {}
    BY <2>7 DEF Unharmed, Safe, Pointed
  <2>9. Alike(disk', device', files, gd)
    BY <2>4, <2>8, AlikeIf
  <2>10. Alike(disk, device, files, disk[1].val)'
    BY <1>2, <2>5, <2>6, <2>9, AlikeNext
  <2> QED
    BY <1>7, <2>5, <2>10 DEF DeviceInv, Synced, Caching, After
<1> QED
  BY <1>4, <1>5, <1>6, <1>7

(* An inode waits while its blocks do not: they were flushed before.       *)
LEMMA FixInodeDevice ==
    ASSUME ResizeInv, FilesInv, DeviceInv, FixInode
    PROVE  DeviceInv'
<1>1. FilesInv'
  BY FixInodeFiles
<1>2. pc \in {"copy", "fix"} /\ UNCHANGED <<old, files>>
  BY DEF FixInode, handles, given
<1>3. Readiness /\ Readiness' /\ \A g \in GroupsOf(old) : disk[1].val[g].it = old.gd[g].it
  BY <1>1, <1>2, BeforeFacts DEF FilesInv
<1>4. PICK I : I = {InodeBlock(old.gd, i) : i \in DOMAIN files}
  OBVIOUS
<1>5. Waiting \subseteq I
  BY <1>2, <1>4 DEF DeviceInv, Synced
<1>6. PICK m, b : m = (IF pc = "copy" THEN 1 ELSE k) /\ b = InodeBlock(old.gd, InUse[m])
  OBVIOUS
<1>7. \/ pc' = "fix" /\ (\E c : disk' = [disk EXCEPT ![b] = c]) /\ Waits({b})
      \/ pc' = "failed" /\ UNCHANGED <<disk, device>>
  BY <1>6 DEF FixInode, Write, Goto, Fail, cache
<1>8. Alike(disk, device, files, disk[1].val)
  BY DEF DeviceInv
<1>9. CASE pc' = "failed" /\ UNCHANGED <<disk, device>>
  <2>1. Alike(disk, device, files, disk[1].val)'
    BY <1>2, <1>8, <1>9
  <2> QED
    BY <1>2, <1>9, <2>1 DEF DeviceInv, Synced, Caching, After
<1>10. CASE pc' = "fix" /\ (\E c : disk' = [disk EXCEPT ![b] = c]) /\ Waits({b})
  <2>1. b \in I
    <3>1. m = Turn /\ Turn \in 1 .. Len(InUse)
      BY <1>6, FixTurn DEF Turn
    <3>2. InUse \in Seq(DOMAIN files)
      BY <1>3, InUseAll
    <3>3. InUse[m] \in DOMAIN files
      BY <3>1, <3>2
    <3> QED
      BY <1>4, <1>6, <3>3
  <2>2. \A x \in I : x \in Blocks /\ disk[x].kind = "inode" /\ disk'[x].kind = "inode"
    <3>1. \A i \in DOMAIN files : Holds(disk, InodeBlock(old.gd, i), i, files[i])
      BY <1>3 DEF Readiness, Kept
    <3>2. \A i \in DOMAIN files : Holds(disk', InodeBlock(old.gd, i), i, files[i])
      BY <1>2, <1>3 DEF Readiness, Kept
    <3> SUFFICES ASSUME NEW i \in DOMAIN files, NEW x, x = InodeBlock(old.gd, i)
                 PROVE  x \in Blocks /\ disk[x].kind = "inode" /\ disk'[x].kind = "inode"
      BY <1>4
    <3>3. Holds(disk, x, i, files[i]) /\ Holds(disk', x, i, files[i])
      BY <3>1, <3>2
    <3> QED
      BY <3>3 DEF Holds
  <2>3. \A x \in Blocks : x # b => disk'[x] = disk[x]
    BY <1>10
  <2>4. \A x \in Blocks : device'[x] = device[x]
    BY <1>10, <2>3 DEF Waits, Waiting
  <2>5. 1 \in Blocks /\ 1 \notin I /\ disk[1].kind = "gdt"
    BY <1>3, <2>2 DEF Readiness, Is
  <2>6. disk'[1] = disk[1] /\ device'[1] = device[1]
    BY <2>1, <2>3, <2>4, <2>5
  <2>7. Waiting' \subseteq I
    BY <1>5, <2>1, <2>3, <2>4 DEF Waiting, Blocks
  <2>8. PICK gd : gd = disk'[1].val
    OBVIOUS
  <2>9. ASSUME NEW i \in DOMAIN files PROVE Proper(disk', device', disk'[InodeBlock(gd, i)], i, files[i])
    <3>1. PICK y, s : y = InodeBlock(gd, i) /\ s = disk'[y].val[2]
      OBVIOUS
    <3>2. Holds(disk', y, i, files[i])
      BY <1>2, <1>3, <2>8, <3>1 DEF Readiness, Kept
    <3>3. s \in Seq(Blocks) /\ DOMAIN s = 1 .. files[i] /\ Len(s) = files[i] /\ \A j \in 1 .. files[i] : s[j] \in Blocks
      BY <3>1, <3>2, PointedIn
    <3>4. \A j \in DOMAIN s : disk'[s[j]].kind = "data" /\ disk'[s[j]].val = <<i, j>>
      BY <3>1, <3>2 DEF Holds
    <3>5. \A j \in DOMAIN s : s[j] \notin I
      BY <2>2, <3>4
    <3>6. \A j \in DOMAIN s : device'[s[j]] = disk'[s[j]]
      BY <2>7, <3>3, <3>5 DEF Waiting, Blocks
    <3>7. disk'[y].kind = "inode" /\ disk'[y].val[1] = i
      BY <3>2 DEF Holds
    <3>8. PICK c, n : c = disk'[y] /\ n = files[i]
      OBVIOUS
    <3>9. c.kind = "inode" /\ c.val[1] = i /\ c.val[2] = s /\ s \in Seq(Blocks) /\ Len(s) = n
      BY <3>1, <3>3, <3>7, <3>8
    <3>10. \A j \in DOMAIN s : disk'[s[j]].kind = "data" /\ disk'[s[j]].val = <<i, j>> /\ device'[s[j]] = disk'[s[j]]
      BY <3>4, <3>6
    <3>11. Proper(disk', device', c, i, n)
      BY <3>9, <3>10 DEF Proper
    <3> QED
      BY <3>1, <3>8, <3>11
  <2>10. ASSUME NEW i \in DOMAIN files PROVE Proper(disk', device', device'[InodeBlock(gd, i)], i, files[i])
    <3>1. PICK y, c : y = InodeBlock(gd, i) /\ c = device'[y]
      OBVIOUS
    <3>2. Holds(disk', y, i, files[i])
      BY <1>2, <1>3, <2>8, <3>1 DEF Readiness, Kept
    <3>3. c = device[y]
      BY <2>4, <3>1, <3>2 DEF Holds
    <3>4. Proper(disk, device, c, i, files[i])
      BY <1>8, <2>6, <2>8, <3>1, <3>3 DEF Alike
    <3>5. PICK s : s = c.val[2]
      OBVIOUS
    <3>6. s \in Seq(Blocks) /\ \A j \in DOMAIN s : disk[s[j]].kind = "data" /\ disk[s[j]].val = <<i, j>> /\ device[s[j]] = disk[s[j]]
      BY <3>4, <3>5 DEF Proper
    <3>7. \A j \in DOMAIN s : s[j] \in Blocks /\ s[j] # b
      BY <2>1, <2>2, <3>6
    <3>8. \A j \in DOMAIN s : disk'[s[j]] = disk[s[j]] /\ device'[s[j]] = device[s[j]]
      BY <2>3, <2>4, <3>7
    <3>9. c.kind = "inode" /\ c.val[1] = i /\ c.val[2] = s /\ Len(s) = files[i]
      BY <3>4, <3>5 DEF Proper
    <3>10. PICK n : n = files[i]
      OBVIOUS
    <3>11. c.kind = "inode" /\ c.val[1] = i /\ c.val[2] = s /\ s \in Seq(Blocks) /\ Len(s) = n
      BY <3>6, <3>9, <3>10
    <3>12. \A j \in DOMAIN s : disk'[s[j]].kind = "data" /\ disk'[s[j]].val = <<i, j>> /\ device'[s[j]] = disk'[s[j]]
      BY <3>6, <3>8
    <3>13. Proper(disk', device', c, i, n)
      BY <3>11, <3>12 DEF Proper
    <3> QED
      BY <3>1, <3>10, <3>13
  <2>11. Alike(disk, device, files, disk[1].val)'
    <3>1. Alike(disk', device', files, gd)
      BY <2>9, <2>10 DEF Alike
    <3> QED
      BY <1>2, <2>8, <3>1, AlikeNext
  <2> QED
    BY <1>2, <1>4, <1>10, <2>6, <2>7, <2>11 DEF DeviceInv, Synced, Caching, After
<1> QED
  BY <1>7, <1>9, <1>10

LEMMA InitDevice == Init => DeviceInv
<1> SUFFICES ASSUME Init PROVE DeviceInv
  OBVIOUS
<1>1. pc = "start" /\ device = disk
  BY DEF Init
<1>2. Readiness
  BY InitFiles DEF FilesInv
<1>3. Waiting = {}
  BY <1>1 DEF Waiting
<1>4. Alike(disk, device, files, disk[1].val)
  <2>1. PICK W, gd : W = {} /\ gd = disk[1].val
    OBVIOUS
  <2>2. \A i \in DOMAIN files :
          /\ Holds(disk, InodeBlock(gd, i), i, files[i]) /\ InodeBlock(gd, i) \notin W
          /\ {disk[InodeBlock(gd, i)].val[2][j] : j \in 1 .. files[i]} \cap W = {}
    BY <1>2, <2>1 DEF Readiness, Kept
  <2>3. \A b \in Blocks \ W : device[b] = disk[b]
    BY <1>1
  <2> QED
    BY <2>1, <2>2, <2>3, AlikeIf
<1> QED
  BY <1>1, <1>3, <1>4 DEF DeviceInv, Synced, Caching, After

LEMMA StutterDevice == DeviceInv /\ UNCHANGED vars => DeviceInv'
<1> SUFFICES ASSUME DeviceInv, UNCHANGED vars PROVE DeviceInv'
  OBVIOUS
<1>1. UNCHANGED <<disk, device, old, files, pc>>
  BY DEF vars, cache
<1>2. Waiting' = Waiting /\ Heads' = Heads
  BY <1>1 DEF Waiting, Heads, Blocks, DescBlocks
<1>3. Afloat' = Afloat /\ Small' = Small
  BY <1>1, <1>2 DEF Afloat, Safe, Pointed, Small
<1>4. Alike(disk, device, files, disk[1].val)' = Alike(disk, device, files, disk[1].val)
  BY <1>1
<1> QED
  BY <1>1, <1>2, <1>3, <1>4 DEF DeviceInv

LEMMA FilesStep ==
    ASSUME ResizeInv, FilesInv, DeviceInv, SoundPlan, Covered, [Next]_vars, ~lost'
    PROVE  FilesInv' /\ DeviceInv'
<1>0. ASSUME FilesInv',
             \/ MarkError \/ AdjustSuperblock \/ ZeroNewTable \/ BlocksToMove \/ PlanMoves \/ CopyBlock \/ CloseOld
      PROVE  DeviceInv'
  <2>1. (\A b \in Blocks : device'[b] = disk'[b]) /\ files' = files /\ pc' \notin After
    BY <1>0, EarlyFlushed
  <2> QED
    BY <1>0, <2>1, FlushedDevice DEF FilesInv
<1>1. CASE MarkError
  BY <1>0, <1>1, MarkErrorFiles
<1>2. CASE AdjustSuperblock
  BY <1>0, <1>2, AdjustSuperblockFiles
<1>3. CASE ZeroNewTable
  BY <1>0, <1>3, ZeroNewTableFiles
<1>4. CASE BlocksToMove
  BY <1>0, <1>4, BlocksToMoveFiles
<1>5. CASE PlanMoves
  BY <1>0, <1>5, PlanMovesFiles
<1>6. CASE CopyBlock
  BY <1>0, <1>6, CopyBlockFiles
<1>7. CASE FixInode
  BY <1>7, FixInodeFiles, FixInodeDevice
<1>8. CASE BeginTables
  BY <1>8, BeginTablesFiles, BeginTablesDevice
<1>9. CASE MoveTable
  BY <1>9, MoveTableFiles, MoveTableDevice
<1>10. CASE FlushTable
  BY <1>10, FlushTableFiles, FlushTableDevice
<1>11. CASE EndTables
  BY <1>11, EndTablesFiles, EndTablesDevice
<1>12. CASE WriteBitmaps
  BY <1>12, WriteBitmapsFiles, WriteBitmapsDevice
<1>13. CASE WriteDescs
  BY <1>13, WriteDescsFiles, WriteDescsDevice
<1>14. CASE WriteSuper
  BY <1>14, WriteSuperFiles, WriteSuperDevice
<1>15. CASE FixResizeInode
  BY <1>15, FixResizeInodeFiles, FixResizeInodeDevice
<1>16. CASE FixSbJournalBackup
  BY <1>16, FixSbJournalBackupFiles, FixSbJournalBackupDevice
<1>17. CASE CloseOld
  BY <1>0, <1>17, CloseOldFiles
<1>18. CASE UNCHANGED vars
  BY <1>18, StutterFiles, StutterDevice
<1>19. CASE LoseBlock
  BY <1>19 DEF LoseBlock
<1> QED
  BY <1>1, <1>2, <1>3, <1>4, <1>5, <1>6, <1>7, <1>8, <1>9, <1>10, <1>11, <1>12, <1>13, <1>14, <1>15, <1>16, <1>17,
     <1>18, <1>19 DEF Next

(* What the device holds can be read.                                      *)
LEMMA KeptReadable ==
    ASSUME ResizeInv, ~lost /\ Covered => FilesInv /\ DeviceInv
    PROVE  FilesReadable
<1> SUFFICES ASSUME FilesInv, DeviceInv, NEW x \in BOOLEAN, NEW y \in BOOLEAN, NEW z \in BOOLEAN,
                    NEW i \in DOMAIN files
             PROVE  LET descs == Arrived(x, 1)
                        inode == Arrived(y, InodeBlock(descs.val, i))
                    IN  /\ descs.kind = "gdt"
                        /\ inode.kind = "inode" /\ inode.val[1] = i /\ Len(inode.val[2]) = files[i]
                        /\ \A n \in DOMAIN inode.val[2] :
                             LET block == Arrived(z, inode.val[2][n])
                             IN  block.kind = "data" /\ block.val = <<i, n>>
  BY DEF FilesReadable
<1>0. PICK descs, inode : descs = Arrived(x, 1) /\ inode = Arrived(y, InodeBlock(descs.val, i))
  OBVIOUS
<1>1. Readiness
  BY DEF FilesInv
<1>2. descs.kind = "gdt" /\ \A g \in GroupsOf(old) : descs.val[g].it = disk[1].val[g].it
  BY <1>0, <1>1 DEF Arrived, DeviceInv, Readiness, Is
<1>3. PICK b : b = InodeBlock(disk[1].val, i)
  OBVIOUS
<1>4. InodeBlock(descs.val, i) = b
  BY <1>1, <1>2, <1>3, InodeGroups, SameInodeBlock
<1>5. Proper(disk, device, inode, i, files[i])
  BY <1>0, <1>3, <1>4 DEF DeviceInv, Alike, Arrived
<1>6. PICK s : s = inode.val[2]
  OBVIOUS
<1>7. /\ inode.kind = "inode" /\ inode.val[1] = i /\ Len(s) = files[i]
      /\ \A n \in DOMAIN s : disk[s[n]].kind = "data" /\ disk[s[n]].val = <<i, n>> /\ device[s[n]] = disk[s[n]]
  BY <1>5, <1>6 DEF Proper
<1>8. \A n \in DOMAIN s : Arrived(z, s[n]).kind = "data" /\ Arrived(z, s[n]).val = <<i, n>>
  BY <1>7 DEF Arrived
<1>9. /\ descs.kind = "gdt"
      /\ inode.kind = "inode" /\ inode.val[1] = i /\ Len(inode.val[2]) = files[i]
      /\ \A n \in DOMAIN inode.val[2] :
           Arrived(z, inode.val[2][n]).kind = "data" /\ Arrived(z, inode.val[2][n]).val = <<i, n>>
  BY <1>2, <1>6, <1>7, <1>8
<1> QED
  BY <1>0, <1>9

(***************************************************************************)
(* The file system stays one of those the property is about.               *)
(***************************************************************************)
LEMMA LostStays == lost /\ [Next]_vars => lost'
<1> SUFFICES ASSUME lost, [Next]_vars PROVE lost'
  OBVIOUS
<1>1. CASE MarkError \/ FlushTable \/ CloseOld
  BY <1>1 DEF MarkError, FlushTable, CloseOld, FlushOld, FlushUnseen
<1>2. CASE AdjustSuperblock \/ BlocksToMove \/ PlanMoves \/ EndTables \/ FixSbJournalBackup \/ UNCHANGED vars
  BY <1>2 DEF AdjustSuperblock, BlocksToMove, PlanMoves, EndTables, FixSbJournalBackup, vars, cache
<1>3. CASE ZeroNewTable \/ CopyBlock \/ FixInode \/ BeginTables
  BY <1>3 DEF ZeroNewTable, CopyBlock, FixInode, BeginTables, FlushUnseen, cache
<1>4. CASE MoveTable \/ WriteBitmaps \/ FixResizeInode \/ LoseBlock
  BY <1>4 DEF MoveTable, WriteBitmaps, FixResizeInode, LoseBlock, cache
<1>5. CASE WriteDescs \/ WriteSuper
  BY <1>5 DEF WriteDescs, WriteSuper, FlushUnseen
<1> QED
  BY <1>1, <1>2, <1>3, <1>4, <1>5 DEF Next

\* What Covered looks at.
SameClass(fs, next) == next.flex = fs.flex /\ next.ri = fs.ri /\ next.rsv = fs.rsv /\ next.size = fs.size

LEMMA ClassKept ==
    ASSUME SameClass(old, old')
    PROVE  Covered' = Covered
<1>1. Flex(old') = Flex(old)
  BY DEF Flex, SameClass
<1>2. Roomy(old') = Roomy(old)
  BY DEF Roomy, SameClass, DescBlocks
<1> QED
  BY <1>1, <1>2 DEF Covered

LEMMA FlushClass ==
    ASSUME NEW fs, FlushOld(fs), DOMAIN fs = FsFields
    PROVE  SameClass(fs, old')
<1>1. old' = fs \/ old' = [fs EXCEPT !.orig = Super(fs)]
  BY DEF FlushOld
<1> QED
  BY <1>1 DEF SameClass, FsFields

LEMMA CoveredStays == ResizeInv /\ [Next]_vars => Covered' = Covered
<1> SUFFICES ASSUME ResizeInv, [Next]_vars PROVE SameClass(old, old')
  BY ClassKept
<1>1. DOMAIN old = FsFields
  BY DEF ResizeInv, Layout, FsOK
<1>2. CASE MarkError
  <2>1. PICK fs : fs = [old EXCEPT !.error = TRUE]
    OBVIOUS
  <2>2. DOMAIN fs = FsFields /\ SameClass(old, fs)
    BY <1>1, <2>1 DEF SameClass, FsFields
  <2>3. SameClass(fs, old')
    BY <1>2, <2>1, <2>2, FlushClass DEF MarkError
  <2> QED
    BY <2>2, <2>3 DEF SameClass
<1>3. CASE FlushTable
  BY <1>1, <1>3, FlushClass DEF FlushTable
<1>4. CASE CloseOld
  <2>1. FlushOld(old) \/ old' = old
    BY <1>4 DEF CloseOld
  <2> QED
    BY <1>1, <2>1, FlushClass DEF SameClass
<1>5. CASE MoveTable
  <2>1. old' = old \/ \E to : old' = [old EXCEPT !.gd[k].it = to]
    BY <1>5 DEF MoveTable
  <2> QED
    BY <1>1, <2>1 DEF SameClass, FsFields
<1>6. CASE \/ AdjustSuperblock \/ ZeroNewTable \/ BlocksToMove \/ PlanMoves \/ CopyBlock \/ FixInode \/ BeginTables
           \/ EndTables
  <2>1. old' = old
    BY <1>6 DEF AdjustSuperblock, ZeroNewTable, BlocksToMove, PlanMoves, CopyBlock, FixInode, BeginTables, EndTables,
       handles
  <2> QED
    BY <2>1 DEF SameClass
<1>7. CASE \/ WriteBitmaps \/ WriteDescs \/ WriteSuper \/ FixResizeInode \/ FixSbJournalBackup \/ LoseBlock
           \/ UNCHANGED vars
  <2>1. old' = old
    BY <1>7 DEF WriteBitmaps, WriteDescs, WriteSuper, FixResizeInode, FixSbJournalBackup, LoseBlock, vars, handles
  <2> QED
    BY <2>1 DEF SameClass
<1> QED
  BY <1>2, <1>3, <1>4, <1>5, <1>6, <1>7 DEF Next

(***************************************************************************)
(* Without flex_bg: structures stay in their group, and so lie apart.      *)
(***************************************************************************)
\* The parts of a group begin within it; and a group has two blocks at least.
AtHome(fs, g) ==
    \A p \in Parts : fs.gd[g][p] = Nowhere \/ fs.gd[g][p] \in FirstBlock(g) .. LastBlock(fs, g)
Wide(fs, g) == FirstBlock(g) < LastBlock(fs, g)

LEMMA FreeWithin ==
    ASSUME NEW fs, fs.size \in Nat, NEW start \in Nat, NEW finish \in Nat, start < finish, NEW num, NEW map,
           NEW b, b = GetFreeBlocks(fs, start, finish, num, map)
    PROVE  b = Nowhere \/ b \in start .. finish - 1
<1> DEFINE Fits(c) == c + num <= fs.size /\ Run(c, num) \cap map = {}
           ahead == {c \in start .. finish - 1 : Fits(c)}
           around == {c \in 0 .. finish - 1 : start >= finish /\ Fits(c)}
<1>1. ~(start >= finish)
  OBVIOUS
<1>2. b = IF ahead # {} THEN Min(ahead) ELSE IF around # {} THEN Min(around) ELSE Nowhere
  BY DEF GetFreeBlocks
<1>3. around = {}
  <2> HIDE DEF Fits
  <2> QED
    BY <1>1
<1>4. ahead \subseteq start .. finish - 1 /\ ahead \subseteq Nat
  <2> HIDE DEF Fits
  <2> QED
    OBVIOUS
<1> HIDE DEF ahead, around
<1>5. CASE ahead # {}
  <2>1. b \in ahead
    BY <1>2, <1>4, <1>5, MinIs
  <2> QED
    BY <1>4, <2>1
<1>6. CASE ahead = {}
  BY <1>2, <1>3, <1>6
<1> QED
  BY <1>5, <1>6

LEMMA StaggeredWithin ==
    ASSUME NEW fs, fs.size \in Nat \ {0}, fs.stride \in Nat, NEW g \in GroupsOf(fs), NEW map, Wide(fs, g)
    PROVE  Staggered(fs, g, map) \in FirstBlock(g) .. LastBlock(fs, g) - 1
<1> DEFINE last == LastBlock(fs, g)
           free == GetFreeBlocks(fs, FirstBlock(g), last, 1, map)
           s == free + InodeBlocks
           t == s + ((fs.stride * g) % (last - s + 1))
<1>1. FirstBlock(g) \in Nat /\ last \in Nat /\ g \in Nat /\ FirstBlock(g) < last
  BY GroupNumbers DEF Wide
<1>2. free = Nowhere \/ free \in FirstBlock(g) .. last - 1
  <2> HIDE DEF last
  <2> QED
    BY <1>1, FreeWithin
<1>3. Staggered(fs, g, map) =
        IF fs.stride = 0 \/ free = Nowhere \/ s > last \/ t >= last THEN FirstBlock(g) ELSE t
  BY DEF Staggered
<1>4. fs.stride * g \in Nat
  BY <1>1, TimesNat
<1>5. free # Nowhere => s \in Nat /\ s >= FirstBlock(g)
  <2> HIDE DEF free, last
  <2> QED
    BY <1>1, <1>2, Constants
<1> HIDE DEF last, free, s
<1>6. ASSUME free # Nowhere, ~(s > last) PROVE t \in Nat /\ t >= s
  <2>1. PICK m, a : m = last - s + 1 /\ a = fs.stride * g
    OBVIOUS
  <2>2. m \in Nat \ {0} /\ a \in Nat
    BY <1>1, <1>4, <1>5, <1>6, <2>1
  <2>3. a % m \in Nat
    BY <2>2, Quotient
  <2> QED
    BY <1>5, <1>6, <2>1, <2>3
<1> HIDE DEF t
<1>7. Staggered(fs, g, map) \in FirstBlock(g) .. last - 1
  BY <1>1, <1>3, <1>5, <1>6
<1> QED
  BY <1>7 DEF last

LEMMA PutIs ==
    ASSUME NEW r, SearchOK(r), NEW g \in GroupsOf(r.fs), NEW part \in Parts, NEW b, b # Nowhere,
           SpotOK(b, Size(part), r.fs.size), NEW q, q = Put(r, g, part, b)
    PROVE  q.fs.gd[g][part] = b
<1>1. PICK marked : q.fs = [r.fs EXCEPT !.gd[g][part] = b, !.map = marked]
  BY DEF Put
<1>2. DOMAIN r.fs = FsFields /\ DOMAIN r.fs.gd = GroupsOf(r.fs) /\ DOMAIN r.fs.gd[g] = Parts
  BY DEF SearchOK, FsOK, GroupOK
<1> QED
  BY <1>1, <1>2 DEF FsFields

(* A part that gets a place gets it in the group.                          *)
LEMMA PlaceHome ==
    ASSUME NEW r, SearchOK(r), r.ok, NEW g \in GroupsOf(r.fs), NEW part \in Parts, ~Flex(r.fs), Wide(r.fs, g),
           NEW start \in FirstBlock(g) .. LastBlock(r.fs, g) - 1, AtHome(r.fs, g),
           NEW q, q = Place(r, g, part, start), q.ok
    PROVE  AtHome(q.fs, g)
<1>1. FsOK(r.fs, r.fs.size) /\ r.fs.size \in Nat \ {0}
  BY DEF SearchOK, FsOK
<1>2. FirstBlock(g) \in Nat /\ LastBlock(r.fs, g) \in Nat /\ FirstBlock(g) < LastBlock(r.fs, g)
  BY <1>1, GroupNumbers DEF Wide
<1>3. start \in Nat
  BY <1>2
<1>4. Placed(r, q, g, part)
  BY <1>3, PlaceOK
<1>5. LastBlock(q.fs, g) = LastBlock(r.fs, g)
  BY <1>4 DEF Placed, Extends, LastBlock
<1>6. CASE r.fs.gd[g][part] # Nowhere
  <2>1. q = r
    BY <1>6 DEF Place
  <2> QED
    BY <2>1
<1>7. CASE r.fs.gd[g][part] = Nowhere
  <2>1. PICK from, b, first, last : /\ from = SearchFrom(r, g, part, start) /\ b = Found(r, g, part, from)
                                    /\ first = FirstBlock(g) /\ last = LastBlock(r.fs, g)
    OBVIOUS
  <2>2. from \in first .. last - 1 /\ from \in Nat
    BY <1>2, <2>1 DEF SearchFrom
  <2>3. SearchTo(r.fs, g) = last
    BY <2>1 DEF SearchTo
  <2>4. PICK c, d : /\ c = GetFreeBlocks(r.fs, from, last, Size(part), r.map)
                    /\ d = GetFreeBlocks(r.fs, first, last, 1, r.map)
    OBVIOUS
  <2>5. c = Nowhere \/ c \in first .. last
    <3>1. c = Nowhere \/ c \in from .. last - 1
      <4>1. from < last
        BY <1>2, <2>1, <2>2
      <4> QED
        BY <1>1, <1>2, <2>1, <2>2, <2>4, <4>1, FreeWithin
    <3> QED
      BY <1>2, <2>1, <2>2, <3>1
  <2>6. d = Nowhere \/ d \in first .. last
    <3>1. d = Nowhere \/ d \in first .. last - 1
      BY <1>1, <1>2, <2>1, <2>4, FreeWithin
    <3> QED
      BY <1>2, <2>1, <3>1
  <2>7. b = OrElse(c, IF part = "it" THEN Nowhere ELSE d)
    BY <2>1, <2>3, <2>4 DEF Found
  <2>8. b = Nowhere \/ b \in first .. last
    BY <2>5, <2>6, <2>7 DEF OrElse
  <2>9. q = Put(r, g, part, b)
    BY <1>7, <2>1 DEF Place
  <2>10. b # Nowhere
    <3>1. Put(r, g, part, b).ok = (b # Nowhere)
      BY DEF Put
    <3> QED
      BY <2>9, <3>1
  <2>11. q.fs.gd[g][part] = b
    <3>1. SpotOK(b, Size(part), r.fs.size)
      BY <1>1, <2>1, <2>2, FoundFree
    <3> QED
      BY <2>9, <2>10, <3>1, PutIs
  <2>12. \A p \in Parts : p # part => q.fs.gd[g][p] = r.fs.gd[g][p]
    BY <1>4 DEF Placed
  <2>13. \A p \in Parts : q.fs.gd[g][p] = IF p = part THEN b ELSE r.fs.gd[g][p]
    BY <2>11, <2>12
  <2> QED
    BY <1>5, <2>1, <2>8, <2>13 DEF AtHome
<1> QED
  BY <1>6, <1>7

LEMMA AllHome ==
    ASSUME NEW fs, FsOK(fs, fs.size), NEW g \in GroupsOf(fs), NEW map, map \subseteq 0 .. fs.size - 1,
           ~Flex(fs), Wide(fs, g), AtHome(fs, g), NEW a, a = AllocateGroupTable(fs, g, map), a.ok
    PROVE  AtHome(a.fs, g)
<1>1. PICK r, start : r = [fs |-> fs, map |-> map, ok |-> Staggers(fs, g, map)] /\ start = Staggered(fs, g, map)
  OBVIOUS
<1>2. r.fs = fs /\ r.map = map /\ r.ok /\ SearchOK(r)
  <2>1. a = PlaceAll(r, g, start)
    BY <1>1 DEF AllocateGroupTable
  <2>2. r.ok
    BY <2>1, PlacedIfOK
  <2> QED
    BY <1>1, <2>2 DEF SearchOK
<1>3. fs.size \in Nat \ {0} /\ fs.stride \in Nat
  BY DEF FsOK
<1>4. start \in FirstBlock(g) .. LastBlock(fs, g) - 1 /\ start \in Nat
  <2>1. start \in FirstBlock(g) .. LastBlock(fs, g) - 1
    BY <1>1, <1>3, StaggeredWithin
  <2> QED
    BY <1>1, <1>3, <2>1, StaggeredNat
<1>5. PICK s, t : s = Place(r, g, "bbm", start) /\ t = Place(s, g, "ibm", start)
  OBVIOUS
<1>6. a = Place(t, g, "it", start)
  BY <1>1, <1>5 DEF AllocateGroupTable, PlaceAll
<1>7. t.ok
  BY <1>6 DEF Place
<1>8. s.ok
  BY <1>5, <1>7 DEF Place
<1>9. Placed(r, s, g, "bbm") /\ AtHome(s.fs, g)
  BY <1>2, <1>4, <1>5, <1>8, PlaceOK, PlaceHome DEF Parts
<1>10. /\ SearchOK(s) /\ GroupsOf(s.fs) = GroupsOf(fs) /\ ~Flex(s.fs) /\ Wide(s.fs, g)
       /\ LastBlock(s.fs, g) = LastBlock(fs, g)
  <2>1. s.fs.size = fs.size /\ s.fs.flex = fs.flex /\ SearchOK(s)
    BY <1>2, <1>9 DEF Placed, Extends, FsFields
  <2> QED
    BY <2>1 DEF GroupsOf, Flex, Wide, LastBlock
<1>11. Placed(s, t, g, "ibm") /\ AtHome(t.fs, g)
  BY <1>4, <1>5, <1>7, <1>8, <1>9, <1>10, PlaceOK, PlaceHome DEF Parts
<1>12. /\ SearchOK(t) /\ GroupsOf(t.fs) = GroupsOf(fs) /\ ~Flex(t.fs) /\ Wide(t.fs, g)
       /\ LastBlock(t.fs, g) = LastBlock(fs, g)
  <2>1. t.fs.size = s.fs.size /\ t.fs.flex = s.fs.flex /\ SearchOK(t)
    BY <1>11 DEF Placed, Extends, FsFields
  <2> QED
    BY <1>10, <2>1 DEF GroupsOf, Flex, Wide, LastBlock
<1> QED
  BY <1>4, <1>6, <1>7, <1>11, <1>12, PlaceHome DEF Parts

LEMMA GroupHome ==
    ASSUME NEW r, r.ok, FsOK(r.fs, r.fs.size), NEW g \in GroupsOf(r.fs), NEW q, q = WithGroup(r, g), q.ok,
           ~Flex(r.fs), Wide(r.fs, g), AtHome(r.fs, g)
    PROVE  AtHome(q.fs, g)
<1>1. PICK fs : fs = Marked(r.fs, SuperAndBgd(r.fs, g))
  OBVIOUS
<1>2. SuperAndBgd(r.fs, g) \subseteq 0 .. r.fs.size - 1
  <2>1. r.fs.size \in Nat \ {0} /\ r.fs.rsv \in Nat
    BY DEF FsOK
  <2>2. g \in Nat
    BY <2>1, GroupNumbers
  <2> QED
    BY <2>1, <2>2, BackupsInside
<1>3. /\ FsOK(fs, r.fs.size) /\ Extends(r.fs, fs) /\ fs.gd = r.fs.gd
      /\ GroupsOf(fs) = GroupsOf(r.fs)
  BY <1>1, <1>2, MarkOK
<1>4. fs.size = r.fs.size /\ fs.flex = r.fs.flex
  BY <1>3 DEF Extends, FsFields
<1>5. ~Flex(fs) /\ Wide(fs, g) /\ AtHome(fs, g)
  BY <1>3, <1>4 DEF Flex, Wide, AtHome, LastBlock
<1>6. PICK a : a = AllocateGroupTable(fs, g, fs.map)
  OBVIOUS
<1>7. q = [fs |-> [a.fs EXCEPT !.map = @ \cup a.map], ok |-> a.ok]
  BY <1>1, <1>6 DEF WithGroup, AllocateIn, Marked
<1>8. a.ok
  BY <1>7
<1>9. FsOK(fs, fs.size) /\ fs.map \subseteq 0 .. fs.size - 1 /\ g \in GroupsOf(fs)
  BY <1>3, <1>4 DEF FsOK
<1>10. AtHome(a.fs, g)
  BY <1>5, <1>6, <1>8, <1>9, AllHome
<1>11. FsOK(a.fs, a.fs.size) /\ a.map \subseteq 0 .. a.fs.size - 1
  <2>1. Furnished([fs |-> fs, map |-> fs.map, ok |-> TRUE], a, g)
    BY <1>6, <1>8, <1>9, GroupTableAllocated
  <2> QED
    BY <2>1 DEF Furnished, SearchOK
<1>12. q.fs = Marked(a.fs, a.map)
  BY <1>7 DEF Marked
<1>13. Extends(a.fs, q.fs) /\ q.fs.gd = a.fs.gd
  BY <1>11, <1>12, MarkOK
<1> QED
  BY <1>10, <1>13 DEF Extends, AtHome, LastBlock

(* Every group is wide enough and has its structures within it.            *)
Homely(fs) == \A g \in GroupsOf(fs) : Wide(fs, g) /\ AtHome(fs, g)

LEMMA LoopHome ==
    ASSUME NEW fs, FsOK(fs, fs.size), ~Flex(fs), Homely(fs), NEW n \in Nat, n <= Groups(fs.size),
           NEW f, Loop(f, << >>, [fs |-> fs, ok |-> TRUE], 0), f[n].ok
    PROVE  \A g \in GroupsOf(fs) : AtHome(f[n].fs, g)
<1>g. fs.size \in Nat \ {0} /\ Groups(fs.size) \in Nat
  BY GroupsNat DEF FsOK
<1>f. f[0] = [fs |-> fs, ok |-> TRUE]
  <2>1. PICK b : b = [fs |-> fs, ok |-> TRUE]
    OBVIOUS
  <2>2. Loop(f, << >>, b, 0)
    BY <2>1
  <2>3. f[0] = b
    <3>1. 0 \in Nat /\ 0 <= 0
      OBVIOUS
    <3> QED
      BY <2>2, <3>1 DEF Loop
  <2> QED
    BY <2>1, <2>3
<1> DEFINE Home(m) == \A g \in GroupsOf(fs) : AtHome(f[m].fs, g)
           T == {m \in Nat : m <= n /\ f[m].ok /\ ~Home(m)}
<1> SUFFICES ASSUME T # {} PROVE FALSE
  OBVIOUS
<1>1. PICK m \in T : \A j \in T : m <= j
  <2>1. T \subseteq Nat
    OBVIOUS
  <2> HIDE DEF T
  <2> QED
    BY <2>1, LeastNatural
<1>2. CASE m = 0
  <2>1. f[m] = [fs |-> fs, ok |-> TRUE]
    BY <1>2, <1>f
  <2>2. f[m].fs = fs
    BY <2>1
  <2> QED
    BY <1>1, <2>2 DEF Homely
<1>3. CASE m # 0
  <2>1. m - 1 \in Nat /\ m - 1 <= n /\ m \in Nat /\ ~(m <= 0)
    BY <1>1, <1>3
  <2>2. f[m] = WithGroup(f[m - 1], m - 1)
    BY <2>1 DEF Loop, Round
  <2>3. PICK r, q, h : r = f[m - 1] /\ q = f[m] /\ h = m - 1
    OBVIOUS
  <2>4. q = WithGroup(r, h) /\ q.ok
    BY <1>1, <2>2, <2>3
  <2>5. r.ok
    BY <2>4 DEF WithGroup
  <2>6. Home(h)
    <3>1. ~(h \in T)
      BY <1>1, <2>1, <2>3
    <3> HIDE DEF Home
    <3> QED
      BY <2>1, <2>3, <2>5, <3>1
  <2>7. h \in GroupsOf(fs) /\ h \in Nat /\ h <= Groups(fs.size)
    BY <1>1, <1>g, <2>1, <2>3 DEF GroupsOf
  <2>8. Added(fs, r.fs, 0, h)
    BY <2>3, <2>5, <2>7, LoopAdds
  <2>9. /\ FsOK(r.fs, r.fs.size) /\ r.fs.size = fs.size /\ r.fs.flex = fs.flex
        /\ GroupsOf(r.fs) = GroupsOf(fs)
    BY <2>8 DEF Added, Extends, GroupsOf, FsFields
  <2>10. ~Flex(r.fs) /\ Wide(r.fs, h) /\ AtHome(r.fs, h) /\ \A g \in GroupsOf(fs) : AtHome(r.fs, g)
    BY <2>3, <2>6, <2>7, <2>9 DEF Flex, Wide, LastBlock, Homely
  <2>11. AtHome(q.fs, h)
    BY <2>4, <2>5, <2>7, <2>9, <2>10, GroupHome
  <2>12. /\ Extends(r.fs, q.fs)
         /\ \A g \in GroupsOf(fs) : g # h => q.fs.gd[g] = r.fs.gd[g]
    BY <2>4, <2>5, <2>7, <2>9, GroupAdded
  <2>13. \A g : LastBlock(q.fs, g) = LastBlock(r.fs, g)
    BY <2>12 DEF Extends, LastBlock
  <2>14. \A g \in GroupsOf(fs) : AtHome(q.fs, g)
    BY <2>10, <2>11, <2>12, <2>13 DEF AtHome
  <2> QED
    BY <1>1, <2>3, <2>14
<1> QED
  BY <1>2, <1>3

(* A new file system: the last group has room for its structures.          *)
LEMMA MadeWide ==
    ASSUME NEW f \in Formats, NEW g \in GroupsOf(f)
    PROVE  Wide(f, g)
<1>1. PICK n, w, s : n = Groups(f.size) /\ w = PerGroup /\ s = f.size
  OBVIOUS
<1>2. w \in Nat \ {0, 1} /\ s \in Nat \ {0} /\ f.rsv \in Nat /\ "size" \in DOMAIN f
  BY <1>1, ResizeFsAssumption
<1>3. n \in Nat \ {0} /\ (n - 1) * w < s /\ s <= n * w /\ (n - 1) * w \in Nat
  BY <1>1, <1>2, GroupsNat
<1>4. g \in Nat /\ g <= n - 1 /\ FirstBlock(g) \in Nat
  BY <1>1, <1>2, GroupNumbers
<1>5. CASE g # n - 1
  <2>1. LastBlock(f, g) = FirstBlock(g) + w - 1
    BY <1>1, <1>5 DEF LastBlock
  <2> QED
    BY <1>2, <1>4, <2>1 DEF Wide
<1>6. CASE g = n - 1
  <2>1. LastBlock(f, g) = s - 1 /\ FirstBlock(g) = (n - 1) * w
    BY <1>1, <1>6 DEF LastBlock, FirstBlock
  <2>2. s # (n - 1) * w + 1
    <3> SUFFICES ASSUME s = (n - 1) * w + 1 PROVE FALSE
      OBVIOUS
    <3>1. CASE n = 1
      <4>1. s = 1
        BY <1>2, <3>1
      <4>2. PICK fs : fs = Mkfs(f).fs
        OBVIOUS
      <4>3. FsOK(fs, fs.size) /\ fs.size = 1 /\ Tidy(fs)
        BY <1>1, <4>1, <4>2, MadeOK, MadeTidy
      <4>4. 0 \in GroupsOf(fs)
        BY <4>3, GroupZero
      <4>5. fs.gd[0]["bbm"] # Nowhere
        BY <4>3, <4>4 DEF Tidy, Parts
      <4>6. SpotOK(fs.gd[0]["bbm"], 1, 1)
        BY <4>3, <4>4 DEF FsOK, GroupOK, Parts, Size
      <4> QED
        BY <4>5, <4>6 DEF SpotOK, Nowhere
    <3>2. CASE n # 1
      <4>1. PICK q : q = n - 1
        OBVIOUS
      <4>2. q \in Nat /\ n > 1 /\ q * w <= s /\ s < q * w + w /\ s \in Nat
        BY <1>2, <1>3, <3>2, <4>1
      <4>3. s % w = s - q * w
        BY <1>2, <4>2, DivUnique
      <4>4. s % w = 1
        BY <1>2, <1>3, <4>1, <4>3
      <4>5. 1 < Overhead(f, s) + Slack
        <5>1. PICK a : a = (n + DescPerBlock - 1) \div DescPerBlock
          OBVIOUS
        <5>2. a \in Nat
          <6>1. n + DescPerBlock - 1 \in Nat /\ DescPerBlock \in Nat \ {0}
            BY <1>3, Constants
          <6>2. PICK u : u = n + DescPerBlock - 1
            OBVIOUS
          <6> QED
            BY <5>1, <6>1, <6>2, Quotient
        <5>3. Overhead(f, s) = 2 + InodeBlocks + (IF HasSuper(n - 1) THEN 1 + a + f.rsv ELSE 0)
          BY <1>1, <5>1 DEF Overhead
        <5> QED
          BY <1>2, <5>2, <5>3, Constants
      <4>6. Fitted(f, s) = s - 1
        BY <1>1, <1>2, <4>2, <4>4, <4>5, FittedIs
      <4>7. Fitted(f, s) = s
        BY <1>1, FormatsAssumption
      <4> QED
        BY <1>2, <4>6, <4>7
    <3> QED
      BY <3>1, <3>2
  <2> QED
    BY <1>2, <1>3, <2>1, <2>2 DEF Wide
<1> QED
  BY <1>5, <1>6

LEMMA MadeHome ==
    ASSUME NEW f \in Formats, f.flex = 1, NEW fs, fs = Mkfs(f).fs
    PROVE  Homely(fs)
<1>1. PICK from : /\ FsOK(from, from.size) /\ from.size = f.size
                  /\ \A g \in GroupsOf(from) : Bare(from.gd[g])
                  /\ Added(from, fs, 0, Groups(f.size)) /\ from.flex = f.flex
                  /\ \E l : Loop(l, << >>, [fs |-> from, ok |-> TRUE], 0) /\ Mkfs(f) = l[Groups(f.size)]
  BY MadeAdded
<1>2. PICK l : Loop(l, << >>, [fs |-> from, ok |-> TRUE], 0) /\ Mkfs(f) = l[Groups(f.size)]
  BY <1>1
<1>3. fs.size = f.size /\ GroupsOf(fs) = GroupsOf(f) /\ GroupsOf(from) = GroupsOf(f)
  BY <1>1 DEF Added, Extends, GroupsOf
<1>4. \A g \in GroupsOf(f) : Wide(fs, g) /\ Wide(from, g)
  BY <1>1, <1>3, MadeWide DEF Wide, LastBlock
<1>5. Homely(from) /\ ~Flex(from)
  BY <1>1, <1>3, <1>4 DEF Homely, AtHome, Bare, Flex
<1>6. Groups(f.size) \in Nat /\ Groups(f.size) <= Groups(from.size)
  <2>1. from.size \in Nat \ {0}
    BY <1>1 DEF FsOK
  <2>2. PICK n : n = Groups(from.size)
    OBVIOUS
  <2>3. n \in Nat
    BY <2>1, <2>2, GroupsNat
  <2> QED
    BY <1>1, <2>2, <2>3
<1>7. l[Groups(f.size)].ok /\ l[Groups(f.size)].fs = fs
  BY <1>2, FormatsAssumption
<1>8. \A g \in GroupsOf(from) : AtHome(l[Groups(f.size)].fs, g)
  BY <1>1, <1>2, <1>5, <1>6, <1>7, LoopHome
<1> QED
  BY <1>3, <1>4, <1>7, <1>8 DEF Homely

(* Where groups begin and end.                                             *)
LEMMA GroupBounds ==
    ASSUME NEW fs, fs.size \in Nat \ {0}, NEW g \in GroupsOf(fs)
    PROVE  /\ FirstBlock(g) \in Nat /\ LastBlock(fs, g) \in Nat /\ FirstBlock(g) <= LastBlock(fs, g)
           /\ LastBlock(fs, g) <= FirstBlock(g) + PerGroup - 1 /\ LastBlock(fs, g) < fs.size
           /\ \A h \in GroupsOf(fs) : g < h => LastBlock(fs, g) < FirstBlock(h)
<1>1. PICK n, w, s : n = Groups(fs.size) /\ w = PerGroup /\ s = fs.size
  OBVIOUS
<1>2. w \in Nat \ {0} /\ s \in Nat \ {0}
  BY <1>1, Constants
<1>3. n \in Nat \ {0} /\ (n - 1) * w < s /\ s <= n * w /\ (n - 1) * w \in Nat /\ n * w = (n - 1) * w + w
  <2>1. n \in Nat \ {0} /\ (n - 1) * w < s /\ s <= n * w /\ (n - 1) * w \in Nat
    BY <1>1, <1>2, GroupsNat
  <2> QED
    BY <1>2, <2>1
<1>4. g \in Nat /\ g <= n - 1 /\ FirstBlock(g) = g * w /\ g * w \in Nat
  BY <1>1, <1>2, GroupNumbers DEF FirstBlock
<1>5. ASSUME NEW h \in Nat, g < h PROVE g * w + w <= h * w /\ h * w \in Nat
  BY <1>2, <1>4, <1>5, TimesLess, TimesNat
<1>6. LastBlock(fs, g) = IF g = n - 1 THEN s - 1 ELSE g * w + w - 1
  BY <1>1, <1>4 DEF LastBlock
<1>7. g < n - 1 => g * w + w < s
  <2>1. PICK m : m = n - 1
    OBVIOUS
  <2>2. m \in Nat
    BY <1>3, <2>1
  <2> QED
    BY <1>2, <1>3, <1>4, <1>5, <2>1, <2>2
<1>8. ASSUME NEW h \in GroupsOf(fs), g < h PROVE LastBlock(fs, g) < FirstBlock(h)
  <2>1. h \in Nat /\ h <= n - 1 /\ FirstBlock(h) = h * w
    BY <1>1, <1>2, GroupNumbers DEF FirstBlock
  <2>2. g * w + w <= h * w /\ h * w \in Nat
    BY <1>5, <1>8, <2>1
  <2>3. g # n - 1
    BY <1>3, <1>4, <1>8, <2>1
  <2> QED
    BY <1>2, <1>4, <1>6, <2>1, <2>2, <2>3
<1>9. CASE g = n - 1
  <2>1. LastBlock(fs, g) = s - 1 /\ FirstBlock(g) = (n - 1) * w
    BY <1>4, <1>6, <1>9
  <2> QED
    BY <1>1, <1>2, <1>3, <1>8, <2>1
<1>10. CASE g # n - 1
  <2>1. LastBlock(fs, g) = g * w + w - 1 /\ g < n - 1
    BY <1>3, <1>4, <1>6, <1>10
  <2> QED
    BY <1>1, <1>2, <1>4, <1>7, <1>8, <2>1
<1> QED
  BY <1>9, <1>10

LEMMA LastGrows ==
    ASSUME NEW fs, fs.size \in Nat \ {0}, NEW next, next.size \in Nat \ {0}, fs.size <= next.size,
           NEW g \in GroupsOf(fs), g \in GroupsOf(next)
    PROVE  LastBlock(fs, g) <= LastBlock(next, g)
<1>1. /\ LastBlock(fs, g) \in Nat /\ LastBlock(fs, g) <= FirstBlock(g) + PerGroup - 1 /\ LastBlock(fs, g) < fs.size
      /\ FirstBlock(g) \in Nat
  BY GroupBounds
<1>2. LastBlock(next, g) = next.size - 1 \/ LastBlock(next, g) = FirstBlock(g) + PerGroup - 1
  BY DEF LastBlock
<1> QED
  BY <1>1, <1>2, Constants

(* Without flex_bg, blocks_to_move looks at the region of the group only.  *)
Plain(fs, next, held) == Growing(fs, next, held) /\ Homely(fs) /\ ~Flex(fs) /\ ~Flex(next)

(* A part that is where it was lies outside the region of its group; one   *)
(* that is not was in the region, so that there is one.                    *)
Stayed(fs, next, r) ==
    \A g \in GroupsOf(fs) :
      /\ AtHome(r.fs, g)
      /\ \A p \in Parts : /\ r.fs.gd[g][p] = fs.gd[g][p] => Spot(fs.gd[g], p) \cap SuperAndBgd(next, g) = {}
                          /\ r.fs.gd[g][p] # fs.gd[g][p] => HasSuper(g)

LEMMA PlainGroup ==
    ASSUME NEW fs, NEW next, NEW held, Plain(fs, next, held), NEW g \in GroupsOf(fs)
    PROVE  /\ Wide(next, g) /\ AtHome(next, g) /\ g \in GroupsOf(next)
           /\ \A p \in Parts : fs.gd[g][p] \in FirstBlock(g) .. LastBlock(fs, g)
           /\ LastBlock(fs, g) \in Nat /\ LastBlock(next, g) \in Nat /\ FirstBlock(g) \in Nat
           /\ LastBlock(fs, g) <= LastBlock(next, g)
<1>1. /\ fs.size \in Nat \ {0} /\ next.size \in Nat \ {0} /\ fs.size <= next.size /\ g \in GroupsOf(next)
      /\ next.gd[g] = fs.gd[g] /\ Wide(fs, g) /\ AtHome(fs, g) /\ Growing(fs, next, held)
  BY DEF Plain, Growing, FsOK, Homely
<1>2. LastBlock(fs, g) \in Nat /\ LastBlock(next, g) \in Nat /\ FirstBlock(g) \in Nat
  BY <1>1, GroupNumbers
<1>3. LastBlock(fs, g) <= LastBlock(next, g)
  BY <1>1, LastGrows
<1>4. \A p \in Parts : fs.gd[g][p] \in FirstBlock(g) .. LastBlock(fs, g)
  BY <1>1, GrowingParts DEF AtHome
<1>5. \A p \in Parts : fs.gd[g][p] \in FirstBlock(g) .. LastBlock(next, g)
  BY <1>2, <1>3, <1>4
<1> QED
  BY <1>1, <1>2, <1>3, <1>4, <1>5 DEF Wide, AtHome

LEMMA DisplacedStayed ==
    ASSUME NEW fs, NEW next, NEW held, Plain(fs, next, held)
    PROVE  Stayed(fs, next, Displacing(fs, next, held))
<1>1. PICK b, c : b = Displacing(fs, next, held) /\ c = Cleared(fs, next)
  OBVIOUS
<1>2. /\ FsOK(fs, fs.size) /\ FsOK(next, next.size) /\ fs.size \in Nat \ {0} /\ ~Flex(fs)
      /\ Growing(fs, next, held)
  BY DEF Plain, Growing, FsOK
<1>3. b.fs = c
  BY <1>1 DEF Displacing
<1>4. c.gd = [g \in GroupsOf(next) |-> IF g \in GroupsOf(fs) THEN Displaced(next.gd[g], SuperAndBgd(next, g))
                                                             ELSE next.gd[g]]
  BY <1>1, <1>2 DEF Cleared, FsOK, FsFields
<1>5. c.size = next.size
  BY <1>1, <1>2, ClearedOK DEF Extends
<1>6. ASSUME NEW g \in GroupsOf(fs)
      PROVE  /\ AtHome(c, g)
             /\ \A p \in Parts : /\ c.gd[g][p] = fs.gd[g][p] => Spot(fs.gd[g], p) \cap SuperAndBgd(next, g) = {}
                                 /\ c.gd[g][p] # fs.gd[g][p] => HasSuper(g)
  <2>1. PICK region, s : region = SuperAndBgd(next, g) /\ s = fs.gd[g]
    OBVIOUS
  <2>2. g \in GroupsOf(next) /\ next.gd[g] = s
    BY <1>2, <2>1 DEF Growing
  <2>3. c.gd[g] = Displaced(s, region)
    BY <1>4, <2>1, <2>2
  <2>4. region # {} => HasSuper(g)
    BY <2>1 DEF SuperAndBgd
  <2>5. \A p \in Parts : s[p] \in Nat \ {Nowhere}
    BY <1>2, <2>1, GrowingParts
  <2>6. Table(s) = Spot(s, "it") /\ Spot(s, "bbm") = {s.bbm} /\ Spot(s, "ibm") = {s.ibm}
    BY <2>5, PartsIn
  <2>7. /\ c.gd[g]["bbm"] = IF s["bbm"] \in region THEN Nowhere ELSE s["bbm"]
        /\ c.gd[g]["ibm"] = IF s["ibm"] \in region THEN Nowhere ELSE s["ibm"]
        /\ c.gd[g]["it"] = IF Spot(s, "it") \cap region # {} THEN Nowhere ELSE s["it"]
    BY <2>3, <2>6 DEF Displaced
  <2>8. \A p \in Parts : c.gd[g][p] = IF Spot(s, p) \cap region # {} THEN Nowhere ELSE s[p]
    BY <2>6, <2>7 DEF Parts
  <2>9. \A p \in Parts : /\ c.gd[g][p] = s[p] => Spot(s, p) \cap region = {}
                         /\ c.gd[g][p] # s[p] => HasSuper(g)
    BY <2>4, <2>5, <2>8
  <2>10. AtHome(next, g)
    BY PlainGroup
  <2>11. LastBlock(c, g) = LastBlock(next, g)
    BY <1>5 DEF LastBlock
  <2>12. AtHome(c, g)
    BY <2>2, <2>8, <2>10, <2>11 DEF AtHome
  <2> QED
    BY <2>1, <2>9, <2>12
<1> QED
  BY <1>1, <1>3, <1>6 DEF Stayed

LEMMA RoundStayed ==
    ASSUME NEW fs, NEW next, NEW held, Plain(fs, next, held), NEW g \in GroupsOf(fs),
           NEW r, r.ok, Progress(fs, next, held, r, g), Stayed(fs, next, r),
           NEW q, q = Reallocated(r, fs, MetaBlocks(fs), g), q.ok
    PROVE  Stayed(fs, next, q)
<1>1. /\ FsOK(fs, fs.size) /\ FsOK(next, next.size) /\ fs.size <= next.size /\ GroupsOf(fs) \subseteq GroupsOf(next)
      /\ Growing(fs, next, held) /\ ~Flex(next)
  BY DEF Plain, Growing
<1>2. ~(g < g)
  <2>1. fs.size \in Nat \ {0}
    BY <1>1 DEF FsOK
  <2>2. g \in Nat
    BY <2>1, GroupNumbers
  <2> QED
    BY <2>2
<1>3. Relocated(fs, next, r) /\ held \subseteq r.reserve /\ Expecting(fs, r, g)
  BY <1>2 DEF Progress
<1>5. CASE q = r
  BY <1>5
<1>6. CASE q # r
  <2>1. PICK a, c : a = AllocateGroupTable(r.fs, g, r.reserve) /\ c = [fs |-> r.fs, map |-> r.reserve, ok |-> TRUE]
    OBVIOUS
  <2>2. q = Booked(r, a, fs, MetaBlocks(fs), g)
    BY <1>6, <2>1 DEF Reallocated
  <2>3. PICK taken : taken = Structures(a.fs.gd[g]) \ Structures(fs.gd[g])
    OBVIOUS
  <2>4. q.fs = Marked(a.fs, taken)
    BY <2>2, <2>3 DEF Booked, Marked
  <2>5. a.ok
    <3>1. Booked(r, a, fs, MetaBlocks(fs), g).ok = a.ok
      BY DEF Booked
    <3> QED
      BY <2>2, <3>1
  <2>6. r.fs.size = next.size /\ FsOK(r.fs, r.fs.size) /\ r.fs.flex = next.flex
    BY <1>3 DEF Relocated, Extends, FsFields
  <2>7. GroupsOf(r.fs) = GroupsOf(next) /\ g \in GroupsOf(next) /\ g \in GroupsOf(r.fs)
    BY <1>1, <2>6 DEF GroupsOf
  <2>8. r.reserve \subseteq 0 .. r.fs.size - 1
    BY <1>3, <2>6 DEF Relocated
  <2>9. Furnished(c, a, g)
    BY <2>1, <2>5, <2>6, <2>7, <2>8, GroupTableAllocated
  <2>10. c.fs = r.fs /\ c.map = r.reserve
    BY <2>1
  <2>11. q.fs.gd = a.fs.gd /\ q.fs.size = r.fs.size
    <3>1. FsOK(a.fs, a.fs.size) /\ a.fs.size = r.fs.size
      BY <2>9, <2>10 DEF Furnished, SearchOK, Extends
    <3> QED
      BY <2>4, <3>1 DEF Marked, FsOK, FsFields
  <2>12. \A h : LastBlock(q.fs, h) = LastBlock(r.fs, h) /\ LastBlock(a.fs, h) = LastBlock(r.fs, h)
    <3>1. a.fs.size = r.fs.size
      BY <2>9, <2>10 DEF Furnished, Extends
    <3> QED
      BY <2>11, <3>1 DEF LastBlock
  <2>13. \A h \in GroupsOf(fs) : h # g => q.fs.gd[h] = r.fs.gd[h]
    BY <1>1, <2>7, <2>9, <2>10, <2>11 DEF Furnished
  <2>14. ~Flex(r.fs) /\ Wide(r.fs, g) /\ AtHome(r.fs, g)
    <3>1. Wide(next, g)
      BY PlainGroup
    <3> QED
      BY <1>1, <2>6, <3>1 DEF Flex, Wide, LastBlock, Stayed
  <2>15. AtHome(a.fs, g)
    BY <2>1, <2>5, <2>6, <2>7, <2>8, <2>14, AllHome
  <2>16. AtHome(q.fs, g)
    BY <2>11, <2>12, <2>15 DEF AtHome
  <2>17. ASSUME NEW p \in Parts
         PROVE  /\ q.fs.gd[g][p] = fs.gd[g][p] => Spot(fs.gd[g], p) \cap SuperAndBgd(next, g) = {}
                /\ q.fs.gd[g][p] # fs.gd[g][p] => HasSuper(g)
    <3>1. fs.gd[g][p] \in Nat \ {Nowhere} /\ Spot(fs.gd[g], p) \subseteq held
      BY <1>1, GrowingParts
    <3>2. CASE r.fs.gd[g][p] = Nowhere
      <4>1. r.fs.gd[g][p] # fs.gd[g][p]
        BY <3>1, <3>2
      <4>2. HasSuper(g)
        BY <4>1 DEF Stayed
      <4>3. Spot(q.fs.gd[g], p) \cap r.reserve = {}
        <5>1. KeptOrNew(c, a, g, p) /\ Lost(c, g, p)
          BY <2>9, <2>10, <3>2 DEF Furnished, Lost
        <5> QED
          BY <2>10, <2>11, <5>1 DEF KeptOrNew
      <4>4. fs.gd[g][p] \in Spot(fs.gd[g], p)
        <5>1. Size(p) \in Nat \ {0}
          BY Constants DEF Size
        <5> QED
          BY <3>1, <5>1 DEF Spot, Run
      <4>5. q.fs.gd[g][p] # fs.gd[g][p]
        <5> SUFFICES ASSUME q.fs.gd[g][p] = fs.gd[g][p] PROVE FALSE
          OBVIOUS
        <5>1. Spot(q.fs.gd[g], p) = Spot(fs.gd[g], p)
          BY DEF Spot
        <5> QED
          BY <1>3, <3>1, <4>3, <4>4, <5>1
      <4> QED
        BY <4>2, <4>5
    <3>3. CASE r.fs.gd[g][p] # Nowhere
      <4>1. q.fs.gd[g][p] = r.fs.gd[g][p]
        <5>1. KeptOrNew(c, a, g, p) /\ ~Lost(c, g, p)
          BY <2>9, <2>10, <3>3 DEF Furnished, Lost
        <5> QED
          BY <2>10, <2>11, <5>1 DEF KeptOrNew
      <4> QED
        BY <4>1 DEF Stayed
    <3> QED
      BY <3>2, <3>3
  <2>18. ASSUME NEW h \in GroupsOf(fs)
         PROVE  /\ AtHome(q.fs, h)
                /\ \A p \in Parts : /\ q.fs.gd[h][p] = fs.gd[h][p] => Spot(fs.gd[h], p) \cap SuperAndBgd(next, h) = {}
                                    /\ q.fs.gd[h][p] # fs.gd[h][p] => HasSuper(h)
    <3>1. CASE h = g
      BY <2>16, <2>17, <3>1
    <3>2. CASE h # g
      <4>1. q.fs.gd[h] = r.fs.gd[h] /\ AtHome(r.fs, h)
        BY <2>13, <3>2 DEF Stayed
      <4>2. AtHome(q.fs, h)
        BY <2>12, <4>1 DEF AtHome
      <4> QED
        BY <4>1, <4>2 DEF Stayed
    <3> QED
      BY <3>1, <3>2
  <2> QED
    BY <2>18 DEF Stayed
<1> QED
  BY <1>5, <1>6

LEMMA LoopStayed ==
    ASSUME NEW fs, NEW next, NEW held, Plain(fs, next, held), NEW b, Progress(fs, next, held, b, 0),
           Stayed(fs, next, b),
           NEW f, Loop(f, <<fs, MetaBlocks(fs)>>, b, 0), f[Groups(fs.size)].ok
    PROVE  Stayed(fs, next, f[Groups(fs.size)])
<1> DEFINE Both(r, m) == Progress(fs, next, held, r, m) /\ Stayed(fs, next, r)
<1>1. PICK n, meta : n = Groups(fs.size) /\ meta = MetaBlocks(fs)
  OBVIOUS
<1>a. Growing(fs, next, held)
  BY DEF Plain
<1>2. n \in Nat
  BY <1>1, <1>a, GroupsNat DEF Growing, FsOK
<1>3. \A r, g : Round(<<fs, meta>>, r, g) = Reallocated(r, fs, meta, g)
  BY DEF Round
<1>4. f[0] = b
  BY DEF Loop
<1>5. \A g \in Nat : g # 0 => f[g] = Reallocated(f[g - 1], fs, meta, g - 1)
  <2>1. \A g \in Nat : g # 0 => ~(g <= 0)
    OBVIOUS
  <2> QED
    BY <1>1, <1>3, <2>1 DEF Loop
<1>b. Both(b, 0)
  OBVIOUS
<1>c. \A r, m : Both(r, m) => Progress(fs, next, held, r, m) /\ Stayed(fs, next, r)
  OBVIOUS
<1>d. \A r, m : Progress(fs, next, held, r, m) /\ Stayed(fs, next, r) => Both(r, m)
  OBVIOUS
<1> HIDE DEF Both
<1> DEFINE T == {m \in Nat : m <= n /\ f[m].ok /\ ~Both(f[m], m)}
<1>6. T = {}
  <2> SUFFICES ASSUME T # {} PROVE FALSE
    OBVIOUS
  <2>1. PICK m \in T : \A j \in T : m <= j
    <3>1. T \subseteq Nat
      OBVIOUS
    <3> HIDE DEF T
    <3> QED
      BY <3>1, LeastNatural
  <2>2. m \in Nat /\ m # 0 /\ m <= n /\ f[m].ok /\ ~Both(f[m], m)
    BY <1>4, <1>b, <2>1
  <2>3. PICK r, q, g : r = f[m - 1] /\ q = f[m] /\ g = m - 1
    OBVIOUS
  <2>4. q = Reallocated(r, fs, meta, g) /\ q.ok
    BY <1>5, <2>2, <2>3
  <2>5. r.ok
    BY <2>4 DEF Reallocated
  <2>6. g \in Nat /\ g < m /\ g <= n /\ g \in GroupsOf(fs) /\ m = g + 1
    BY <1>1, <1>2, <2>2, <2>3 DEF GroupsOf
  <2>7. Both(r, g)
    <3>1. ~(g \in T)
      BY <2>1, <2>2, <2>6
    <3> QED
      BY <2>3, <2>5, <2>6, <3>1
  <2>a. Progress(fs, next, held, r, g) /\ Stayed(fs, next, r)
    BY <1>c, <2>7
  <2>8. Progress(fs, next, held, q, m)
    BY <1>1, <1>a, <2>4, <2>5, <2>6, <2>a, RoundProgress
  <2>9. Stayed(fs, next, q)
    BY <1>1, <2>4, <2>5, <2>6, <2>a, RoundStayed
  <2>10. Both(q, m)
    BY <1>d, <2>8, <2>9
  <2> QED
    BY <2>2, <2>3, <2>10
<1>7. Both(f[n], n)
  BY <1>1, <1>2, <1>6
<1> QED
  BY <1>1, <1>7, <1>c

LEMMA ToMoveStayed ==
    ASSUME NEW fs, NEW next, NEW held, Plain(fs, next, held),
           DescBlocks(fs) + fs.rsv # DescBlocks(next) + next.rsv,
           NEW r, r = ToMove(fs, next, held), r.ok
    PROVE  Stayed(fs, next, r)
<1> DEFINE L == CHOOSE f : MoveLoop(f, Displacing(fs, next, held), fs, MetaBlocks(fs))
<1>1. MoveLoop(L, Displacing(fs, next, held), fs, MetaBlocks(fs))
  BY MoveLoopExists
<1>2. ToMove(fs, next, held) = L[Groups(fs.size)]
  BY DEF ToMove, MoveLoop
<1> HIDE DEF L
<1>3. Loop(L, <<fs, MetaBlocks(fs)>>, Displacing(fs, next, held), 0)
  BY <1>1, MoveLoopExists
<1>4. Growing(fs, next, held)
  BY DEF Plain
<1> QED
  BY <1>2, <1>3, <1>4, DisplacedProgress, DisplacedStayed, LoopStayed

(* StructuresApart, for any handles.                                       *)
Sound(fs, next) ==
    /\ \A g \in GroupsOf(fs) : Structures(next.gd[g]) \cap Regions(fs, next) = {}
    /\ \A g, h \in GroupsOf(fs) : g # h => Structures(next.gd[g]) \cap Structures(next.gd[h]) = {}

LEMMA RunBetween ==
    ASSUME NEW start \in Nat, NEW n \in Nat, NEW x \in Run(start, n), NEW b \in Nat, start <= b, b <= x
    PROVE  b \in Run(start, n)
BY DEF Run

LEMMA FirstInRegion ==
    ASSUME NEW fs, FsOK(fs, fs.size), NEW h \in GroupsOf(fs), HasSuper(h)
    PROVE  FirstBlock(h) \in SuperAndBgd(fs, h)
<1>1. fs.size \in Nat \ {0} /\ fs.rsv \in Nat
  BY DEF FsOK
<1>2. FirstBlock(h) \in Nat /\ LastBlock(fs, h) \in Nat /\ FirstBlock(h) <= LastBlock(fs, h) /\ LastBlock(fs, h) < fs.size
  BY <1>1, GroupBounds
<1>3. DescBlocks(fs) \in Nat
  BY <1>1, DescBlocksNat
<1>4. FirstBlock(h) \in Run(FirstBlock(h), 1 + DescBlocks(fs) + fs.rsv) /\ FirstBlock(h) < fs.size
  BY <1>1, <1>2, <1>3 DEF Run
<1> QED
  BY <1>4 DEF SuperAndBgd

(* What holds of the parts of a group when blocks_to_move is through.      *)
LEMMA PartMoved ==
    ASSUME NEW fs, NEW next, NEW held, Plain(fs, next, held), NEW g \in GroupsOf(fs), NEW p \in Parts,
           NEW r, Progress(fs, next, held, r, Groups(fs.size)), Stayed(fs, next, r)
    PROVE  /\ r.fs.gd[g][p] \in FirstBlock(g) .. LastBlock(next, g) /\ r.fs.gd[g][p] \in Nat \ {Nowhere}
           /\ \/ /\ r.fs.gd[g][p] = fs.gd[g][p] /\ Spot(r.fs.gd[g], p) = Spot(fs.gd[g], p)
                 /\ Spot(r.fs.gd[g], p) \cap SuperAndBgd(next, g) = {}
                 /\ r.fs.gd[g][p] <= LastBlock(fs, g)
              \/ Spot(r.fs.gd[g], p) \cap held = {} /\ HasSuper(g)
<1>1. Growing(fs, next, held) /\ fs.size \in Nat \ {0} /\ next.size \in Nat \ {0}
  BY DEF Plain, Growing, FsOK
<1>2. g < Groups(fs.size)
  <2>1. g \in Nat /\ g <= Groups(fs.size) - 1 /\ Groups(fs.size) \in Nat
    BY <1>1, GroupNumbers
  <2> QED
    BY <2>1
<1>3. /\ r.fs.gd[g][p] # Nowhere
      /\ r.fs.gd[g][p] = fs.gd[g][p] \/ Spot(r.fs.gd[g], p) \cap held = {}
  BY <1>2 DEF Progress, Served
<1>4. r.fs.size = next.size
  BY DEF Progress, Relocated, Extends
<1>5. LastBlock(r.fs, g) = LastBlock(next, g)
  BY <1>4 DEF LastBlock
<1>6. r.fs.gd[g][p] \in FirstBlock(g) .. LastBlock(next, g)
  BY <1>3, <1>5 DEF Stayed, AtHome
<1>7. /\ FirstBlock(g) \in Nat /\ LastBlock(next, g) \in Nat /\ LastBlock(fs, g) \in Nat
      /\ fs.gd[g][p] \in FirstBlock(g) .. LastBlock(fs, g)
  BY PlainGroup
<1>8. CASE r.fs.gd[g][p] = fs.gd[g][p]
  <2>1. Spot(r.fs.gd[g], p) = Spot(fs.gd[g], p)
    BY <1>8 DEF Spot
  <2>2. Spot(fs.gd[g], p) \cap SuperAndBgd(next, g) = {}
    BY <1>8 DEF Stayed
  <2> QED
    BY <1>3, <1>6, <1>7, <1>8, <2>1, <2>2
<1>9. CASE r.fs.gd[g][p] # fs.gd[g][p]
  <2>1. HasSuper(g)
    BY <1>9 DEF Stayed
  <2> QED
    BY <1>3, <1>6, <1>7, <1>9, <2>1
<1> QED
  BY <1>8, <1>9

(* A region never fills its group: the block bitmap is somewhere in it.    *)
LEMMA RegionEnds ==
    ASSUME NEW fs, NEW next, NEW held, Plain(fs, next, held),
           NEW r, Progress(fs, next, held, r, Groups(fs.size)), Stayed(fs, next, r),
           NEW h \in GroupsOf(fs), NEW g \in GroupsOf(fs), h < g, NEW x \in SuperAndBgd(next, h)
    PROVE  x < FirstBlock(g)
<1>1. /\ Growing(fs, next, held) /\ next.size \in Nat \ {0} /\ next.rsv \in Nat
      /\ h \in GroupsOf(next) /\ g \in GroupsOf(next) /\ MetaBlocks(next) \subseteq held
  BY DEF Plain, Growing, FsOK
<1>2. FirstBlock(g) \in Nat /\ FirstBlock(h) \in Nat /\ LastBlock(next, h) \in Nat /\ LastBlock(next, h) < FirstBlock(g)
  BY <1>1, GroupBounds
<1>3. DescBlocks(next) \in Nat
  BY <1>1, DescBlocksNat
<1>4. PICK n : n = 1 + DescBlocks(next) + next.rsv
  OBVIOUS
<1>5. n \in Nat /\ x \in Run(FirstBlock(h), n) /\ x < next.size /\ HasSuper(h)
  BY <1>1, <1>3, <1>4 DEF SuperAndBgd
<1>6. x \in Nat
  BY <1>2, <1>5 DEF Run
<1> SUFFICES ASSUME x >= FirstBlock(g) PROVE FALSE
  BY <1>2, <1>6
<1>7. PICK b : b = r.fs.gd[h]["bbm"]
  OBVIOUS
<1>8. "bbm" \in Parts
  BY DEF Parts
<1>9. /\ b \in FirstBlock(h) .. LastBlock(next, h) /\ b \in Nat
      /\ Spot(r.fs.gd[h], "bbm") \cap SuperAndBgd(next, h) = {} \/ Spot(r.fs.gd[h], "bbm") \cap held = {}
  BY <1>7, <1>8, PartMoved
<1>10. b \in SuperAndBgd(next, h)
  <2>1. FirstBlock(h) <= b /\ b <= x /\ b < next.size
    BY <1>1, <1>2, <1>5, <1>6, <1>9
  <2>2. b \in Run(FirstBlock(h), n)
    BY <1>2, <1>5, <1>9, <2>1, RunBetween
  <2> QED
    BY <1>4, <1>5, <2>1, <2>2 DEF SuperAndBgd
<1>11. SuperAndBgd(next, h) \subseteq held
  BY <1>1 DEF MetaBlocks
<1>12. b \in Spot(r.fs.gd[h], "bbm")
  BY <1>7, <1>9 DEF Spot, Run, Size
<1> QED
  BY <1>9, <1>10, <1>11, <1>12

LEMMA PartOffRegions ==
    ASSUME NEW fs, NEW next, NEW held, Plain(fs, next, held),
           NEW r, Progress(fs, next, held, r, Groups(fs.size)), Stayed(fs, next, r),
           NEW g \in GroupsOf(fs), NEW p \in Parts, NEW h \in GroupsOf(fs)
    PROVE  Spot(r.fs.gd[g], p) \cap SuperAndBgd(next, h) = {}
<1>1. /\ Growing(fs, next, held) /\ fs.size \in Nat \ {0} /\ next.size \in Nat \ {0} /\ next.rsv \in Nat
      /\ h \in GroupsOf(next) /\ MetaBlocks(next) \subseteq held /\ FsOK(fs, fs.size) /\ Tidy(fs)
  BY DEF Plain, Growing, FsOK
<1>2. PICK s, n : s = r.fs.gd[g][p] /\ n = Size(p)
  OBVIOUS
<1>3. n \in Nat /\ Spot(r.fs.gd[g], p) = Run(s, n)
  BY <1>2, Constants DEF Size, Spot
<1>4. /\ s \in FirstBlock(g) .. LastBlock(next, g) /\ s \in Nat
      /\ \/ /\ Run(s, n) = Spot(fs.gd[g], p) /\ Run(s, n) \cap SuperAndBgd(next, g) = {} /\ s <= LastBlock(fs, g)
         \/ Run(s, n) \cap held = {}
  BY <1>2, <1>3, PartMoved
<1>5. SuperAndBgd(next, h) \subseteq held
  BY <1>1 DEF MetaBlocks
<1>6. g \in Nat /\ h \in Nat /\ FirstBlock(g) \in Nat /\ FirstBlock(h) \in Nat /\ LastBlock(fs, g) \in Nat
  BY <1>1, GroupNumbers
<1> SUFFICES ASSUME NEW x \in Run(s, n), x \in SuperAndBgd(next, h) PROVE FALSE
  BY <1>3
<1>7. x \in Nat
  BY <1>3, <1>4 DEF Run
<1>8. Run(s, n) = Spot(fs.gd[g], p) /\ s <= LastBlock(fs, g) /\ g # h
  BY <1>4, <1>5
<1>9. CASE g < h
  <2>1. LastBlock(fs, g) < FirstBlock(h)
    BY <1>1, <1>9, GroupBounds
  <2>2. HasSuper(h) /\ FirstBlock(h) <= x
    <3>1. HasSuper(h) /\ x \in Run(FirstBlock(h), 1 + DescBlocks(next) + next.rsv)
      BY DEF SuperAndBgd
    <3>2. DescBlocks(next) \in Nat
      BY <1>1, DescBlocksNat
    <3> QED
      BY <1>1, <1>6, <3>1, <3>2 DEF Run
  <2>3. FirstBlock(h) \in Run(s, n)
    <3>1. s <= FirstBlock(h)
      BY <1>4, <1>6, <1>8, <2>1
    <3> QED
      BY <1>3, <1>4, <1>6, <2>2, <3>1, RunBetween
  <2>4. FirstBlock(h) \in AllRegions(fs)
    BY <1>1, <2>2, FirstInRegion DEF AllRegions
  <2>5. Spot(fs.gd[g], p) \cap AllRegions(fs) = {}
    BY <1>1 DEF Tidy
  <2> QED
    BY <1>8, <2>3, <2>4, <2>5
<1>10. CASE h < g
  <2>1. x < FirstBlock(g)
    BY <1>10, RegionEnds
  <2>2. s <= x
    BY <1>3, <1>4 DEF Run
  <2>3. FirstBlock(g) <= s
    BY <1>4, <1>6
  <2> QED
    BY <1>4, <1>6, <1>7, <2>1, <2>2, <2>3
<1> QED
  BY <1>6, <1>8, <1>9, <1>10

LEMMA PartsOff ==
    ASSUME NEW fs, NEW next, NEW held, Plain(fs, next, held),
           NEW r, Progress(fs, next, held, r, Groups(fs.size)), Stayed(fs, next, r),
           NEW g \in GroupsOf(fs), NEW h \in GroupsOf(fs), g < h, NEW p \in Parts, NEW o \in Parts
    PROVE  Spot(r.fs.gd[g], p) \cap Spot(r.fs.gd[h], o) = {}
<1>1. /\ Growing(fs, next, held) /\ fs.size \in Nat \ {0} /\ next.size \in Nat \ {0}
      /\ g \in GroupsOf(next) /\ h \in GroupsOf(next) /\ MetaBlocks(next) \subseteq held
      /\ FsOK(next, next.size) /\ Tidy(fs)
  BY DEF Plain, Growing, FsOK
<1>2. g \in Nat /\ h \in Nat
  BY <1>1, GroupNumbers
<1>3. Spot(fs.gd[g], p) \subseteq held /\ Spot(fs.gd[h], o) \subseteq held
  BY <1>1, GrowingParts
<1>4. PICK A, B : A = Spot(r.fs.gd[g], p) /\ B = Spot(r.fs.gd[h], o)
  OBVIOUS
<1>5. \/ A = Spot(fs.gd[g], p)
      \/ A \cap held = {} /\ HasSuper(g)
  BY <1>4, PartMoved
<1>6. \/ B = Spot(fs.gd[h], o)
      \/ B \cap held = {} /\ HasSuper(h)
  BY <1>4, PartMoved
<1>7. CASE A = Spot(fs.gd[g], p) /\ B = Spot(fs.gd[h], o)
  <2>1. Spot(fs.gd[g], p) \cap Spot(fs.gd[h], o) = {}
    BY <1>1, <1>2 DEF Tidy
  <2> QED
    BY <1>4, <1>7, <2>1
<1>8. CASE A = Spot(fs.gd[g], p) /\ B \cap held = {}
  BY <1>3, <1>4, <1>8
<1>9. CASE A \cap held = {} /\ B = Spot(fs.gd[h], o)
  BY <1>3, <1>4, <1>9
<1>10. CASE A \cap held = {} /\ B \cap held = {} /\ HasSuper(h)
  <2>1. PICK s, n, t, m : s = r.fs.gd[g][p] /\ n = Size(p) /\ t = r.fs.gd[h][o] /\ m = Size(o)
    OBVIOUS
  <2>2. n \in Nat /\ m \in Nat /\ A = Run(s, n) /\ B = Run(t, m)
    BY <1>4, <2>1, Constants DEF Size, Spot
  <2>3. s \in FirstBlock(g) .. LastBlock(next, g) /\ t \in FirstBlock(h) .. LastBlock(next, h) /\ s \in Nat /\ t \in Nat
    BY <2>1, PartMoved
  <2>4. LastBlock(next, g) \in Nat /\ FirstBlock(g) \in Nat /\ LastBlock(next, g) < FirstBlock(h)
    BY <1>1, GroupBounds
  <2>5. LastBlock(next, h) \in Nat /\ FirstBlock(h) \in Nat
    BY <1>1, GroupBounds
  <2> SUFFICES ASSUME NEW x \in A, x \in B PROVE FALSE
    BY <1>4
  <2>6. x \in Nat /\ t <= x
    BY <2>2, <2>3 DEF Run
  <2>7. s <= FirstBlock(h) /\ FirstBlock(h) <= x
    BY <2>3, <2>4, <2>5, <2>6
  <2>8. FirstBlock(h) \in A
    BY <2>2, <2>3, <2>5, <2>7, RunBetween
  <2>9. FirstBlock(h) \in held
    BY <1>1, <1>10, FirstInRegion DEF MetaBlocks
  <2> QED
    BY <1>10, <2>8, <2>9
<1> QED
  BY <1>5, <1>6, <1>7, <1>8, <1>9, <1>10

LEMMA MoveSound ==
    ASSUME NEW fs, NEW next, NEW held, Plain(fs, next, held),
           NEW r, Progress(fs, next, held, r, Groups(fs.size)), Stayed(fs, next, r)
    PROVE  Sound(fs, r.fs)
<1>1. FsOK(r.fs, r.fs.size) /\ r.fs.size = next.size /\ r.fs.rsv = next.rsv /\ fs.size \in Nat \ {0}
  BY DEF Progress, Relocated, Extends, FsFields, Plain, Growing, FsOK
<1>2. GroupsOf(fs) \subseteq GroupsOf(r.fs)
  <2>1. GroupsOf(fs) \subseteq GroupsOf(next)
    BY DEF Plain, Growing
  <2> QED
    BY <1>1, <2>1 DEF GroupsOf
<1>3. ASSUME NEW g \in GroupsOf(fs) PROVE Structures(r.fs.gd[g]) = UNION {Spot(r.fs.gd[g], p) : p \in Parts}
  <2>1. \A p \in Parts : r.fs.gd[g][p] \in Nat \ {Nowhere}
    BY PartMoved
  <2> QED
    BY <2>1, PartsIn
<1>4. \A g : SuperAndBgd(r.fs, g) = SuperAndBgd(next, g)
  BY <1>1 DEF SuperAndBgd, DescBlocks
<1>5. ASSUME NEW g \in GroupsOf(fs) PROVE Structures(r.fs.gd[g]) \cap Regions(fs, r.fs) = {}
  <2>1. \A p \in Parts, h \in GroupsOf(fs) : Spot(r.fs.gd[g], p) \cap SuperAndBgd(next, h) = {}
    BY PartOffRegions
  <2>2. \A p \in Parts, h \in GroupsOf(fs) : Spot(r.fs.gd[g], p) \cap SuperAndBgd(r.fs, h) = {}
    BY <1>4, <2>1
  <2> QED
    BY <1>3, <2>2 DEF Regions
<1>6. ASSUME NEW g \in GroupsOf(fs), NEW h \in GroupsOf(fs), g # h
      PROVE  Structures(r.fs.gd[g]) \cap Structures(r.fs.gd[h]) = {}
  <2>1. g \in Nat /\ h \in Nat
    BY <1>1, GroupNumbers
  <2>2. CASE g < h
    <3>1. \A p, o \in Parts : Spot(r.fs.gd[g], p) \cap Spot(r.fs.gd[h], o) = {}
      BY <2>2, PartsOff
    <3> QED
      BY <1>3, <3>1
  <2>3. CASE h < g
    <3>1. \A p, o \in Parts : Spot(r.fs.gd[h], p) \cap Spot(r.fs.gd[g], o) = {}
      BY <2>3, PartsOff
    <3> QED
      BY <1>3, <3>1
  <2> QED
    BY <1>6, <2>1, <2>2, <2>3
<1> QED
  BY <1>5, <1>6 DEF Sound

(* The same when the region keeps its size.                                *)
LEMMA KeptSound ==
    ASSUME NEW fs, FsOK(fs, fs.size), Tidy(fs), NEW next, NEW reserved, Enlarged(fs, next, reserved),
           DescBlocks(fs) + fs.rsv = DescBlocks(next) + next.rsv
    PROVE  Sound(fs, next)
<1>1. FsOK(next, next.size) /\ \A g \in GroupsOf(fs) : next.gd[g] = fs.gd[g]
  BY DEF Enlarged
<1>2. fs.size \in Nat \ {0} /\ next.size \in Nat \ {0} /\ fs.rsv \in Nat /\ next.rsv \in Nat
  BY <1>1 DEF FsOK
<1>3. \A g \in GroupsOf(fs) : Structures(fs.gd[g]) = UNION {Spot(fs.gd[g], p) : p \in Parts}
  BY AllParts DEF Tidy
<1>4. \A g \in GroupsOf(fs) : Structures(fs.gd[g]) \subseteq 1 .. fs.size - 1
  BY <1>2, StructuresInside DEF FsOK
<1>5. 1 + DescBlocks(fs) + fs.rsv = 1 + DescBlocks(next) + next.rsv
  <2>1. DescBlocks(fs) \in Nat /\ DescBlocks(next) \in Nat
    BY <1>2, DescBlocksNat
  <2> QED
    BY <1>2, <2>1
<1>6. ASSUME NEW g \in GroupsOf(fs) PROVE Structures(next.gd[g]) \cap Regions(fs, next) = {}
  <2> SUFFICES ASSUME NEW x \in Structures(fs.gd[g]), NEW h \in GroupsOf(fs), x \in SuperAndBgd(next, h) PROVE FALSE
    BY <1>1 DEF Regions
  <2>1. x < fs.size
    BY <1>2, <1>4
  <2>2. HasSuper(h) /\ x \in Run(FirstBlock(h), 1 + DescBlocks(fs) + fs.rsv)
    BY <1>5 DEF SuperAndBgd
  <2>3. x \in AllRegions(fs)
    BY <2>1, <2>2, RegionIn
  <2> QED
    BY <1>3, <2>3 DEF Tidy
<1>7. ASSUME NEW g \in GroupsOf(fs), NEW h \in GroupsOf(fs), g # h
      PROVE  Structures(next.gd[g]) \cap Structures(next.gd[h]) = {}
  <2>1. \A p, q \in Parts : Spot(fs.gd[g], p) \cap Spot(fs.gd[h], q) = {}
    BY <1>7 DEF Tidy
  <2> QED
    BY <1>1, <1>3, <2>1
<1> QED
  BY <1>6, <1>7 DEF Sound

LEMMA RegionKept ==
    ASSUME NEW fs, FsOK(fs, fs.size), Roomy(fs), NEW next, next.size \in Nat \ {0}, fs.size <= next.size,
           NEW n \in NewSizes, next.size <= n,
           next.rsv = AdjustReservedGdtBlocks(fs, [fs EXCEPT !.size = next.size])
    PROVE  DescBlocks(next) + next.rsv = DescBlocks(fs) + fs.rsv
<1>1. PICK mid : mid = [fs EXCEPT !.size = next.size]
  OBVIOUS
<1>2. mid.size = next.size /\ fs.size \in Nat \ {0} /\ fs.rsv \in Nat /\ n \in Nat
  BY <1>1, BlocksBelow DEF FsOK, FsFields
<1>3. DescBlocks(mid) = DescBlocks(next)
  BY <1>2 DEF DescBlocks
<1>4. PICK d, e, full : d = DescBlocks(fs) /\ e = DescBlocks(next) /\ full = [size |-> n]
  OBVIOUS
<1>5. d \in Nat /\ e \in Nat /\ d <= e
  BY <1>2, <1>4, DescBlocksNat, DescBlocksMonotone
<1>6. full.size \in Nat \ {0} /\ next.size <= full.size
  BY <1>2, <1>4
<1>7. e <= DescBlocks(full) /\ DescBlocks(full) \in Nat
  BY <1>4, <1>6, DescBlocksNat, DescBlocksMonotone
<1>8. fs.ri /\ fs.rsv <= MaxReserved /\ DescBlocks(full) <= d + fs.rsv
  BY <1>4 DEF Roomy
<1>9. next.rsv = IF ~fs.ri \/ d = e THEN fs.rsv ELSE IF fs.rsv + d - e < 0 THEN 0
                 ELSE IF fs.rsv + d - e > MaxReserved THEN MaxReserved ELSE fs.rsv + d - e
  BY <1>1, <1>3, <1>4 DEF AdjustReservedGdtBlocks
<1>10. next.rsv = fs.rsv + d - e
  BY <1>2, <1>5, <1>7, <1>8, <1>9, Constants
<1> QED
  BY <1>2, <1>4, <1>5, <1>10

(* Until blocks_to_move has run, whatever the device does: without flex    *)
(* groups each group keeps to itself, and a region with room keeps its     *)
(* size.                                                                   *)
Prepared ==
    /\ pc \in {"start", "adjust", "zero"} => Tidy(old) /\ (~Flex(old) => Homely(old))
    /\ pc = "zero" => /\ Grown /\ new.flex = old.flex
                      /\ Roomy(old) => DescBlocks(new) + new.rsv = DescBlocks(old) + old.rsv

LEMMA SameRoom ==
    ASSUME NEW fs, NEW next, next.size = fs.size, next.rsv = fs.rsv, next.ri = fs.ri
    PROVE  Roomy(fs) => Roomy(next)
<1>1. DescBlocks(next) = DescBlocks(fs)
  BY DEF DescBlocks
<1> QED
  BY <1>1 DEF Roomy

LEMMA SameHome ==
    ASSUME NEW fs, NEW next, next.size = fs.size, next.gd = fs.gd, next.flex = fs.flex, ~Flex(fs), Homely(fs)
    PROVE  ~Flex(next) /\ Homely(next)
<1>1. GroupsOf(next) = GroupsOf(fs) /\ \A g : LastBlock(next, g) = LastBlock(fs, g)
  BY DEF GroupsOf, LastBlock
<1> QED
  BY <1>1 DEF Flex, Homely, Wide, AtHome

LEMMA InitPrepared == Init => Prepared
<1> SUFFICES ASSUME Init PROVE Prepared
  OBVIOUS
<1>1. PICK fs \in {Mkfs(f).fs : f \in Formats}, p \in Pairs :
        /\ asked \in {n \in NewSizes : n > fs.size}
        /\ {p[1], p[2]} \subseteq 1 .. Groups(fs.size) * InodeBlocks
        /\ \E S \in Owned(Unused(fs)) : \E T \in {{}, Unused(fs) \ S} :
             \E blocks \in {[i \in {p[1], p[2]} |-> Ascending(IF i = p[1] THEN S ELSE T)]} :
               /\ \E owned \in {[fs EXCEPT !.map = @ \cup S \cup T, !.jino = p[1], !.jnl = blocks[p[1]]]} :
                    old = [owned EXCEPT !.orig = Super(owned)]
               /\ files = [i \in DOMAIN blocks |-> Len(blocks[i])]
               /\ disk = Formatted(old, blocks)
  BY DEF Init
<1>2. PICK f \in Formats : fs = Mkfs(f).fs
  OBVIOUS
<1>3. PICK S, T, blocks, owned :
        /\ S \in Owned(Unused(fs)) /\ T \in {{}, Unused(fs) \ S}
        /\ blocks = [i \in {p[1], p[2]} |-> Ascending(IF i = p[1] THEN S ELSE T)]
        /\ owned = [fs EXCEPT !.map = @ \cup S \cup T, !.jino = p[1], !.jnl = blocks[p[1]]]
        /\ old = [owned EXCEPT !.orig = Super(owned)]
        /\ files = [i \in DOMAIN blocks |-> Len(blocks[i])]
        /\ disk = Formatted(old, blocks)
  BY <1>1
<1>4. DOMAIN fs = FsFields
  BY <1>2, MadeOK DEF FsOK
<1>5. DOMAIN owned = FsFields
  BY <1>3, <1>4
<1>6. /\ old.size = owned.size /\ old.rsv = owned.rsv /\ old.gd = owned.gd /\ old.ri = owned.ri
      /\ old.flex = owned.flex
  BY <1>3, <1>5 DEF FsFields
<1>7. /\ owned.size = fs.size /\ owned.rsv = fs.rsv /\ owned.gd = fs.gd /\ owned.ri = fs.ri
      /\ owned.flex = fs.flex
  BY <1>3, <1>4 DEF FsFields
<1>8. fs.size = f.size /\ fs.rsv = f.rsv /\ fs.ri = f.ri /\ fs.flex = f.flex
  <2>1. PICK from : /\ from.size = f.size /\ from.rsv = f.rsv /\ from.flex = f.flex /\ from.ri = f.ri
                    /\ Added(from, fs, 0, Groups(f.size))
    BY <1>2, MadeAdded
  <2> QED
    BY <2>1 DEF Added, Extends, FsFields
<1>9. ~Flex(old) => Homely(old)
  <2> SUFFICES ASSUME ~Flex(old) PROVE Homely(old)
    OBVIOUS
  <2>1. f.flex \in Nat \ {0} /\ old.flex = f.flex
    BY <1>6, <1>7, <1>8, ResizeFsAssumption
  <2>2. f.flex = 1
    BY <2>1 DEF Flex
  <2>3. Homely(fs) /\ ~Flex(fs)
    BY <1>2, <1>8, <2>2, MadeHome DEF Flex
  <2> QED
    BY <1>6, <1>7, <2>3, SameHome
<1>10. pc = "start"
  BY DEF Init
<1>11. Tidy(old)
  BY <1>10, InitFiles DEF FilesInv, FilePhases, Before
<1> QED
  BY <1>9, <1>10, <1>11 DEF Prepared

LEMMA MarkErrorPrepared == ResizeInv /\ Prepared /\ MarkError => Prepared'
<1> SUFFICES ASSUME ResizeInv, Prepared, MarkError PROVE Prepared'
  OBVIOUS
<1>1. PICK fs : fs = [old EXCEPT !.error = TRUE]
  OBVIOUS
<1>2. pc = "start" /\ pc' = "adjust" /\ FlushOld(fs)
  BY <1>1 DEF MarkError, Goto
<1>3. DOMAIN old = FsFields
  BY DEF ResizeInv, Layout, FsOK
<1>4. /\ DOMAIN fs = FsFields
      /\ fs.size = old.size /\ fs.rsv = old.rsv /\ fs.gd = old.gd /\ fs.ri = old.ri /\ fs.flex = old.flex
  BY <1>1, <1>3 DEF FsFields
<1>5. old' = fs \/ old' = [fs EXCEPT !.orig = Super(fs)]
  BY <1>2 DEF FlushOld
<1>6. old'.size = fs.size /\ old'.rsv = fs.rsv /\ old'.gd = fs.gd /\ old'.ri = fs.ri /\ old'.flex = fs.flex
  BY <1>4, <1>5 DEF FsFields
<1>7. PICK a, b : a = old /\ b = old'
  OBVIOUS
<1>8. b.size = a.size /\ b.rsv = a.rsv /\ b.gd = a.gd /\ b.map = a.map /\ b.flex = a.flex
  <2>1. old'.map = fs.map /\ fs.map = old.map
    BY <1>1, <1>3, <1>4, <1>5 DEF FsFields
  <2> QED
    BY <1>4, <1>6, <1>7, <2>1
<1>9. Tidy(a) /\ (~Flex(a) => Homely(a))
  BY <1>2, <1>7 DEF Prepared
<1>10. Tidy(b) /\ (~Flex(b) => Homely(b))
  <2>1. Tidy(b)
    BY <1>8, <1>9, TidyStays
  <2>2. ~Flex(b) => ~Flex(a)
    BY <1>8 DEF Flex
  <2> QED
    BY <1>8, <1>9, <2>1, <2>2, SameHome
<1>11. Tidy(old)' /\ (~Flex(old') => Homely(old'))
  BY <1>7, <1>10
<1> QED
  BY <1>2, <1>11 DEF Prepared

LEMMA AdjustSuperblockPrepared == ResizeInv /\ Prepared /\ AdjustSuperblock => Prepared'
<1> SUFFICES ASSUME ResizeInv, Prepared, AdjustSuperblock PROVE Prepared'
  OBVIOUS
<1>1. PICK r : /\ r = AdjustFsInfo(new, Resized(new, Fitted(new, asked)))
               /\ IF r.ok THEN /\ new' = r.fs /\ reserve' = r.reserve
                               /\ Goto("zero", Groups(old.size))
                          ELSE Fail /\ UNCHANGED <<new, reserve>>
  BY DEF AdjustSuperblock
<1>2. pc = "adjust" /\ old' = old
  BY DEF AdjustSuperblock
<1>3. /\ new = old /\ FsOK(old, old.size) /\ Fitted(old, old.size) = old.size
      /\ asked \in NewSizes /\ old.size < asked
  BY <1>2 DEF ResizeInv, Phases
<1>4. CASE r.ok
  <2>1. pc' = "zero" /\ new' = r.fs
    BY <1>1, <1>4 DEF Goto
  <2>2. PICK size : size = Fitted(old, asked)
    OBVIOUS
  <2>3. old.size \in Nat \ {0} /\ "size" \in DOMAIN old /\ old.rsv \in Nat /\ asked \in Nat
    BY <1>3, BlocksBelow DEF FsOK, FsFields
  <2>4. size \in Nat /\ old.size <= size /\ size <= asked
    BY <1>3, <2>2, <2>3, FittedGrows
  <2>5. r.fs.size = size /\ Outfitted(old, r.fs, r.reserve)
    BY <1>1, <1>3, <1>4, <2>2, <2>4, AdjustedOK
  <2>6. PICK fs, next : fs = old /\ next = r.fs
    OBVIOUS
  <2>7. /\ next.flex = fs.flex /\ next.size = size /\ FsOK(fs, fs.size)
        /\ next.rsv = AdjustReservedGdtBlocks(fs, [fs EXCEPT !.size = next.size])
    BY <1>3, <2>5, <2>6 DEF Outfitted
  <2>8. next.size \in Nat \ {0} /\ fs.size <= next.size /\ next.size <= asked
    BY <2>3, <2>4, <2>6, <2>7
  <2>9. Roomy(fs) => DescBlocks(next) + next.rsv = DescBlocks(fs) + fs.rsv
    BY <1>3, <2>7, <2>8, RegionKept
  <2>10. Tidy(old) /\ (~Flex(old) => Homely(old))
    BY <1>2 DEF Prepared
  <2>11. /\ new'.flex = old'.flex
         /\ Roomy(old') => DescBlocks(new') + new'.rsv = DescBlocks(old') + old'.rsv
    BY <1>2, <2>1, <2>6, <2>7, <2>9
  <2>12. Tidy(old')
    BY <1>2, <2>10 DEF Tidy
  <2>13. Grown'
    <3>1. PICK held : held = reserve'
      OBVIOUS
    <3>2. Enlarged(fs, next, held) /\ Outfitted(fs, next, held) /\ Tidy(fs) /\ FsOK(fs, fs.size)
      BY <1>1, <1>3, <1>4, <2>2, <2>4, <2>6, <2>10, <3>1, AdjustedOK
    <3>3. /\ next.ri => next.rsv = 0 \/ DescBlocks(next) + next.rsv <= DescBlocks(fs) + fs.rsv
          /\ \A g \in GroupsOf(next), p \in Parts : next.gd[g][p] # Nowhere
          /\ IF Groups(next.size) = Groups(fs.size) THEN DescBlocks(next) + next.rsv = DescBlocks(fs) + fs.rsv
                                                    ELSE held = MetaBlocks(next)
          /\ \A h \in GroupsOf(next) \ GroupsOf(fs) :
               Structures(next.gd[h]) \cap fs.map = {} /\ SuperAndBgd(next, h) \cap fs.map = {}
      BY <3>2, AdjustedGrown
    <3> QED
      BY <1>2, <2>1, <2>6, <3>1, <3>3 DEF Grown, RoomTaken, Complete
  <2> QED
    BY <1>2, <2>1, <2>10, <2>11, <2>12, <2>13 DEF Prepared
<1>5. CASE ~r.ok
  <2>1. pc' = "failed"
    BY <1>1, <1>5 DEF Fail
  <2> QED
    BY <2>1 DEF Prepared
<1> QED
  BY <1>4, <1>5

LEMMA ZeroNewTablePrepared == Prepared /\ ZeroNewTable => Prepared'
<1> SUFFICES ASSUME Prepared, ZeroNewTable PROVE Prepared'
  OBVIOUS
<1>1. pc = "zero" /\ UNCHANGED <<old, new, reserve>> /\ pc' \in {"zero", "failed"}
  BY DEF ZeroNewTable, Advance, Fail, handles
<1>2. Tidy(old') /\ (~Flex(old') => Homely(old'))
  BY <1>1 DEF Prepared
<1>3. Grown' = Grown
  BY <1>1 DEF Grown, RoomTaken, Complete
<1> QED
  BY <1>1, <1>2, <1>3 DEF Prepared

(* What blocks_to_move plans is sound.                                     *)
LEMMA BlocksToMoveSound == ResizeInv /\ Prepared /\ BlocksToMove => SoundPlan'
<1> SUFFICES ASSUME ResizeInv, Prepared, BlocksToMove, Covered' PROVE SoundPlan'
  BY DEF SoundPlan
<1>1. PICK r : /\ r = ToMove(old, new, reserve)
               /\ IF r.ok THEN /\ new' = r.fs /\ reserve' = r.reserve /\ move' = r.move
                               /\ Goto("plan", 0)
                          ELSE Fail /\ UNCHANGED <<new, reserve, move>>
  BY DEF BlocksToMove
<1>2. pc = "zero" /\ old' = old /\ Covered
  BY DEF BlocksToMove, Covered
<1>3. FsOK(old, old.size) /\ Enlarged(old, new, reserve)
  BY <1>2 DEF ResizeInv, Phases
<1>4. Tidy(old) /\ Grown
  BY <1>2 DEF Prepared
<1>5. PICK fs, next, held : fs = old /\ next = new /\ held = reserve
  OBVIOUS
<1>6. /\ FsOK(fs, fs.size) /\ Enlarged(fs, next, held) /\ Tidy(fs) /\ r = ToMove(fs, next, held)
      /\ next.flex = fs.flex
  BY <1>1, <1>2, <1>3, <1>4, <1>5 DEF Prepared
<1>7. CASE r.ok
  <2>1. new' = r.fs
    BY <1>1, <1>7
  <2>2. Sound(fs, r.fs)
    <3>1. CASE DescBlocks(fs) + fs.rsv = DescBlocks(next) + next.rsv
      <4>1. r.fs = next
        BY <1>6, <3>1 DEF ToMove
      <4> QED
        BY <1>6, <3>1, <4>1, KeptSound
    <3>2. CASE DescBlocks(fs) + fs.rsv # DescBlocks(next) + next.rsv
      <4>1. ~Flex(fs) /\ Homely(fs)
        BY <1>2, <1>5, <3>2 DEF Prepared, Covered
      <4>2. held = MetaBlocks(next)
        BY <1>4, <1>5, <3>2 DEF Grown
      <4>3. Growing(fs, next, held)
        BY <1>6, <4>2 DEF Growing, Enlarged
      <4>4. Plain(fs, next, held)
        BY <1>6, <4>1, <4>3 DEF Plain, Flex
      <4>5. Progress(fs, next, held, r, Groups(fs.size))
        BY <1>6, <1>7, <3>2, <4>3, ToMoveProgress
      <4>6. Stayed(fs, next, r)
        BY <1>6, <1>7, <3>2, <4>4, ToMoveStayed
      <4> QED
        BY <4>4, <4>5, <4>6, MoveSound
    <3> QED
      BY <3>1, <3>2
  <2>3. Sound(old', new')
    BY <1>2, <1>5, <2>1, <2>2
  <2>4. StructuresApart'
    BY <2>3 DEF StructuresApart, Sound
  <2> QED
    BY <2>4 DEF SoundPlan
<1>8. CASE ~r.ok
  <2>1. pc' = "failed"
    BY <1>1, <1>8 DEF Fail
  <2> QED
    BY <2>1 DEF SoundPlan
<1> QED
  BY <1>7, <1>8

LEMMA LeftBehind ==
    ASSUME pc' \notin {"start", "adjust", "zero", "plan"}
    PROVE  Prepared' /\ SoundPlan'
BY DEF Prepared, SoundPlan

LEMMA PreparedStep == ResizeInv /\ SoundPlan /\ Prepared /\ [Next]_vars => SoundPlan' /\ Prepared'
<1> SUFFICES ASSUME ResizeInv, SoundPlan, Prepared, [Next]_vars PROVE SoundPlan' /\ Prepared'
  OBVIOUS
<1>1. CASE MarkError
  <2>1. pc' = "adjust"
    BY <1>1 DEF MarkError, Goto
  <2> QED
    BY <1>1, <2>1, MarkErrorPrepared DEF SoundPlan
<1>2. CASE AdjustSuperblock
  <2>1. pc' # "plan"
    BY <1>2 DEF AdjustSuperblock, Goto, Fail
  <2> QED
    BY <1>2, <2>1, AdjustSuperblockPrepared DEF SoundPlan
<1>3. CASE ZeroNewTable
  <2>1. pc' # "plan"
    BY <1>3 DEF ZeroNewTable, Advance, Fail
  <2> QED
    BY <1>3, <2>1, ZeroNewTablePrepared DEF SoundPlan
<1>4. CASE BlocksToMove
  <2>1. pc' \in {"plan", "failed"}
    BY <1>4 DEF BlocksToMove, Goto, Fail
  <2> QED
    BY <1>4, <2>1, BlocksToMoveSound DEF Prepared
<1>5. CASE PlanMoves
  <2>1. pc' \in {"copy", "failed"}
    BY <1>5 DEF PlanMoves, Goto, Fail
  <2> QED
    BY <2>1, LeftBehind
<1>6. CASE CopyBlock
  <2>1. pc' \in {"copy", "failed"}
    BY <1>6 DEF CopyBlock, Advance, Fail
  <2> QED
    BY <2>1, LeftBehind
<1>7. CASE FixInode
  <2>1. pc' \in {"fix", "failed"}
    BY <1>7 DEF FixInode, Goto, Fail
  <2> QED
    BY <2>1, LeftBehind
<1>8. CASE BeginTables
  <2>1. pc' \in {"tables", "stats"}
    BY <1>8 DEF BeginTables, Goto
  <2> QED
    BY <2>1, LeftBehind
<1>9. CASE MoveTable
  <2>1. pc' \in {"tables", "flush", "failed"}
    BY <1>9 DEF MoveTable, Advance, Goto, Fail
  <2> QED
    BY <2>1, LeftBehind
<1>10. CASE FlushTable
  <2>1. pc' = "tables"
    BY <1>10 DEF FlushTable, Goto
  <2> QED
    BY <2>1, LeftBehind
<1>11. CASE EndTables
  <2>1. pc' = "bits"
    BY <1>11 DEF EndTables, Goto
  <2> QED
    BY <2>1, LeftBehind
<1>12. CASE WriteBitmaps
  <2>1. pc' \in {"bits", "descs", "failed", "stats"}
    BY <1>12 DEF WriteBitmaps, FlushFails, Advance, Goto, Fail
  <2> QED
    BY <2>1, LeftBehind
<1>13. CASE WriteDescs
  <2>1. pc' \in {"descs", "super", "failed", "stats"}
    BY <1>13 DEF WriteDescs, FlushFails, Advance, Goto, Fail
  <2> QED
    BY <2>1, LeftBehind
<1>14. CASE WriteSuper
  <2>1. pc' \in {"done", "failed", "stats"}
    BY <1>14 DEF WriteSuper, FlushFails, Goto, Fail
  <2> QED
    BY <2>1, LeftBehind
<1>15. CASE FixResizeInode
  <2>1. pc' \in {"journal", "failed"}
    BY <1>15 DEF FixResizeInode, Goto, Fail
  <2> QED
    BY <2>1, LeftBehind
<1>16. CASE FixSbJournalBackup
  <2>1. pc' = "bits"
    BY <1>16 DEF FixSbJournalBackup, Goto
  <2> QED
    BY <2>1, LeftBehind
<1>17. CASE CloseOld
  <2>1. pc' = "closed"
    BY <1>17 DEF CloseOld, Goto
  <2> QED
    BY <2>1, LeftBehind
<1>18. CASE LoseBlock \/ UNCHANGED vars
  <2>1. UNCHANGED <<pc, old, new, reserve>>
    BY <1>18 DEF LoseBlock, handles, vars
  <2>2. SoundPlan'
    BY <2>1 DEF SoundPlan, StructuresApart, Covered
  <2>3. Tidy(old') = Tidy(old) /\ Homely(old') = Homely(old) /\ Roomy(old') = Roomy(old) /\ Grown' = Grown
    BY <2>1 DEF Grown, RoomTaken, Complete
  <2> QED
    BY <2>1, <2>2, <2>3 DEF Prepared
<1> QED
  BY <1>1, <1>2, <1>3, <1>4, <1>5, <1>6, <1>7, <1>8, <1>9, <1>10, <1>11, <1>12, <1>13, <1>14, <1>15, <1>16, <1>17,
     <1>18 DEF Next

(* Without flex groups, or with room for the descriptors of every size     *)
(* asked for, what blocks_to_move plans is sound: no structure lies in a   *)
(* descriptor region and no two groups share a block.                      *)
THEOREM PlansAreSound == Spec => []SoundPlan
<1>1. Init => SoundPlan
  BY DEF Init, SoundPlan
<1>2. Init => Prepared
  BY InitPrepared
<1>3. ResizeInv /\ SoundPlan /\ Prepared /\ [Next]_vars => SoundPlan' /\ Prepared'
  BY PreparedStep
<1> QED
  BY <1>1, <1>2, <1>3, ResizeInvariant, PTL DEF Spec

\* Until a write that waits is lost, and in the file systems Covered admits.
FilesHold == ~lost /\ Covered => FilesInv /\ DeviceInv

(* Wherever resize2fs is cut off or fails, each file can be read through   *)
(* the descriptors that are on the device, whichever of the writes that    *)
(* wait in the cache have arrived: for every geometry, every size asked    *)
(* for and every place the files may have.  It holds until a waiting write *)
(* fails and nobody looks, and of file systems without flex groups or with *)
(* room for the descriptors, for which PlansAreSound holds.                *)
THEOREM FilesSurvive == Spec => []FilesReadable
<1>1. Init => FilesHold
  BY InitFiles, InitDevice DEF FilesHold
<1>2. ResizeInv /\ FilesHold /\ SoundPlan /\ [Next]_vars => FilesHold'
  <2> SUFFICES ASSUME ResizeInv, FilesHold, SoundPlan, [Next]_vars, ~lost', Covered'
               PROVE  FilesInv' /\ DeviceInv'
    BY DEF FilesHold
  <2>1. ~lost /\ Covered
    BY LostStays, CoveredStays
  <2>2. FilesInv /\ DeviceInv
    BY <2>1 DEF FilesHold
  <2> QED
    BY <2>1, <2>2, FilesStep
<1>3. ResizeInv /\ FilesHold => FilesReadable
  BY KeptReadable DEF FilesHold
<1> QED
  BY <1>1, <1>2, <1>3, ResizeInvariant, PlansAreSound, PTL DEF Spec
=============================================================================
