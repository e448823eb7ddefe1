# A verification model of WinFLASHTool

WinFLASHTool writes an image file to a memory card or USB disk under Windows
and can grow the last ext2 partition of the image to the size of the card. This
directory holds TLA+ modules that model it, TLC configurations that check them
on small instances, and proofs that TLAPS checks for all instances.

## The system

| Part | State | Operations | Source |
|------|-------|------------|--------|
| Main window | the selected device, the flag `_AbortWriting`, enabled controls, the progress texts posted to it | start a job, cancel, answer message boxes, close | `MainForm.cs` |
| Write thread | the job (`ThreadContext`), the position in the image, the raw disk handle, the copy buffer, the cached first sector | check the length, run diskpart, copy, resize, write the first sector | `MainForm.cs` 422-659 |
| Change file parser | the list of write operations | parse, apply | `ParsedChangeFile.cs` |
| Raw disk access | the handle and its file pointer | seek, write, query | `DiskDevice.cs`, `DeviceControl.cs` |
| Device list | the items shown and the records behind them | enumerate (a thread, every 500 ms), merge, hide | `MainForm.cs` 67-286, `DeviceEnumerator.cs` |
| Device selection | the disk number a job was started for | confirm, compare lengths, diskpart, open | `MainForm.cs` 313-380 and 625-641, `EraseConfirmationForm.cs`, `VolumeManager.cs` |
| Hooked file I/O | the sector map, the change file, its log | read, write, byte write, close | `e2fsprogs/resize/hooked_io.cpp` |
| Block cache | eight cached blocks | read, write, flush, byte write | `e2fsprogs/lib/ext2fs/unix_io.c` |
| Extent tables | where blocks and inodes have moved | add, translate, iterate | `e2fsprogs/resize/extent.c` |
| resize2fs | two handles of the file system, blocks reserved and to be moved | adjust, move blocks, fix inodes, move tables, close | `e2fsprogs/resize/resize2fs.c`, `main.c`, `e2fsprogs/lib/ext2fs/alloc_tables.c`, `closefs.c`, `rw_bitmaps.c` |

How the parts interact: the window starts one write thread per job and shares
`_AbortWriting` with it; the thread posts progress and completion back with
`BeginInvoke`, and waits for the answer to a retry question with `Invoke`. The
thread runs `diskpart` and `resize2fs` as child processes. resize2fs sees the
image through the hooked functions, which leave the image alone and record
writes in a change file; the write thread parses that file and applies it to the
disk. The refresh thread posts lists of disks to the window.

What is hard to test here: a job that is cut off, fails or is retried at any
point of the copy; calls whose results are not looked at; 32-bit arithmetic on
offsets; a change file format in which writer and reader must agree without
storing offsets; cancellation from another thread; delegates and message boxes
that run later than they were posted; hardware that changes between two looks at
it; a cache whose evictions and flushes fail with nobody looking; a resize that is cut off between two writes. The list with lines is
`hazards` in `PROJECT.json`.

## Modules

| Module | What it is |
|--------|------------|
| `ImageWriter` | the write thread with the Cancel button, the disk and the application of a change file |
| `FlashWindow` | the window, its message boxes and posted delegates, several jobs, exchanged media |
| `DeviceList` | the refresh thread and the list of target devices |
| `VirtualDisk` | abstract: what resize2fs may expect of its device |
| `HookedIo` | `hooked_io.cpp` |
| `ChangeFile` | extends `HookedIo`: close, parse and apply |
| `BlockCache` | the write-back cache of `unix_io.c` |
| `ExtentTable` | the translation tables of `extent.c` |
| `ResizeFs` | `resize_fs` growing a file system on a device that fails |
| `MC...` | the instances for TLC |
| `..._proofs` | inductive invariants and theorems of `ImageWriter`, `FlashWindow`, `DeviceList`, `ChangeFile` (with `HookedIo`), `BlockCache`, `ExtentTable` and `ResizeFs` |
| `ResizeFiles_proofs` | extends `ResizeFs_proofs`: what the files live through |

`FlashWindow` and `ImageWriter` look at the same thread from two sides: the
first keeps its exchanges with the window, the user and the hardware and counts
chunks, the second keeps what reaches the disk.

### ImageWriter

`ctx` is the `ThreadContext` of the job, chosen once from the constant `Jobs`:
image length and contents, and the record of the partition to be resized with
what resize2fs would record for it. `pc` is the place in the code; every
place between two calls that can fail is a state of its own, so that a job can
be looked at wherever it is cut off.

| Action | Code |
|--------|------|
| `CheckLength`, `RunDiskpart`, `OpenDrive` | the head of `WriteThreadBody` |
| `BeginAttempt` | the locals of `AttemptWrite` and `SeekAbs(0)`; `ctx.fs` keeps its position |
| `ReadChunk`, `StopOnAbort`, `WriteChunk`, `EndLoop` | the copy loop: cancel check, read, caching of the first sector, rounding, write, `SeekRel` |
| `AskRetry` | the message box and the loop around `AttemptWrite` |
| `PrepareResize`, `RunResizer`, `ParseChangeFile`, `ApplyChange`, `AppliedAll` | growing the last partition |
| `WriteFirstSector` | the first sector, last |
| `ClickCancel` | `button2_Click` |

Every call that can fail may fail at any time and as often as it likes; a short
write leaves a prefix on the disk. `SeekRel` does not look at the result of
`SetFilePointer`: when that fails the pointer stays where it was and the loop goes
on, which the history variable `slipped` records. Two things are outside the repository and are
modelled from their use: `WriteFile` on a raw disk does not move the file
pointer (`AfterWrite`; the code moves it with `SeekRel` after each write), and
diskpart's `CLEAN` blanks the first sector (`Cleaned`). Units that nobody has
written hold `Junk`: old contents of the disk and uninitialised memory.
The match of the partition record against the cached partition table is reduced
to the field that the code patches, `CountField`. A partition entry is 16 bytes
in the code; one unit stands for that number. Progress texts are left out.

### HookedIo, ChangeFile and VirtualDisk

`unix_io.c` seeks before each read and write, so a call is modelled together
with its seek and the offsets kept in `HookedFile` are arguments. `sectorMap`,
`chg`, `chgPos`, `chgSector` and `log` are the fields of `HookedFile` that
survive a call. `Read`, `WriteZeroes`, `Write`, `WriteFails`, `WriteByte` with
`WriteByteSector` (the loop of `hooked_write_byte`, one sector at a step) are the
calls. A call that returns less than its size sets `failed`. That does not end
resize2fs: many of its flushes, and `reuse_cache`, do not look, so any calls and
`Close` may follow. What a write that failed part-way has left stays in the change
file (`Tears`, counted in `torn`), where no log entry counts it. `Close` writes log and footer, each of which may
be cut short unnoticed; `ExitUnclosed` is resize2fs ending early with exit code
0. `OpenChangeFile`, `ParseEntry`, `Parsed` are the constructor of
`ParsedChangeFile`, `Apply` and `ApplyEnds` its `Apply`. The small-write area of
the format is not modelled: `hooked_io.cpp` never puts anything in it.

`VirtualDisk` says what resize2fs may expect: a read returns what was written
last, and a call that fails changes nothing, until a write is torn. `HookedIo` implements it under the mapping `Contents`, the disk as seen
through the sector map.

### FlashWindow

`slot` is the hardware: which medium has which disk number. `jobs` are the write
threads in the order they were started, `queue` the delegates that are posted to
the window, `dialogs` the stack of open message boxes. A message box runs a
message loop of its own, so `RunPosted` goes on while one is open, and the window
below it takes no input (`Active`).

| Action | Code |
|--------|------|
| `ClickWrite`, `Dismiss`, `Start` | `button3_Click` up to and after the confirmation |
| `ClickCancel`, `Close` | `button2_Click`; closing, with the posted delegates dropped |
| `Announce` ... `Dispose` | the thread, a step for each call that can fail or post; `Resize` and `ApplyChanges` are the texts posted around and after resize2fs |
| `RunPosted`, `ReadReport`, `Answer` | the delegates of `UpdateProgress`, `AskRetry` and `ReportCompletion`, and the boxes they show |
| `Exchange` | a medium is taken out or put in (external) |

`NextPosted` is the order in which Windows delivers posted delegates, `Active`
that it disables the window under a modal box: both are external. After the
window is closed the calls run on the thread itself, where touching a disposed
control may throw.

### DeviceList

`media` is the hardware. The refresh thread enumerates (`found`), opens each disk
(`QueryDisk`), posts the list (`Post`) and waits; `ProcessNewDiskList` merges a
list into `items`, `ToggleHide` builds them anew from `known`. A device in `Flaky`
may fail to open or to answer; `EnumerationFails` is the error of
`SetupDiEnumDeviceInterfaces` that does not end the loop; it can also catch the
query of the constructor, and then there is no window and no thread (`Init`).
`OnClosed`, `Joined` and `Abort` are the end of the thread.

### BlockCache

The entries in use are a function on block numbers; `order` stands for
`access_time`. A request (`Request`) is served in rounds as in the loops of
`unix_read_blk64` and `unix_write_blk64`: `ReadHit`, `ReadLast`, `ReadRun`
and `WriteBlock`; large ones, and those with a negative count, go past the cache
(`ReadDirect`, `WriteDirect`), and so do byte writes (`WriteByte`). `Flush`, `SetBlkSize` and `Close` write back.
Each call of the device may fail. `want`, `told`, `lost` and `bypassed` are
history: what the caller wrote last, and the three ways in which the channel may
differ from it: an error that was reported, a write-back that failed in
`reuse_cache` without a report, and a byte write past a cached copy. The last two
are what the code does: a block lost in `reuse_cache` is reported by no call, not
even by the flush, and the flush that upstream makes before a byte write is taken
out here (`unix_io.c` 881-902).

### ExtentTable

`list`, `sorted` and `cursor` are the fields of `ext2_extent`. `Add` coalesces,
`Translate` sorts and begins a search, `Probe` is one round of the interpolation,
which may look at any entry left because the guess is a floating-point quotient.
`moved` is the reference map. `extent_cmp` returns a 64-bit difference as an
`int`: the model takes locations closer together than 2^31.

### ResizeFs

A file system handle (`old`, `new`) has its size, the blocks reserved for
descriptors, group descriptors and block map; `disk` says of each block what
resize2fs reads there: the superblock, descriptors, bitmaps, inodes with their
pointers, data of a file. A request of at most `WriteDirectSize` blocks only fills
the cache of `unix_io.c`; `device` is what is on the device if none of the writes
that wait there has arrived yet, so a block may hold either. A larger request, and
one of bytes, goes past the cache, which is flushed before. Where the code ignores
the result of a flush a failure is only recorded (`FlushUnseen`, `lost`), and
`LoseBlock` is an eviction that fails. `reserve`, `move` and `bmap` are the fields of `ext2_resize_struct`.

| Action | Code |
|--------|------|
| `MarkError` | the error mark and the first flush, whose result is ignored |
| `AdjustSuperblock`, `ZeroNewTable` | phase 1: the new size, new groups and their tables |
| `BlocksToMove`, `PlanMoves`, `CopyBlock` | phase 2: what has to make room for descriptors, and copies of it |
| `FixInode` | phase 3: pointers translated, in the old tables |
| `BeginTables`, `MoveTable`, `FlushTable`, `EndTables` | phase 4 |
| `WriteBitmaps`, `WriteDescs`, `WriteSuper` | `ext2fs_flush` of the new file system, after phase 4 and in `ext2fs_close` |
| `FixResizeInode`, `FixSbJournalBackup` | the end of `resize_fs` |
| `CloseOld` | `main` after a failure |
| `LoseBlock` | `reuse_cache`, whenever a block waits |

`GetFreeBlocks`, `FlexbgOffset`, `Place` and their neighbours are the allocation
of bitmaps and tables in `alloc_tables.c`, which `Mkfs` uses for the file systems
to begin with, too. Every write that goes past the cache may fail, and one of
several blocks may leave a part; so may every read, flush and write-back. An inode fills a block of its table; free counts, checksums, uninitialised
groups, directories, shrinking and the features named in the module are left out.

## Runs

| Run | Result | What it shows |
|-----|--------|---------------|
| `image_writer` | pass | `PartitionTableLast`: a disk with any of the image's first sector on it holds the whole image and the whole resized file system. `SuccessMeansBodyWritten`: success is only reported when everything past the first sector is in place, in spite of retries. (Both unless a `SeekRel` failed.) `KeptSectorIsImages`: the sector kept back is the right one. `WritesConfined`: no step writes outside its part of the disk. `CancelEnds`: Cancel ends the job. |
| `change_file_replay` | pass | `ActsAsDisk`: the hooked functions implement `VirtualDisk`. `ReplayFaithful`: an applied change file leaves the disk as resize2fs saw it, on the image's part and on every written sector, whatever calls failed before, unless one failed part-way. `CutFileNotApplied`, `CompleteFileAccepted`: the parser refuses a file that was cut short and no other. |
| `block_cache` | pass | `SeesLastWritten`, `ReadsLastWritten`: the caller sees what it wrote, whatever was evicted, went past the cache or changed size. `CleanMatchesDevice`, `FlushedReachesDevice`: what is dropped, or flushed, is on the device. |
| `device_list` | pass | `ListShowsKnown`, `ListCatchesUp`: merged and rebuilt items agree, and become right with two lists under way. `ClosingEndsThread`: also from the endless enumeration. |
| `flash_window` | pass | `OneWriter`, `DialogsDoNotNest`, `CancelledByUser`, `ReadyWhenEnabled`: a job that overlaps the end of the last one does not disturb it and is not disturbed. `WindowComesBack`, `ThreadsEnd`: every job ends, with and without a window. |
| `extent_table` | pass | `AnswerIsRight` with `SortedIsSorted`, `EntriesAreAdditions` and `SearchKeepsTarget`: the table is the map that was added. `SearchEnds`. |
| `resize_fs` | pass | `FilesReadable`: wherever resize2fs stops, each file can be read through the descriptors on the device, whichever of the waiting writes have arrived. `SoundPlan`: what blocks_to_move places lies apart from the descriptor regions and from the other groups' structures. `VirginSpaceOnly`: phases 1 and 2 write to no block in use. `CleanIsConsistent`: without the error mark the file system is consistent and nothing waits. |
| `written_message` | violation | both messages of success are shown for a disk without a boot sector: the result of the last write is ignored, and a skipped resize never comes to it |
| `retry_button` | violation | a retry does not rewind the image |
| `offset_wrap` | violation | the partition's offset wraps at 4 GiB |
| `nothing_to_do` | violation | resize2fs without work leaves an unusable change file |
| `reviewed_device` | violation | a disk that takes over the number, with the same length or after the check, is cleaned |

Bounds.

* `ImageWriter`: two units to the sector, two sectors to the buffer, five sectors
  to the disk. The jobs are chosen for the cases the code tells apart: an empty
  image, less than a sector, exactly one chunk, two chunks with an unaligned tail,
  the whole disk, a partition too big for the disk, a change past the end, and
  three changes of which one lies past the image and one over another. The number
  of retries is not bounded. `UIntRange` is 16 units, beyond every offset;
  `offset_wrap` uses 8 with a partition that starts there.
* `ChangeFile`: four sectors of two units, the image's part ending inside the
  third; `MaxLog` bounds the log at three entries, enough for two writes over each
  other and a third after a read; the calls overlap each other and cross sectors.
  Calls fail as often as they like, one of them part-way (`MaxTorn`).
* `BlockCache`: four units in blocks of one or two, three entries (so that four
  blocks evict), requests of up to two blocks cached, and any request
  direct, as one with a negative count is.
  `MaxRequests` = 4 makes room for a write, an eviction, a change of block size
  and a read; `MaxFaults` = 1.
* `DeviceList`: a hard disk that may not answer and a reader; two lists in the
  queue, so that a list made before a change and one made after it wait together,
  and one change of the hardware at any time (`MaxQueue`, `MaxChanges`).
* `FlashWindow`: two jobs, one retry, one exchange (`MaxJobs`, `MaxRetries`,
  `MaxExchanges`), one buffer and one operation of a change file (`Chunks`,
  `WriteOps`), two media of different lengths; three media, two of the same
  length, in `reviewed_device`.
* `ExtentTable`: four additions (`MaxEntries`) among five old and three new
  locations: up to four entries, all orders, all ways to coalesce.
* `ResizeFs`: groups of 14 blocks, one descriptor to a block, tables of three
  blocks, two blocks or more past the cache (`WriteDirectSize` = 1, so that tables
  and regions of more than one block are written directly and the rest waits).
  Five file systems (one group; a short one with a resize inode and two reserved
  blocks; two groups with a short second one; bitmaps staggered for a RAID; a flex
  group with a resize inode) grow to 14, 26, 34, 45 or 56 blocks, so that a last group is
  trimmed, a group is completed, and the descriptors do or do not outgrow their
  region. One file owns any one block, two, none or all free blocks, another one
  none or all the rest. `MaxFaults` = 2. In these instances tables move up and
  over themselves, bitmaps move, blocks are copied, and space runs out.

Deadlock is not checked: jobs, requests and resizes end.

Fairness. `CancelEnds` assumes that the write thread keeps taking steps
(`WF_vars(WriteThread)`): it is a foreground thread that blocks only on calls
that return, on its child processes, and on a message box that the user answers.
`RetryCompletes` also assumes that reads and writes that are possible again and
again succeed some time (`SF` on the successful read and write), that is, faults
are transient; the run shows that the retry fails even so.
`DeviceList!Fairness`: both threads run and posted lists are processed; nothing is
asked of the user, the hardware or the failing enumeration.
`FlashWindow!Fairness`: the threads run, posted delegates are executed, and the
user closes the boxes that are shown, though never by pressing Retry for ever
(`MaxRetries`); nobody need press a button of the window.
`ExtentTable`: the loop of the search runs.

## What the code does otherwise

Beside the five runs that end in a violation, the modules record behaviour that
the properties have to make an exception for:

* a `SeekRel` that fails is not noticed: the next chunk goes over the last one, and
  the job ends with a boot sector, success reported, over a shifted copy
  (`slipped`). With it `PartitionTableLast` and `SuccessMeansBodyWritten` are false;
  the copy still stays within the image (`WritesConfined`);
* a write of the change file that fails part-way leaves sectors that no log entry
  counts. If resize2fs goes on, the parser accepts the file and applies shifted
  data, or refuses it (`torn`);
* a write-back that fails in `reuse_cache` is reported by no call (`lost` of
  `BlockCache`), and a byte write leaves a cached copy of its block as it was
  (`bypassed`);
* resize2fs does not look at its flushes after copying blocks, changing inodes,
  zeroing tables and moving them, nor `ext2fs_flush` at the one before the
  superblock: when a write that waited fails there, an inode or a descriptor may
  point to what never arrived, and the error mark goes all the same (`lost` of
  `ResizeFs`, the exception in `FilesReadable` and `CleanIsConsistent`). The flush
  after a moved table also writes table blocks and descriptors in the order of the
  cache's entries: cut off in the middle, it may leave descriptors that point to a
  table which is not there yet. The model has no state inside a flush;
* an error of the enumeration that does not go away hangs the program before its
  window opens, or its refresh thread (the exception in `ListCatchesUp`);
* the Size column keeps the text of the card that was in a reader first
  (`Merged` replaces the record and leaves the text), and a hard disk that does
  not answer the hotplug query is shown although fixed media are to be hidden
  (`ShouldHideDiskItem`);
* `resize_fs` ignores the result of its first flush, so that the error mark may
  be missing until the resize is finished; the superblock is written field by field; after two
  faults (the flush of a moved table and the last superblock) closing `old_fs`
  writes old descriptors over new ones: `CleanIsConsistent` names the three cases;
* with flex_bg and a descriptor region that has to grow, a relocated inode table
  is not marked in the map that is searched (`Put`), and on instances larger than
  the run's (16 blocks to a group, tables of four, 28 blocks to 128) another
  group's bitmap is placed on it. `SoundPlan` and `FilesReadable` say nothing of such
  file systems (`Covered`); that nothing can go wrong with a resize inode, where the
  region keeps its size, nor without flex_bg, is the theorem `PlansAreSound`. No doc
  or comment of the repository says otherwise, so there is no run for it;
* the stagger of a RAID's bitmaps can divide by zero (`Staggered`).

## Proofs

Each component that is proved about has a module `..._proofs` that extends it
and holds an inductive invariant (`IndInv`; for `ResizeFs` it is `ResizeInv` and, in
`ResizeFiles_proofs`, `FilesInv`), a
lemma per action, and the theorems.
The theorems hold for every value of the constants that meets the named
assumptions of the module, and `PROJECT.json` lists them with the property that
each one states. None of the properties is inductive by itself; what has to be
added is the content of the proofs.

### ImageWriter

`TypeCorrect`, `TableComesLast`, `SuccessIsTrueOfTheBody`, `KeptSectorIsRight`
and `WritesStayInPlace`: for every sector, buffer and disk size and every set of
jobs, from the assumptions of `ImageWriter` on its constants and from
`OffsetFits`, which says that no partition starts past the range of a `uint`.
The run `offset_wrap` shows that this hypothesis is needed.

`IndInv` adds to the invariants

* `Control`: what each place knows of the thread's variables, such as that the
  disk pointer equals `done` in the loop (and is not ahead of it once a `SeekRel`
  has failed) and that a first sector is cached exactly if `done > 0`;
* `Progress`: the image's file pointer is never behind the loop counter (after a
  retry it may be ahead), and `done` is zero or at least a sector, so that only
  the first chunk, whose first sector is blank, reaches the first sector;
* `CopyRight`: as long as the image's pointer is exactly where the loop counts it,
  the buffer matches the image and, unless a `SeekRel` has failed, so does the disk;
* `BodyRight`, `SectorRight`: what holds after the loop and while changes are
  applied;
* `Blank`: nothing of the image is in the first sector before the last step, again
  unless a `SeekRel` has failed: a chunk may then go over the first sector.

The point of the argument is the end of the loop: the counter has reached the
length of the image and the file pointer, which is not behind it, cannot be
beyond the end of the file, so it is exactly there and the copy is right. A
retry that reads shifted data runs into a short read first. The lemmas on the
way are `RoundUpFacts` (rounding up to sectors), `OverwriteFacts` (what a write
changes), `JobFacts` (what a job guarantees), `FirstSectorOnDisk` and
`OpStartIsMeant`. `WritesConfined` is an action property; it needs one invariant
more, `WholeSectors`: what is counted as done is a whole number of sectors, so
that a chunk rounded up does not pass the rounded image.

### ChangeFile and HookedIo

`RecorderIsADisk` is the refinement: `HookedIo` implements `VirtualDisk` under
the mapping `Contents`, for sectors, partitions and devices of any size and any
calls that stay within the device. `ReplayIsFaithful`, `CutFilesRefused` and
`CompleteFilesAccepted` are the invariants of the file's way to the disk, whatever
calls fail and although resize2fs goes on.
`HookedIoAssumption` says that the device is a whole number of sectors and that
each call has its offset, size and bytes within the device; resize2fs makes no
other calls, because it works on the size it was given.

The change file does not say where the data of an entry is: recorder and parser
count alike. The invariant therefore says that there is a function `at` from
entries to positions in the change file such that

* `Recorded(at)`: the pointer and the sector count are at the end of the file,
  `at` advances by the size of each entry that is not zero, the last entry that
  covers a unit says what a read of that unit returns, and exactly the sectors
  that some entry covers are in the sector map;
* `Replayed(at)`: the parser's `blockArea` is `at` of the next entry, its
  operations are the entries with their positions, and the disk holds what the
  last of the applied entries for each unit says.

`LogStep` extends `at` by an entry; `PutSectors` and `BlankSectors` say what a
write does to every later read; `LastExists` (among the entries that cover a
unit there is a last one) comes from the well-foundedness of the numbers. After
a write has failed part-way (`torn`) nothing is claimed of `at`: sectors may be
mapped and lie in the change file that no entry counts. A call that fails otherwise
leaves `at` as it is, so the theorems hold past it. `CutFilesRefused` and `Typed`
hold after a torn write, too: `Types` and `Phases` do not need `at`.

### BlockCache

`CacheShowsLastWritten`, `ReadsReturnLastWritten`, `CleanEntriesMatch` and
`FlushReachesDevice` for every device, cache and set of block sizes
(`BlockCacheAssumption`: a request that goes through the cache fits into it). The
four properties need each other and the types. `OrderOK` says that `order` lists
each cached block once; `JobOK` that a request under way stays within the device
and that none is under way when a flush returns. The lemmas are about the loops:
which blocks a run of reads fills, what an eviction writes back, and that blocks
of one size share no units.

### FlashWindow

`OneWriterOnly`, `NoNestedDialogs`, `CancelReachesItsJob` and `EnabledIsReady` for
any number of jobs, retries and exchanges, any media and any length of the change
file.
The invariant is a list of phases: an open window is enabled with nothing left
to do, or disabled with exactly one thread at work, with a retry question posted
or shown, or with a report posted or shown; a posted question or report is last in
the queue behind progress texts only. From the phases it follows that a click
finds no thread at work and a report no other dialog. `AbortOK` ties the shared
flag to the job that runs: it is only set when all unreported jobs are cancelled.

### DeviceList and ExtentTable

`ListViewIsKnownList`: merged and rebuilt items are the known disks that are not
hidden. The invariant types every list on its way from the refresh thread to the
window.

`TranslationIsRight`, with `TableIsMap`, `FlagIsTrue` and `TargetKept`: the answer
of a search is right whatever entry each round of the interpolation looks at. The
step is `SortedApart`: in a sorted table in which no location is in two entries an
entry ends before the next one begins, so a round never drops the half with the
location. `Sorted` stands for every arrangement that `qsort` may return.

### ResizeFs

`OldBlocksKept` (`VirginSpaceOnly`) and `Typed`: for groups, tables and file
systems of any size, any number of descriptors to a block, flex groups, strides
and reserved blocks, and any number of faults, seen or unseen. `ResizeFsAssumption` types the
constants and says that there is a largest size asked for; `FormatsAssumption`
says that mke2fs found room for the structures and trimmed a short last group as
resize2fs would, and that files own blocks that are free.

The invariant `ResizeInv` says what each phase knows of the two handles: before
phase 1 they are the same; after it the new one has marked all that the old one
uses, has kept the old groups and has the tables of the others where nothing was
marked; after phase 2 its map has only grown, so a block that is free in it is
free in the old one; and both keep their structures within the new size. Three
things carry the proof.

* `FreeBlocks` up to `GroupAdded`: whatever path the search takes, by flex group,
  stagger or from the start of the group, a place that is found is free in the map
  that is searched and within the file system. A part that is not found ends the
  loop, so nothing is claimed of a group after a failure.
* The loops over groups are recursive functions, and that there is a function
  that satisfies the recursion is a theorem (`LoopExists`, by the least number for
  which there is none); `LoopAdds` and `LoopMoves` are the loops' invariants.
* `FittedGrows`: the last group that is given up for being too small was not in
  the old file system, because the old size has passed the same rule. Without
  that the new size could be less than the old one.

### ResizeFs: the files

`FilesSurvive` (`FilesReadable`) and `PlansAreSound` (`SoundPlan`) for every
geometry, size and placement of the files. Both properties are about file systems
that are `Covered`: without flex groups, or with a descriptor region that has room
for the descriptors of every size asked for (`Roomy`), as mke2fs reserves it with a
resize inode; the others can go wrong, see the flex_bg case above. `FilesReadable`
holds until a write that waits in the cache fails and nobody looks (`lost`): a
fault that is reported, of which there may be any number, does not end it.
`ResizeFsAssumption` says in addition that a group has more than one block.

The argument has two halves: what resize2fs reads (`FilesInv`), and what of it is on
the device (`DeviceInv`).

`FilesInv` goes beyond `FilesReadable`. After a fault `old_fs` is closed and
its descriptors are written again, so the files have to be there by the
descriptors on the disk and by those of `old_fs`, and the two may differ only in
tables that have moved; that is `Readiness`. `FilePhases` says for each phase what
makes its writes harmless:

* `MadeTidy`: what mke2fs lays out lies apart (`Tidy`), and `Init` puts the files
  into it; after phase 1 (`Grown`) the structures of the new groups lie apart
  from all that was there;
* `Planned`: whatever the new layout takes from the files is in `move`, and all of
  the new layout is marked or reserved when something has to move, so that no
  copy is put there. `Progress` is the invariant of the loop over the groups;
* `MapOK`, `Copied`, `Owns`, `Clear`: phase 2 copies to blocks that no file and no
  structure has, and in phase 3 every inode points either to the old blocks,
  which are still there, or to the copies;
* `Settled`, `TablesSoFar`, `Rounds`: from then on no file has a block where the
  new layout has a structure, a table is complete at its new place before a
  descriptor points to it, and each later write goes to the superblock and the
  descriptors, to a structure of the new layout that no file needs, or to a table
  that old and new place have in common (`HarmlessWrite`).

`DeviceInv` says that it does not matter which of the waiting writes have arrived:
by the descriptors on the device every inode, in the version on the device and in
the one resize2fs reads, points to blocks of which no write waits (`Alike`). The
flushes make it so: nothing waits when blocks have been copied, tables moved or a
phase ended (`Synced`), so that only inodes wait while pointers are changed, and
only bitmaps, descriptors and indirect blocks, none of which is part of a file
(`Afloat`), while `ext2fs_flush` writes them. Each action has a lemma `...Device`;
`AfloatStep` and `FlushedDevice` are what they share. A flush is one step of the
model, so the order in which blocks arrive during one is not looked at (see above
for what that hides), and a block that is written again with the contents it has
does not count as waiting.

`SoundPlan` itself is proved along the two halves of `Covered`. With room for the
descriptors the region keeps its size and nothing is displaced (`RegionKept`,
`KeptSound`). Without flex groups every structure begins in its own group
(`Homely`, `Stayed`), and a region never fills its group (`RegionEnds`). A group
loses parts only if it has a descriptor region, which is marked in the map that is
searched; a relocated table that reached into a later group with relocated parts
would have to cover the backup of the superblock at its head (`PartsOff`).

### Only model-checked

* Liveness is out of the prover's reach: `CancelEnds`, `ListCatchesUp`,
  `ClosingEndsThread`, `WindowComesBack`, `ThreadsEnd`, `SearchEnds`.
* The five violations are counterexamples and belong to TLC.
* `CleanIsConsistent` of `ResizeFs`. Like `FilesReadable` it can hold under
  `Covered` only. It compares the bitmaps on the disk with the blocks in use, so a
  proof has to follow the exact contents of every bitmap and superblock through
  every partial write, and not only which blocks a write leaves alone; the
  invariants above do not say that.

## Plan

1. `ResizeFs`: `CleanIsConsistent` under `Covered`, from an invariant on the
   contents of bitmaps and superblocks in each phase.
2. A flush of `ResizeFs` in steps, one for each block.

## Not modelled

In `resize2fs.c`: shrinking (the tool only grows), online resizing, conversion to
and from 64 bits, meta_bg, sparse_super2, bigalloc, uninitialised groups, free
counts, directories (inodes do not move when a file system grows). Sectors past
the image that resize2fs reads as zeroes but never writes keep the disk's old
contents; `ReplayFaithful` leaves them out, as does the code. The Windows calls
behind `DiskDevice` and `DeviceEnumerator`, the parsing of paths and partition
tables, formatting, the registry and the forms' layout are I/O.

Most of the repository by size is the rest of e2fsprogs (e2fsck, debugfs, mke2fs,
fuse2fs, tdb and the library behind them): third-party programs that the tool
neither changes nor runs. They share no state with the parts above and are left
out, so that the modules cover the tool and the part of resize2fs it depends on,
and a small share of all the lines in the tree.
