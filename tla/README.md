# Verification of BundleFS

BundleFS is a small file system for the bundles of the Bundle Protocol. It
lives on a raw disk, runs in one thread inside of a bundle agent (µPCN), and
stores each bundle in one contiguous run of sectors. This directory holds TLA+
modules of it, the TLC runs that check them, and theorems checked by TLAPS.
Paths below are relative to the repository (`src/` is its code, `include/` its
headers).

## The system

### Components

| component | state | operations | correct if |
|---|---|---|---|
| file system core (`src/file_system.c`) | the superblock, which is `struct FILE_SYSTEM`; allocation table (AT), inode allocation table (IT), inode block, all on disk | `fs_mkfs`, `fs_mount`, `fs_create`, `fs_create_write`, `fs_open`, `fs_close`, `fs_delete`, `fs_getfree`, and inside of `fs_create` `resize_inode_block` (growth) and `free_disk_space` (eviction) | both tables, the inodes and the superblock describe the same disk; no sector has two owners; a bundle is given up only when it may be |
| inodes (`src/inode_functions.c`) | slots of the inode block | `write_inode`, `get_ino_pos`, `load_inode_block`, `load_all_inodes`, `find_ino_length`, `isNotValid`, `inodes_used`, `quicksort_inodes` | a set bit of the IT below `inode_max` leads to an inode that names this slot |
| bit functions (`src/bit_functions.c`) | none; work on a buffer | set, clear, check and find sequences of bits in a byte array, and `*_global` through a window | exactly the bits asked for are changed; the first fit is found |
| window buffer (`src/window_buffer.c`) | `struct AT_WINDOW`: buffer, `global_index`, bounds | `init_window`, `init_window_it`, `move_window`, `save_window`, `reload_window` | the buffer shows the sectors that `global_index` says, and nothing is lost when the window moves |
| maintenance (`src/maintenance_tasks.c`) | none | `delete_invalid_inodes`, `restore_fs`, `defragment` | expired bundles go and no others; `restore_fs` makes the AT what the inodes say; bundles keep their data |
| bundle data (`fs_read`, `fs_write`, `src/hardware_specifics.c`) | data sectors, each with a 4 byte checksum | `fs_write`, `fs_read`, `calc_crc32_8` | what is read is what was written, or an error |
| disk (`src/disk.c`, `src/disk_interface.c`) | an image file; `struct DISK` with its status and the number of blocks per sector | `disk_fill`, `disk_create`, `disk_initialize`, `disk_shutdown`, `disk_read`, `disk_write`, `disk_ioctl` | what is mounted is what is on this disk, whatever was done with other disks |
| bundle agent (not in the repository) | copies of inodes | calls all of the above | |

### How they interact

Everything is a direct call. `fs_create` searches the IT and the AT through one
window each, lets the inode block grow by one sector if the IT is full (and
mounts again), deletes one bundle if the AT has no hole, then saves both tables
and last the inode. Bit *b* of the AT stands for sector `sector_count - 1 - b`:
the metadata at the front of the disk are the *last* bits of the AT, bundles are
placed from bit 0, so from the end of the disk, and the inode block grows down
towards them. `fs_delete` and `fs_close` work from a `struct INODE` that the
caller hands in. Buffers are `static` in a header: each source file has its own
`SEC_BUFFER`, `AT_BUFFER` and so on, and all disks share those of
`file_system.c`. `fs_getfree` uses the buffer of the mounted window for a read
of its own, `fs_mkfs` of one disk the buffers of another's windows. The system
tests show how an agent is expected to work: if a bundle is refused it calls
`delete_invalid_inodes` and `defragment` and tries again.

### What is hard

There are no threads and no callbacks, so nothing interleaves inside of the
library. The difficulties are: long sequences of calls over two tables, inodes
and a superblock that have to agree; copies of inodes that the agent keeps while
`fs_create` evicts and `delete_invalid_inodes` collects; a buffer that is a
window on a larger table; the arithmetic of masks, borders, padding and
rounding; power failures between the writes of one call, or of one
`defragment`; buffers that still hold what an earlier step or another disk left;
and whether the agent's retries end. `PROJECT.json`
lists each hazard with its line and the properties that watch it.

## The modules

| module | models | state |
|---|---|---|
| `BitTable` | a table as the set of its 1-bits, with the operations the file system asks of it | - |
| `BundleStore` | abstract specification: what the agent may rely on, without sectors | `bundles`, `clock`, `result` |
| `FileSystem` | the core: one action per call; `Store` is the refinement mapping to `BundleStore` | `fs` (both tables, slots, `inode_block_size`), `clock`, `result` |
| `BundleAgent` | `FileSystem` composed with an agent that keeps a copy of an inode; adds `fs_open` | `file` |
| `WindowBuffer` | the window and the `*_global` functions, against a flat table `used` | `w` (disk, buffer, `global_index`, return value), `used` |
| `BitFunctions` | the byte-wise functions, against a flat table `used` | `table`, `used` |
| `PowerLoss` | `FileSystem` with each call cut into its `disk_write`s, failures, mount and `restore_fs` | `fs` as the disk, `writes` left, `power`, `created`, `kept` |
| `Defragment` | `FileSystem` with the data of its bundles, `defragment` one `disk_write` after the other, failures, and the agent's retry loop | adds `data`, `loop`, `writes`, `power`, `pending`, `todo`; `settled` is history |
| `FileData` (`MCFileData`) | `fs_write` sector by sector, `fs_read`, checksums, failures, a medium that loses bits | `sectors`, `writing`; `versions` and `flips` are history |
| `Layout` | what `fs_mkfs` computes from the size of a disk | - |
| `Disks` (`MCDisks`) | several disks in one process: `disk.c`, `disk_interface.c`, `fs_mkfs`, `fs_mount`, restarts | `image`, `disk`, `fs`, `window`, `SEC_BUFFER`; `current` and `formatted` are the agent's |
| `FileSystemProofs` | the inductive invariant and the theorems on `FileSystem`, and that it implements `BundleStore` | |
| `BundleAgentProofs` | the theorems on the agent's copy of an inode | |
| `DisksProofs` | the theorems on any number of disks, and that each is laid out as `FileSystem` assumes | |
| `PowerLossProofs` | what the bundles and the tables look like after every failure, and that the writes of each call are `FileSystem`'s call | |
| `FileDataProofs` | the theorems on data, checksums and lost bits | |
| `DefragmentProofs` | the theorems on `defragment`, write by write, and that it is invisible to the agent | |
| `BitFunctionsProofs` | the theorems on masks, searches and tails; lemmas on induction, folds and bytes | |
| `WindowBufferProofs` | the theorems on the window, and that it does in its buffer what the byte-wise functions do | |

They build on each other: `BitFunctions` and `WindowBuffer` each show that the
code's way of working on a table is `BitTable`'s; `FileSystem` uses `BitTable`;
`PowerLoss` shows that the writes of a call add up to `FileSystem`'s action;
`FileSystem` implements `BundleStore`, and so does `Defragment`, in which the
place of a bundle changes and the bundle does not. `Disks` leads from an empty
image to what `FileSystem` starts from: `LaidOut` is its `LayoutAssumption`. An
operator under a comment that begins with "Mutant" is a faulty variant of the
definition that follows it; `mutants` in `PROJECT.json` lists which property
each of them breaks.

### Correspondence of `FileSystem`

`Deleted` is `fs_delete`, `Written` `write_inode`, `Expendable` the loop of
`find_ino_length`, `FreeDiskSpace` `free_disk_space`, `Grown` and `CanGrow`
`resize_inode_block`, `NewInode` and `Placed` the end of `fs_create`,
`Collected` `delete_invalid_inodes`, `Restored` `restore_fs`, `Init` what
`fs_mkfs` leaves. `fs_create` has three outcomes: no inode
(`CreateWithoutInode`), success (`CreateBundle`), and no room
(`CreateWithoutSpace`), all three with the growth and the eviction that come
before. `result` is the call that was made last and what it returned; `fs_close`,
`delete_invalid_inodes` and `restore_fs`, which return nothing or do not fail,
have `FS_OK`. `fs_create_write` has the same text except for one call of `fs_write`.
Left out: errors of the disk, `find_seq_global` on tables of several sectors
(see `WindowBuffer`), and sizes of 0, for which the program has no sector.

Bits of a table behind `SectorCount` (the table is padded to whole sectors) are
always 1 in the code and are not represented. A slot whose bit is 0 is never
read, so `FileSystem` forgets its inode; `PowerLoss`, where it matters, keeps it,
and `Seen(d)` is what `FileSystem` sees of such a disk. `PowerLoss` writes down
what a sequence of `disk_write`s leaves as `Apply`: the last write to each part
counts. In `FileData` the checksum of a sector is the exclusive or of its bytes,
which have one bit: the parity of its ones.

### What `BundleStore` promises

Each action of `BundleStore` is a call with its result, so that what may happen to
the bundles depends on what the agent is told. `Put`, an `fs_create` that returns
`FS_OK`, adds a bundle and may take one other away, which is at least as large and
which nobody has custody of or which has expired. `Refuse`, an `fs_create` that
returns `FS_FULL`, changes no bundle: an eviction after which the new bundle still
finds no room is no step of the store. `Drop` is `fs_delete` and nothing else,
`CollectExpired` takes exactly the expired bundles, `fs_open`, `restore_fs` and the
passing of time change none. A failure of power and every `disk_write` of
`Defragment` are steps that the store does not see.

## The runs

All runs are sequential exploration by TLC of every reachable state.

| run | shows | bounds |
|---|---|---|
| `file_system` | `TypeOK`, `LiveSectorsMarked`, `NoLeakedSector`, `ExtentsDisjoint`, `InodeTableSuffices`, `ImplementsBundleStore` | 8 sectors, 4 of them metadata at first, 2 inodes per sector, bundles of 1 or 2 sectors (sizes 1, 2, 3 with 2 bytes per sector), times 0 and 1: 36,390 states |
| `bundle_agent` | an agent that uses a copy only if the bundle is in its custody and alive is safe: `EntitledCopyIsFresh`, `OnlyTheFileIsDeleted` | as above, sizes 2 and 3: 113,014 states |
| `window_buffer` | with one sector in the buffer the window is a flat table; inodes are found (`SlotsAreFound`) and never counted too low (`InodesHaveRoom`) | 3 sectors of 4 bits, bytes of 2 bits: 24,063 states |
| `window_whole` | with the whole table in the buffer, `fs_getfree` and `restore_fs` are right too | 8 bits: 512 states |
| `bit_functions` | masks, searches and tails are exact | all tables of 3 bytes of 3 bits, and all bytes behind: 4,096 states |
| `power_loss` | the writes of a call are the call (`CallsAreWhole`); failures lose nothing if `restore_fs` follows each mount, except at two points | 8 sectors, 1 inode per sector: 25,205 states |
| `file_data` | reads return what was written, writes that are cut off leave whole sectors, lost bits are noticed | 3 bytes per sector, bundles of 4 and 1 bytes, two contents each, one lost bit per sector: 620,080 states |
| `defragment` | `TablesAgree`, `ExtentsDisjoint`, `MovedBundlesKeepData` at each write; `TurnsAreRight`, `DefragmentCompacts`; `EventuallyStored`; `ImplementsBundleStore` | 12 sectors, 2 inodes at first, growth by one, bundles of 2 sectors, times 0 and 1: 155,626 states |
| `disks` | `MountedIsOnDisk`, `TablesBelongToDisk`, `SuperblockFits` over all orders of calls on two disks | a disk of 4 blocks, too small for sectors of one block, and one of 600, whose table has 2 sectors; sectors of one and two blocks, two bundles, one growth: 7,018 states |

Why the bounds are enough. In `file_system` the disk fills up, holes of every
size appear, the inode block grows until it meets the bundles, `fs_create` fails
in both ways, evicts, and evicts in vain candidates that are too small; every
action fires. Two times tell apart a bundle that is expired, one that expires
later and one in its last second. In `window_buffer` sequences begin, end and
cross at every border between three windows. `bit_functions` has a first, a
middle and a last byte, and both algorithms for short and long sequences.
The bits that `restore_fs` cannot clear belong to the metadata in all passing
runs. In `defragment` three bundles and holes at every place occur, both branches
of the loop, a growth, an expired bundle, and a creation that is refused although
there is room (the sector next to the inode block is used), so that the retry
loop has work to do for each of its calls. Bundles that nobody has custody of live
until time 0, so that the waiting for them to expire is one tick; with more times
the loop goes round more often and no step is new. Variants that are not among
the runs for their size: with bundles of one sector (`Sizes = {2}`, on a disk of ten
sectors) all properties hold (155,360 states); with bundles of two and of three sectors
(`Sizes = {3, 5}`), and TLC told to take right turns only (an action constraint),
they hold too (291,134 states).

The other three runs each violate one property that a comment or a test of the
repository states (`findings` in `PROJECT.json` quotes it):

| run | what happens |
|---|---|
| `file_data_filled` | a bundle that fills its last sector loses that sector's data |
| `defragment_data` | a bundle of two sectors that is in its place already has its last sector twice after a `defragment`, with correct checksums |
| `defragment_mixed` | with bundles of two and three sectors, a `defragment` that nothing cuts off leaves a free sector marked used: the second branch of its loop frees and marks the bits behind those that it means |

Where the code does less than a caller may expect, the models have its behaviour
and the passing runs stay away from it, by a constant or by the requests they
make. In each case `hazards` in `PROJECT.json` names the line:

- `fs_delete` with a stale copy of an inode deletes another bundle
  (`BundleAgent` follows a rule that prevents it);
- `fs_open` succeeds on numbers from `inode_max` on (`Garbage`);
- a find in a buffer of two sectors or more sees sectors behind the table, and
  neither searching nor clearing is right for sequences longer than the buffer
  that begin in the middle of it;
- `restore_fs` with a sector count that is no multiple of 8 marks up to 7 free
  sectors used (`NoLeakedSector` fails in `FileSystem` with 15 sectors), and with
  a table of several sectors marks all of them;
- with a buffer of two sectors and a table of three, callers count windows in
  buffers and `move_window` counts sectors, so that clearing a sequence clears
  other bits (`BufferSectors = 2` violates `TableIsWhatWasAsked`);
- power that fails between the two tables in `fs_delete` leaves an inode whose
  sectors are free, until `restore_fs` is called;
- `defragment` of bundles of different lengths may take turns in which the bits
  behind a bundle are not all used, and then its second branch, which addresses
  those bits instead of the bundle's own, leaves a wrong table (`RightTurn`,
  `defragment_mixed`);
- a file system that is used after another disk was mounted or formatted works
  on the other's tables (`Careless = {"uses another disk"}` violates
  `TablesBelongToDisk`);
- `sector_block_mapping` is set by `fs_mkfs` only, so that of an image that an
  earlier process has formatted, `fs_mount` reads 0 blocks and `SEC_BUFFER` keeps
  what it held. In a process that has not used a disk yet these are zeroes,
  `init_window` divides by the `sector_size` 0, and the process ends (`fs_mount`
  has no such step; `Restart` follows). If the process has formatted another disk
  before, it is the superblock of that disk, and `fs_mount` returns `FS_OK` with
  it (`Careless = {"mounts after a restart"}` violates `MountedIsOnDisk`);
- `fs_mkfs` on a disk that is too small fails after it has changed both tables;
  with sectors of several blocks it counts blocks as sectors;
- `fs_getfree` reads into the window's buffer (harmless if the table fits, which
  is `window_whole`);
- power that fails right before a new inode, or right before a grown superblock,
  leaves an inode that was never written, or inodes without room (`Uncut`);
- `fs_read` copies the whole bundle whatever length it is given.

## Assumptions, and what follows for the code

- Fairness is assumed in `Defragment` only: a call that has begun goes on
  (there is one thread, and each loop of the code is finite), the agent goes on
  with the loop that it has begun, and time passes. `TryReturns` is the part of
  `TryAgain` that the loop is about. Nothing is assumed of the power, which may
  always fail; the agent then gives up the bundle. The other modules have no
  waiting and no retries, and state no liveness.
- `Defragment`: in the passing run all bundles have the same number of sectors;
  the theorems are for any sizes and the turns that are right. The agent calls
  `restore_fs` after a mount that follows a failure; while it retries it makes no
  other calls.
- `Disks`: the agent creates or empties an image before it opens it, mounts a
  disk after an `fs_mkfs` of any disk, and uses a disk only if it was the last one
  mounted, as all tests do. In the passing run it mounts only disks that it has
  formatted since it was started. `Garbage` is what memory held in place of
  `sector_block_mapping`: 0, as in static memory, or 1.
- `InodeBlock + InitInodeBlockSize <= SectorCount` and the other assumptions of
  `LayoutAssumption` hold for what `fs_mkfs` computes on disks that are not
  absurdly small. All tables of `FileSystem` and `PowerLoss` fit their buffer:
  one sector, up to `8 * sector_size` sectors of disk.
- `PowerLoss`: a write of one sector is atomic; the agent calls `restore_fs`
  after a mount that follows a failure; a call takes less than a second. The
  constant `Uncut` names the writes before which the power does not fail: in
  `power_loss` the write of an inode and of a grown superblock.
- `BundleAgent`: the agent uses a copy of an inode only if the bundle is in its
  custody and has not expired, a rule that it can check by itself. The code asks
  for none; without it `OnlyTheFileIsDeleted` does not hold.
- `FileData`: a sector is written as a whole or not at all. A byte has one bit
  and is a word of the checksum. Two flips in one sector may cancel out in an
  exclusive or, so one is the bound.

## The theorems

All are for every value of the constants that the named assumptions of the
modules allow: every size of disk, inode block and bundle, every number of
bundles, calls and failures. What is assumed beyond that is in the statement of
the theorem.

### The core (`FileSystemProofs`)

Under `RestoreAligned` (the bits that `restore_fs` cannot clear belong to the
metadata; true for every sector count that is a multiple of 8):

- `Invariance`: `Spec => []Inv`. `Inv` is the clock's type and `Consistent(fs)`,
  a conjunction of a type part, `LiveInodesNamed` (a live slot holds an inode
  that names it), `BundlesApart`, `TableExact` (the AT is exactly metadata and
  live bundles), `InodeBlockClosed` (the bits of the IT from `inode_max` on are
  1) and `MetadataInside`. None of the safety properties is inductive alone:
  deletion keeps `LiveSectorsMarked` only because extents are disjoint, extents
  stay disjoint only because free bits are really free, growth frees exactly the
  inodes that were closed, and the type of a new inode needs the first fit to
  exist. Each call is composed from steps on a file system *d*, so there is a
  lemma for each step (`GrownConsistent`, `DeletedConsistent`, ...) that
  `Consistent(d)` is kept, and `NextInv` puts them together. `result` plays no
  part in it; `TypeCorrectness` adds its type.
- `TypeCorrectness`, `LiveSectorsStayMarked`, `NoSectorIsLost`,
  `BundlesStayApart`: the properties of the run, from `Invariance`.
- `InodeTableIsLargeEnough`: `resize_inode_block` does not look whether the IT has
  bits left, and need not. It grows only when no inode is free; then every
  inode of the block belongs to a bundle, the bundles have a sector each and none
  in common, so there are at least as many bundle sectors as inodes, and with
  the sector that is taken next they all are sectors of the disk. The table has
  a bit per sector (`TableFilled`, which is what `fs_mkfs` computes), so one more
  sector of inodes still fits. The proof counts with the library's theorems on
  cardinality, through an injection from inodes to sectors.
- `FileSystemImplementsStore`: `Spec` implies `Store!StoreSpec`. The interesting
  lemma is `EvictionMakesRoom`: the bundle that is deleted is at least as large
  as the new one, so that its sectors are a hole for it and the second search
  cannot fail. Hence `CreateWithoutSpace`, which returns `FS_FULL`, has evicted
  nothing and is `Refuse`: no bundle is deleted in vain. (An eviction of a bundle
  that is too small, `ExpendableOfAnySize`, breaks it.)

### The agent (`BundleAgentProofs`)

`AgentInvariance`: the file that the agent may use, because the bundle is in its
custody and alive by the agent's own copy and clock, is on the disk as the copy
says. It holds through each call because eviction and collection spare exactly
such bundles. `EntitledCopiesAreFresh`, `DeletionIsExact` and
`AgentKeepsSectorsMarked` are the properties of the run; `AgentImplementsStore`
says that with `fs_open`, copies and garbage the store is still implemented.

### Several disks (`DisksProofs`)

Under `Careful`: the agent mounts after formatting and uses the disk that it
mounted last (`Careless = {}`), and has formatted since the process started what
it mounts. The invariant `DisksInv` relates images, mounted superblocks, the one
shared buffer and the two shared windows. `MountedStaysOnDisk`,
`TablesStayWithDisk` and `SuperblocksFit` are the properties of the run. On the
way `MadeIsLaidOut` and `GrownIsLaidOut` show that what `fs_mkfs` computes from
the size of a disk, and every growth, satisfies `LaidOut`, the
`LayoutAssumption` of `FileSystem`; they need sectors with a bit for each inode
of a sector (`SectorSizes`). That the growth of a disk stays within its tables
uses, as above, that it grows only when each inode has a bundle of a sector or
more.

### Power failures (`PowerLossProofs`)

Under `RestoreAligned` and `InodesUncut`. The latter says that the power does not
fail right before the write of an inode or of a grown superblock; without it the
theorems are false (see the list above: an inode that was never written, or
inodes without room). Failures at all other writes, in any number, also while
`restore_fs` repairs the disk, are covered; what is said below of every failure is
said of these.

- The invariant `PowerInv` looks ahead: `Safe(d, ws, k)` says of the writes `ws`
  still to be done on disk `d` that after each of them the bundles `k` are where
  they were, and that the disk is `Recoverable` (consistent but for the AT, which
  `restore_fs` does not read) wherever a failure may come. Each call begins with
  safe writes (`DeleteSafe`, `GrowSafe`, `PlaceSafe`, `CollectSafe`,
  `RestoreSafe`, put together by `SafeConcat`), and they stay safe from one write
  to the next (`SafeTail`).
- `BundlesSurvivePowerLoss` and `RecoveryIsComplete` are the properties of the run.
- `PowerLossImplementsFileSystem`: the disk without the inodes in free slots is a
  state of `FileSystem`, initially an initial one, and a call begins with writes
  that add up to `FileSystem`'s action (`CallsAreWhole`). With
  `FileSystemImplementsStore` this ties single `disk_write`s to the abstract
  store.

### Data (`FileDataProofs`)

- `DataInvariance`: a sector of which no bit was lost is, with all its bytes and
  its checksum, one that an `fs_write` had to put there, and the part of a write
  that is still to be done finds its sectors as it expects. Under `OneFlip` (at
  most one lost bit per sector: two may cancel out in an exclusive or)
- `LostBitsAreNoticed`: `fs_read` reports an error exactly if a sector lost a bit,
  since one bit changes the parity (`FlipChangesChecksum`);
- `SectorsStayWhole`: a write that is cut off leaves whole sectors, old or new;
- `BundlesAreReadAsWritten`: what `fs_read` returns is what was written. It needs
  `PartlyFilled`: no bundle fills its last sector. For those that do, it is
  false, see `file_data_filled`.

### Defragment (`DefragmentProofs`)

Under `RestoreAligned`, for bundles of any sizes, `DefragSpec /\ TurnsAreRight`
implies the properties of the run. `TurnsAreRight` says that each turn of the loop
finds what the loop is written for (`RightTurn`): there is no hole and the bundle
is in its place; or the first hole is its place; or the bundle is in its place and
the bits behind it, which the second branch takes for the bundle's own, are used
or part of the hole. The code checks none of this. Two things are known of it:

- With bundles of one length (`SameLength`: the same number of sectors, their sizes
  may differ) every turn is right, theorem `DefragTurnsRight`, so that the other
  theorems hold for every run. First fit places such bundles in blocks of that
  length, counted from the end of the disk (`InBlocks`), and `BlockInv` says that
  calls, turns and failures keep it so and that `k` moves block by block. The block
  at `k` is then the first hole, or the bundle's (`BlockTurn`), and the block
  behind a bundle in its place is a bundle, or the hole (`BlockBehind`).
- With mixed lengths turns may be wrong, and then the conclusions fail:
  `defragment_mixed` has such a run. Many runs have right turns only. In the test
  `defragment_test2`, with bundles of two and three sectors, the hole is the place
  in each turn.

The argument:

- `ToDo` is the invariant of the loop: what is done fills the disk from its end,
  the inodes still in the list are those on the disk, and of those only settled
  ones have no hole behind them.
- A turn that has begun is described by the file system *d* from before it and
  the number of its writes that are done (`Turning`; `Moving` and `Staying` for
  the two branches, together `MidTurn`). After each write the inodes lead to
  complete copies (`DataKept`) on a disk that `restore_fs` can repair
  (`Recoverable`), so the power may fail anywhere: `AlwaysGood`. The copy is
  followed sector by sector in `CopiedUpTo`; `HoleWrites` and `StayWrites` say
  what the sequences of writes contain.
- At the end of the second branch the table and the inodes are what they were
  before the turn, although the bits behind the bundle were freed and marked in
  between (`MoveOnWrites`, `LeavesAll`). Only the sectors of the bundle itself may have
  changed, but for its last one, which is what `settled` stands for.
- `DefragStep` puts the steps together. It needs `RightTurn` where a turn begins
  (`TurnCases`); every other step keeps the invariant whatever the sizes.
- `DefragInvariance` is the invariant; `DefragTablesAgree`,
  `DefragKeepsApart`, `DefragKeepsData` and `DefragCompacts` are the properties of
  the run; `DefragImplementsStore` shows that the abstract store is implemented
  although bundles move, since what a turn changes is not part of the mapping.

### Bytes (`BitFunctionsProofs`)

No assumption beyond sizes of at least 1.

- `TableHasTheBits`: the invariant `Inv` says that `table` is a table and `used`
  its bits. That a call keeps it is `WriteSeqBits`, `DeleteSeqBits` and
  `WriteBitBits`: `MaskBits` computes the masks of the first, a middle and the
  last byte, `RequestBits` puts them together.
- `CheckSeqAnswers`: `check_seq` reads the byte behind the table under a mask that
  is empty there.
- `FindSeqFindsTheFirst`, `EndLengthIsTheTail`: for short sequences a hit at a byte
  is a place (`HitIsPlace`), and where the zeroes of a place end there is a hit
  that is not behind it (`PlaceIsHit`). For long ones `Searched` is the invariant of
  the loop over the bytes: the zeroes that end the
  bytes so far are counted, with the byte they begin in, and no place ends before.
- `MaxSequenceIsTheLongest`: `MaxKnown` is the invariant of that loop.

The loops of the code are folds in the model, and what a fold computes takes
induction over its length. The induction theorems of the library have an operator
as parameter and cannot be used, so induction is stated with sets
(`InductionUpTo`: a set that has 0 and with *i* has *i* + 1 has all numbers up to
*n*; it follows from well-foundedness of inclusion on finite sets, as does
`LeastInSet`). `FoldExists` shows with it that the function that the definition
of a fold chooses exists, if its operator stays within a set of states, so that a
fold is a sequence of states (`SearchSteps`, `MaxSteps`) about which an invariant
can be proved.

### Windows (`WindowBufferProofs`)

`WindowType` is for all sizes. The others are under `Fits`: the buffer has one
sector or the whole table, and `fs_getfree` and `restore_fs` are called on tables
of one sector only (`CallsOnWhole`). `Fits` is what the code needs: callers count
windows in buffers where `move_window` counts sectors, and what the two calls do
is wrong for tables of several sectors (see the list above). `FirstFitIsFound`
needs a buffer of one sector, since with the whole table in it the search looks at
sectors behind the table.

- The invariant `WInv` says that the window shows the disk (`Shows`: its buffer is
  what the disk holds at `global_index`) and the disk is `used`. Inside of a call
  the buffer is ahead of the disk. What is kept there is `View`, the disk as it
  would be after a save: moves do not change it (`MoveKeeps`), writing in the
  buffer changes it as asked. `TableIsKept` and `WindowIsRight` are the properties
  of the runs.
- `ChunksCover`: the parts that a request is cut into follow one another from its
  first bit to its last, and each lies in its window. `WriteDone`, `DeleteDone` and
  `CheckDone` follow the loop over the parts.
- `CheckAnswers`, `SlotsFound`, `RoomIsEnough`: reading through the window. The last
  one counts: if the bits from `inode_max` on are 1 they make up for the inodes of
  other sectors.
- `FirstFitIsFound`: `SearchInv` is the invariant of the search: no place ends
  before this window, and `tail` is the number of zeroes before it, fewer than
  are needed. The first fit begins in the window before or lies in this one.
- `PartsByteByByte` and `SearchByteByByte` join this to the bytes: what the model
  of the window does to a buffer as a set is what `BitFunctions` does to its bytes,
  for each part of each request, and whatever lies behind the buffer. Together
  with the theorems above: `*_global` and the byte-wise functions below it are
  `BitTable`'s operations, on which `FileSystem` is built.

`WindowBufferProofs` takes its lemmas on induction and folds from an instance of
`BitFunctionsProofs`, with the bytes of the buffer as table. In `WindowBuffer` the
three operations on a request share one operator (`OnChunks`) as they share one
structure in the code, so that its loop is proved about once.

### Only model-checked

- `EventuallyStored`: liveness under fairness, and `ENABLED`, are beyond the prover.
- What the three runs with a violation show, by nature.

Every other property of a run, `TypeOK` included, is a theorem.

## Not modelled

- Widths of integers on disk (`time_to_live`, `inode_offset`), and
  `find_max_sequence_global` (its loop starts at sector 0 of the table but ends
  at a sector number of the disk, so it fails for every table that does not
  begin at sector 0; only a test calls it).
- The number that `fs_getfree` returns, and errors of the disk in the middle of
  a call, which the file that stands for the disk does not give.
- Writes behind the end of static arrays: `fs_mkfs` fills `SEC_BUFFER` with as
  many bytes as a table has.
- Arithmetic helpers (`popcount`, `con32to8`, `con8to32`), the image file, tests,
  `memprof`, Unity.

## Plan

1. Done: the core (`BitTable`, `FileSystem`, `BundleStore`, `BundleAgent`,
   `WindowBuffer`, `BitFunctions`, `PowerLoss`) with the theorems on
   `FileSystem`; then `Defragment` with the retry loop, `Layout` and `Disks`,
   writes that are cut off in `FileData`, and inodes and `restore_fs` through the
   window in `WindowBuffer`.
2. Done: the theorems on the core, `InodeTableSuffices` by counting, the agent,
   disks, power failures, data, and the refinements `BundleAgent` to
   `BundleStore` and `PowerLoss` to `FileSystem`.
3. Done: the theorems on `Defragment`: the invariant of its loop and of its
   turns, the properties of the run, the refinement to `BundleStore`, for any sizes
   and right turns; that turns are right with bundles of one length.
4. Done: the theorems on `BitFunctions` and `WindowBuffer`, and that the two agree.
5. Left: `FileData` states its properties for one byte per word of the checksum;
   `find_max_sequence_global`, and sequences longer than the buffer that begin in
   the middle of it, are wrong in the code and are not modelled or not asked for.
