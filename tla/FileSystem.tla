----------------------------- MODULE FileSystem -----------------------------
(***************************************************************************)
(* The core of BundleFS (file_system.c, inode_functions.c and two of the   *)
(* maintenance tasks): a disk of SectorCount sectors that holds, from      *)
(* sector 0 on, the superblock, the allocation table, the inode allocation *)
(* table and the inode block, and behind them the bundles.  The library    *)
(* runs in one thread, so a call is one action.                            *)
(*                                                                         *)
(* Bit b of the allocation table stands for sector SectorCount - 1 - b, so *)
(* the metadata are its last bits; the inode block grows downwards in the  *)
(* table and bundles are placed first fit from bit 0, the end of the disk. *)
(* The tables are used here as a whole (BitTable).                         *)
(***************************************************************************)
EXTENDS Integers, FiniteSets, BitTable

CONSTANTS
    SectorCount,         \* fs->sector_count
    InodeBlock,          \* fs->inode_block, the first sector of the inodes
    InodeSec,            \* fs->inode_sec, inodes per sector
    InitInodeBlockSize,  \* fs->inode_block_size when the disk is formatted
    InodeTableBits,      \* bits of the inode allocation table
    Payload,             \* bytes of a bundle that a sector holds
    Sizes,               \* sizes of bundles, in bytes
    TTLs,                \* times to live
    MaxClock,            \* bound: the clock stops here
    NoInode              \* a slot of the inode block that holds no inode

ASSUME LayoutAssumption ==
    /\ SectorCount \in Nat
    /\ InodeBlock \in Nat \ {0}
    /\ InodeSec \in Nat \ {0}
    /\ InitInodeBlockSize \in Nat \ {0}
    /\ InodeBlock + InitInodeBlockSize <= SectorCount
    /\ InodeTableBits \in Nat
    /\ InodeSec * InitInodeBlockSize <= InodeTableBits

ASSUME BundleAssumption ==
    /\ Payload \in Nat \ {0}
    /\ Sizes \subseteq Nat \ {0}
    /\ TTLs \subseteq Nat
    /\ MaxClock \in Nat

VARIABLES
    fs,       \* the struct FILE_SYSTEM with the tables and inodes it leads to
    clock,    \* what get_time() returns
    result    \* the call that was made last and what it returned

vars == <<fs, clock, result>>

InodeNumbers == 0 .. (InodeTableBits - 1)

Inode == [size : Sizes, location : 0 .. (SectorCount - 1), custody : BOOLEAN,
          time_to_live : TTLs, inode_offset : InodeNumbers]

FileSystem ==
    [at               : SUBSET (0 .. (SectorCount - 1)),
     it               : SUBSET InodeNumbers,
     inodes           : [InodeNumbers -> Inode \cup {NoInode}],
     inode_block_size : Nat]

-----------------------------------------------------------------------------
(* Helpers.  d is a file system, f an inode.                               *)

\* div_up(size, sector_size - check_size()): a sector also holds a checksum.
Sectors(size) == (size + Payload - 1) \div Payload

InodeMax(d) == InodeSec * d.inode_block_size

MetadataSize(d) == InodeBlock + d.inode_block_size

Metadata(d) == Run(SectorCount - MetadataSize(d), MetadataSize(d))

\* The inodes that get_ino_pos finds in the sectors of the inode block.  The
\* bits from InodeMax on are also 1: no inode may be placed there yet.
Live(d) == {n \in d.it : n < InodeMax(d)}

\* The bits of the allocation table for the sectors of a bundle.
Bits(f) == Run(SectorCount - (f.location + Sectors(f.size)), Sectors(f.size))

LiveBits(d) == UNION {Bits(d.inodes[n]) : n \in Live(d)}

IsNotValid(f) == clock > f.time_to_live

HasFreeInode(d) == HasSeq(d.it, InodeTableBits, 1)

Fits(d, size) == HasSeq(d.at, SectorCount, Sectors(size))

-----------------------------------------------------------------------------
(* The steps of fs_create, fs_delete and the maintenance tasks.            *)

\* Mutant: only the sectors that the bundle fills are freed.
DeletedFullSectors(d, f) ==
    [d EXCEPT !.at = DeleteSeq(@, SectorCount - (f.location + Sectors(f.size)),
                               f.size \div Payload),
              !.it = DeleteSeq(@, f.inode_offset, 1),
              !.inodes[f.inode_offset] = NoInode]

\* Mutant: the bit of the inode is not cleared.
DeletedKeepsInode(d, f) ==
    [d EXCEPT !.at = DeleteSeq(@, SectorCount - (f.location + Sectors(f.size)),
                               Sectors(f.size)),
              !.inodes[f.inode_offset] = NoInode]

\* Mutant: the next inode is freed as well.
DeletedTwoInodes(d, f) ==
    [d EXCEPT !.at = DeleteSeq(@, SectorCount - (f.location + Sectors(f.size)),
                               Sectors(f.size)),
              !.it = DeleteSeq(@, f.inode_offset, 2),
              !.inodes[f.inode_offset] = NoInode]

\* Mutant: one sector too many is freed.
DeletedTooMuch(d, f) ==
    [d EXCEPT !.at = DeleteSeq(@, SectorCount - (f.location + Sectors(f.size)),
                               Sectors(f.size) + 1),
              !.it = DeleteSeq(@, f.inode_offset, 1),
              !.inodes[f.inode_offset] = NoInode]

\* fs_delete.  The inode itself stays in its slot, but nothing reads a slot
\* whose bit is 0, so the model forgets it.
Deleted(d, f) ==
    [d EXCEPT !.at = DeleteSeq(@, SectorCount - (f.location + Sectors(f.size)),
                               Sectors(f.size)),
              !.it = DeleteSeq(@, f.inode_offset, 1),
              !.inodes[f.inode_offset] = NoInode]

\* write_inode: the inode goes to the slot that it names itself.
Written(d, f) == [d EXCEPT !.inodes[f.inode_offset] = f]

\* Mutant: custody is ignored.
ExpendableIgnoresCustody(d, size) == {n \in Live(d) : d.inodes[n].size >= size}

\* Mutant: the size of the bundle is not looked at.
ExpendableOfAnySize(d, size) ==
    {n \in Live(d) : ~d.inodes[n].custody \/ IsNotValid(d.inodes[n])}

\* find_ino_length: candidates for free_disk_space, the first one is taken.
Expendable(d, size) ==
    {n \in Live(d) : /\ d.inodes[n].size >= size
                     /\ ~d.inodes[n].custody \/ IsNotValid(d.inodes[n])}

\* free_disk_space deletes one bundle, or none if no candidate exists.
FreeDiskSpace(d, size) ==
    IF Expendable(d, size) = {}
    THEN d
    ELSE Deleted(d, d.inodes[Least(Expendable(d, size))])

\* resize_inode_block takes the sector behind the inode block if it is free.
GrowthBit(d) == SectorCount - MetadataSize(d) - 1

\* Mutant: the sector is taken without looking at its bit.
CanGrowBlindly(d) == GrowthBit(d) >= 0

CanGrow(d) == GrowthBit(d) >= 0 /\ CheckSeq(d.at, GrowthBit(d), 1)

Grown(d) ==
    [d EXCEPT !.at = WriteSeq(@, GrowthBit(d), 1),
              !.it = DeleteSeq(@, InodeMax(d), InodeSec),
              !.inode_block_size = @ + 1]

\* Mutant: the inode block grows although there is a free inode.
ResizeAlways(d) == IF CanGrow(d) THEN Grown(d) ELSE d

ResizeInodeBlock(d) ==
    IF ~HasFreeInode(d) /\ CanGrow(d) THEN Grown(d) ELSE d

NewInode(d, size, ttl, custody) ==
    [size |-> size, custody |-> custody, time_to_live |-> ttl,
     location |-> SectorCount - FindSeq(d.at, SectorCount, Sectors(size))
                    - Sectors(size),
     inode_offset |-> FindSeq(d.it, InodeTableBits, 1)]

Placed(d, f) ==
    Written([d EXCEPT !.at = @ \cup Bits(f),
                      !.it = WriteSeq(@, f.inode_offset, 1)], f)

\* restore_fs: the whole bytes of the table are cleared, the bits of a last
\* partial byte are set; the metadata and every bundle are marked again.
PartialByte == (8 * (SectorCount \div 8)) .. (SectorCount - 1)

\* Mutant: the size of the inode block is the one that fs_mkfs chose.
RestoredAsFormatted(d) ==
    [d EXCEPT !.at = PartialByte \cup LiveBits(d)
                      \cup Run(SectorCount - InodeBlock - InitInodeBlockSize,
                               InodeBlock + InitInodeBlockSize)]

Restored(d) == [d EXCEPT !.at = PartialByte \cup Metadata(d) \cup LiveBits(d)]

\* Mutant: bundles in custody are kept for ever.
CollectedWithoutCustody(d) ==
    LET expired == {n \in Live(d) : IsNotValid(d.inodes[n]) /\ ~d.inodes[n].custody} IN
    [d EXCEPT !.at = @ \ UNION {Bits(d.inodes[n]) : n \in expired},
              !.it = @ \ expired,
              !.inodes = [n \in InodeNumbers |->
                            IF n \in expired THEN NoInode ELSE @[n]]]

\* delete_invalid_inodes: fs_delete for each expired bundle.
Collected(d) ==
    LET expired == {n \in Live(d) : IsNotValid(d.inodes[n])} IN
    [d EXCEPT !.at = @ \ UNION {Bits(d.inodes[n]) : n \in expired},
              !.it = @ \ expired,
              !.inodes = [n \in InodeNumbers |->
                            IF n \in expired THEN NoInode ELSE @[n]]]

-----------------------------------------------------------------------------
(* The calls.                                                              *)

\* fs_mkfs and fs_mount.
Init ==
    /\ fs = [at               |-> Run(SectorCount - InodeBlock
                                        - InitInodeBlockSize,
                                      InodeBlock + InitInodeBlockSize),
             it               |-> Run(InodeSec * InitInodeBlockSize,
                                      InodeTableBits
                                        - InodeSec * InitInodeBlockSize),
             inodes           |-> [n \in InodeNumbers |-> NoInode],
             inode_block_size |-> InitInodeBlockSize]
    /\ clock = 0
    /\ result = [call |-> "fs_mount", code |-> "FS_OK"]

\* The call leaves the file system as d and returns code.
Return(d, call, code) == /\ fs' = d
                         /\ result' = [call |-> call, code |-> code]
                         /\ UNCHANGED clock

\* No free inode and no sector for more of them.  (If growth did not help, as
\* for want of bits in the table, the code would return FS_DISK_ERROR;
\* InodeTableSuffices excludes that.)
CreateWithoutInode ==
    /\ ~HasFreeInode(ResizeInodeBlock(fs))
    /\ Return(ResizeInodeBlock(fs), "fs_create", "FS_FULL")

\* An inode is there, possibly after growth; if there is no hole for the
\* bundle another one is deleted and the search is repeated once.
RoomFor(size) ==
    LET d == ResizeInodeBlock(fs) IN
    IF Fits(d, size) THEN d ELSE FreeDiskSpace(d, size)

CreateBundle(size, ttl, custody) ==
    LET d == RoomFor(size) IN
    /\ HasFreeInode(ResizeInodeBlock(fs))
    /\ Fits(d, size)
    /\ Return(Placed(d, NewInode(d, size, ttl, custody)), "fs_create", "FS_OK")

CreateWithoutSpace(size) ==
    /\ HasFreeInode(ResizeInodeBlock(fs))
    /\ ~Fits(RoomFor(size), size)
    /\ Return(RoomFor(size), "fs_create", "FS_FULL")

FsCreate(size, ttl, custody) ==
    \/ CreateWithoutInode
    \/ CreateBundle(size, ttl, custody)
    \/ CreateWithoutSpace(size)

FsDelete(f) == Return(Deleted(fs, f), "fs_delete", "FS_OK")

FsClose(f) == Return(Written(fs, f), "fs_close", "FS_OK")

DeleteInvalidInodes == Return(Collected(fs), "delete_invalid_inodes", "FS_OK")

RestoreFs == Return(Restored(fs), "restore_fs", "FS_OK")

\* Time passes on its own.
Tick ==
    /\ clock < MaxClock
    /\ clock' = clock + 1
    /\ UNCHANGED <<fs, result>>

\* The agent deletes and updates bundles through inodes that it has just
\* opened; it may change the custody and the life of a bundle, nothing else.
Next ==
    \/ \E size \in Sizes, ttl \in TTLs, custody \in BOOLEAN :
         FsCreate(size, ttl, custody)
    \/ \E n \in Live(fs) : FsDelete(fs.inodes[n])
    \/ \E n \in Live(fs), ttl \in TTLs, custody \in BOOLEAN :
         FsClose([fs.inodes[n] EXCEPT !.custody = custody,
                                      !.time_to_live = ttl])
    \/ DeleteInvalidInodes
    \/ RestoreFs
    \/ Tick

Spec == Init /\ [][Next]_vars

-----------------------------------------------------------------------------
(* Properties.                                                             *)

\* Type correctness, with the inodes of live slots really being inodes that
\* name their own slot.
TypeOK ==
    /\ fs \in FileSystem
    /\ \A n \in Live(fs) : fs.inodes[n] \in Inode
                           /\ fs.inodes[n].inode_offset = n
    /\ clock \in 0 .. MaxClock
    /\ result \in [call : {"fs_mount", "fs_create", "fs_delete", "fs_close",
                           "delete_invalid_inodes", "restore_fs"},
                   code : {"FS_OK", "FS_FULL"}]

\* Every sector of the metadata and of a live bundle is marked used: the next
\* fs_create cannot be given a sector that somebody owns.
LiveSectorsMarked == Metadata(fs) \cup LiveBits(fs) \subseteq fs.at

\* Every sector marked used belongs to the metadata or to a live bundle:
\* deletion, eviction, growth and refused calls of fs_create lose no sector.
NoLeakedSector == fs.at \subseteq Metadata(fs) \cup LiveBits(fs)

\* No sector belongs to two bundles, or to a bundle and the metadata, even
\* when the inode block has grown towards the bundles.
ExtentsDisjoint ==
    \A n \in Live(fs) :
      /\ Bits(fs.inodes[n]) \subseteq 0 .. (SectorCount - 1)
      /\ Bits(fs.inodes[n]) \cap Metadata(fs) = {}
      /\ \A m \in Live(fs) \ {n} :
           Bits(fs.inodes[n]) \cap Bits(fs.inodes[m]) = {}

\* The inode block never needs more bits than the inode allocation table has,
\* although resize_inode_block does not look: before the table could run out,
\* the bundles have used up the sectors.  Relies on every bundle having at
\* least one sector and on a table of one bit per sector.
InodeTableSuffices == InodeMax(fs) <= InodeTableBits

\* The bundles that are stored, seen from the bundle agent.
Bundles(d) == [n \in Live(d) |-> [size         |-> d.inodes[n].size,
                                  time_to_live |-> d.inodes[n].time_to_live,
                                  custody      |-> d.inodes[n].custody]]

bundles == Bundles(fs)

Store == INSTANCE BundleStore WITH Numbers <- InodeNumbers

\* The file system implements the abstract store, whose steps are tied to the
\* call and to what it returns: bundles leave only by fs_delete, by a collection
\* once they have expired, or, at most one, in an fs_create that returns FS_OK
\* and has stored the new bundle.  An fs_create that returns FS_FULL leaves all
\* of them: free_disk_space never deletes a bundle in vain.
ImplementsBundleStore == Store!StoreSpec
=============================================================================
