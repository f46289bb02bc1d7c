------------------------------- MODULE Disks -------------------------------
(***************************************************************************)
(* Several disks in one process, from disk_fill to fs_create: disk.c,      *)
(* disk_interface.c, fs_mkfs and fs_mount.  The images are files and       *)
(* outlive the process; struct DISK, struct FILE_SYSTEM and the static     *)
(* buffers of file_system.c do not.  There is one of each buffer and one   *)
(* pair of windows for all disks: fs_mount points the windows to the disk, *)
(* fs_mkfs fills the buffer behind them for another one.                   *)
(*                                                                         *)
(* A sector of the file system is sector_block_mapping blocks of the disk, *)
(* a number in struct DISK that fs_mkfs sets.  FileSystem models the calls *)
(* on a mounted file system; here a bundle has a name, and the two tables  *)
(* of a disk are the set of names that they mark.                          *)
(***************************************************************************)
EXTENDS Layout, FiniteSets

CONSTANTS
    Disks,         \* the disks
    Size,          \* disk->size, a function on Disks, in bytes
    BlockSize,     \* disk->block_size, a function on Disks, in bytes
    SectorSizes,   \* arguments of fs_mkfs
    Names,         \* bundles of a disk
    MaxGrowth,     \* bound: sectors by which an inode block grows
    Garbage,       \* a member of struct DISK before it is set
    Empty,         \* there is no first sector, the file is empty
    Unformatted,   \* a first sector that is no superblock
    None,          \* no image, no file system, no disk
    Careless       \* what the agent does that the passing run leaves out

ASSUME DisksAssumption ==
    /\ \A d \in Disks : Size[d] \in Nat /\ BlockSize[d] \in Nat \ {0}
    /\ SectorSizes \subseteq {n \in Nat : n >= InodeSize /\ 8 * n >= InodeCnt}
    /\ Garbage \subseteq Nat
    /\ Careless \subseteq {"mounts after a restart", "uses another disk"}

\* What a file and a struct DISK may hold.
Images == [super  : Superblock \cup {Empty, Unformatted},
           table  : SUBSET Names,
           inodes : SUBSET Names]

Structs == [status               : {"STA_NOINIT", "STA_READY"},
            sector_block_mapping : Nat]

\* The marks for what is not there are not mistaken for something.
ASSUME MarksAssumption ==
    /\ None \notin Images /\ None \notin Structs
    /\ None \notin Superblock /\ None \notin Disks
    /\ Empty \notin Superblock /\ Unformatted \notin Superblock

VARIABLES
    image,       \* the files: superblock, what the tables mark, the inodes
    disk,        \* struct DISK, or None before disk_fill
    fs,          \* struct FILE_SYSTEM, or None if it is not mounted
    window,      \* the disk of the windows, and what their buffers mark
    SEC_BUFFER,  \* the superblock that SEC_BUFFER holds, or Unformatted
    current,     \* the disk whose file system was mounted last, or None
    formatted    \* disks that the agent has formatted since it was started

vars == <<image, disk, fs, window, SEC_BUFFER, current, formatted>>

Image(super, table, inodes) ==
    [super |-> super, table |-> table, inodes |-> inodes]

\* disk_ioctl
block_count(d) == Size[d] \div BlockSize[d]

Ready(d) == disk[d] # None /\ disk[d].status = "STA_READY"

\* The process has just been started.
Fresh ==
    [disk |-> [d \in Disks |-> None], fs |-> [d \in Disks |-> None],
     window |-> [disk |-> None, buffer |-> {}], formatted |-> {}]

Init ==
    /\ image = [d \in Disks |-> None]
    /\ disk = Fresh.disk /\ fs = Fresh.fs /\ window = Fresh.window
    /\ SEC_BUFFER = Unformatted
    /\ current = None
    /\ formatted = Fresh.formatted

-----------------------------------------------------------------------------
(* disk.c and disk_interface.c.                                            *)

\* sector_block_mapping is not touched: it is what the memory held.
disk_fill(d) ==
    /\ disk[d] = None
    /\ \E n \in Garbage :
         disk' = [disk EXCEPT ![d] = [status |-> "STA_NOINIT",
                                      sector_block_mapping |-> n]]
    /\ UNCHANGED <<image, fs, window, SEC_BUFFER, current, formatted>>

\* An old image is emptied.  The agent does so before disk_initialize.
disk_create(d) ==
    /\ disk[d] # None /\ ~Ready(d) /\ fs[d] = None
    /\ image' = [image EXCEPT ![d] = Image(Empty, {}, {})]
    /\ formatted' = formatted \ {d}
    /\ UNCHANGED <<disk, fs, window, SEC_BUFFER, current>>

\* Mutant: fopen's result is not looked at.
InitializeBlindly(d) ==
    /\ disk[d] # None /\ ~Ready(d)
    /\ disk' = [disk EXCEPT ![d].status = "STA_READY"]
    /\ UNCHANGED <<image, fs, window, SEC_BUFFER, current, formatted>>

\* Without an image it fails.
disk_initialize(d) ==
    /\ disk[d] # None /\ ~Ready(d)
    /\ disk' = [disk EXCEPT ![d].status = IF image[d] = None THEN "STA_NOINIT"
                                          ELSE "STA_READY"]
    /\ UNCHANGED <<image, fs, window, SEC_BUFFER, current, formatted>>

\* The agent uses the file system again after a mount only.
disk_shutdown(d) ==
    /\ Ready(d)
    /\ disk' = [disk EXCEPT ![d].status = "STA_NOINIT"]
    /\ fs' = [fs EXCEPT ![d] = None]
    /\ current' = IF current = d THEN None ELSE current
    /\ UNCHANGED <<image, window, SEC_BUFFER, formatted>>

\* disk_read of one sector, which is 0 blocks if the mapping is 0.
ReadFails(d) == disk[d].sector_block_mapping * BlockSize[d] > Size[d]

\* fread gets nothing and the buffer stays as it is.
ReadsNothing(d) ==
    disk[d].sector_block_mapping = 0 \/ image[d].super = Empty

-----------------------------------------------------------------------------
(* fs_mkfs and fs_mount.                                                   *)

\* sector_size must be a multiple of the block size.
Formats(d) == {n \in SectorSizes : n % BlockSize[d] = 0 /\ n <= Size[d]}

SetMapping(d, sector_size) ==
    disk' = [disk EXCEPT ![d].sector_block_mapping = sector_size \div BlockSize[d]]

\* The agent mounts the disk anew afterwards.
Forget(d) ==
    /\ fs' = [fs EXCEPT ![d] = None]
    /\ current' = None

fs_mkfs(d, sector_size) ==
    LET s == Made(block_count(d), sector_size) IN
    /\ Ready(d)
    /\ HasRoom(s)
    /\ SetMapping(d, sector_size)
    /\ image' = [image EXCEPT ![d] = Image(s, {}, {})]
    /\ window' = [window EXCEPT !.buffer = {}]
    /\ SEC_BUFFER' = s
    /\ formatted' = formatted \cup {d}
    /\ Forget(d)

\* The length of what is to be cleared wraps around.  The superblock that is
\* there stays, but all sectors are marked on disk, and none in the buffer.
FsMkfsFails(d, sector_size) ==
    /\ Ready(d)
    /\ ~HasRoom(Made(block_count(d), sector_size))
    /\ SetMapping(d, sector_size)
    /\ image' = [image EXCEPT
                   ![d] = Image(IF @.super = Empty THEN Unformatted ELSE @.super,
                                Names, {})]
    /\ window' = [window EXCEPT !.buffer = {}]
    /\ SEC_BUFFER' = Unformatted
    /\ formatted' = formatted \ {d}
    /\ Forget(d)

\* Mutant: the windows keep what they hold if they are those of the disk.
BufferKept(d, s) == IF window.disk = d THEN window.buffer ELSE image[d].table

\* What init_window reads: the tables of the disk if sectors are where they
\* should be, else zeroes or something else.
BufferOf(d, s) ==
    IF s = image[d].super
         /\ disk[d].sector_block_mapping * BlockSize[d] = s.sector_size
    THEN image[d].table ELSE {}

\* A result that the disk gives is not looked at but for the superblock.  What
\* is no superblock, a SEC_BUFFER of zeroes or of the ones of a failed fs_mkfs,
\* ends the process in init_window, which divides by its sector_size or clears
\* a buffer of its alloc_table_buffer_size: see Restart.
fs_mount(d) ==
    LET s == IF ReadsNothing(d) THEN SEC_BUFFER ELSE image[d].super IN
    /\ Ready(d)
    /\ \/ d \in formatted
       \/ /\ "mounts after a restart" \in Careless
          /\ image[d].super \notin {Empty, Unformatted}
    /\ ~ReadFails(d)
    /\ s # Unformatted
    /\ SEC_BUFFER' = s
    /\ fs' = [fs EXCEPT ![d] = s]
    /\ window' = [disk |-> d, buffer |-> BufferOf(d, s)]
    /\ current' = d
    /\ UNCHANGED <<image, disk, formatted>>

-----------------------------------------------------------------------------
(* Calls on a mounted file system.                                         *)

\* The buffer is saved to the disk of the window, the inode written to the one
\* of the file system.
Save(img, d, buffer, inodes) ==
    [img EXCEPT ![window.disk].table = buffer, ![d].inodes = inodes]

\* A file that is closed is not written to.  What the calls do with sectors of
\* another size than those of the disk is left out.
Mounted(d) ==
    /\ fs[d] # None /\ d \in formatted
    /\ Ready(window.disk)
    /\ current = d \/ "uses another disk" \in Careless

\* There is room for the bundle; where, is up to FileSystem.
fs_create(d, n) ==
    /\ Mounted(d)
    /\ n \notin window.buffer
    /\ MetadataSize(fs[d]) + Cardinality(window.buffer) < fs[d].sector_count
    /\ image' = Save(image, d, window.buffer \cup {n}, image[d].inodes \cup {n})
    /\ window' = [window EXCEPT !.buffer = @ \cup {n}]
    /\ UNCHANGED <<disk, fs, SEC_BUFFER, current, formatted>>

fs_delete(d, n) ==
    /\ Mounted(d)
    /\ n \in image[d].inodes
    /\ image' = Save(image, d, window.buffer \ {n}, image[d].inodes \ {n})
    /\ window' = [window EXCEPT !.buffer = @ \ {n}]
    /\ UNCHANGED <<disk, fs, SEC_BUFFER, current, formatted>>

\* Mutant: the superblock is written before it is changed.
SuperWrittenEarly(d) == fs[d]

SuperWritten(d) == Grown(fs[d])

\* In fs_create, when no inode is free, so that there is a bundle of a sector or
\* more for each: resize_inode_block, and the mount that follows it.
Grow(d) ==
    /\ Mounted(d)
    /\ MetadataSize(fs[d]) + fs[d].inode_max < fs[d].sector_count
    /\ fs[d].inode_block_size - Made(fs[d].sector_count,
                                     fs[d].sector_size).inode_block_size < MaxGrowth
    /\ image' = [image EXCEPT ![d].super = SuperWritten(d)]
    /\ fs' = [fs EXCEPT ![d] = Grown(@)]
    /\ SEC_BUFFER' = Grown(fs[d])
    /\ UNCHANGED <<disk, window, current, formatted>>

\* The buffer of the windows is used for a read.
fs_getfree(d) ==
    /\ Mounted(d)
    /\ window' = [window EXCEPT !.buffer = BufferOf(d, fs[d])]
    /\ UNCHANGED <<image, disk, fs, SEC_BUFFER, current, formatted>>

\* The process ends, at any time and when fs_mount divides by zero, and is
\* started again.
Restart ==
    /\ disk' = Fresh.disk /\ fs' = Fresh.fs /\ window' = Fresh.window
    /\ SEC_BUFFER' = Unformatted
    /\ current' = None
    /\ formatted' = Fresh.formatted
    /\ UNCHANGED image

Next ==
    \/ \E d \in Disks : \/ disk_fill(d) \/ disk_create(d)
                        \/ disk_initialize(d) \/ disk_shutdown(d)
                        \/ \E n \in Formats(d) : fs_mkfs(d, n) \/ FsMkfsFails(d, n)
                        \/ fs_mount(d) \/ Grow(d) \/ fs_getfree(d)
                        \/ \E n \in Names : fs_create(d, n) \/ fs_delete(d, n)
    \/ Restart

Spec == Init /\ [][Next]_vars

-----------------------------------------------------------------------------
(* Properties.                                                             *)

\* Type correctness; a file is open only if it exists, and a file system is
\* mounted only on an open one.
TypeOK ==
    /\ image \in [Disks -> Images \cup {None}]
    /\ disk \in [Disks -> Structs \cup {None}]
    /\ fs \in [Disks -> Superblock \cup {None}]
    /\ window \in [disk : Disks \cup {None}, buffer : SUBSET Names]
    /\ SEC_BUFFER \in Superblock \cup {Unformatted}
    /\ current \in Disks \cup {None}
    /\ formatted \subseteq Disks
    /\ \A d \in Disks : /\ fs[d] # None => Ready(d)
                        /\ Ready(d) => image[d] # None
                        /\ d \in formatted => disk[d] # None

\* A file system that fs_mount has read is the one on its disk: after another
\* disk went through the same SEC_BUFFER, after growth, after a new format.
MountedIsOnDisk ==
    \A d \in Disks : fs[d] # None => fs[d] = image[d].super

\* Every disk that was formatted has the tables for its own inodes, although
\* all of them go through the same buffer.
TablesBelongToDisk ==
    \A d \in formatted : image[d].table = image[d].inodes

\* The file system of a disk is laid out as FileSystem assumes, also after
\* growth, and is no larger than the disk if a sector is a block.
SuperblockFits ==
    \A d \in Disks :
      image[d] # None /\ image[d].super \notin {Empty, Unformatted} =>
        /\ LaidOut(image[d].super)
        /\ image[d].super.sector_size = BlockSize[d] =>
             image[d].super.sector_count * BlockSize[d] <= Size[d]
=============================================================================
