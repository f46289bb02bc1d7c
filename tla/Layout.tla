------------------------------- MODULE Layout -------------------------------
(***************************************************************************)
(* What fs_mkfs computes: where the parts of the file system lie on a disk *)
(* of sec_cnt sectors with sec_size bytes each, and how many inodes there  *)
(* are at first.  This is the struct FILE_SYSTEM without its pointers and  *)
(* buffer sizes, which is also the superblock.                             *)
(***************************************************************************)
EXTENDS Integers

CONSTANTS
    InodeSize,   \* sizeof(struct INODE)
    InodeCnt     \* INODE_CNT, the number of inodes that is asked for

ASSUME InodeAssumption == InodeSize \in Nat \ {0} /\ InodeCnt \in Nat

Superblock ==
    [sector_size : Nat, sector_count : Nat, alloc_table : Nat,
     alloc_table_size : Nat, inode_alloc_table : Nat,
     inode_alloc_table_size : Nat, inode_sec : Nat, inode_max : Nat,
     inode_block_size : Nat, inode_block : Nat]

div_up(dividend, divisor) == (dividend + divisor - 1) \div divisor

fil_cnt == IF InodeCnt < 8 THEN 8 ELSE InodeCnt

\* Mutant: the last part of the table gets no sector.
TableSizeDown(sec_cnt, sec_size) == sec_cnt \div (sec_size * 8)

\* Both tables have one bit for each sector.
TableSize(sec_cnt, sec_size) == div_up(sec_cnt, sec_size * 8)

\* The inodes of whole sectors only, at least one sector.
FirstInodes(inode_sec) ==
    IF fil_cnt < inode_sec THEN inode_sec ELSE fil_cnt - (fil_cnt % inode_sec)

Made(sec_cnt, sec_size) ==
    LET table     == TableSize(sec_cnt, sec_size)
        inode_sec == sec_size \div InodeSize
    IN [sector_size            |-> sec_size,
        sector_count           |-> sec_cnt,
        alloc_table            |-> 1,
        alloc_table_size       |-> table,
        inode_alloc_table      |-> 1 + table,
        inode_alloc_table_size |-> table,
        inode_sec              |-> inode_sec,
        inode_max              |-> FirstInodes(inode_sec),
        inode_block_size       |-> FirstInodes(inode_sec) \div inode_sec,
        inode_block            |-> 1 + 2 * table]

\* resize_inode_block
Grown(s) == [s EXCEPT !.inode_block_size = @ + 1,
                      !.inode_max = @ + s.inode_sec]

MetadataSize(s) == s.inode_block + s.inode_block_size

\* Otherwise the length of the part of the table that is cleared wraps around
\* and delete_seq_global fails.
HasRoom(s) == MetadataSize(s) <= s.sector_count

-----------------------------------------------------------------------------

\* The parts lie behind each other and on the disk, each table has a bit for
\* every sector and for every inode: what FileSystem assumes of its constants.
LaidOut(s) ==
    /\ s.alloc_table + s.alloc_table_size <= s.inode_alloc_table
    /\ s.inode_alloc_table + s.inode_alloc_table_size <= s.inode_block
    /\ HasRoom(s)
    /\ s.sector_count <= 8 * s.sector_size * s.alloc_table_size
    /\ s.inode_sec > 0 /\ s.inode_block_size > 0
    /\ s.inode_max = s.inode_sec * s.inode_block_size
    /\ s.inode_max <= 8 * s.sector_size * s.inode_alloc_table_size
=============================================================================
