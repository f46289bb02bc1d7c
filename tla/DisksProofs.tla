----------------------------- MODULE DisksProofs -----------------------------
(***************************************************************************)
(* Proofs about Disks for any number of disks of any size, with any number *)
(* of bundles: what is mounted is what is on the disk, and each disk has   *)
(* the tables of its own inodes, although all disks share one buffer and   *)
(* one pair of windows.  This needs an agent that is careful: it mounts    *)
(* what it has formatted, and uses the disk that it mounted last.          *)
(***************************************************************************)
EXTENDS Disks, TLAPS

\* The agent takes no liberties.
Careful == Careless = {}

\* What the numbers of a superblock have in common as long as the inode block
\* grows; LaidOut is part of it.
AsMade(s) ==
    /\ LaidOut(s)
    /\ s.sector_size >= InodeSize
    /\ s.inode_sec = s.sector_size \div InodeSize
    /\ s.inode_alloc_table_size = s.alloc_table_size

\* No file system has more sectors than its disk has blocks.
WithinDisk(d, s) ==
    s.sector_size = BlockSize[d] => s.sector_count * BlockSize[d] <= Size[d]

SuperblocksMade ==
    \A d \in Disks :
      image[d] # None /\ image[d].super \in Superblock =>
        AsMade(image[d].super) /\ WithinDisk(d, image[d].super)

\* A formatted disk can be read by fs_mount, and has its own tables.
FormattedReadable ==
    \A d \in formatted :
      /\ image[d] # None /\ image[d].super \in Superblock
      /\ disk[d].sector_block_mapping > 0
      /\ disk[d].sector_block_mapping * BlockSize[d] = image[d].super.sector_size
      /\ image[d].table = image[d].inodes

MountedFormatted ==
    \A d \in Disks : fs[d] # None => d \in formatted /\ fs[d] = image[d].super

\* The windows belong to the disk that was mounted last.
WindowIsCurrent ==
    current # None => /\ fs[current] # None
                      /\ window.disk = current
                      /\ window.buffer = image[current].table

DisksInv ==
    /\ TypeOK
    /\ SuperblocksMade
    /\ FormattedReadable
    /\ MountedFormatted
    /\ WindowIsCurrent

-----------------------------------------------------------------------------
(* What fs_mkfs and resize_inode_block compute.                            *)

\* Quotient and remainder.
LEMMA DivMod ==
    ASSUME NEW a \in Nat, NEW b \in Nat \ {0}
    PROVE  /\ a \div b \in Nat
           /\ a % b \in 0 .. (b - 1)
           /\ a = b * (a \div b) + (a % b)
  OBVIOUS

\* The inode block that fs_mkfs makes has one sector at least, its sectors
\* are full, and there are no more inodes than bits in a sector.
LEMMA FirstInodesFill ==
    ASSUME NEW n \in Nat, n >= InodeSize, 8 * n >= InodeCnt
    PROVE  LET q == n \div InodeSize
               k == FirstInodes(q) \div q IN
           /\ q \in Nat \ {0} /\ k \in Nat \ {0}
           /\ FirstInodes(q) \in Nat
           /\ FirstInodes(q) = q * k
           /\ FirstInodes(q) <= 8 * n
<1> DEFINE q == n \div InodeSize
           F == FirstInodes(q)
           k == F \div q
<1>1. q \in Nat \ {0} /\ q <= n
  <2>1. n = InodeSize * q + (n % InodeSize) /\ q \in Nat
        /\ n % InodeSize \in 0 .. (InodeSize - 1)
    BY DivMod, InodeAssumption
  <2>2. q # 0
    BY <2>1, InodeAssumption
  <2>3. q <= InodeSize * q
    BY <2>1, InodeAssumption
  <2> QED
    BY <2>1, <2>2, <2>3, InodeAssumption
<1>2. fil_cnt \in Nat \ {0} /\ fil_cnt <= 8 * n
  BY InodeAssumption DEF fil_cnt
<1> HIDE DEF q
<1>3. CASE fil_cnt < q
  <2>1. F = q /\ q = q * 1
    BY <1>1, <1>3 DEF FirstInodes
  <2>2. k = 1
    BY <1>1, <2>1
  <2> QED
    BY <1>1, <2>1, <2>2 DEF q
<1>4. CASE ~(fil_cnt < q)
  <2> DEFINE j == fil_cnt \div q
  <2>1. fil_cnt = q * j + (fil_cnt % q) /\ j \in Nat
        /\ fil_cnt % q \in 0 .. (q - 1)
    BY <1>1, <1>2, DivMod
  <2>2. F = q * j
    BY <1>1, <1>2, <1>4, <2>1 DEF FirstInodes
  <2> HIDE DEF j, F
  <2>3. k = j
    <3>1. \A x \in Nat : (q * x) \div q = x
      BY <1>1
    <3> QED
      BY <2>1, <2>2, <3>1
  <2>4. j # 0
    BY <1>1, <1>2, <1>4, <2>1
  <2>5. F \in Nat /\ F <= fil_cnt
    BY <1>1, <1>2, <2>1, <2>2
  <2> QED
    BY <1>1, <1>2, <2>1, <2>2, <2>3, <2>4, <2>5 DEF q, F
<1> QED
  BY <1>3, <1>4

\* fs_mkfs lays out a disk on which the superblock, the tables and the inode
\* block have room.
LEMMA MadeIsLaidOut ==
    ASSUME NEW c \in Nat, NEW n \in Nat, n >= InodeSize, 8 * n >= InodeCnt,
           HasRoom(Made(c, n))
    PROVE  Made(c, n) \in Superblock /\ AsMade(Made(c, n))
<1> DEFINE s == Made(c, n)
           t == TableSize(c, n)
           q == n \div InodeSize
           F == FirstInodes(q)
           k == F \div q
<1>1. /\ q \in Nat \ {0} /\ k \in Nat \ {0} /\ F \in Nat
      /\ F = q * k /\ F <= 8 * n
  BY FirstInodesFill
<1>2. n \in Nat \ {0}
  BY InodeAssumption
<1>3. t \in Nat /\ c <= 8 * n * t
  <2>1. n * 8 \in Nat \ {0} /\ c + n * 8 - 1 \in Nat
    BY <1>2
  <2>2. ASSUME NEW m \in Nat \ {0}
        PROVE  /\ (c + m - 1) \div m \in Nat
               /\ c <= m * ((c + m - 1) \div m)
    OBVIOUS
  <2>3. t \in Nat /\ c <= (n * 8) * t
    BY <2>1, <2>2 DEF TableSize, div_up
  <2> HIDE DEF t
  <2> QED
    BY <1>2, <2>3
<1> HIDE DEF t, q, F, k
<1>4. s = [sector_size |-> n, sector_count |-> c, alloc_table |-> 1,
           alloc_table_size |-> t, inode_alloc_table |-> 1 + t,
           inode_alloc_table_size |-> t, inode_sec |-> q, inode_max |-> F,
           inode_block_size |-> k, inode_block |-> 1 + 2 * t]
  BY DEF Made, t, q, F, k
<1> HIDE DEF s
<1>5. s \in Superblock
  BY <1>1, <1>3, <1>4 DEF Superblock
<1>6. HasRoom(s) /\ 1 + 2 * t + k <= c
  BY <1>4 DEF HasRoom, MetadataSize, s
<1>7. F <= 8 * n * t
  <2>1. t # 0
    BY <1>1, <1>3, <1>6
  <2>2. 8 * n <= 8 * n * t
    BY <1>2, <1>3, <2>1
  <2> QED
    BY <1>1, <1>2, <1>3, <2>2
<1>8. LaidOut(s)
  BY <1>1, <1>3, <1>4, <1>6, <1>7 DEF LaidOut
<1> QED
  BY <1>4, <1>5, <1>8 DEF AsMade, s, q

\* resize_inode_block keeps the layout, as long as there is a sector for the
\* bundle of each inode and one more.
LEMMA GrownIsLaidOut ==
    ASSUME NEW s \in Superblock, AsMade(s),
           MetadataSize(s) + s.inode_max < s.sector_count
    PROVE  Grown(s) \in Superblock /\ AsMade(Grown(s))
<1> DEFINE g == Grown(s)
           q == s.inode_sec
           b == s.inode_block_size
           T == 8 * s.sector_size * s.inode_alloc_table_size
           m == InodeSize * (8 * s.inode_alloc_table_size)
<1>1. /\ g.inode_block_size = b + 1 /\ g.inode_max = s.inode_max + q
      /\ g.sector_size = s.sector_size /\ g.sector_count = s.sector_count
      /\ g.alloc_table = s.alloc_table
      /\ g.alloc_table_size = s.alloc_table_size
      /\ g.inode_alloc_table = s.inode_alloc_table
      /\ g.inode_alloc_table_size = s.inode_alloc_table_size
      /\ g.inode_sec = q /\ g.inode_block = s.inode_block
      /\ g \in Superblock
  <2>1. /\ s.inode_block_size + 1 \in Nat
        /\ s.inode_max + s.inode_sec \in Nat
    BY DEF Superblock
  <2>2. ASSUME NEW x \in Nat, NEW y \in Nat
        PROVE  [s EXCEPT !.inode_block_size = x, !.inode_max = y] \in Superblock
    BY DEF Superblock
  <2>3. g \in Superblock
    BY <2>1, <2>2 DEF Grown
  <2> QED
    BY <2>3 DEF Grown, Superblock
<1>2. /\ q \in Nat \ {0} /\ b \in Nat \ {0} /\ s.inode_max = q * b
      /\ s.sector_size \in Nat \ {0} /\ s.inode_alloc_table_size \in Nat
      /\ s.inode_block \in Nat /\ s.sector_count \in Nat
      /\ s.sector_count <= T
  BY InodeAssumption DEF AsMade, LaidOut, Superblock
<1>3. q * b + b < T
  BY <1>2 DEF MetadataSize
<1>4. q * m <= T /\ T <= (q + 1) * m /\ m \in Nat
  <2> DEFINE e == 8 * s.inode_alloc_table_size
  <2>1. /\ InodeSize * q <= s.sector_size
        /\ s.sector_size <= InodeSize * (q + 1)
    <3>1. PICK r \in 0 .. (InodeSize - 1) : s.sector_size = InodeSize * q + r
      <4> DEFINE ss == s.sector_size
      <4>1. q = ss \div InodeSize /\ ss \in Nat
        BY <1>2 DEF AsMade
      <4> HIDE DEF ss, q
      <4>2. /\ ss = InodeSize * (ss \div InodeSize) + (ss % InodeSize)
            /\ ss % InodeSize \in 0 .. (InodeSize - 1)
        BY <4>1, DivMod, InodeAssumption
      <4> QED
        BY <4>1, <4>2 DEF ss
    <3> QED
      <4>1. InodeSize * (q + 1) = InodeSize * q + InodeSize
        BY <1>2, InodeAssumption
      <4>2. InodeSize * q \in Nat
        BY <1>2, InodeAssumption
      <4> QED
        BY <1>2, <3>1, <4>1, <4>2, InodeAssumption
  <2>2. e \in Nat /\ T = s.sector_size * e
    BY <1>2
  <2> HIDE DEF e, T
  <2>3. ASSUME NEW x \in Nat, NEW y \in Nat, x <= y
        PROVE  x * e <= y * e
    BY <2>2, <2>3
  <2>4. ASSUME NEW x \in Nat
        PROVE  (InodeSize * x) * e = x * (InodeSize * e)
    BY <2>2, InodeAssumption
  <2>5. /\ (InodeSize * q) * e <= T /\ T <= (InodeSize * (q + 1)) * e
    BY <1>2, <2>1, <2>2, <2>3, InodeAssumption
  <2>6. m = InodeSize * e /\ m \in Nat
    BY <2>2, InodeAssumption DEF e
  <2> HIDE DEF m
  <2> QED
    BY <1>2, <2>4, <2>5, <2>6
<1>5. g.inode_max = q * (b + 1) /\ q * (b + 1) <= T
  <2> HIDE DEF T, m
  <2>1. b < m
    <3>1. (q + 1) * b = q * b + b
      BY <1>2
    <3>2. m <= b => (q + 1) * m <= (q + 1) * b
      BY <1>2, <1>4
    <3>3. T \in Int
      BY <1>2 DEF T
    <3> QED
      BY <1>2, <1>3, <1>4, <3>1, <3>2, <3>3
  <2>2. q * (b + 1) <= q * m
    BY <1>2, <1>4, <2>1
  <2>3. q * (b + 1) = q * b + q
    BY <1>2
  <2>4. T \in Int
    BY <1>2 DEF T
  <2> QED
    BY <1>1, <1>2, <1>4, <2>2, <2>3, <2>4
<1>6. HasRoom(g)
  <2>1. q * b >= 1
    BY <1>2
  <2> QED
    BY <1>1, <1>2, <2>1 DEF HasRoom, MetadataSize
<1> HIDE DEF g
<1>7. LaidOut(g)
  BY <1>1, <1>2, <1>5, <1>6 DEF LaidOut, AsMade
<1> QED
  BY <1>1, <1>7 DEF AsMade, g

-----------------------------------------------------------------------------
(* The calls, one by one.                                                  *)

\* What fs_mkfs sets sector_block_mapping to: the blocks of a sector.
LEMMA MappingFits ==
    ASSUME NEW d \in Disks, NEW n \in Formats(d)
    PROVE  /\ n \in Nat /\ n >= InodeSize /\ 8 * n >= InodeCnt
           /\ n \div BlockSize[d] \in Nat
           /\ n \div BlockSize[d] > 0
           /\ (n \div BlockSize[d]) * BlockSize[d] = n
<1>1. n \in Nat /\ n >= InodeSize /\ 8 * n >= InodeCnt /\ n % BlockSize[d] = 0
  BY DisksAssumption DEF Formats
<1>2. BlockSize[d] \in Nat \ {0}
  BY DisksAssumption
<1>3. /\ n \div BlockSize[d] \in Nat
      /\ n = BlockSize[d] * (n \div BlockSize[d])
  BY <1>1, <1>2
<1> QED
  BY <1>1, <1>2, <1>3, InodeAssumption

\* The disk of the image is no smaller than its blocks.
LEMMA BlocksFit ==
    ASSUME NEW d \in Disks
    PROVE  block_count(d) \in Nat /\ block_count(d) * BlockSize[d] <= Size[d]
<1>1. Size[d] \in Nat /\ BlockSize[d] \in Nat \ {0}
  BY DisksAssumption
<1>2. ASSUME NEW a \in Nat, NEW b \in Nat \ {0}
      PROVE  a \div b \in Nat /\ (a \div b) * b <= a
  OBVIOUS
<1> QED
  BY <1>1, <1>2 DEF block_count

\* fs_mkfs that succeeds keeps the invariant.
LEMMA MkfsInv ==
    ASSUME DisksInv, NEW d \in Disks, NEW n \in Formats(d), fs_mkfs(d, n)
    PROVE  DisksInv'
<1> DEFINE s == Made(block_count(d), n)
<1>1. /\ Ready(d) /\ HasRoom(s) /\ SEC_BUFFER' = s
      /\ disk' = [disk EXCEPT ![d].sector_block_mapping = n \div BlockSize[d]]
      /\ image' = [image EXCEPT ![d] = Image(s, {}, {})]
      /\ window' = [window EXCEPT !.buffer = {}]
      /\ formatted' = formatted \cup {d}
      /\ fs' = [fs EXCEPT ![d] = None] /\ current' = None
  BY DEF fs_mkfs, SetMapping, Forget
<1>2. /\ n \in Nat /\ n >= InodeSize /\ 8 * n >= InodeCnt
      /\ n \div BlockSize[d] \in Nat /\ n \div BlockSize[d] > 0
      /\ (n \div BlockSize[d]) * BlockSize[d] = n
  BY MappingFits
<1>3. s \in Superblock /\ AsMade(s)
  BY <1>1, <1>2, BlocksFit, MadeIsLaidOut
<1>4. s.sector_size = n /\ WithinDisk(d, s)
  BY BlocksFit DEF Made, WithinDisk
<1> HIDE DEF s
<1>5. Image(s, {}, {}) \in Images
  BY <1>3 DEF Image, Images
<1>6. /\ image' \in [Disks -> Images \cup {None}]
      /\ image'[d] = Image(s, {}, {}) /\ image'[d] # None
      /\ \A e \in Disks \ {d} : image'[e] = image[e]
  BY <1>1, <1>5, MarksAssumption DEF DisksInv, TypeOK
<1>7. /\ disk' \in [Disks -> Structs \cup {None}]
      /\ disk'[d].sector_block_mapping = n \div BlockSize[d]
      /\ disk'[d].status = "STA_READY" /\ disk'[d] # None
      /\ \A e \in Disks \ {d} : disk'[e] = disk[e]
  BY <1>1, <1>2, MarksAssumption DEF DisksInv, TypeOK, Ready, Structs
<1>8. /\ fs' \in [Disks -> Superblock \cup {None}] /\ fs'[d] = None
      /\ \A e \in Disks \ {d} : fs'[e] = fs[e]
  BY <1>1 DEF DisksInv, TypeOK
<1>9. TypeOK'
  <2>1. window' \in [disk : Disks \cup {None}, buffer : SUBSET Names]
    BY <1>1 DEF DisksInv, TypeOK
  <2>2. formatted' \subseteq Disks
    BY <1>1 DEF DisksInv, TypeOK
  <2> QED
    BY <1>1, <1>3, <1>6, <1>7, <1>8, <2>1, <2>2 DEF DisksInv, TypeOK, Ready
<1>10. SuperblocksMade'
  BY <1>3, <1>4, <1>6 DEF DisksInv, SuperblocksMade, Image
<1>11. FormattedReadable'
  BY <1>1, <1>2, <1>3, <1>4, <1>6, <1>7
  DEF DisksInv, TypeOK, FormattedReadable, Image
<1>12. MountedFormatted' /\ WindowIsCurrent'
  BY <1>1, <1>6, <1>8 DEF DisksInv, MountedFormatted, WindowIsCurrent
<1> QED
  BY <1>9, <1>10, <1>11, <1>12 DEF DisksInv

\* So does fs_mkfs that fails after it has changed the tables and the mapping.
LEMMA MkfsFailsInv ==
    ASSUME DisksInv, NEW d \in Disks, NEW n \in Formats(d), FsMkfsFails(d, n)
    PROVE  DisksInv'
<1> DEFINE s == IF image[d].super = Empty THEN Unformatted ELSE image[d].super
           i == Image(s, Names, {})
<1>1. /\ Ready(d) /\ SEC_BUFFER' = Unformatted
      /\ disk' = [disk EXCEPT ![d].sector_block_mapping = n \div BlockSize[d]]
      /\ image' = [image EXCEPT ![d] = i]
      /\ window' = [window EXCEPT !.buffer = {}]
      /\ formatted' = formatted \ {d}
      /\ fs' = [fs EXCEPT ![d] = None] /\ current' = None
  <2>1. /\ FsMkfsFails(d, n)
        /\ image \in [Disks -> Images \cup {None}]
    BY DEF DisksInv, TypeOK
  <2> QED
    BY <2>1 DEF FsMkfsFails, SetMapping, Forget
<1>2. n \div BlockSize[d] \in Nat
  BY MappingFits
<1>3. image[d] # None /\ image[d] \in Images
  BY <1>1 DEF DisksInv, TypeOK
<1>4. /\ i \in Images /\ i.super = s
      /\ i.super \in Superblock => i.super = image[d].super
  BY <1>3, MarksAssumption DEF Image, Images
<1> HIDE DEF i, s
<1>5. /\ image' \in [Disks -> Images \cup {None}]
      /\ image'[d] = i /\ image'[d] # None
      /\ \A e \in Disks \ {d} : image'[e] = image[e]
  BY <1>1, <1>4, MarksAssumption DEF DisksInv, TypeOK
<1>6. /\ disk' \in [Disks -> Structs \cup {None}]
      /\ disk'[d].status = "STA_READY" /\ disk'[d] # None
      /\ \A e \in Disks \ {d} : disk'[e] = disk[e]
  BY <1>1, <1>2, MarksAssumption DEF DisksInv, TypeOK, Ready, Structs
<1>7. /\ fs' \in [Disks -> Superblock \cup {None}] /\ fs'[d] = None
      /\ \A e \in Disks \ {d} : fs'[e] = fs[e]
  BY <1>1 DEF DisksInv, TypeOK
<1>8. TypeOK'
  <2>1. window' \in [disk : Disks \cup {None}, buffer : SUBSET Names]
    BY <1>1 DEF DisksInv, TypeOK
  <2> QED
    BY <1>1, <1>5, <1>6, <1>7, <2>1 DEF DisksInv, TypeOK, Ready
<1>9. SuperblocksMade'
  BY <1>3, <1>4, <1>5 DEF DisksInv, SuperblocksMade
<1>10. FormattedReadable' /\ MountedFormatted' /\ WindowIsCurrent'
  BY <1>1, <1>5, <1>6, <1>7
  DEF DisksInv, TypeOK, FormattedReadable, MountedFormatted, WindowIsCurrent
<1> QED
  BY <1>8, <1>9, <1>10 DEF DisksInv

\* disk.c and disk_interface.c: the mapping and the image of a formatted disk
\* are not touched.
LEMMA DiskCallsInv ==
    ASSUME DisksInv, NEW d \in Disks,
           \/ disk_fill(d) \/ disk_create(d)
           \/ disk_initialize(d) \/ disk_shutdown(d)
    PROVE  DisksInv'
<1>1. CASE disk_fill(d)
  <2>1. PICK n \in Garbage :
          disk' = [disk EXCEPT ![d] = [status |-> "STA_NOINIT",
                                       sector_block_mapping |-> n]]
    BY <1>1 DEF disk_fill
  <2>2. /\ disk[d] = None /\ d \notin formatted
        /\ UNCHANGED <<image, fs, window, SEC_BUFFER, current, formatted>>
    BY <1>1 DEF disk_fill, DisksInv, TypeOK
  <2>3. /\ disk' \in [Disks -> Structs \cup {None}]
        /\ \A e \in Disks \ {d} : disk'[e] = disk[e]
        /\ disk'[d].status = "STA_NOINIT" /\ fs[d] = None
    BY <2>1, <2>2, DisksAssumption DEF DisksInv, TypeOK, Structs, Ready
  <2>4. TypeOK'
    BY <2>2, <2>3 DEF DisksInv, TypeOK, Ready
  <2> QED
    BY <2>2, <2>3, <2>4
    DEF DisksInv, TypeOK, SuperblocksMade, FormattedReadable, MountedFormatted,
        WindowIsCurrent
<1>2. CASE disk_create(d)
  <2> DEFINE i == Image(Empty, {}, {})
  <2>1. /\ ~Ready(d) /\ fs[d] = None
        /\ image' = [image EXCEPT ![d] = i]
        /\ formatted' = formatted \ {d}
        /\ UNCHANGED <<disk, fs, window, SEC_BUFFER, current>>
    BY <1>2 DEF disk_create
  <2>2. i \in Images /\ i.super \notin Superblock
    BY MarksAssumption DEF Image, Images
  <2> HIDE DEF i
  <2>3. /\ image' \in [Disks -> Images \cup {None}] /\ image'[d] = i
        /\ \A e \in Disks \ {d} : image'[e] = image[e]
    BY <2>1, <2>2 DEF DisksInv, TypeOK
  <2>4. TypeOK'
    BY <2>1, <2>3 DEF DisksInv, TypeOK, Ready
  <2>5. current # d /\ (current # None => current \in Disks \ {d})
    BY <2>1, MarksAssumption DEF DisksInv, TypeOK, WindowIsCurrent
  <2> QED
    BY <2>1, <2>2, <2>3, <2>4, <2>5
    DEF DisksInv, TypeOK, SuperblocksMade, FormattedReadable, MountedFormatted,
        WindowIsCurrent
<1>3. CASE disk_initialize(d)
  <2>1. /\ disk[d] # None /\ ~Ready(d)
        /\ disk' = [disk EXCEPT ![d].status = IF image[d] = None
                                               THEN "STA_NOINIT"
                                               ELSE "STA_READY"]
        /\ UNCHANGED <<image, fs, window, SEC_BUFFER, current, formatted>>
    BY <1>3 DEF disk_initialize
  <2>2. /\ disk' \in [Disks -> Structs \cup {None}] /\ disk'[d] # None
        /\ disk'[d].sector_block_mapping = disk[d].sector_block_mapping
        /\ disk'[d].status = "STA_READY" => image[d] # None
        /\ \A e \in Disks \ {d} : disk'[e] = disk[e]
    BY <2>1, MarksAssumption DEF DisksInv, TypeOK, Structs
  <2>3. TypeOK'
    BY <2>1, <2>2 DEF DisksInv, TypeOK, Ready
  <2> QED
    BY <2>1, <2>2, <2>3
    DEF DisksInv, TypeOK, SuperblocksMade, FormattedReadable, MountedFormatted,
        WindowIsCurrent
<1>4. CASE disk_shutdown(d)
  <2>1. /\ Ready(d)
        /\ disk' = [disk EXCEPT ![d].status = "STA_NOINIT"]
        /\ fs' = [fs EXCEPT ![d] = None]
        /\ current' = IF current = d THEN None ELSE current
        /\ UNCHANGED <<image, window, SEC_BUFFER, formatted>>
    BY <1>4 DEF disk_shutdown
  <2>2. /\ disk' \in [Disks -> Structs \cup {None}] /\ disk'[d] # None
        /\ disk'[d].sector_block_mapping = disk[d].sector_block_mapping
        /\ disk'[d].status # "STA_READY"
        /\ \A e \in Disks \ {d} : disk'[e] = disk[e]
    BY <2>1, MarksAssumption DEF DisksInv, TypeOK, Structs, Ready
  <2>3. /\ fs' \in [Disks -> Superblock \cup {None}] /\ fs'[d] = None
        /\ \A e \in Disks \ {d} : fs'[e] = fs[e]
    BY <2>1 DEF DisksInv, TypeOK
  <2>4. TypeOK'
    BY <2>1, <2>2, <2>3 DEF DisksInv, TypeOK, Ready
  <2>5. current' # None => current' = current /\ current \in Disks \ {d}
    BY <2>1 DEF DisksInv, TypeOK
  <2> QED
    BY <2>1, <2>2, <2>3, <2>4, <2>5
    DEF DisksInv, TypeOK, SuperblocksMade, FormattedReadable, MountedFormatted,
        WindowIsCurrent
<1> QED
  BY <1>1, <1>2, <1>3, <1>4

\* fs_mount of a disk that was formatted reads its superblock and its tables.
LEMMA MountInv ==
    ASSUME Careful, DisksInv, NEW d \in Disks, fs_mount(d)
    PROVE  DisksInv'
<1> DEFINE s == image[d].super
<1>1. Ready(d) /\ d \in formatted
  BY DEF fs_mount, Careful
<1>2. /\ s \in Superblock /\ image[d] # None
      /\ disk[d].sector_block_mapping > 0
      /\ disk[d].sector_block_mapping * BlockSize[d] = s.sector_size
  BY <1>1 DEF DisksInv, FormattedReadable
<1>3. ~ReadsNothing(d) /\ s # Unformatted
  <2>1. disk[d] # None /\ disk[d] \in Structs
    BY <1>1 DEF DisksInv, TypeOK
  <2> QED
    BY <1>2, <2>1, MarksAssumption DEF ReadsNothing, Structs
<1>4. /\ SEC_BUFFER' = s /\ fs' = [fs EXCEPT ![d] = s]
      /\ window' = [disk |-> d, buffer |-> image[d].table]
      /\ current' = d /\ UNCHANGED <<image, disk, formatted>>
  BY <1>2, <1>3 DEF fs_mount, BufferOf
<1> HIDE DEF s
<1>5. /\ fs' \in [Disks -> Superblock \cup {None}] /\ fs'[d] = s
      /\ \A e \in Disks \ {d} : fs'[e] = fs[e]
  BY <1>2, <1>4 DEF DisksInv, TypeOK
<1>6. image[d].table \in SUBSET Names
  BY <1>2 DEF DisksInv, TypeOK, Images
<1>7. TypeOK'
  BY <1>1, <1>2, <1>4, <1>5, <1>6 DEF DisksInv, TypeOK, Ready
<1>8. SuperblocksMade' /\ FormattedReadable'
  BY <1>4 DEF DisksInv, SuperblocksMade, FormattedReadable
<1>9. MountedFormatted'
  BY <1>1, <1>4, <1>5 DEF DisksInv, MountedFormatted, s
<1>10. WindowIsCurrent'
  BY <1>2, <1>4, <1>5, MarksAssumption DEF WindowIsCurrent
<1> QED
  BY <1>7, <1>8, <1>9, <1>10 DEF DisksInv

\* A careful agent uses the file system that the windows belong to.
LEMMA MountedIsCurrent ==
    ASSUME Careful, DisksInv, NEW d \in Disks, Mounted(d)
    PROVE  /\ current = d /\ window.disk = d /\ d \in formatted
           /\ window.buffer = image[d].table
           /\ image[d].table = image[d].inodes
           /\ image[d] # None /\ image[d] \in Images
           /\ fs[d] = image[d].super /\ fs[d] \in Superblock
<1>1. current = d /\ fs[d] # None
  BY DEF Mounted, Careful
<1>2. window.disk = d /\ window.buffer = image[d].table
  BY <1>1, MarksAssumption DEF DisksInv, WindowIsCurrent
<1>3. d \in formatted /\ fs[d] = image[d].super
  BY <1>1 DEF DisksInv, MountedFormatted
<1> QED
  BY <1>1, <1>2, <1>3 DEF DisksInv, TypeOK, FormattedReadable

\* fs_create and fs_delete save the window to the disk that has the inode.
LEMMA SaveInv ==
    ASSUME Careful, DisksInv, NEW d \in Disks, Mounted(d),
           NEW t \in SUBSET Names,
           image' = Save(image, d, t, t),
           window' = [window EXCEPT !.buffer = t],
           UNCHANGED <<disk, fs, SEC_BUFFER, current, formatted>>
    PROVE  DisksInv'
<1>1. /\ current = d /\ window.disk = d /\ d \in formatted
      /\ image[d] # None /\ image[d] \in Images
  BY MountedIsCurrent
<1>2. image' = [image EXCEPT ![d] = [@ EXCEPT !.table = t, !.inodes = t]]
  <2>1. image' = [image EXCEPT ![d].table = t, ![d].inodes = t]
    BY <1>1 DEF Save
  <2>2. image \in [Disks -> Images \cup {None}]
    BY DEF DisksInv, TypeOK
  <2> QED
    BY <1>1, <2>1, <2>2 DEF Images
<1>3. /\ image' \in [Disks -> Images \cup {None}] /\ image'[d] # None
      /\ image'[d].super = image[d].super
      /\ image'[d].table = t /\ image'[d].inodes = t
      /\ \A e \in Disks \ {d} : image'[e] = image[e]
  <2>1. LET i == [image[d] EXCEPT !.table = t, !.inodes = t] IN
        /\ i \in Images /\ i.super = image[d].super
        /\ i.table = t /\ i.inodes = t
    BY <1>1 DEF Images
  <2> QED
    BY <1>2, <2>1, MarksAssumption DEF DisksInv, TypeOK
<1>4. /\ window' \in [disk : Disks \cup {None}, buffer : SUBSET Names]
      /\ window'.disk = d /\ window'.buffer = t
  BY <1>1 DEF DisksInv, TypeOK
<1>5. TypeOK'
  BY <1>3, <1>4 DEF DisksInv, TypeOK, Ready
<1>6. SuperblocksMade' /\ FormattedReadable' /\ MountedFormatted'
  BY <1>1, <1>3
  DEF DisksInv, TypeOK, SuperblocksMade, FormattedReadable, MountedFormatted
<1>7. WindowIsCurrent'
  BY <1>1, <1>3, <1>4 DEF DisksInv, WindowIsCurrent
<1> QED
  BY <1>5, <1>6, <1>7 DEF DisksInv

\* So does the growth of the inode block with the mount that follows it.
LEMMA GrowInv ==
    ASSUME Careful, DisksInv, NEW d \in Disks, Grow(d)
    PROVE  DisksInv'
<1> DEFINE s == fs[d]
           g == Grown(s)
<1>1. /\ Mounted(d) /\ MetadataSize(s) + s.inode_max < s.sector_count
      /\ image' = [image EXCEPT ![d].super = g]
      /\ fs' = [fs EXCEPT ![d] = g] /\ SEC_BUFFER' = g
      /\ UNCHANGED <<disk, window, current, formatted>>
  <2>1. fs \in [Disks -> Superblock \cup {None}]
    BY DEF DisksInv, TypeOK
  <2> QED
    BY <2>1 DEF Grow, SuperWritten
<1>2. /\ current = d /\ d \in formatted
      /\ image[d] # None /\ image[d] \in Images
      /\ s = image[d].super /\ s \in Superblock
  BY <1>1, MountedIsCurrent
<1>3. AsMade(s) /\ WithinDisk(d, s)
  BY <1>2 DEF DisksInv, SuperblocksMade
<1>4. g \in Superblock /\ AsMade(g)
  BY <1>1, <1>2, <1>3, GrownIsLaidOut
<1>5. /\ g.sector_size = s.sector_size /\ g.sector_count = s.sector_count
      /\ WithinDisk(d, g)
  BY <1>2, <1>3 DEF Grown, Superblock, WithinDisk
<1> HIDE DEF g, s
<1>6. /\ image' \in [Disks -> Images \cup {None}] /\ image'[d] # None
      /\ image'[d].super = g
      /\ image'[d].table = image[d].table /\ image'[d].inodes = image[d].inodes
      /\ \A e \in Disks \ {d} : image'[e] = image[e]
  <2>1. LET i == [image[d] EXCEPT !.super = g] IN
        /\ i \in Images /\ i.super = g
        /\ i.table = image[d].table /\ i.inodes = image[d].inodes
    BY <1>2, <1>4 DEF Images
  <2> QED
    BY <1>1, <2>1, MarksAssumption DEF DisksInv, TypeOK
<1>7. /\ fs' \in [Disks -> Superblock \cup {None}] /\ fs'[d] = g
      /\ \A e \in Disks \ {d} : fs'[e] = fs[e]
  BY <1>1, <1>4 DEF DisksInv, TypeOK
<1>8. TypeOK'
  <2>1. fs[d] # None
    BY <1>1 DEF Mounted
  <2> QED
    BY <1>1, <1>4, <1>6, <1>7, <2>1 DEF DisksInv, TypeOK, Ready
<1>9. SuperblocksMade'
  BY <1>4, <1>5, <1>6 DEF DisksInv, SuperblocksMade
<1>10. FormattedReadable' /\ MountedFormatted'
  BY <1>1, <1>2, <1>4, <1>5, <1>6, <1>7
  DEF DisksInv, TypeOK, FormattedReadable, MountedFormatted
<1>11. WindowIsCurrent'
  BY <1>1, <1>2, <1>4, <1>6, <1>7, MarksAssumption
  DEF DisksInv, WindowIsCurrent
<1> QED
  BY <1>8, <1>9, <1>10, <1>11 DEF DisksInv

-----------------------------------------------------------------------------
(* The inductive invariant and the theorems.                               *)

\* No image exists and nothing is mounted at first.
LEMMA DisksInitInv == Init => DisksInv
<1> SUFFICES ASSUME Init PROVE DisksInv
  OBVIOUS
<1>1. TypeOK
  BY DEF Init, Fresh, TypeOK, Ready
<1> QED
  BY <1>1
  DEF Init, Fresh, DisksInv, SuperblocksMade, FormattedReadable,
      MountedFormatted, WindowIsCurrent

\* Every call and a restart of the process keep the invariant.
LEMMA DisksNextInv ==
    ASSUME Careful, DisksInv, [Next]_vars
    PROVE  DisksInv'
<1>1. ASSUME NEW d \in Disks, NEW n \in Names,
             fs_create(d, n) \/ fs_delete(d, n)
      PROVE  DisksInv'
  <2> DEFINE t == IF fs_create(d, n) THEN image[d].table \cup {n}
                                     ELSE image[d].table \ {n}
  <2>1. Mounted(d)
    BY <1>1 DEF fs_create, fs_delete
  <2>2. /\ window.buffer = image[d].table
        /\ image[d].table = image[d].inodes /\ image[d] \in Images
    BY <2>1, MountedIsCurrent
  <2>3. t \in SUBSET Names
    BY <2>2 DEF Images
  <2>4. /\ image' = Save(image, d, t, t)
        /\ window' = [window EXCEPT !.buffer = t]
        /\ UNCHANGED <<disk, fs, SEC_BUFFER, current, formatted>>
    <3>1. window' = [window EXCEPT !.buffer = t]
      BY <1>1, <2>2 DEF fs_create, fs_delete, DisksInv, TypeOK
    <3>2. image' = Save(image, d, t, t)
      BY <1>1, <2>2 DEF fs_create, fs_delete
    <3> QED
      BY <1>1, <3>1, <3>2 DEF fs_create, fs_delete
  <2> HIDE DEF t
  <2> QED
    BY <2>1, <2>3, <2>4, SaveInv
<1>2. ASSUME NEW d \in Disks, fs_getfree(d)
      PROVE  DisksInv'
  <2>1. /\ current = d /\ d \in formatted /\ window.buffer = image[d].table
        /\ fs[d] = image[d].super /\ fs[d] \in Superblock
    BY <1>2, MountedIsCurrent DEF fs_getfree
  <2>2. BufferOf(d, fs[d]) = window.buffer
    BY <2>1, MarksAssumption DEF BufferOf, DisksInv, FormattedReadable
  <2>3. UNCHANGED vars
    BY <1>2, <2>2 DEF fs_getfree, vars, DisksInv, TypeOK
  <2> QED
    BY <2>3
    DEF vars, DisksInv, TypeOK, Ready, SuperblocksMade, FormattedReadable,
        MountedFormatted, WindowIsCurrent
<1>3. CASE Restart
  <2>1. TypeOK'
    BY <1>3 DEF Restart, Fresh, DisksInv, TypeOK, Ready
  <2> QED
    BY <1>3, <2>1
    DEF Restart, Fresh, DisksInv, SuperblocksMade, FormattedReadable,
        MountedFormatted, WindowIsCurrent
<1>4. CASE UNCHANGED vars
  BY <1>4
  DEF vars, DisksInv, TypeOK, Ready, SuperblocksMade, FormattedReadable,
      MountedFormatted, WindowIsCurrent
<1> QED
  BY <1>1, <1>2, <1>3, <1>4, DiskCallsInv, MkfsInv, MkfsFailsInv, MountInv,
     GrowInv
  DEF Next

\* The invariant holds whatever a careful agent does with its disks.
THEOREM DisksInvariance == ASSUME Careful PROVE Spec => []DisksInv
  BY DisksInitInv, DisksNextInv, PTL DEF Spec

\* Values keep their types; only what exists is open, and only what is open
\* is mounted.
THEOREM DisksTypeCorrectness == ASSUME Careful PROVE Spec => []TypeOK
<1>1. DisksInv => TypeOK
  BY DEF DisksInv
<1> QED
  BY <1>1, DisksInvariance, PTL

\* The superblock that fs_mount returned stays the one on the disk, whatever
\* other disks do with SEC_BUFFER and however often the inode block grows.
THEOREM MountedStaysOnDisk == ASSUME Careful PROVE Spec => []MountedIsOnDisk
<1>1. DisksInv => MountedIsOnDisk
  BY DEF DisksInv, MountedFormatted, MountedIsOnDisk
<1> QED
  BY <1>1, DisksInvariance, PTL

\* No disk is given the tables of another one through the shared windows.
THEOREM TablesStayWithDisk == ASSUME Careful PROVE Spec => []TablesBelongToDisk
<1>1. DisksInv => TablesBelongToDisk
  BY DEF DisksInv, FormattedReadable, TablesBelongToDisk
<1> QED
  BY <1>1, DisksInvariance, PTL

\* Every superblock on a disk is laid out as FileSystem assumes, for every
\* disk size and sector size and after any growth.
THEOREM SuperblocksFit == ASSUME Careful PROVE Spec => []SuperblockFits
<1>1. DisksInv => SuperblockFits
  <2> SUFFICES ASSUME DisksInv, NEW d \in Disks, image[d] # None,
                      image[d].super \notin {Empty, Unformatted}
               PROVE  LaidOut(image[d].super) /\ WithinDisk(d, image[d].super)
    BY DEF SuperblockFits, WithinDisk
  <2>1. image[d].super \in Superblock
    BY DEF DisksInv, TypeOK, Images
  <2> QED
    BY <2>1 DEF DisksInv, SuperblocksMade, AsMade
<1> QED
  BY <1>1, DisksInvariance, PTL
=============================================================================
