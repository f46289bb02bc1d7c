-------------------------- MODULE FileSystemProofs --------------------------
(***************************************************************************)
(* Proofs about FileSystem for every disk size, inode block, set of        *)
(* bundles and clock: the allocation table is exact in every reachable     *)
(* state.  The argument is one inductive invariant, Consistent, which each *)
(* step of a call preserves; the lemmas follow the helpers of FileSystem.  *)
(***************************************************************************)
EXTENDS FileSystem, FiniteSetTheorems, WellFoundedInduction, TLAPS

\* The sectors before the metadata, as bits.
DataBits(d) == 0 .. (SectorCount - MetadataSize(d) - 1)

LiveInodesNamed(d) ==
    \A n \in Live(d) : d.inodes[n] \in Inode /\ d.inodes[n].inode_offset = n

\* Bundles lie in front of the metadata, and apart from one another.
BundlesApart(d) ==
    /\ \A n \in Live(d) : Bits(d.inodes[n]) \subseteq DataBits(d)
    /\ \A m, n \in Live(d) :
         m # n => Bits(d.inodes[m]) \cap Bits(d.inodes[n]) = {}

\* The table is exactly the sectors that are owned.
TableExact(d) == d.at = Metadata(d) \cup LiveBits(d)

\* No inode can be placed outside the inode block.
InodeBlockClosed(d) == InodeMax(d) .. (InodeTableBits - 1) \subseteq d.it

MetadataInside(d) ==
    /\ d.inode_block_size >= InitInodeBlockSize
    /\ MetadataSize(d) <= SectorCount

Consistent(d) ==
    /\ d \in FileSystem
    /\ LiveInodesNamed(d)
    /\ BundlesApart(d)
    /\ TableExact(d)
    /\ InodeBlockClosed(d)
    /\ MetadataInside(d)

\* The disks on which restore_fs clears every bit that is not metadata.
RestoreAligned ==
    8 * (SectorCount \div 8) >= SectorCount - (InodeBlock + InitInodeBlockSize)

-----------------------------------------------------------------------------
(* Arithmetic and tables.                                                  *)

\* div_up of a positive size is a positive number of sectors.
LEMMA SectorsPositive ==
    ASSUME NEW size \in Nat \ {0}
    PROVE  Sectors(size) \in Nat \ {0}
  BY BundleAssumption DEF Sectors

\* A larger bundle has at least as many sectors.
LEMMA SectorsMonotone ==
    ASSUME NEW a \in Nat \ {0}, NEW b \in Nat \ {0}, a <= b
    PROVE  Sectors(a) <= Sectors(b)
  BY BundleAssumption DEF Sectors

\* A nonempty set of natural numbers has a least element: the initial segments
\* 0 .. x of its elements are finite sets, and strict inclusion of finite sets
\* is well-founded.
LEMMA LeastInSet ==
    ASSUME NEW S \in SUBSET Nat, S # {}
    PROVE  Least(S) \in S /\ \A j \in S : Least(S) <= j
<1> DEFINE Segments == {0 .. x : x \in S}
<1>1. Segments \subseteq FiniteSubsetsOf(Nat) /\ Segments # {}
  <2>1. \A x \in S : 0 .. x \in SUBSET Nat
    OBVIOUS
  <2>2. \A x \in S : 0 .. x \in FiniteSubsetsOf(Nat)
    <3>1. \A x \in S : IsFiniteSet(0 .. x)
      BY FS_Interval
    <3> QED
      BY <2>1, <3>1, Zenon DEF FiniteSubsetsOf
  <2>3. Segments \subseteq FiniteSubsetsOf(Nat)
    BY <2>2, Zenon
  <2>4. Segments # {}
    BY Zenon
  <2> QED
    BY <2>3, <2>4
<1>2. PICK s \in Segments :
        \A t \in Segments : <<t, s>> \notin StrictSubsetOrdering(Nat)
  <2> HIDE DEF Segments
  <2> QED
    BY <1>1, FS_StrictSubsetOrderingWellFounded, WFMin
<1>3. PICK x \in S : s = 0 .. x
  BY <1>2
<1>4. ASSUME NEW y \in S PROVE x <= y
  <2>1. <<0 .. y, 0 .. x>> \notin StrictSubsetOrdering(Nat)
    BY <1>2, <1>3, Zenon
  <2>2. 0 .. y \in SUBSET Nat /\ 0 .. x \in SUBSET Nat
    OBVIOUS
  <2>3. ~ (0 .. y \subseteq 0 .. x /\ 0 .. y # 0 .. x)
    BY <2>1, <2>2 DEF StrictSubsetOrdering
  <2>4. y < x => 0 .. y \subseteq 0 .. x /\ 0 .. y # 0 .. x
    OBVIOUS
  <2> QED
    BY <2>3, <2>4
<1> QED
  BY <1>4 DEF Least

\* First fit returns a free sequence that lies in the table.
LEMMA FindSeqIsFree ==
    ASSUME NEW table, NEW size \in Nat, NEW n \in Nat, HasSeq(table, size, n)
    PROVE  /\ FindSeq(table, size, n) \in 0 .. (size - n)
           /\ CheckSeq(table, FindSeq(table, size, n), n)
<1>1. FreeStarts(table, size, n) \in SUBSET Nat
  BY DEF FreeStarts
<1>2. FindSeq(table, size, n) \in FreeStarts(table, size, n)
  BY <1>1, LeastInSet DEF FindSeq, HasSeq
<1> QED
  BY <1>2 DEF FreeStarts

-----------------------------------------------------------------------------
(* Each helper preserves Consistent.                                       *)

\* The bits of a bundle are the sequence that fs_delete clears.
LEMMA MetadataAndData ==
    ASSUME NEW d, Consistent(d)
    PROVE  /\ InodeMax(d) \in Nat
           /\ MetadataSize(d) \in Nat
           /\ Metadata(d) \cap DataBits(d) = {}
           /\ Metadata(d) \cup DataBits(d) = 0 .. (SectorCount - 1)
  BY LayoutAssumption
  DEF Consistent, MetadataInside, FileSystem, InodeMax, MetadataSize,
      Metadata, DataBits, Run

\* resize_inode_block takes a sector that no bundle has.
LEMMA GrownConsistent ==
    ASSUME NEW d, Consistent(d), CanGrow(d)
    PROVE  /\ Consistent(Grown(d))
           /\ Live(Grown(d)) = Live(d)
           /\ Grown(d).inodes = d.inodes
<1> DEFINE e == Grown(d)
           g == GrowthBit(d)
<1>1. /\ e.at = d.at \cup {g}
      /\ e.it = d.it \ Run(InodeMax(d), InodeSec)
      /\ e.inodes = d.inodes
      /\ e.inode_block_size = d.inode_block_size + 1
      /\ g \in 0 .. (SectorCount - 1)
      /\ g \notin d.at
      /\ e \in FileSystem
  <2>1. g \in 0 .. (SectorCount - 1) /\ Run(g, 1) = {g}
    BY MetadataAndData, LayoutAssumption DEF CanGrow, GrowthBit, Run
  <2>2. g \notin d.at
    BY <2>1 DEF CanGrow, CheckSeq
  <2>3. /\ e.at = d.at \cup {g}
        /\ e.it = d.it \ Run(InodeMax(d), InodeSec)
        /\ e.inodes = d.inodes
        /\ e.inode_block_size = d.inode_block_size + 1
    BY <2>1 DEF Consistent, FileSystem, Grown, WriteSeq, DeleteSeq
  <2>4. e \in FileSystem
    <3>1. ASSUME NEW a \in SUBSET (0 .. (SectorCount - 1)),
                 NEW t \in SUBSET InodeNumbers, NEW k \in Nat
          PROVE  [d EXCEPT !.at = a, !.it = t, !.inode_block_size = k]
                   \in FileSystem
      BY DEF Consistent, FileSystem
    <3>2. /\ d.at \cup {g} \in SUBSET (0 .. (SectorCount - 1))
          /\ d.it \ Run(InodeMax(d), InodeSec) \in SUBSET InodeNumbers
          /\ d.inode_block_size + 1 \in Nat
      BY <2>1 DEF Consistent, FileSystem
    <3> QED
      BY <2>1, <3>1, <3>2, Zenon DEF Grown, WriteSeq, DeleteSeq
  <2> QED
    BY <2>1, <2>2, <2>3, <2>4
<1>2. InodeMax(e) = InodeMax(d) + InodeSec /\ InodeMax(d) \in Nat
  BY <1>1, LayoutAssumption DEF InodeMax, Consistent, FileSystem
<1>3. Live(e) = Live(d)
  <2> d.it \subseteq Int
    BY DEF Consistent, FileSystem, InodeNumbers
  <2> QED
    BY <1>1, <1>2, LayoutAssumption DEF Live, Run
<1>4. MetadataSize(e) = MetadataSize(d) + 1 /\ MetadataSize(d) \in Nat
  BY <1>1, LayoutAssumption DEF MetadataSize, Consistent, FileSystem
<1>5. Metadata(e) = Metadata(d) \cup {g} /\ DataBits(e) = DataBits(d) \ {g}
  BY <1>1, <1>4, LayoutAssumption
  DEF Metadata, DataBits, Run, GrowthBit, Consistent, MetadataInside
<1>6. LiveInodesNamed(e)
  BY <1>1, <1>3 DEF Consistent, LiveInodesNamed
<1>7. BundlesApart(e)
  <2>1. \A n \in Live(d) : g \notin Bits(d.inodes[n])
    BY <1>1 DEF Consistent, TableExact, LiveBits
  <2> QED
    BY <1>1, <1>3, <1>5, <2>1 DEF Consistent, BundlesApart
<1>8. TableExact(e)
  BY <1>1, <1>3, <1>5 DEF Consistent, TableExact, LiveBits
<1>9. InodeBlockClosed(e)
  BY <1>1, <1>2, LayoutAssumption DEF Consistent, InodeBlockClosed, Run
<1>10. MetadataInside(e)
  BY <1>1, <1>4, LayoutAssumption
  DEF Consistent, MetadataInside, GrowthBit, FileSystem
<1> QED
  BY <1>1, <1>3, <1>6, <1>7, <1>8, <1>9, <1>10 DEF Consistent

\* fs_delete of a live bundle frees its sectors and no others.
LEMMA DeletedConsistent ==
    ASSUME NEW d, Consistent(d), NEW n \in Live(d)
    PROVE  /\ Consistent(Deleted(d, d.inodes[n]))
           /\ Live(Deleted(d, d.inodes[n])) = Live(d) \ {n}
           /\ \A m \in Live(d) \ {n} :
                Deleted(d, d.inodes[n]).inodes[m] = d.inodes[m]
           /\ Deleted(d, d.inodes[n]).at = d.at \ Bits(d.inodes[n])
<1> DEFINE f == d.inodes[n]
           e == Deleted(d, f)
<1>1. f \in Inode /\ f.inode_offset = n /\ n \in InodeNumbers
  BY DEF Consistent, LiveInodesNamed, Inode
<1>2. /\ e.at = d.at \ Bits(f)
      /\ e.it = d.it \ {n}
      /\ e.inodes = [d.inodes EXCEPT ![n] = NoInode]
      /\ e.inode_block_size = d.inode_block_size
      /\ e \in FileSystem
  <2>1. Run(n, 1) = {n}
    BY <1>1 DEF Run, InodeNumbers
  <2> QED
    BY <1>1, <2>1 DEF Consistent, FileSystem, Deleted, DeleteSeq, Bits
<1>3. InodeMax(e) = InodeMax(d) /\ MetadataSize(e) = MetadataSize(d)
  BY <1>2 DEF InodeMax, MetadataSize
<1>4. Metadata(e) = Metadata(d) /\ DataBits(e) = DataBits(d)
  BY <1>3 DEF Metadata, DataBits
<1>5. Live(e) = Live(d) \ {n}
  BY <1>2, <1>3 DEF Live
<1>6. \A m \in Live(e) : e.inodes[m] = d.inodes[m]
  <2>1. Live(d) \subseteq InodeNumbers
    BY DEF Live, Consistent, FileSystem
  <2> QED
    BY <1>2, <1>5, <2>1 DEF Consistent, FileSystem
<1>7. LiveInodesNamed(e) /\ BundlesApart(e)
  BY <1>4, <1>5, <1>6 DEF Consistent, LiveInodesNamed, BundlesApart
<1>8. TableExact(e)
  <2>1. LiveBits(e) = UNION {Bits(d.inodes[m]) : m \in Live(d) \ {n}}
    BY <1>5, <1>6 DEF LiveBits
  <2>2. LiveBits(e) = LiveBits(d) \ Bits(f)
    BY <2>1 DEF LiveBits, Consistent, BundlesApart
  <2>3. Metadata(d) \cap Bits(f) = {}
    BY MetadataAndData DEF Consistent, BundlesApart
  <2> QED
    BY <1>2, <1>4, <2>2, <2>3 DEF TableExact, Consistent
<1>9. InodeBlockClosed(e)
  <2>1. n < InodeMax(d)
    BY DEF Live
  <2> QED
    BY <1>1, <1>2, <1>3, <2>1, MetadataAndData
    DEF InodeBlockClosed, Consistent, InodeNumbers
<1>10. MetadataInside(e)
  BY <1>2, <1>3 DEF Consistent, MetadataInside
<1> QED
  BY <1>2, <1>5, <1>6, <1>7, <1>8, <1>9, <1>10 DEF Consistent

\* fs_create marks the sectors and the inode that the searches returned.
LEMMA PlacedConsistent ==
    ASSUME NEW d, Consistent(d), NEW f \in Inode,
           Bits(f) \subseteq 0 .. (SectorCount - 1), Bits(f) \cap d.at = {},
           f.inode_offset \notin d.it
    PROVE  /\ Consistent(Placed(d, f))
           /\ Live(Placed(d, f)) = Live(d) \cup {f.inode_offset}
           /\ Placed(d, f).inodes[f.inode_offset] = f
           /\ \A m \in Live(d) : Placed(d, f).inodes[m] = d.inodes[m]
<1> DEFINE n == f.inode_offset
           e == Placed(d, f)
<1>1. n \in InodeNumbers /\ Run(n, 1) = {n}
  BY DEF Inode, InodeNumbers, Run
<1>2. /\ e.at = d.at \cup Bits(f)
      /\ e.it = d.it \cup {n}
      /\ e.inodes = [d.inodes EXCEPT ![n] = f]
      /\ e.inode_block_size = d.inode_block_size
      /\ e \in FileSystem
  BY <1>1 DEF Consistent, FileSystem, Placed, Written, WriteSeq
<1>3. InodeMax(e) = InodeMax(d) /\ MetadataSize(e) = MetadataSize(d)
  BY <1>2 DEF InodeMax, MetadataSize
<1>4. Metadata(e) = Metadata(d) /\ DataBits(e) = DataBits(d)
  BY <1>3 DEF Metadata, DataBits
<1>5. Live(e) = Live(d) \cup {n} /\ n \notin Live(d)
  <2>1. n < InodeMax(d)
    BY <1>1, MetadataAndData, LayoutAssumption
    DEF Consistent, InodeBlockClosed, InodeNumbers
  <2> QED
    BY <1>2, <1>3, <2>1 DEF Live
<1>6. e.inodes[n] = f /\ \A m \in Live(d) : e.inodes[m] = d.inodes[m]
  <2>1. Live(d) \subseteq InodeNumbers
    BY DEF Live, Consistent, FileSystem
  <2> QED
    BY <1>1, <1>2, <1>5, <2>1 DEF Consistent, FileSystem
<1>7. LiveInodesNamed(e)
  BY <1>5, <1>6 DEF Consistent, LiveInodesNamed
<1>8. BundlesApart(e)
  <2>1. Bits(f) \subseteq DataBits(d)
    BY MetadataAndData DEF Consistent, TableExact
  <2>2. \A m \in Live(d) : Bits(d.inodes[m]) \subseteq d.at
    BY DEF Consistent, TableExact, LiveBits
  <2> QED
    BY <1>4, <1>5, <1>6, <2>1, <2>2 DEF Consistent, BundlesApart
<1>9. TableExact(e)
  <2>1. LiveBits(e) = LiveBits(d) \cup Bits(f)
    BY <1>5, <1>6 DEF LiveBits
  <2> QED
    BY <1>2, <1>4, <2>1 DEF Consistent, TableExact
<1>10. InodeBlockClosed(e) /\ MetadataInside(e)
  BY <1>2, <1>3 DEF Consistent, InodeBlockClosed, MetadataInside
<1> QED
  BY <1>2, <1>5, <1>6, <1>7, <1>8, <1>9, <1>10 DEF Consistent

\* What the two searches of fs_create return fits the hypotheses above.
LEMMA NewInodeFits ==
    ASSUME NEW d, Consistent(d), NEW size \in Sizes, NEW ttl \in TTLs,
           NEW custody \in BOOLEAN, HasFreeInode(d), Fits(d, size)
    PROVE  LET f == NewInode(d, size, ttl, custody) IN
           /\ f \in Inode
           /\ Bits(f) \subseteq 0 .. (SectorCount - 1)
           /\ Bits(f) \cap d.at = {}
           /\ f.inode_offset \notin d.it
<1> DEFINE f == NewInode(d, size, ttl, custody)
           n == Sectors(size)
           b == FindSeq(d.at, SectorCount, n)
           i == FindSeq(d.it, InodeTableBits, 1)
<1>1. n \in Nat \ {0}
  BY SectorsPositive, BundleAssumption
<1>2. b \in 0 .. (SectorCount - n) /\ Run(b, n) \cap d.at = {}
  BY <1>1, FindSeqIsFree, LayoutAssumption DEF Fits, CheckSeq
<1>3. i \in InodeNumbers /\ i \notin d.it
  <2>1. i \in 0 .. (InodeTableBits - 1) /\ Run(i, 1) \cap d.it = {}
    BY FindSeqIsFree, LayoutAssumption DEF HasFreeInode, CheckSeq
  <2> QED
    BY <2>1 DEF InodeNumbers, Run
<1>4. /\ f.size = size /\ f.location = SectorCount - b - n
      /\ f.inode_offset = i /\ f.custody = custody /\ f.time_to_live = ttl
  BY DEF NewInode
<1>5. f \in Inode
  BY <1>1, <1>2, <1>3, LayoutAssumption DEF Inode, NewInode
<1>6. Bits(f) = Run(b, n)
  BY <1>1, <1>2, <1>4, LayoutAssumption DEF Bits
<1>7. Run(b, n) \subseteq 0 .. (SectorCount - 1)
  BY <1>1, <1>2, LayoutAssumption DEF Run
<1> HIDE DEF f, n, b, i
<1> QED
  BY <1>2, <1>3, <1>4, <1>5, <1>6, <1>7 DEF f

\* fs_close of an inode that still lies where the live one lies.
LEMMA WrittenConsistent ==
    ASSUME NEW d, Consistent(d), NEW n \in Live(d),
           NEW f \in Inode, f.inode_offset = n,
           f.size = d.inodes[n].size, f.location = d.inodes[n].location
    PROVE  /\ Consistent(Written(d, f))
           /\ Live(Written(d, f)) = Live(d)
           /\ \A m \in Live(d) :
                Written(d, f).inodes[m] = IF m = n THEN f ELSE d.inodes[m]
<1> DEFINE e == Written(d, f)
<1>1. /\ d.inodes[n] \in Inode /\ d.inodes[n].inode_offset = n
      /\ n \in InodeNumbers
  BY DEF Consistent, LiveInodesNamed, Inode
<1>2. Bits(f) = Bits(d.inodes[n])
  BY DEF Bits
<1>4. /\ e.at = d.at /\ e.it = d.it
      /\ e.inodes = [d.inodes EXCEPT ![n] = f]
      /\ e.inode_block_size = d.inode_block_size
      /\ e \in FileSystem
  <2> QED
    BY <1>1 DEF Consistent, FileSystem, Written
<1>5. InodeMax(e) = InodeMax(d) /\ MetadataSize(e) = MetadataSize(d)
  BY <1>4 DEF InodeMax, MetadataSize
<1>6. Metadata(e) = Metadata(d) /\ DataBits(e) = DataBits(d)
  BY <1>5 DEF Metadata, DataBits
<1>7. Live(e) = Live(d)
  BY <1>4, <1>5 DEF Live
<1>3. \A m \in Live(d) : e.inodes[m] = IF m = n THEN f ELSE d.inodes[m]
  <2>1. Live(d) \subseteq InodeNumbers
    BY DEF Live, Consistent, FileSystem
  <2> QED
    BY <1>4, <2>1 DEF Consistent, FileSystem
<1>8. /\ \A m \in Live(e) : Bits(e.inodes[m]) = Bits(d.inodes[m])
      /\ LiveInodesNamed(e)
  <2> HIDE DEF e
  <2> QED
    BY <1>2, <1>3, <1>7 DEF Consistent, LiveInodesNamed
<1>9. BundlesApart(e)
  <2> HIDE DEF e
  <2> QED
    BY <1>6, <1>7, <1>8 DEF Consistent, BundlesApart
<1>10. TableExact(e)
  <2> HIDE DEF e
  <2>1. LiveBits(e) = LiveBits(d)
    BY <1>7, <1>8 DEF LiveBits
  <2> QED
    BY <1>4, <1>6, <2>1 DEF Consistent, TableExact
<1>11. InodeBlockClosed(e) /\ MetadataInside(e)
  <2> HIDE DEF e
  <2> QED
    BY <1>4, <1>5 DEF Consistent, InodeBlockClosed, MetadataInside
<1> HIDE DEF e
<1>12. Consistent(e)
  BY <1>4, <1>8, <1>9, <1>10, <1>11 DEF Consistent
<1> QED
  BY <1>3, <1>7, <1>12 DEF e

\* On an aligned disk restore_fs rebuilds exactly the table that was there.
LEMMA RestoredConsistent ==
    ASSUME NEW d, Consistent(d), RestoreAligned
    PROVE  Restored(d) = d
<1>1. PartialByte \subseteq Metadata(d)
  BY LayoutAssumption
  DEF PartialByte, Metadata, Run, MetadataSize, RestoreAligned, Consistent,
      MetadataInside, FileSystem
<1>2. PartialByte \cup Metadata(d) \cup LiveBits(d) = d.at
  BY <1>1 DEF Consistent, TableExact
<1> QED
  BY <1>2 DEF Restored, Consistent, FileSystem

\* delete_invalid_inodes frees the sectors of expired bundles and no others.
LEMMA CollectedConsistent ==
    ASSUME NEW d, Consistent(d)
    PROVE  /\ Consistent(Collected(d))
           /\ Live(Collected(d))
                = Live(d) \ {n \in Live(d) : IsNotValid(d.inodes[n])}
           /\ \A m \in Live(Collected(d)) :
                Collected(d).inodes[m] = d.inodes[m]
<1> DEFINE x == {n \in Live(d) : IsNotValid(d.inodes[n])}
           e == Collected(d)
<1>0. Live(d) \subseteq InodeNumbers
  BY DEF Live, Consistent, FileSystem
<1>1. /\ e.at = d.at \ UNION {Bits(d.inodes[n]) : n \in x}
      /\ e.it = d.it \ x
      /\ e.inodes = [n \in InodeNumbers |->
                       IF n \in x THEN NoInode ELSE d.inodes[n]]
      /\ e.inode_block_size = d.inode_block_size
  <2> HIDE DEF x
  <2> QED
    BY DEF Collected, Consistent, FileSystem, x
<1>2. e \in FileSystem
  <2> DEFINE a == d.at \ UNION {Bits(d.inodes[n]) : n \in x}
             t == d.it \ x
             i == [n \in InodeNumbers |->
                     IF n \in x THEN NoInode ELSE d.inodes[n]]
  <2>1. /\ a \in SUBSET (0 .. (SectorCount - 1))
        /\ t \in SUBSET InodeNumbers
        /\ i \in [InodeNumbers -> Inode \cup {NoInode}]
    <3> HIDE DEF x
    <3> QED
      BY DEF Consistent, FileSystem
  <2>2. e = [d EXCEPT !.at = a, !.it = t, !.inodes = i]
    BY DEF Collected
  <2> HIDE DEF a, t, i, e
  <2> QED
    BY <2>1, <2>2 DEF Consistent, FileSystem
<1> HIDE DEF e
<1>3. InodeMax(e) = InodeMax(d) /\ MetadataSize(e) = MetadataSize(d)
  BY <1>1 DEF InodeMax, MetadataSize
<1>4. Metadata(e) = Metadata(d) /\ DataBits(e) = DataBits(d)
  BY <1>3 DEF Metadata, DataBits
<1>5. Live(e) = Live(d) \ x
  <2> HIDE DEF x
  <2> QED
    BY <1>1, <1>3 DEF Live
<1>6. \A m \in Live(e) : e.inodes[m] = d.inodes[m]
  <2> HIDE DEF x
  <2> QED
    BY <1>0, <1>1, <1>5
<1>7. x \subseteq Live(d)
  OBVIOUS
<1> HIDE DEF x
<1>8. LiveInodesNamed(e) /\ BundlesApart(e)
  BY <1>4, <1>5, <1>6, <1>7 DEF Consistent, LiveInodesNamed, BundlesApart
<1>9. TableExact(e)
  <2>1. LiveBits(e) = UNION {Bits(d.inodes[m]) : m \in Live(d) \ x}
    BY <1>5, <1>6 DEF LiveBits
  <2>2. LiveBits(e) = LiveBits(d) \ UNION {Bits(d.inodes[n]) : n \in x}
    BY <1>7, <2>1 DEF LiveBits, Consistent, BundlesApart
  <2>3. Metadata(d) \cap UNION {Bits(d.inodes[n]) : n \in x} = {}
    BY <1>7, MetadataAndData DEF Consistent, BundlesApart
  <2> QED
    BY <1>1, <1>4, <2>2, <2>3 DEF TableExact, Consistent
<1>10. InodeBlockClosed(e)
  <2>1. \A n \in x : n < InodeMax(d) /\ n \in Int
    BY <1>0, <1>7 DEF Live, InodeNumbers
  <2> QED
    BY <1>1, <1>3, <2>1, MetadataAndData DEF InodeBlockClosed, Consistent
<1>11. MetadataInside(e)
  BY <1>1, <1>3 DEF Consistent, MetadataInside
<1>12. Consistent(e)
  BY <1>2, <1>8, <1>9, <1>10, <1>11 DEF Consistent
<1> QED
  BY <1>5, <1>6, <1>12 DEF e, x
-----------------------------------------------------------------------------
(* The parts of fs_create.                                                 *)

\* Growth of the inode block changes no bundle.
LEMMA ResizedConsistent ==
    ASSUME NEW d, Consistent(d)
    PROVE  /\ Consistent(ResizeInodeBlock(d))
           /\ Live(ResizeInodeBlock(d)) = Live(d)
           /\ ResizeInodeBlock(d).inodes = d.inodes
  BY GrownConsistent DEF ResizeInodeBlock

\* The candidate that find_ino_length returns is a live bundle, at least as
\* large as asked for, and nobody needs it.
LEMMA FirstExpendable ==
    ASSUME NEW d, Consistent(d), NEW size, Expendable(d, size) # {}
    PROVE  LET v == Least(Expendable(d, size)) IN
           /\ v \in Live(d)
           /\ d.inodes[v].size >= size
           /\ ~d.inodes[v].custody \/ IsNotValid(d.inodes[v])
<1>1. Expendable(d, size) \in SUBSET Nat
  BY DEF Expendable, Live, Consistent, FileSystem, InodeNumbers
<1>2. Least(Expendable(d, size)) \in Expendable(d, size)
  BY <1>1, LeastInSet
<1> QED
  BY <1>2 DEF Expendable

\* The sectors of a bundle that is at least as large are room enough.
LEMMA EvictionMakesRoom ==
    ASSUME NEW d, Consistent(d), NEW v \in Live(d), NEW size \in Sizes,
           d.inodes[v].size >= size
    PROVE  Fits(Deleted(d, d.inodes[v]), size)
<1> DEFINE f == d.inodes[v]
           e == Deleted(d, f)
           b == SectorCount - (f.location + Sectors(f.size))
<1>1. f \in Inode /\ f.size \in Nat \ {0} /\ size \in Nat \ {0}
  BY BundleAssumption DEF Consistent, LiveInodesNamed, Inode
<1>2. /\ Sectors(size) \in Nat \ {0} /\ Sectors(f.size) \in Nat \ {0}
      /\ Sectors(size) <= Sectors(f.size)
  BY <1>1, SectorsPositive, SectorsMonotone
<1>3. Bits(f) \subseteq 0 .. (SectorCount - 1)
  BY MetadataAndData DEF Consistent, BundlesApart
<1>4. /\ Run(b, Sectors(size)) \subseteq Bits(f)
      /\ b \in 0 .. (SectorCount - Sectors(size))
  <2>1. f.location \in Int
    BY <1>1 DEF Inode
  <2>2. Bits(f) = b .. (b + Sectors(f.size) - 1) /\ b \in Int
    BY <1>2, <2>1, LayoutAssumption DEF Bits, Run
  <2>3. b \in Bits(f) /\ b + Sectors(f.size) - 1 \in Bits(f)
    BY <1>2, <2>2
  <2>4. b >= 0 /\ b + Sectors(f.size) - 1 <= SectorCount - 1
    BY <1>3, <2>3, LayoutAssumption
  <2> HIDE DEF b
  <2> QED
    BY <1>2, <2>2, <2>4, LayoutAssumption DEF Run
<1>5. e.at = d.at \ Bits(f)
  BY DeletedConsistent
<1>6. b \in FreeStarts(e.at, SectorCount, Sectors(size))
  <2> HIDE DEF e, f, b
  <2> QED
    BY <1>4, <1>5 DEF FreeStarts, CheckSeq
<1> QED
  BY <1>6 DEF Fits, HasSeq

\* Deleting a bundle leaves an inode free.
LEMMA DeletedHasFreeInode ==
    ASSUME NEW d, Consistent(d), NEW n \in Live(d)
    PROVE  HasFreeInode(Deleted(d, d.inodes[n]))
<1> DEFINE e == Deleted(d, d.inodes[n])
<1>1. n \in InodeNumbers /\ d.inodes[n].inode_offset = n
  BY DEF Consistent, LiveInodesNamed, Live, FileSystem
<1>2. n \notin e.it
  BY <1>1 DEF Deleted, DeleteSeq, Run, InodeNumbers, Consistent, FileSystem
<1>3. n \in FreeStarts(e.it, InodeTableBits, 1)
  <2> HIDE DEF e
  <2> QED
    BY <1>1, <1>2, LayoutAssumption
    DEF FreeStarts, CheckSeq, Run, InodeNumbers
<1> QED
  BY <1>3 DEF HasFreeInode, HasSeq

\* Either nothing was deleted for the new bundle, or one expendable bundle
\* that is at least as large was, and then the new one fits.
LEMMA RoomForCases ==
    ASSUME Consistent(fs), NEW size \in Sizes
    PROVE  LET d == ResizeInodeBlock(fs)
               e == RoomFor(size) IN
           \/ e = d
           \/ /\ Fits(e, size) /\ HasFreeInode(e)
              /\ \E v \in Live(fs) :
                   /\ e = Deleted(d, d.inodes[v])
                   /\ d.inodes[v].size >= size
                   /\ ~d.inodes[v].custody \/ IsNotValid(d.inodes[v])
<1> DEFINE d == ResizeInodeBlock(fs)
           v == Least(Expendable(d, size))
<1>1. Consistent(d) /\ Live(d) = Live(fs)
  BY ResizedConsistent
<1>2. CASE Fits(d, size)
  BY <1>2 DEF RoomFor
<1>3. CASE ~Fits(d, size) /\ Expendable(d, size) = {}
  BY <1>3 DEF RoomFor, FreeDiskSpace
<1>4. CASE ~Fits(d, size) /\ Expendable(d, size) # {}
  <2>1. RoomFor(size) = Deleted(d, d.inodes[v])
    BY <1>4 DEF RoomFor, FreeDiskSpace
  <2>2. /\ v \in Live(d) /\ d.inodes[v].size >= size
        /\ ~d.inodes[v].custody \/ IsNotValid(d.inodes[v])
    BY <1>1, <1>4, FirstExpendable
  <2> HIDE DEF d, v
  <2>3. Fits(Deleted(d, d.inodes[v]), size)
        /\ HasFreeInode(Deleted(d, d.inodes[v]))
    BY <1>1, <2>2, EvictionMakesRoom, DeletedHasFreeInode
  <2> QED
    BY <1>1, <2>1, <2>2, <2>3 DEF d
<1> QED
  BY <1>2, <1>3, <1>4

\* The eviction that fs_create makes for want of space keeps a file system
\* consistent.
LEMMA RoomForConsistent ==
    ASSUME Consistent(fs), NEW size \in Sizes
    PROVE  Consistent(RoomFor(size))
<1> DEFINE d == ResizeInodeBlock(fs)
<1>1. Consistent(d) /\ Live(d) = Live(fs)
  BY ResizedConsistent
<1>2. \A v \in Live(d) : Consistent(Deleted(d, d.inodes[v]))
  BY <1>1, DeletedConsistent
<1> HIDE DEF d
<1> QED
  BY <1>1, <1>2, RoomForCases DEF d

-----------------------------------------------------------------------------
(* The inductive invariant and the theorems.                               *)

Inv ==
    /\ Consistent(fs)
    /\ clock \in 0 .. MaxClock

\* A formatted disk is consistent.
LEMMA InitInv == Init => Inv
<1> SUFFICES ASSUME Init PROVE Inv
  OBVIOUS
<1>1. InodeMax(fs) = InodeSec * InitInodeBlockSize
      /\ InodeSec * InitInodeBlockSize \in Nat
  BY LayoutAssumption DEF Init, InodeMax
<1>2. MetadataSize(fs) = InodeBlock + InitInodeBlockSize
  BY DEF Init, MetadataSize
<1>3. /\ fs.at = Metadata(fs)
      /\ fs.it = InodeMax(fs) .. (InodeTableBits - 1)
  BY <1>1, <1>2, LayoutAssumption DEF Init, Metadata, Run
<1>4. Live(fs) = {}
  BY <1>1, <1>3 DEF Live
<1>5. fs \in FileSystem
  <2>1. /\ fs.at \in SUBSET (0 .. (SectorCount - 1))
        /\ fs.it \in SUBSET InodeNumbers
    BY <1>1, <1>2, <1>3, LayoutAssumption DEF Metadata, Run, InodeNumbers
  <2> QED
    BY <2>1, LayoutAssumption DEF Init, FileSystem
<1>6. LiveInodesNamed(fs) /\ BundlesApart(fs) /\ TableExact(fs)
  BY <1>3, <1>4
  DEF LiveInodesNamed, BundlesApart, TableExact, LiveBits
<1>7. InodeBlockClosed(fs) /\ MetadataInside(fs)
  <2>1. fs.inode_block_size = InitInodeBlockSize
    BY DEF Init
  <2>2. InodeBlockClosed(fs)
    BY <1>3, Zenon DEF InodeBlockClosed
  <2> QED
    BY <1>2, <2>1, <2>2, LayoutAssumption DEF MetadataInside
<1> QED
  BY <1>5, <1>6, <1>7, BundleAssumption DEF Inv, Consistent, Init

\* Every call keeps the invariant, whatever the last call has returned.
LEMMA NextInv ==
    ASSUME RestoreAligned, Inv, [Next]_vars
    PROVE  Inv'
<1>1. ASSUME NEW size \in Sizes, NEW ttl \in TTLs, NEW custody \in BOOLEAN,
             FsCreate(size, ttl, custody)
      PROVE  Inv'
  <2>1. CASE CreateWithoutInode
    BY <2>1, ResizedConsistent DEF CreateWithoutInode, Return, Inv
  <2>2. CASE CreateBundle(size, ttl, custody)
    <3> DEFINE d == RoomFor(size)
               f == NewInode(d, size, ttl, custody)
    <3>1. Consistent(d) /\ Fits(d, size)
      BY <2>2, RoomForConsistent DEF Inv, CreateBundle
    <3>2. HasFreeInode(d)
      BY <2>2, RoomForCases DEF Inv, CreateBundle
    <3>3. Consistent(Placed(d, f))
      <4> HIDE DEF d
      <4> QED
        BY <3>1, <3>2, NewInodeFits, PlacedConsistent
    <3> QED
      BY <2>2, <3>3 DEF CreateBundle, Return, Inv
  <2>3. CASE CreateWithoutSpace(size)
    BY <2>3, RoomForConsistent DEF CreateWithoutSpace, Return, Inv
  <2> QED
    BY <1>1, <2>1, <2>2, <2>3 DEF FsCreate
<1>2. ASSUME NEW n \in Live(fs), FsDelete(fs.inodes[n])
      PROVE  Inv'
  BY <1>2, DeletedConsistent DEF FsDelete, Return, Inv
<1>3. ASSUME NEW n \in Live(fs), NEW ttl \in TTLs, NEW custody \in BOOLEAN,
             FsClose([fs.inodes[n] EXCEPT !.custody = custody,
                                          !.time_to_live = ttl])
      PROVE  Inv'
  <2> DEFINE f == [fs.inodes[n] EXCEPT !.custody = custody,
                                       !.time_to_live = ttl]
  <2>1. fs' = Written(fs, f) /\ UNCHANGED clock
    BY <1>3 DEF FsClose, Return
  <2>2. /\ f \in Inode /\ f.inode_offset = n
        /\ f.size = fs.inodes[n].size /\ f.location = fs.inodes[n].location
    BY DEF Inv, Consistent, LiveInodesNamed, Inode
  <2> HIDE DEF f
  <2>3. Consistent(Written(fs, f))
    BY <2>2, WrittenConsistent DEF Inv
  <2> QED
    BY <2>1, <2>3 DEF Inv
<1>4. CASE DeleteInvalidInodes
  BY <1>4, CollectedConsistent DEF DeleteInvalidInodes, Return, Inv
<1>5. CASE RestoreFs
  BY <1>5, RestoredConsistent DEF RestoreFs, Return, Inv
<1>6. CASE Tick
  BY <1>6, BundleAssumption DEF Tick, Inv
<1>7. CASE UNCHANGED vars
  BY <1>7 DEF vars, Inv
<1> QED
  BY <1>1, <1>2, <1>3, <1>4, <1>5, <1>6, <1>7 DEF Next

\* On every aligned disk the invariant holds in every reachable state.
THEOREM Invariance == ASSUME RestoreAligned PROVE Spec => []Inv
<1>1. Init => Inv
  BY InitInv
<1>2. Inv /\ [Next]_vars => Inv'
  BY NextInv
<1> QED
  BY <1>1, <1>2, PTL DEF Spec

\* Values keep their types; live slots hold inodes that name their own slot.
THEOREM TypeCorrectness == ASSUME RestoreAligned PROVE Spec => []TypeOK
<1> DEFINE ResultType ==
             result \in [call : {"fs_mount", "fs_create", "fs_delete", "fs_close",
                                "delete_invalid_inodes", "restore_fs"},
                        code : {"FS_OK", "FS_FULL"}]
<1>1. Init => ResultType
  BY DEF Init
<1>2. ResultType /\ [Next]_vars => ResultType'
  <2> SUFFICES ASSUME ResultType, [Next]_vars PROVE ResultType'
    OBVIOUS
  <2>1. ASSUME NEW size \in Sizes, NEW ttl \in TTLs, NEW custody \in BOOLEAN,
               FsCreate(size, ttl, custody)
        PROVE  ResultType'
    BY <2>1 DEF FsCreate, CreateWithoutInode, CreateBundle, CreateWithoutSpace,
                Return
  <2>2. ASSUME NEW f, FsDelete(f) \/ FsClose(f)
        PROVE  ResultType'
    BY <2>2 DEF FsDelete, FsClose, Return
  <2>3. CASE DeleteInvalidInodes \/ RestoreFs
    BY <2>3 DEF DeleteInvalidInodes, RestoreFs, Return
  <2>4. CASE Tick \/ UNCHANGED vars
    BY <2>4 DEF Tick, vars
  <2> QED
    BY <2>1, <2>2, <2>3, <2>4 DEF Next
<1>3. Inv /\ ResultType => TypeOK
  BY DEF Inv, Consistent, LiveInodesNamed, TypeOK
<1> QED
  BY <1>1, <1>2, <1>3, Invariance, PTL DEF Spec

\* fs_create can never be given a sector that a bundle or the metadata own.
THEOREM LiveSectorsStayMarked ==
    ASSUME RestoreAligned PROVE Spec => []LiveSectorsMarked
<1>1. Inv => LiveSectorsMarked
  BY DEF Inv, Consistent, TableExact, LiveSectorsMarked
<1> QED
  BY <1>1, Invariance, PTL

\* No sequence of calls loses a sector.
THEOREM NoSectorIsLost == ASSUME RestoreAligned PROVE Spec => []NoLeakedSector
<1>1. Inv => NoLeakedSector
  BY DEF Inv, Consistent, TableExact, NoLeakedSector
<1> QED
  BY <1>1, Invariance, PTL

\* Bundles and metadata never overlap, however far the inode block has grown.
THEOREM BundlesStayApart ==
    ASSUME RestoreAligned PROVE Spec => []ExtentsDisjoint
<1>1. Inv => ExtentsDisjoint
  <2> SUFFICES ASSUME Inv PROVE ExtentsDisjoint
    OBVIOUS
  <2>1. Consistent(fs)
    BY DEF Inv
  <2> QED
    BY <2>1, MetadataAndData DEF Consistent, BundlesApart, ExtentsDisjoint
<1> QED
  BY <1>1, Invariance, PTL
-----------------------------------------------------------------------------
(* The inode allocation table never gets too small, by counting.           *)

\* The inode allocation table as fs_mkfs makes it: as many bits as the disk
\* has sectors or more, and such that m sectors of inodes would use it up but
\* for less than one inode each (m is 8 * sizeof(struct INODE) times the
\* sectors of the table, see MadeTableIsFilled).
TableFilled ==
    /\ SectorCount <= InodeTableBits
    /\ \E m \in Nat : /\ InodeSec * m <= InodeTableBits
                      /\ InodeTableBits < (InodeSec + 1) * m

\* The numbers that fs_mkfs computes are as TableFilled asks for.
LEMMA MadeTableIsFilled ==
    ASSUME NEW sector_size \in Nat \ {0}, NEW inode_size \in Nat \ {0},
           NEW table \in Nat \ {0},
           InodeSec = sector_size \div inode_size,
           InodeTableBits = 8 * sector_size * table,
           SectorCount <= InodeTableBits
    PROVE  TableFilled
<1> DEFINE k == 8 * table
           m == inode_size * k
<1>1. /\ InodeSec * inode_size <= sector_size
      /\ sector_size < (InodeSec + 1) * inode_size
      /\ InodeSec \in Nat /\ k \in Nat \ {0}
  BY LayoutAssumption
<1>2. ASSUME NEW a \in Nat, NEW b \in Nat, NEW c \in Nat \ {0}
      PROVE  /\ a <= b => a * c <= b * c
             /\ a < b => a * c < b * c
             /\ \A e \in Nat : (e * a) * c = e * (a * c)
             /\ a * c \in Nat
  OBVIOUS
<1> HIDE DEF k
<1>3. /\ (InodeSec * inode_size) * k <= sector_size * k
      /\ sector_size * k < ((InodeSec + 1) * inode_size) * k
  BY <1>1, <1>2
<1>4. /\ (InodeSec * inode_size) * k = InodeSec * m
      /\ ((InodeSec + 1) * inode_size) * k = (InodeSec + 1) * m
      /\ m \in Nat
  <2>1. InodeSec \in Nat /\ InodeSec + 1 \in Nat /\ inode_size \in Nat
    BY <1>1
  <2>2. \A e \in Nat : (e * inode_size) * k = e * m
    BY <1>1, <1>2, <2>1
  <2>3. m \in Nat
    BY <1>1, <1>2, <2>1
  <2> HIDE DEF m
  <2> QED
    BY <2>1, <2>2, <2>3
<1>5. sector_size * k = InodeTableBits
  BY DEF k
<1> HIDE DEF m
<1> QED
  BY <1>3, <1>4, <1>5 DEF TableFilled

\* If no inode is free there are fewer inodes than sectors in front of the
\* one behind the inode block: each inode has a sector of its own there, its
\* first one.
LEMMA FullBlockIsSmall ==
    ASSUME NEW d, Consistent(d), InodeMax(d) <= InodeTableBits,
           ~HasFreeInode(d), CanGrow(d)
    PROVE  InodeMax(d) <= GrowthBit(d)
<1> DEFINE N == 0 .. (InodeMax(d) - 1)
           G == 0 .. (GrowthBit(d) - 1)
           First(n) == SectorCount - (d.inodes[n].location
                                        + Sectors(d.inodes[n].size))
           f == [n \in N |-> First(n)]
<1>1. /\ InodeMax(d) \in Nat /\ GrowthBit(d) \in Nat
      /\ GrowthBit(d) \notin d.at
  BY MetadataAndData, LayoutAssumption
  DEF CanGrow, GrowthBit, CheckSeq, Run
<1>2. N \subseteq Live(d)
  <2>1. \A n \in InodeNumbers : n \in d.it
    BY LayoutAssumption
    DEF HasFreeInode, HasSeq, FreeStarts, CheckSeq, Run, InodeNumbers
  <2> QED
    BY <1>1, <2>1, LayoutAssumption DEF Live, InodeNumbers
<1>3. ASSUME NEW n \in N
      PROVE  First(n) \in Bits(d.inodes[n]) /\ First(n) \in G
  <2>1. d.inodes[n] \in Inode /\ Bits(d.inodes[n]) \subseteq DataBits(d)
    BY <1>2 DEF Consistent, LiveInodesNamed, BundlesApart
  <2>2. /\ d.inodes[n].location \in Int
        /\ Sectors(d.inodes[n].size) \in Nat \ {0}
    <3>1. /\ d.inodes[n].location \in 0 .. (SectorCount - 1)
          /\ d.inodes[n].size \in Sizes
      BY <2>1 DEF Inode
    <3> QED
      <4>1. d.inodes[n].size \in Nat \ {0}
        BY <3>1, BundleAssumption
      <4>2. Sectors(d.inodes[n].size) \in Nat \ {0}
        BY <4>1, SectorsPositive
      <4> QED
        BY <3>1, <4>2
  <2>3. First(n) \in Bits(d.inodes[n])
    BY <2>2, LayoutAssumption DEF Bits, Run
  <2>4. First(n) # GrowthBit(d)
    BY <1>1, <1>2, <2>3 DEF Consistent, TableExact, LiveBits
  <2>5. First(n) \in 0 .. GrowthBit(d)
    BY <2>1, <2>3 DEF DataBits, GrowthBit
  <2> HIDE DEF First
  <2> QED
    BY <1>1, <2>3, <2>4, <2>5
<1>4. f \in [N -> G]
  BY <1>3
<1>5. \A n, m \in N : n # m => f[n] # f[m]
  <2> SUFFICES ASSUME NEW n \in N, NEW m \in N, n # m
               PROVE  First(n) # First(m)
    OBVIOUS
  <2>1. Bits(d.inodes[n]) \cap Bits(d.inodes[m]) = {}
    BY <1>2 DEF Consistent, BundlesApart
  <2> HIDE DEF First
  <2> QED
    BY <1>3, <2>1
<1>6. /\ IsFiniteSet(N) /\ Cardinality(N) = InodeMax(d)
      /\ IsFiniteSet(G) /\ Cardinality(G) = GrowthBit(d)
  <2>1. ASSUME NEW x \in Nat
        PROVE  IsFiniteSet(0 .. (x - 1)) /\ Cardinality(0 .. (x - 1)) = x
    <3>1. /\ IsFiniteSet(0 .. (x - 1))
          /\ Cardinality(0 .. (x - 1)) = IF 0 > x - 1 THEN 0 ELSE x - 1 - 0 + 1
      BY FS_Interval
    <3> QED
      BY <3>1
  <2> QED
    BY <1>1, <2>1
<1> HIDE DEF N, G, f
<1>7. ~(Cardinality(G) < Cardinality(N))
  BY <1>4, <1>5, <1>6, FS_PigeonHole
<1> QED
  BY <1>1, <1>6, <1>7

\* Growth by a sector that the disk still has keeps inside of the table.
LEMMA GrowthFits ==
    ASSUME TableFilled, NEW b \in Nat, InodeSec * b + b < SectorCount
    PROVE  InodeSec * (b + 1) <= InodeTableBits
<1>1. PICK m \in Nat : /\ InodeSec * m <= InodeTableBits
                       /\ InodeTableBits < (InodeSec + 1) * m
  BY DEF TableFilled
<1>2. (InodeSec + 1) * b < (InodeSec + 1) * m
  <2>1. (InodeSec + 1) * b = InodeSec * b + b
    BY LayoutAssumption
  <2> QED
    BY <1>1, <2>1, LayoutAssumption DEF TableFilled
<1>3. b < m
  <2>1. m <= b => (InodeSec + 1) * m <= (InodeSec + 1) * b
    BY LayoutAssumption
  <2> QED
    BY <1>2, <2>1, LayoutAssumption
<1>4. InodeSec * (b + 1) <= InodeSec * m
  BY <1>3, LayoutAssumption
<1> QED
  BY <1>1, <1>4, LayoutAssumption

\* A call that grows the inode block leaves it within the table.
LEMMA ResizedSuffices ==
    ASSUME TableFilled, NEW d, Consistent(d), InodeMax(d) <= InodeTableBits
    PROVE  InodeMax(ResizeInodeBlock(d)) <= InodeTableBits
<1> DEFINE b == d.inode_block_size
<1>1. CASE ~HasFreeInode(d) /\ CanGrow(d)
  <2>1. ResizeInodeBlock(d) = Grown(d)
    BY <1>1 DEF ResizeInodeBlock
  <2>2. b \in Nat /\ Grown(d).inode_block_size = b + 1
    BY DEF Consistent, FileSystem, Grown
  <2>3. InodeSec * b <= SectorCount - (InodeBlock + b) - 1
    BY <1>1, FullBlockIsSmall DEF InodeMax, GrowthBit, MetadataSize
  <2>4. InodeSec * b + b < SectorCount
    BY <2>2, <2>3, LayoutAssumption
  <2> HIDE DEF b
  <2> QED
    BY <2>1, <2>2, <2>4, GrowthFits DEF InodeMax
<1>2. CASE ~(~HasFreeInode(d) /\ CanGrow(d))
  BY <1>2 DEF ResizeInodeBlock
<1> QED
  BY <1>1, <1>2

\* No call writes behind the end of the inode allocation table, although
\* resize_inode_block does not look at its size: before the table runs out
\* the bundles have used up the sectors that the inode block could take.
THEOREM InodeTableIsLargeEnough ==
    ASSUME RestoreAligned, TableFilled PROVE Spec => []InodeTableSuffices
<1>1. Init => InodeTableSuffices
  BY LayoutAssumption DEF Init, InodeTableSuffices, InodeMax
<1>2. Inv /\ InodeTableSuffices /\ [Next]_vars => InodeTableSuffices'
  <2> SUFFICES ASSUME Inv, InodeTableSuffices, [Next]_vars
               PROVE  InodeTableSuffices'
    OBVIOUS
  <2> DEFINE Same == fs'.inode_block_size = fs.inode_block_size
             r == ResizeInodeBlock(fs)
  <2>1. Consistent(fs) /\ Consistent(r) /\ InodeMax(fs) <= InodeTableBits
    BY ResizedConsistent DEF Inv, InodeTableSuffices
  <2>2. ASSUME NEW size \in Sizes, NEW ttl \in TTLs, NEW custody \in BOOLEAN,
               FsCreate(size, ttl, custody)
        PROVE  Same \/ fs'.inode_block_size = r.inode_block_size
    <3>1. RoomFor(size).inode_block_size = r.inode_block_size
      BY DEF RoomFor, FreeDiskSpace, Deleted
    <3>2. CASE CreateWithoutInode
      BY <3>2 DEF CreateWithoutInode, Return
    <3>3. CASE CreateBundle(size, ttl, custody)
      BY <3>1, <3>3 DEF CreateBundle, Return, Placed, Written
    <3>4. CASE CreateWithoutSpace(size)
      BY <3>1, <3>4 DEF CreateWithoutSpace, Return
    <3> QED
      BY <2>2, <3>2, <3>3, <3>4 DEF FsCreate
  <2>3. ASSUME NEW f, FsDelete(f) \/ FsClose(f)
        PROVE  Same
    BY <2>1, <2>3 DEF FsDelete, FsClose, Return, Deleted, Written, Consistent,
                      FileSystem
  <2>4. ASSUME DeleteInvalidInodes \/ RestoreFs \/ Tick \/ UNCHANGED vars
        PROVE  Same
    BY <2>1, <2>4 DEF DeleteInvalidInodes, RestoreFs, Tick, vars, Return,
                      Collected, Restored, Consistent, FileSystem
  <2>5. Same \/ fs'.inode_block_size = r.inode_block_size
    BY <2>2, <2>3, <2>4 DEF Next
  <2>6. InodeMax(r) <= InodeTableBits
    BY <2>1, ResizedSuffices
  <2> HIDE DEF r
  <2> QED
    BY <2>1, <2>5, <2>6 DEF InodeTableSuffices, InodeMax
<1> QED
  BY <1>1, <1>2, Invariance, PTL DEF Spec

-----------------------------------------------------------------------------
(* FileSystem implements BundleStore: initial states map to initial states *)
(* and each step maps to a step of the store or leaves it as it is.  The   *)
(* invariant above is what makes the mapping work: a victim of             *)
(* free_disk_space leaves room enough because its sectors were its own, so *)
(* the call that deleted it goes on to store the new bundle.               *)

\* The abstract view depends on the live inodes alone.
LEMMA SameBundles ==
    ASSUME NEW d, NEW e, Live(e) = Live(d),
           \A n \in Live(d) : e.inodes[n] = d.inodes[n]
    PROVE  Bundles(e) = Bundles(d)
  BY DEF Bundles

\* Growing the inode block is invisible.
LEMMA ResizeIsInvisible ==
    ASSUME NEW d, Consistent(d)
    PROVE  Bundles(ResizeInodeBlock(d)) = Bundles(d)
  BY ResizedConsistent, SameBundles

\* fs_delete removes the one bundle.
LEMMA DeletedBundles ==
    ASSUME NEW d, Consistent(d), NEW n \in Live(d)
    PROVE  Bundles(Deleted(d, d.inodes[n]))
             = [m \in Live(d) \ {n} |-> Bundles(d)[m]]
<1> DEFINE e == Deleted(d, d.inodes[n])
<1>1. Live(e) = Live(d) \ {n}
      /\ \A m \in Live(d) \ {n} : e.inodes[m] = d.inodes[m]
  BY DeletedConsistent
<1> HIDE DEF e
<1> QED
  BY <1>1 DEF Bundles, e

\* fs_create adds the one bundle.
LEMMA PlacedBundles ==
    ASSUME NEW d, Consistent(d), NEW size \in Sizes, NEW ttl \in TTLs,
           NEW custody \in BOOLEAN, HasFreeInode(d), Fits(d, size)
    PROVE  LET f == NewInode(d, size, ttl, custody)
               n == f.inode_offset IN
           /\ n \in InodeNumbers \ Live(d)
           /\ Bundles(Placed(d, f))
                = [m \in Live(d) \cup {n} |->
                     IF m = n THEN Store!Bundle(size, ttl, custody)
                              ELSE Bundles(d)[m]]
<1> DEFINE f == NewInode(d, size, ttl, custody)
           n == f.inode_offset
           e == Placed(d, f)
<1>1. /\ f \in Inode
      /\ Bits(f) \subseteq 0 .. (SectorCount - 1) /\ Bits(f) \cap d.at = {}
      /\ n \notin d.it
  BY NewInodeFits
<1>2. f.size = size /\ f.time_to_live = ttl /\ f.custody = custody
  BY DEF NewInode
<1> HIDE DEF f
<1>3. /\ Live(e) = Live(d) \cup {n} /\ e.inodes[n] = f
      /\ \A m \in Live(d) : e.inodes[m] = d.inodes[m]
  BY <1>1, PlacedConsistent
<1>4. n \in InodeNumbers \ Live(d)
  BY <1>1 DEF Inode, Live
<1> HIDE DEF n, e
<1>5. Bundles(e) = [m \in Live(d) \cup {n} |->
                      IF m = n THEN Store!Bundle(size, ttl, custody)
                               ELSE Bundles(d)[m]]
  BY <1>2, <1>3, <1>4 DEF Bundles, Store!Bundle
<1> QED
  BY <1>4, <1>5 DEF f, n, e

\* The bundle that was traded is one that the store allows to be traded.
LEMMA TradeAllowed ==
    ASSUME NEW v \in Live(fs), NEW size, fs.inodes[v].size >= size,
           ~fs.inodes[v].custody \/ IsNotValid(fs.inodes[v])
    PROVE  v \in Store!Expendable(size)
  BY DEF Store!Expendable, Store!Stored, Store!Expired, IsNotValid, bundles,
         Bundles

\* fs_create, when it succeeds, is a Put.
LEMMA CreateIsPut ==
    ASSUME Inv, NEW size \in Sizes, NEW ttl \in TTLs, NEW custody \in BOOLEAN,
           CreateBundle(size, ttl, custody)
    PROVE  Store!Put(size, ttl, custody)
<1> DEFINE r == ResizeInodeBlock(fs)
           d == RoomFor(size)
           n == NewInode(d, size, ttl, custody).inode_offset
           new == Store!Bundle(size, ttl, custody)
           Freed(t) == /\ HasFreeInode(d)
                       /\ Live(d) = Live(fs) \ t
                       /\ Bundles(d) = [m \in Live(fs) \ t |-> bundles[m]]
<1>1. Consistent(fs) /\ Consistent(r) /\ Consistent(d)
  BY ResizedConsistent, RoomForConsistent DEF Inv
<1>2. /\ Live(r) = Live(fs) /\ r.inodes = fs.inodes
      /\ Bundles(r) = bundles
  BY <1>1, ResizedConsistent, ResizeIsInvisible DEF bundles
<1>3. /\ Fits(d, size) /\ HasFreeInode(r)
      /\ fs' = Placed(d, NewInode(d, size, ttl, custody))
  BY DEF CreateBundle, Return
<1>4. PICK traded \in {{}} \cup {{v} : v \in Store!Expendable(size)}  :
        Freed(traded)
  <2>1. CASE d = r
    <3>1. Bundles(d) = [m \in Live(fs) \ {} |-> bundles[m]]
      BY <1>2, <2>1 DEF Bundles, bundles
    <3> QED
      BY <1>2, <1>3, <2>1, <3>1
  <2>2. ASSUME NEW v \in Live(fs), HasFreeInode(d),
               d = Deleted(r, r.inodes[v]), r.inodes[v].size >= size,
               ~r.inodes[v].custody \/ IsNotValid(r.inodes[v])
        PROVE  \E w \in Store!Expendable(size) : Freed({w})
    <3>1. v \in Store!Expendable(size)
      BY <1>2, <2>2, TradeAllowed
    <3>2. Live(d) = Live(fs) \ {v}
      BY <1>1, <1>2, <2>2, DeletedConsistent
    <3>3. Bundles(d) = [m \in Live(fs) \ {v} |-> bundles[m]]
      BY <1>1, <1>2, <2>2, DeletedBundles
    <3> QED
      BY <2>2, <3>1, <3>2, <3>3
  <2> QED
    BY <1>1, <2>1, <2>2, RoomForCases
<1>9. Store!Returns("fs_create", "FS_OK")
  BY DEF CreateBundle, Return, Store!Returns
<1> HIDE DEF r, d, n, new
<1>5. /\ n \in InodeNumbers \ Live(d)
      /\ bundles' = [m \in Live(d) \cup {n} |->
                       IF m = n THEN new ELSE Bundles(d)[m]]
  BY <1>1, <1>3, <1>4, PlacedBundles DEF n, new, bundles
<1>6. Store!Stored = Live(fs)
  BY DEF Store!Stored, bundles, Bundles
<1>7. bundles' = [m \in (Store!Stored \ traded) \cup {n} |->
                    IF m = n THEN new ELSE bundles[m]]
  BY <1>4, <1>5, <1>6
<1>8. n \in InodeNumbers \ (Store!Stored \ traded)
  BY <1>4, <1>5, <1>6
<1> QED
  BY <1>4, <1>7, <1>8, <1>9 DEF Store!Put, new

\* fs_create, when it fails, is a Refuse: it has not deleted a bundle.
LEMMA RefusalIsRefuse ==
    ASSUME Inv, NEW size \in Sizes,
           CreateWithoutInode \/ CreateWithoutSpace(size)
    PROVE  Store!Refuse
<1>1. CASE CreateWithoutInode
  BY <1>1, ResizeIsInvisible
  DEF CreateWithoutInode, Return, bundles, Inv, Store!Refuse, Store!Returns
<1>2. CASE CreateWithoutSpace(size)
  <2>1. /\ fs' = RoomFor(size) /\ ~Fits(RoomFor(size), size)
        /\ Store!Returns("fs_create", "FS_FULL")
    BY <1>2 DEF CreateWithoutSpace, Return, Store!Returns
  <2>2. RoomFor(size) = ResizeInodeBlock(fs)
    BY <2>1, RoomForCases DEF Inv
  <2>3. Bundles(RoomFor(size)) = Bundles(fs)
    BY <2>2, ResizeIsInvisible DEF Inv
  <2> QED
    BY <2>1, <2>3 DEF bundles, Store!Refuse
<1> QED
  BY <1>1, <1>2

\* fs_close changes the custody and the life of one bundle.
LEMMA CloseIsUpdate ==
    ASSUME Inv, NEW n \in Live(fs), NEW ttl \in TTLs, NEW custody \in BOOLEAN,
           FsClose([fs.inodes[n] EXCEPT !.custody = custody,
                                        !.time_to_live = ttl])
    PROVE  Store!Update(n, ttl, custody)
<1> DEFINE f == [fs.inodes[n] EXCEPT !.custody = custody,
                                     !.time_to_live = ttl]
           e == Written(fs, f)
<1>1. fs' = e /\ Store!Returns("fs_close", "FS_OK")
  BY DEF FsClose, Return, Store!Returns
<1>2. /\ f \in Inode /\ f.inode_offset = n
      /\ f.size = fs.inodes[n].size /\ f.location = fs.inodes[n].location
      /\ f.custody = custody /\ f.time_to_live = ttl
  BY DEF Inv, Consistent, LiveInodesNamed, Inode
<1> HIDE DEF f
<1>3. /\ Live(e) = Live(fs)
      /\ \A m \in Live(fs) : e.inodes[m] = IF m = n THEN f ELSE fs.inodes[m]
  BY <1>2, WrittenConsistent DEF Inv
<1> HIDE DEF e
<1>4. Bundles(e) = [m \in Live(fs) |->
                      IF m = n THEN Store!Bundle(bundles[n].size, ttl, custody)
                               ELSE bundles[m]]
  BY <1>2, <1>3 DEF Bundles, bundles, Store!Bundle
<1>5. Bundles(e) = [bundles EXCEPT ![n] = Store!Bundle(@.size, ttl, custody)]
  BY <1>4 DEF bundles, Bundles
<1> QED
  BY <1>1, <1>5 DEF Store!Update, bundles

\* delete_invalid_inodes drops the expired bundles.
LEMMA CollectionIsDrop ==
    ASSUME Inv, DeleteInvalidInodes
    PROVE  Store!CollectExpired
<1> DEFINE e == Collected(fs)
           x == {n \in Live(fs) : IsNotValid(fs.inodes[n])}
<1>1. fs' = e /\ Store!Returns("delete_invalid_inodes", "FS_OK")
  BY DEF DeleteInvalidInodes, Return, Store!Returns
<1>2. /\ Live(e) = Live(fs) \ x
      /\ \A m \in Live(e) : e.inodes[m] = fs.inodes[m]
  BY CollectedConsistent DEF Inv
<1>3. /\ Store!Stored = Live(fs)
      /\ {n \in Store!Stored : Store!Expired(bundles[n])} = x
  BY DEF Store!Stored, Store!Expired, IsNotValid, bundles, Bundles
<1> HIDE DEF e, x
<1>4. Bundles(e) = [m \in Live(fs) \ x |-> bundles[m]]
  BY <1>2 DEF Bundles, bundles
<1> QED
  BY <1>1, <1>3, <1>4 DEF Store!CollectExpired, Store!Without, bundles

\* A formatted disk holds no bundle.
LEMMA InitRefines == Init => Store!StoreInit
<1> SUFFICES ASSUME Init PROVE Store!StoreInit
  OBVIOUS
<1>1. Live(fs) = {}
  BY LayoutAssumption DEF Init, Live, InodeMax, Run
<1> QED
  BY <1>1 DEF Store!StoreInit, bundles, Bundles, Init

\* Each call of the file system is a step of the store, named by the same call
\* and with the same result.
LEMMA StepRefines ==
    ASSUME RestoreAligned, Inv, [Next]_vars
    PROVE  [Store!StoreNext]_(Store!storeVars)
<1>1. ASSUME NEW size \in Sizes, NEW ttl \in TTLs, NEW custody \in BOOLEAN,
             FsCreate(size, ttl, custody)
      PROVE  [Store!StoreNext]_(Store!storeVars)
  <2>1. CASE CreateBundle(size, ttl, custody)
    BY <2>1, CreateIsPut DEF Store!StoreNext
  <2>2. CASE CreateWithoutInode \/ CreateWithoutSpace(size)
    BY <2>2, RefusalIsRefuse DEF Store!StoreNext
  <2> QED
    BY <1>1, <2>1, <2>2 DEF FsCreate
<1>2. ASSUME NEW n \in Live(fs), FsDelete(fs.inodes[n])
      PROVE  [Store!StoreNext]_(Store!storeVars)
  <2>1. n \in Store!Stored /\ Store!Stored = Live(fs)
    BY DEF Store!Stored, bundles, Bundles
  <2>2. bundles' = [m \in Store!Stored \ {n} |-> bundles[m]]
    BY <1>2, <2>1, DeletedBundles DEF Inv, FsDelete, Return, bundles
  <2>3. Store!Returns("fs_delete", "FS_OK")
    BY <1>2 DEF FsDelete, Return, Store!Returns
  <2> QED
    BY <2>1, <2>2, <2>3 DEF Store!StoreNext, Store!Drop, Store!Without
<1>3. ASSUME NEW n \in Live(fs), NEW ttl \in TTLs, NEW custody \in BOOLEAN,
             FsClose([fs.inodes[n] EXCEPT !.custody = custody,
                                          !.time_to_live = ttl])
      PROVE  [Store!StoreNext]_(Store!storeVars)
  <2>1. n \in Store!Stored
    BY DEF Store!Stored, bundles, Bundles
  <2>2. Store!Update(n, ttl, custody)
    BY <1>3, CloseIsUpdate
  <2> QED
    BY <2>1, <2>2 DEF Store!StoreNext
<1>4. CASE DeleteInvalidInodes
  BY <1>4, CollectionIsDrop DEF Store!StoreNext
<1>5. CASE RestoreFs
  BY <1>5, RestoredConsistent
  DEF RestoreFs, Return, Inv, Store!StoreNext, Store!Repair, Store!Returns, bundles
<1>6. CASE Tick
  BY <1>6 DEF Tick, Store!StoreNext, Store!Tick, bundles
<1>7. CASE UNCHANGED vars
  BY <1>7 DEF vars, Store!storeVars, bundles
<1> QED
  BY <1>1, <1>2, <1>3, <1>4, <1>5, <1>6, <1>7 DEF Next

\* Every behaviour of the file system is, seen from the bundle agent, one of
\* the abstract store: no bundle with custody is given up before it expires,
\* and no bundle at all is deleted for a bundle that is then refused, since the
\* store's step for an fs_create that returns FS_FULL keeps all bundles.
THEOREM FileSystemImplementsStore ==
    ASSUME RestoreAligned PROVE Spec => ImplementsBundleStore
<1>1. Init => Store!StoreInit
  BY InitRefines
<1>2. Inv /\ [Next]_vars => [Store!StoreNext]_(Store!storeVars)
  BY StepRefines
<1> QED
  BY <1>1, <1>2, Invariance, PTL
  DEF Spec, ImplementsBundleStore, Store!StoreSpec
=============================================================================
