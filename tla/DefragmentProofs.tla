--------------------------- MODULE DefragmentProofs ---------------------------
(***************************************************************************)
(* Proofs about Defragment for every disk, bundles of any sizes, and any   *)
(* number of failures, as long as each turn of the loop finds what the     *)
(* loop is written for (RightTurn).  A turn that has begun is described by *)
(* the file system from before it (Turning): all writes but the last leave *)
(* inodes that lead to the data.                                           *)
(*                                                                         *)
(* If all bundles have as many sectors as one another, every turn is       *)
(* right: first fit places such bundles in blocks of their length from the *)
(* end of the disk on (InBlocks), so that in each turn either the first    *)
(* hole is the place of the bundle, or the bundle is in its place already. *)
(***************************************************************************)
EXTENDS Defragment, FileSystemProofs, SequenceTheorems

\* Consistent but for the allocation table, which restore_fs does not read.
Recoverable(d) ==
    /\ d \in FileSystem
    /\ LiveInodesNamed(d)
    /\ BundlesApart(d)
    /\ InodeBlockClosed(d)
    /\ MetadataInside(d)

\* The bits of a bundle are as many as it has sectors, and say where it is.
LEMMA BitsAre ==
    ASSUME NEW f \in Inode, NEW len, len = Sectors(f.size)
    PROVE  /\ len \in Nat \ {0}
           /\ f.location \in 0 .. (SectorCount - 1)
           /\ Bits(f) = (SectorCount - f.location - len)
                          .. (SectorCount - f.location - 1)
<1>1. f.size \in Sizes /\ f.location \in 0 .. (SectorCount - 1)
  BY DEF Inode
<1>2. len \in Nat \ {0}
  <2>1. f.size \in Nat \ {0}
    BY <1>1, BundleAssumption
  <2> QED
    BY <2>1, SectorsPositive
<1> QED
  BY <1>1, <1>2, LayoutAssumption DEF Bits, Run

-----------------------------------------------------------------------------
(* A turn of the loop.                                                     *)

\* What is done, and the inodes that are still to be done: the bundles that
\* are done fill the end of the disk, from sector k on.  A bundle that was not
\* in its place when the loop began still has free bits before it.
ToDo(d, rest, k) ==
    /\ k \in Int
    /\ SectorCount - k \in Nat
    /\ 0 .. (SectorCount - k - 1) \subseteq d.at
    /\ \A f \in rest :
         /\ f.inode_offset \in Live(d) /\ d.inodes[f.inode_offset] = f
         /\ Bits(f) \cap (0 .. (SectorCount - k - 1)) = {}
         /\ f.inode_offset \in settled
              \/ \E b \in 0 .. (SectorCount - 1 - f.location) : b \notin d.at
    /\ \A n \in Live(d) :
         d.inodes[n] \notin rest =>
           Bits(d.inodes[n]) \subseteq 0 .. (SectorCount - k - 1)

\* A free sequence of bits lies before the metadata.
LEMMA FreeIsData ==
    ASSUME NEW d, Consistent(d), NEW i \in 0 .. (SectorCount - 1),
           i \notin d.at
    PROVE  i \in DataBits(d)
  BY MetadataAndData DEF Consistent, TableExact

\* quicksort_inodes: a nonempty set of inodes has a last one.
LEMMA LastInodeIsLast ==
    ASSUME NEW S, S # {}, S \subseteq Inode
    PROVE  /\ LastInode(S) \in S
           /\ \A g \in S : g.location <= LastInode(S).location
<1> DEFINE T == {SectorCount - f.location : f \in S}
<1>1. \A f \in S : f.location \in 0 .. (SectorCount - 1)
  BY DEF Inode
<1>2. T \in SUBSET Nat /\ T # {}
  BY <1>1, LayoutAssumption
<1>3. Least(T) \in T /\ \A j \in T : Least(T) <= j
  BY <1>2, LeastInSet
<1>4. PICK f \in S : Least(T) = SectorCount - f.location
  BY <1>3
<1>5. \A g \in S : SectorCount - f.location <= SectorCount - g.location
  BY <1>3, <1>4
<1>6. \A g \in S : g.location <= f.location
  BY <1>1, <1>5, LayoutAssumption
<1> QED
  BY <1>6 DEF LastInode

\* The disk during a turn: the table of free sectors may be anything.
Like(e, d) ==
    /\ e \in FileSystem
    /\ e.it = d.it /\ e.inode_block_size = d.inode_block_size

\* The free place, from bit tmp on, that a turn may use.
Hole(d, tmp, len) ==
    /\ tmp \in 0 .. (SectorCount - len)
    /\ Run(tmp, len) \cap d.at = {}

\* First fit finds one.
LEMMA FirstFitIsHole ==
    ASSUME NEW d, NEW len \in Nat, HasSeq(d.at, SectorCount, len)
    PROVE  Hole(d, FindSeq(d.at, SectorCount, len), len)
  BY FindSeqIsFree, LayoutAssumption DEF CheckSeq, Hole

\* The inodes when the one of the bundle leads to another place.
Relocated(f, location) == [f EXCEPT !.location = location]

Moved(d, f, location) ==
    [d.inodes EXCEPT ![f.inode_offset] = Relocated(f, location)]

\* The table alone does not tell a consistent file system from a recoverable one.
LEMMA AtBegin ==
    ASSUME NEW d, Consistent(d), NEW e, Like(e, d), e.inodes = d.inodes
    PROVE  /\ Recoverable(e) /\ Live(e) = Live(d)
           /\ Bundles(e) = Bundles(d)
           /\ e.at = d.at => e = d
<1>1. Live(e) = Live(d) /\ DataBits(e) = DataBits(d)
      /\ InodeMax(e) = InodeMax(d) /\ MetadataSize(e) = MetadataSize(d)
  BY DEF Like, Live, InodeMax, DataBits, MetadataSize
<1>2. Recoverable(e)
  BY <1>1 DEF Consistent, Recoverable, LiveInodesNamed, BundlesApart, Like,
              InodeBlockClosed, MetadataInside
<1>3. Bundles(e) = Bundles(d)
  BY <1>1, SameBundles
<1>4. e.at = d.at => e = d
  BY DEF Like, Consistent, FileSystem
<1> QED
  BY <1>1, <1>2, <1>3, <1>4

\* The hole is where bundles may be.
LEMMA HoleIsFree ==
    ASSUME NEW d, Consistent(d), NEW n \in Live(d),
           NEW f, f = d.inodes[n], NEW len, len = Sectors(f.size),
           NEW tmp, Hole(d, tmp, len)
    PROVE  /\ f \in Inode /\ f.inode_offset = n
           /\ Place(f, tmp) = SectorCount - tmp - len
           /\ Place(f, tmp) \in 0 .. (SectorCount - 1)
           /\ len \in Nat \ {0}
           /\ Run(tmp, len) \subseteq DataBits(d)
<1>1. f \in Inode /\ f.inode_offset = n
  BY DEF Consistent, LiveInodesNamed
<1>2. len \in Nat \ {0}
  BY <1>1, BitsAre
<1>3. Place(f, tmp) = SectorCount - tmp - len
      /\ Place(f, tmp) \in 0 .. (SectorCount - 1)
  BY <1>2, LayoutAssumption DEF Place, Hole
<1>4. Run(tmp, len) \subseteq DataBits(d)
  <2>1. Run(tmp, len) \subseteq 0 .. (SectorCount - 1)
    BY <1>2, LayoutAssumption DEF Run, Hole
  <2> QED
    BY <2>1, FreeIsData DEF Hole
<1> QED
  BY <1>1, <1>2, <1>3, <1>4

\* A bundle in the hole is as good a bundle as the one it is a copy of.
LEMMA InHole ==
    ASSUME NEW d, Consistent(d), NEW n \in Live(d),
           NEW f, f = d.inodes[n], NEW len, len = Sectors(f.size),
           NEW tmp, Hole(d, tmp, len), NEW g, g = Relocated(f, Place(f, tmp))
    PROVE  /\ g \in Inode /\ g.inode_offset = n /\ g.location = Place(f, tmp)
           /\ Bits(g) = Run(tmp, len)
<1>1. /\ f \in Inode /\ f.inode_offset = n
      /\ Place(f, tmp) = SectorCount - tmp - len
      /\ Place(f, tmp) \in 0 .. (SectorCount - 1)
      /\ len \in Nat \ {0}
  BY HoleIsFree, Z3
<1>2. /\ g \in Inode /\ g.inode_offset = n
      /\ g.location = Place(f, tmp) /\ g.size = f.size
  BY <1>1 DEF Inode, Relocated
<1>3. SectorCount - (g.location + Sectors(g.size)) = tmp
  BY <1>1, <1>2, LayoutAssumption DEF Hole
<1> QED
  BY <1>1, <1>2, <1>3 DEF Bits

\* When the inode leads to the hole nothing else has changed; when the old
\* sectors are free too, the table is exact again.
LEMMA AtHole ==
    ASSUME NEW d, Consistent(d), NEW n \in Live(d),
           NEW f, f = d.inodes[n], NEW len, len = Sectors(f.size),
           NEW tmp, Hole(d, tmp, len), NEW e, Like(e, d),
           e.inodes = Moved(d, f, Place(f, tmp))
    PROVE  /\ Recoverable(e) /\ Live(e) = Live(d)
           /\ Bundles(e) = Bundles(d)
           /\ Bits(e.inodes[n]) = Run(tmp, len)
           /\ e.at = (d.at \cup Run(tmp, len)) \ Bits(f) => Consistent(e)
<1> DEFINE g == Relocated(f, Place(f, tmp))
<1>1. /\ f \in Inode /\ g \in Inode
      /\ f.inode_offset = n /\ g.inode_offset = n
      /\ Bits(g) = Run(tmp, len) /\ Run(tmp, len) \subseteq DataBits(d)
  BY HoleIsFree, InHole, Z3
<1>2. n \in InodeNumbers /\ d.inodes \in [InodeNumbers -> Inode \cup {NoInode}]
  BY DEF Consistent, FileSystem, Live
<1>3. Live(e) = Live(d) /\ DataBits(e) = DataBits(d) /\ Metadata(e) = Metadata(d)
      /\ InodeMax(e) = InodeMax(d) /\ MetadataSize(e) = MetadataSize(d)
  BY DEF Like, Live, InodeMax, DataBits, MetadataSize, Metadata
<1>4. e.inodes[n] = g /\ \A m \in Live(d) \ {n} : e.inodes[m] = d.inodes[m]
  BY <1>1, <1>2 DEF Live, Consistent, FileSystem, Moved
<1> HIDE DEF g
<1>5. \A m \in Live(d) : Bits(d.inodes[m]) \subseteq d.at
  BY DEF Consistent, TableExact, LiveBits
<1>6. LiveInodesNamed(e)
  BY <1>1, <1>3, <1>4 DEF Consistent, LiveInodesNamed, Inode
<1>7. BundlesApart(e)
  <2>1. \A m \in Live(d) \ {n} : Bits(g) \cap Bits(d.inodes[m]) = {}
    BY <1>1, <1>5 DEF Hole
  <2> QED
    BY <1>1, <1>3, <1>4, <2>1 DEF Consistent, BundlesApart
<1>8. Recoverable(e)
  BY <1>1, <1>3, <1>4, <1>6, <1>7
  DEF Recoverable, Consistent, Like, InodeBlockClosed, MetadataInside
<1>9. Bundles(e) = Bundles(d)
  <2>1. g.size = f.size /\ g.time_to_live = f.time_to_live
        /\ g.custody = f.custody
    BY <1>1 DEF g, Relocated, Inode
  <2>2. \A m \in Live(d) : /\ e.inodes[m].size = d.inodes[m].size
                           /\ e.inodes[m].time_to_live = d.inodes[m].time_to_live
                           /\ e.inodes[m].custody = d.inodes[m].custody
    BY <1>4, <2>1
  <2> QED
    BY <1>3, <2>2 DEF Bundles
<1>10. ASSUME e.at = (d.at \cup Run(tmp, len)) \ Bits(f)
       PROVE  Consistent(e)
  <2>1. LiveBits(e) = (LiveBits(d) \ Bits(f)) \cup Run(tmp, len)
    <3>1. LiveBits(e) = Bits(g) \cup UNION {Bits(d.inodes[m]) : m \in Live(d) \ {n}}
      BY <1>3, <1>4 DEF LiveBits
    <3>2. UNION {Bits(d.inodes[m]) : m \in Live(d) \ {n}} = LiveBits(d) \ Bits(f)
      BY DEF LiveBits, Consistent, BundlesApart
    <3> QED
      BY <1>1, <3>1, <3>2
  <2>2. Bits(f) \cap Metadata(d) = {} /\ Run(tmp, len) \cap Bits(f) = {}
    BY <1>1, <1>5, MetadataAndData DEF Consistent, BundlesApart, Hole
  <2>3. TableExact(e)
    BY <1>3, <1>10, <2>1, <2>2 DEF TableExact, Consistent
  <2> QED
    BY <1>8, <2>3 DEF Recoverable, Consistent
<1> QED
  BY <1>1, <1>3, <1>4, <1>8, <1>9, <1>10

\* All is done: no free bit lies before a bundle.
Compact(d) == \A b \in LiveBits(d) : 0 .. b \subseteq d.at

\* When no bundle is left to be done, there is no gap between them.
LEMMA NothingToDo ==
    ASSUME NEW d, Consistent(d), NEW k, ToDo(d, {}, k)
    PROVE  Compact(d)
<1> SUFFICES ASSUME NEW n \in Live(d), NEW b \in Bits(d.inodes[n])
             PROVE  0 .. b \subseteq d.at
  BY DEF Compact, LiveBits
<1>1. b \in 0 .. (SectorCount - k - 1)
  BY DEF ToDo
<1>2. 0 .. b \subseteq 0 .. (SectorCount - k - 1)
  BY <1>1, LayoutAssumption DEF ToDo
<1> QED
  BY <1>2 DEF ToDo

\* A bundle that stays where it is has its turn.
LEMMA StayEnds ==
    ASSUME NEW d, Consistent(d), NEW rest, NEW k, ToDo(d, rest, k),
           NEW f \in rest, f \in Inode, f.location = k - Sectors(f.size)
    PROVE  ToDo(d, rest \ {f}, f.location)
<1>0. PICK len : len = Sectors(f.size)
  OBVIOUS
<1>1. /\ len \in Nat \ {0} /\ f.location \in 0 .. (SectorCount - 1)
      /\ Bits(f) = (SectorCount - f.location - len)
                     .. (SectorCount - f.location - 1)
  BY <1>0, BitsAre
<1>2. /\ k \in Int /\ SectorCount \in Nat /\ SectorCount - k \in Nat
      /\ f.location = k - len
  BY <1>0, LayoutAssumption DEF ToDo
<1>3. 0 .. (SectorCount - f.location - 1)
        = (0 .. (SectorCount - k - 1)) \cup Bits(f)
  BY <1>1, <1>2
<1>4. Bits(f) \subseteq d.at
  BY DEF ToDo, Consistent, TableExact, LiveBits
<1>5. \A g \in rest \ {f} : Bits(g) \cap Bits(f) = {}
  BY DEF ToDo, Consistent, BundlesApart
<1>6. SectorCount - f.location \in Nat
  BY <1>1, <1>2
<1> DEFINE Done == 0 .. (SectorCount - k - 1)
           Done2 == 0 .. (SectorCount - f.location - 1)
<1>7. /\ Done2 = Done \cup Bits(f)
      /\ Done \subseteq d.at
      /\ \A g \in rest : Bits(g) \cap Done = {}
      /\ \A n \in Live(d) : d.inodes[n] \notin rest => Bits(d.inodes[n]) \subseteq Done
  BY <1>3 DEF ToDo
<1>8. /\ \A g \in rest \ {f} :
           /\ g.inode_offset \in Live(d) /\ d.inodes[g.inode_offset] = g
           /\ g.inode_offset \in settled
                \/ \E b \in 0 .. (SectorCount - 1 - g.location) : b \notin d.at
  BY DEF ToDo
<1> HIDE DEF Done, Done2
<1>9. /\ Done2 \subseteq d.at
      /\ \A g \in rest \ {f} : Bits(g) \cap Done2 = {}
      /\ \A n \in Live(d) : d.inodes[n] \notin rest \ {f} =>
           Bits(d.inodes[n]) \subseteq Done2
  BY <1>4, <1>5, <1>7
<1> QED
  BY <1>1, <1>6, <1>8, <1>9 DEF ToDo, Done2

\* A bundle that has moved to its place has its turn: its old sectors are free,
\* before the bundles that are still to be done.
LEMMA MoveEnds ==
    ASSUME NEW d, Consistent(d), NEW rest, NEW k, ToDo(d, rest, k),
           NEW f \in rest, \A g \in rest : g.location <= f.location,
           NEW len, len = Sectors(f.size),
           NEW tmp, Hole(d, tmp, len), k = SectorCount - tmp,
           NEW e, Like(e, d),
           e.inodes = Moved(d, f, Place(f, tmp)),
           e.at = (d.at \cup Run(tmp, len)) \ Bits(f)
    PROVE  ToDo(e, rest \ {f}, Place(f, tmp))
<1> DEFINE n == f.inode_offset
           g == Relocated(f, Place(f, tmp))
<1>1. n \in Live(d) /\ d.inodes[n] = f
  BY DEF ToDo
<1>2. /\ f \in Inode /\ g \in Inode
      /\ len \in Nat \ {0}
      /\ Bits(g) = Run(tmp, len)
      /\ Place(f, tmp) = k - len
  <2> HIDE DEF g
  <2> QED
    BY <1>1, HoleIsFree, InHole DEF g
<1>3. Live(e) = Live(d) /\ Bits(e.inodes[n]) = Run(tmp, len)
  BY <1>1, AtHole
<1>4. \A m \in Live(d) \ {n} : e.inodes[m] = d.inodes[m]
  BY DEF Consistent, FileSystem, Live, Moved
<1>5. Bits(f) \subseteq d.at /\ \A h \in rest : Bits(h) \subseteq d.at
  BY DEF ToDo, Consistent, TableExact, LiveBits
<1>6. k \in Int /\ SectorCount \in Nat
  BY LayoutAssumption DEF ToDo
<1>7. SectorCount - Place(f, tmp) \in Nat
  BY <1>2, <1>6 DEF Hole, ToDo
<1> DEFINE Done == 0 .. (SectorCount - k - 1)
           Done2 == 0 .. (SectorCount - Place(f, tmp) - 1)
<1>8. Done2 = Done \cup Run(tmp, len)
  <2>1. tmp \in Nat /\ SectorCount - k - 1 = tmp - 1
        /\ SectorCount - Place(f, tmp) - 1 = tmp + len - 1
    BY <1>2, <1>6 DEF Hole
  <2>2. Done = 0 .. (tmp - 1) /\ Done2 = 0 .. (tmp + len - 1)
    BY <2>1
  <2> QED
    BY <1>2, <2>1, <2>2 DEF Run
<1>9. /\ Done \subseteq d.at
      /\ \A h \in rest : Bits(h) \cap Done = {}
      /\ \A m \in Live(d) : d.inodes[m] \notin rest => Bits(d.inodes[m]) \subseteq Done
      /\ \A h \in rest : h.inode_offset \in Live(d) /\ d.inodes[h.inode_offset] = h
  BY DEF ToDo
<1> HIDE DEF Done, Done2, g
<1>10. Done2 \subseteq e.at
  BY <1>5, <1>8, <1>9 DEF Hole
<1>11. \A h \in rest \ {f} :
         /\ h.inode_offset \in Live(e) /\ e.inodes[h.inode_offset] = h
         /\ Bits(h) \cap Done2 = {}
  BY <1>3, <1>4, <1>5, <1>8, <1>9 DEF Hole
<1>12. \A m \in Live(e) : e.inodes[m] \notin rest \ {f} =>
         Bits(e.inodes[m]) \subseteq Done2
  <2> TAKE m \in Live(e)
  <2>1. CASE m = n
    BY <1>3, <1>8, <2>1
  <2>2. CASE m # n
    <3>1. e.inodes[m] = d.inodes[m] /\ m \in Live(d)
      BY <1>3, <1>4, <2>2
    <3>2. d.inodes[m] # f
      BY <2>2, <3>1 DEF Consistent, LiveInodesNamed
    <3> QED
      BY <1>8, <1>9, <3>1, <3>2
  <2> QED
    BY <2>1, <2>2
<1>13. \A h \in rest \ {f} :
         \E b \in 0 .. (SectorCount - 1 - h.location) : b \notin e.at
  <2> TAKE h \in rest \ {f}
  <2>1. SectorCount - f.location - 1 \in Bits(f) /\ f.location \in 0 .. (SectorCount - 1)
    BY <1>2, BitsAre, LayoutAssumption
  <2>2. SectorCount - f.location - 1 \notin e.at
    BY <2>1
  <2>3. h \in Inode /\ h.location \in 0 .. (SectorCount - 1)
    BY DEF ToDo, Consistent, LiveInodesNamed, Inode
  <2>4. SectorCount - f.location - 1 \in 0 .. (SectorCount - 1 - h.location)
    BY <1>6, <2>1, <2>3
  <2> QED
    BY <2>2, <2>4
<1> QED
  BY <1>2, <1>6, <1>7, <1>10, <1>11, <1>12, <1>13 DEF ToDo, Done2

\* A turn that is right finds one of three situations: no hole at all and the
\* bundle in its place, the hole in its place, or the bundle there and a hole
\* elsewhere.
LEMMA TurnCases ==
    ASSUME NEW d, Consistent(d), NEW rest, rest # {}, NEW k, ToDo(d, rest, k),
           RightTurn(d, rest, k), NEW f, f = LastInode(rest),
           NEW len, len = Sectors(f.size),
           NEW tmp, tmp = FindSeq(d.at, SectorCount, len)
    PROVE  /\ f \in rest /\ f \in Inode
           /\ \A g \in rest : g.location <= f.location
           /\ \/ HasSeq(d.at, SectorCount, len) /\ k = SectorCount - tmp
              \/ /\ ~HasSeq(d.at, SectorCount, len) \/ k # SectorCount - tmp
                 /\ f.location = k - len
                 /\ f.inode_offset \in settled
                 /\ HasSeq(d.at, SectorCount, len) =>
                      Run(SectorCount - f.location, len)
                          \cap (0 .. (SectorCount - 1))
                        \subseteq d.at \cup Run(tmp, len)
<1>1. \A g \in rest : g \in Inode
  BY DEF ToDo, Consistent, LiveInodesNamed
<1>2. f \in rest /\ \A g \in rest : g.location <= f.location
  BY <1>1, LastInodeIsLast
<1>3. f \in Inode
  BY <1>1, <1>2
<1>4. ASSUME f.location = k - len
      PROVE  f.inode_offset \in settled
  <2>1. ToDo(d, rest \ {f}, f.location)
    BY <1>2, <1>3, <1>4, StayEnds
  <2>2. SectorCount - f.location - 1 = SectorCount - 1 - f.location
    BY <1>3, LayoutAssumption DEF Inode
  <2>3. \A b \in 0 .. (SectorCount - 1 - f.location) : b \in d.at
    BY <2>1, <2>2 DEF ToDo
  <2> QED
    BY <1>2, <2>3 DEF ToDo
<1> QED
  BY <1>2, <1>3, <1>4 DEF RightTurn

-----------------------------------------------------------------------------
(* The writes of a turn one by one.                                        *)

Values == SUBSET Int \cup [from : Int, to : Int]
            \cup [InodeNumbers -> Inode \cup {NoInode}]

Writes == [part : {"at", "data", "inodes"}, value : Values]

\* What defragment writes to the disk.
LEMMA WriteTyped ==
    /\ \A t \in SUBSET Int : Write("at", t) \in Writes
    /\ \A from, to \in Int : Copy(from, to) \in Writes
    /\ \A i \in [InodeNumbers -> Inode \cup {NoInode}] :
         Write("inodes", i) \in Writes
<1>1. \A v \in Values : /\ Write("at", v) \in Writes
                        /\ Write("data", v) \in Writes
                        /\ Write("inodes", v) \in Writes
  BY DEF Write, Writes
<1> DEFINE Copies == [from : Int, to : Int]
           InodeBlocks == [InodeNumbers -> Inode \cup {NoInode}]
<1>2. \A from, to \in Int : [from |-> from, to |-> to] \in Copies
  OBVIOUS
<1>3. Values = SUBSET Int \cup Copies \cup InodeBlocks
  BY DEF Values
<1> HIDE DEF Copies
<1>4. /\ \A t \in SUBSET Int : Write("at", t) \in Writes
      /\ \A from, to \in Int : Copy(from, to) \in Writes
  BY <1>1, <1>2, <1>3 DEF Copy
<1> HIDE DEF InodeBlocks
<1>5. \A i \in InodeBlocks : Write("inodes", i) \in Writes
  BY <1>1, <1>3
<1> QED
  BY <1>4, <1>5 DEF InodeBlocks

\* Writes between two others.
LEMMA WritesBetween ==
    ASSUME NEW a \in Writes, NEW b \in Writes, NEW s \in Seq(Writes)
    PROVE  LET t == <<a>> \o s \o <<b>> IN
           /\ t \in Seq(Writes)
           /\ Len(t) = Len(s) + 2 /\ Len(s) \in Nat
           /\ t[1] = a
           /\ \A i \in 1 .. Len(s) : t[i + 1] = s[i]
           /\ t[Len(s) + 2] = b
<1> DEFINE u == <<a>> \o s
           t == u \o <<b>>
<1>1. /\ <<a>> \in Seq(Writes) /\ Len(<<a>>) = 1 /\ <<a>>[1] = a
      /\ <<b>> \in Seq(Writes) /\ Len(<<b>>) = 1 /\ <<b>>[1] = b
      /\ Len(s) \in Nat
  OBVIOUS
<1>2. /\ u \in Seq(Writes) /\ Len(u) = 1 + Len(s)
      /\ \A i \in 1 .. (1 + Len(s)) : u[i] = IF i <= 1 THEN <<a>>[i] ELSE s[i - 1]
  BY <1>1, ConcatProperties
<1> HIDE DEF u
<1>3. /\ t \in Seq(Writes) /\ Len(t) = Len(u) + 1
      /\ \A i \in 1 .. (Len(u) + 1) :
           t[i] = IF i <= Len(u) THEN u[i] ELSE <<b>>[i - Len(u)]
  BY <1>1, <1>2, ConcatProperties
<1> HIDE DEF t
<1>4. t[1] = a
  <2>1. 1 \in 1 .. (1 + Len(s)) /\ 1 \in 1 .. (Len(u) + 1) /\ 1 <= Len(u)
    BY <1>1, <1>2
  <2> QED
    <3>1. u[1] = a
      BY <1>1, <1>2, <2>1
    <3> QED
      BY <1>3, <2>1, <3>1
<1>5. \A i \in 1 .. Len(s) : t[i + 1] = s[i]
  <2> TAKE i \in 1 .. Len(s)
  <2>1. i + 1 \in 1 .. (1 + Len(s)) /\ i + 1 \in 1 .. (Len(u) + 1)
        /\ i + 1 <= Len(u) /\ ~(i + 1 <= 1) /\ (i + 1) - 1 = i
    BY <1>1, <1>2
  <2> QED
    BY <1>2, <1>3, <2>1
<1>6. t[Len(s) + 2] = b
  <2>1. Len(s) + 2 \in 1 .. (Len(u) + 1) /\ ~(Len(s) + 2 <= Len(u))
        /\ (Len(s) + 2) - Len(u) = 1
    BY <1>1, <1>2
  <2> QED
    BY <1>1, <1>3, <2>1
<1> QED
  BY <1>1, <1>2, <1>3, <1>4, <1>5, <1>6 DEF t, u

\* A function is a sequence.
LEMMA IsSequence ==
    ASSUME NEW n \in Nat, NEW s, s = [i \in 1 .. n |-> s[i]],
           \A i \in 1 .. n : s[i] \in Writes
    PROVE  s \in Seq(Writes) /\ Len(s) = n
<1>1. s \in [1 .. n -> Writes]
  BY Zenon
<1>2. s \in Seq(Writes)
  BY <1>1
<1> QED
  BY <1>1, <1>2

\* The common beginning of a turn.
GoesToHole(d, f, tmp) ==
    LET len == Sectors(f.size)
        W   == MoveToHole(d, f, tmp)
    IN
    /\ W \in Seq(Writes) /\ Len(W) = len + 2
    /\ W[1].part = "at" /\ W[1].value \in SUBSET (0 .. (SectorCount - 1))
    /\ \A i \in 1 .. len :
         W[i + 1] = Copy(f.location + i - 1, Place(f, tmp) + i - 1)
    /\ W[len + 2] = Write("inodes", Moved(d, f, Place(f, tmp)))

LEMMA HoleWrites ==
    ASSUME NEW d, Consistent(d), NEW n \in Live(d),
           NEW f, f = d.inodes[n], NEW len, len = Sectors(f.size),
           NEW tmp, Hole(d, tmp, len)
    PROVE  GoesToHole(d, f, tmp)
<1> DEFINE g == Relocated(f, Place(f, tmp))
           a == WriteAt(WithHole(d, f, tmp))
           b == WriteInode(d, f, Place(f, tmp))
           s == CopySectors(f, tmp)
<1>1. /\ f \in Inode /\ g \in Inode /\ f.inode_offset = n /\ len \in Nat \ {0}
      /\ Run(tmp, len) \subseteq DataBits(d)
  BY HoleIsFree, InHole
<1>2. f.location \in Int /\ Place(f, tmp) \in Int
  BY <1>1, LayoutAssumption DEF Inode, Place, Hole
<1>3. a \in Writes /\ a.part = "at" /\ a.value \in SUBSET (0 .. (SectorCount - 1))
  <2>1. WithHole(d, f, tmp) \in SUBSET (0 .. (SectorCount - 1))
    BY <1>1, MetadataAndData DEF WithHole, WriteSeq, Consistent, FileSystem
  <2>2. WithHole(d, f, tmp) \in SUBSET Int
    BY <2>1, LayoutAssumption
  <2> QED
    BY <2>1, <2>2, WriteTyped DEF WriteAt, Write
<1>4. b \in Writes /\ b = Write("inodes", Moved(d, f, Place(f, tmp)))
  <2>1. Moved(d, f, Place(f, tmp)) \in [InodeNumbers -> Inode \cup {NoInode}]
    BY <1>1 DEF Moved, Consistent, FileSystem
  <2>2. b = Write("inodes", Moved(d, f, Place(f, tmp)))
    BY DEF WriteInode, Moved, Relocated
  <2> QED
    BY <2>1, <2>2, WriteTyped
<1>5. s \in Seq(Writes) /\ Len(s) = len
      /\ \A i \in 1 .. len :
           s[i] = Copy(f.location + i - 1, Place(f, tmp) + i - 1)
  <2>1. s = [i \in 1 .. len |->
               Copy(f.location + i - 1, Place(f, tmp) + i - 1)]
    BY <1>1 DEF CopySectors
  <2>2. \A i \in 1 .. len :
          Copy(f.location + i - 1, Place(f, tmp) + i - 1) \in Writes
    <3> TAKE i \in 1 .. len
    <3>1. f.location + i - 1 \in Int /\ Place(f, tmp) + i - 1 \in Int
      BY <1>1, <1>2
    <3> QED
      BY <3>1, WriteTyped
  <2> HIDE DEF s
  <2>3. s = [i \in 1 .. len |-> s[i]] /\ \A i \in 1 .. len : s[i] \in Writes
    BY <2>1, <2>2
  <2> QED
    BY <1>1, <2>1, <2>3, IsSequence
<1>6. MoveToHole(d, f, tmp) = <<a>> \o s \o <<b>>
  BY DEF MoveToHole
<1> HIDE DEF a, b, s
<1> DEFINE W == <<a>> \o s \o <<b>>
<1>7. /\ W \in Seq(Writes)
      /\ Len(W) = Len(s) + 2
      /\ W[1] = a
      /\ \A i \in 1 .. Len(s) : W[i + 1] = s[i]
      /\ W[Len(s) + 2] = b
  BY <1>3, <1>4, <1>5, WritesBetween
<1> HIDE DEF W
<1> QED
  BY <1>3, <1>4, <1>5, <1>6, <1>7 DEF W, GoesToHole

\* Writes after others.
LEMMA WritesJoined ==
    ASSUME NEW s \in Seq(Writes), NEW t \in Seq(Writes)
    PROVE  LET u == s \o t IN
           /\ u \in Seq(Writes)
           /\ Len(u) = Len(s) + Len(t) /\ Len(s) \in Nat /\ Len(t) \in Nat
           /\ \A i \in 1 .. Len(s) : u[i] = s[i]
           /\ \A i \in 1 .. Len(t) : u[Len(s) + i] = t[i]
<1> DEFINE u == s \o t
<1>1. /\ u \in Seq(Writes) /\ Len(u) = Len(s) + Len(t)
      /\ \A i \in 1 .. (Len(s) + Len(t)) :
           u[i] = IF i <= Len(s) THEN s[i] ELSE t[i - Len(s)]
      /\ Len(s) \in Nat /\ Len(t) \in Nat
  BY ConcatProperties
<1> HIDE DEF u
<1>2. \A i \in 1 .. Len(s) : u[i] = s[i]
  BY <1>1
<1>3. ASSUME NEW i \in 1 .. Len(t)
      PROVE  u[Len(s) + i] = t[i]
  <2>1. Len(s) + i \in 1 .. (Len(s) + Len(t)) /\ ~(Len(s) + i <= Len(s))
        /\ (Len(s) + i) - Len(s) = i
    BY <1>1
  <2> QED
    BY <1>1, <2>1
<1> QED
  BY <1>1, <1>2, <1>3 DEF u

\* The two branches of a turn: to the hole, or to the hole and back.
MoveTurn(d, f, tmp) == MoveToHole(d, f, tmp) \o FreeOldPlace(d, f, tmp)

StayTurn(d, f, tmp) ==
    MoveToHole(d, f, tmp) \o MoveOn(d, f, tmp, f.location)

\* The first branch: the hole, and the old sectors are free.
StaysInHole(d, f, tmp) ==
    LET len == Sectors(f.size)
        W   == MoveTurn(d, f, tmp)
    IN
    /\ W \in Seq(Writes) /\ Len(W) = len + 3
    /\ \A i \in 1 .. (len + 2) : W[i] = MoveToHole(d, f, tmp)[i]
    /\ W[len + 3] = Write("at", (d.at \cup Run(tmp, len)) \ Bits(f))

LEMMA MoveWrites ==
    ASSUME NEW d, Consistent(d), NEW n \in Live(d),
           NEW f, f = d.inodes[n], NEW len, len = Sectors(f.size),
           NEW tmp, Hole(d, tmp, len)
    PROVE  StaysInHole(d, f, tmp)
<1> DEFINE s == MoveToHole(d, f, tmp)
           t == FreeOldPlace(d, f, tmp)
           table == (d.at \cup Run(tmp, len)) \ Bits(f)
<1>1. s \in Seq(Writes) /\ Len(s) = len + 2
  BY HoleWrites DEF GoesToHole
<1>2. /\ f \in Inode /\ len \in Nat \ {0}
      /\ Run(tmp, len) \subseteq DataBits(d)
  BY HoleIsFree, InHole
<1>3. t = <<Write("at", table)>>
  <2>1. SectorCount - f.location - len = SectorCount - (f.location + len)
    BY <1>2, LayoutAssumption DEF Inode
  <2> QED
    BY <1>2, <2>1 DEF FreeOldPlace, WriteAt, DeleteSeq, WithHole, WriteSeq, Bits
<1>4. table \in SUBSET Int
  BY <1>2, MetadataAndData, LayoutAssumption DEF Consistent, FileSystem
<1>5. t \in Seq(Writes) /\ Len(t) = 1 /\ t[1] = Write("at", table)
  BY <1>3, <1>4, WriteTyped
<1> HIDE DEF s, t, table
<1>6. /\ s \o t \in Seq(Writes)
      /\ Len(s \o t) = Len(s) + Len(t)
      /\ \A i \in 1 .. Len(s) : (s \o t)[i] = s[i]
      /\ \A i \in 1 .. Len(t) : (s \o t)[Len(s) + i] = t[i]
  BY <1>1, <1>5, WritesJoined
<1>7. len + 2 + 1 = len + 3
  BY <1>2
<1> QED
  BY <1>1, <1>5, <1>6, <1>7 DEF s, t, table, MoveTurn, StaysInHole

\* The sectors of a bundle and those of the hole.
BothPlaces(f, tmp) ==
    SectorsOf(f) \cup (Place(f, tmp) .. (Place(f, tmp) + Sectors(f.size) - 1))

\* The writes of the second branch, for a bundle that is in its place: the
\* copies all have the last sector of the hole as their source, and what is left
\* in the end is what was there.
LeavesAll(d, f, tmp) ==
    LET len == Sectors(f.size)
        W   == MoveOn(d, f, tmp, f.location)
    IN
    /\ W \in Seq(Writes) /\ Len(W) = 2 * len + 4
    /\ \A i \in {1, 2} : W[i].part = "at"
                         /\ W[i].value \in SUBSET (0 .. (SectorCount - 1))
    /\ \A i \in 1 .. (2 * len) :
         \E to \in BothPlaces(f, tmp) :
           W[i + 2] = Copy(Place(f, tmp) + len - 1, to)
    /\ W[2 * len + 3] = Write("inodes", d.inodes)
    /\ W[2 * len + 4] = Write("at", d.at)

\* The second branch marks the bits behind those of the bundle again: they were
\* used, or are those of the hole, which is freed in the end.
LEMMA MoveOnWrites ==
    ASSUME NEW d, Consistent(d), NEW n \in Live(d),
           NEW f, f = d.inodes[n], NEW len, len = Sectors(f.size),
           NEW tmp, Hole(d, tmp, len),
           Run(SectorCount - f.location, len) \cap (0 .. (SectorCount - 1))
             \subseteq d.at \cup Run(tmp, len)
    PROVE  LeavesAll(d, f, tmp)
<1> DEFINE next   == SectorCount - f.location
           hole   == Run(tmp, len)
           freed  == (d.at \cup hole) \ Run(next, len)
           marked == (freed \cup Run(next, len)) \cap (0 .. (SectorCount - 1))
           last   == Place(f, tmp) + len - 1
           a == <<Write("at", freed), Write("at", marked)>>
           s == [i \in 1 .. 2 * len |->
                   Copy(last, (IF i % 2 = 1 THEN Place(f, tmp) ELSE f.location)
                                + (i - 1) \div 2)]
           b == <<Write("inodes", Moved(d, f, f.location)),
                  Write("at", marked \ hole)>>
<1>1. /\ f \in Inode /\ f.inode_offset = n
      /\ len \in Nat \ {0}
      /\ hole \subseteq DataBits(d)
  BY HoleIsFree, InHole
<1>2. /\ f.location \in Int /\ Place(f, tmp) \in Int /\ last \in Int
      /\ SectorCount \in Nat
  BY <1>1, LayoutAssumption DEF Inode, Place, Hole
<1>3. MoveOn(d, f, tmp, f.location) = a \o s \o b
  BY <1>1
  DEF MoveOn, WriteAt, DeleteSeq, WithHole, WriteSeq, WriteInode, Moved, Relocated
<1>4. /\ freed \in SUBSET (0 .. (SectorCount - 1))
      /\ marked \in SUBSET (0 .. (SectorCount - 1))
  BY <1>1, MetadataAndData DEF Consistent, FileSystem
<1>5. marked \ hole = d.at
  BY DEF Consistent, FileSystem, Hole
<1>6. Moved(d, f, f.location) = d.inodes
  BY <1>1 DEF Moved, Relocated, Inode, Consistent, FileSystem
<1>7. /\ a \in Seq(Writes) /\ Len(a) = 2
      /\ \A i \in {1, 2} : a[i].part = "at"
                           /\ a[i].value \in SUBSET (0 .. (SectorCount - 1))
  <2> HIDE DEF freed, marked
  <2>1. freed \in SUBSET Int /\ marked \in SUBSET Int
    BY <1>2, <1>4
  <2>2. Write("at", freed) \in Writes /\ Write("at", marked) \in Writes
    BY <2>1, WriteTyped
  <2>3. a[1] = Write("at", freed) /\ a[2] = Write("at", marked)
    OBVIOUS
  <2>4. a \in Seq(Writes) /\ Len(a) = 2
    BY <2>2
  <2>5. \A v : Write("at", v).part = "at" /\ Write("at", v).value = v
    BY DEF Write
  <2> HIDE DEF a
  <2> QED
    BY <1>4, <2>3, <2>4, <2>5
<1>8. /\ b \in Seq(Writes) /\ Len(b) = 2
      /\ b[1] = Write("inodes", d.inodes) /\ b[2] = Write("at", d.at)
  <2>1. d.at \in SUBSET Int /\ d.inodes \in [InodeNumbers -> Inode \cup {NoInode}]
    BY <1>2 DEF Consistent, FileSystem
  <2>2. Write("inodes", d.inodes) \in Writes /\ Write("at", d.at) \in Writes
    BY <2>1, WriteTyped
  <2> HIDE DEF marked, hole
  <2>3. b = <<Write("inodes", d.inodes), Write("at", d.at)>>
    BY <1>5, <1>6
  <2> QED
    BY <2>2, <2>3
<1>9. /\ s \in Seq(Writes) /\ Len(s) = 2 * len
      /\ \A i \in 1 .. (2 * len) :
           \E to \in BothPlaces(f, tmp) : s[i] = Copy(last, to)
  <2>1. ASSUME NEW i \in 1 .. (2 * len)
        PROVE  /\ \E to \in BothPlaces(f, tmp) :
                    s[i] = Copy(last, to)
               /\ s[i] \in Writes
    <3> DEFINE r  == (i - 1) \div 2
               to == (IF i % 2 = 1 THEN Place(f, tmp) ELSE f.location) + r
    <3>1. r \in 0 .. (len - 1)
      BY <1>1
    <3>2. s[i] = Copy(last, to)
      OBVIOUS
    <3>3. to \in BothPlaces(f, tmp) /\ to \in Int
      <4> HIDE DEF r
      <4> QED
        BY <1>1, <1>2, <3>1 DEF SectorsOf, BothPlaces
    <3> HIDE DEF to, s
    <3>4. s[i] \in Writes
      BY <1>2, <3>2, <3>3, WriteTyped
    <3> QED
      BY <3>2, <3>3, <3>4
  <2>2. s = [i \in 1 .. (2 * len) |-> s[i]] /\ 2 * len \in Nat
    BY <1>1
  <2> HIDE DEF s
  <2> QED
    BY <2>1, <2>2, IsSequence
<1> HIDE DEF a, s, b, last
<1>10. /\ a \o s \in Seq(Writes) /\ Len(a \o s) = Len(a) + Len(s)
       /\ \A i \in 1 .. Len(a) : (a \o s)[i] = a[i]
       /\ \A i \in 1 .. Len(s) : (a \o s)[Len(a) + i] = s[i]
  BY <1>7, <1>9, WritesJoined
<1> DEFINE u == a \o s
<1>11. /\ u \in Seq(Writes) /\ Len(u) = 2 * len + 2
       /\ \A i \in {1, 2} : u[i] = a[i]
       /\ \A i \in 1 .. (2 * len) : u[i + 2] = s[i]
  <2>1. \A i \in 1 .. (2 * len) : 2 + i = i + 2
    BY <1>1
  <2> QED
    BY <1>1, <1>7, <1>9, <1>10, <2>1
<1> HIDE DEF u
<1>12. /\ u \o b \in Seq(Writes) /\ Len(u \o b) = Len(u) + Len(b)
       /\ \A i \in 1 .. Len(u) : (u \o b)[i] = u[i]
       /\ \A i \in 1 .. Len(b) : (u \o b)[Len(u) + i] = b[i]
  BY <1>8, <1>11, WritesJoined
<1> DEFINE W == u \o b
<1>13. /\ W \in Seq(Writes) /\ Len(W) = 2 * len + 4
       /\ \A i \in {1, 2} : W[i] = a[i]
       /\ \A i \in 1 .. (2 * len) : W[i + 2] = s[i]
       /\ W[2 * len + 3] = b[1] /\ W[2 * len + 4] = b[2]
  <2>1. \A i \in {1, 2} : i \in 1 .. Len(u)
    BY <1>1, <1>11
  <2>2. \A i \in 1 .. (2 * len) : i + 2 \in 1 .. Len(u)
    BY <1>1, <1>11
  <2>3. /\ 2 * len + 3 = Len(u) + 1 /\ 2 * len + 4 = Len(u) + 2
        /\ Len(u) + Len(b) = 2 * len + 4 /\ {1, 2} \subseteq 1 .. Len(b)
    BY <1>1, <1>8, <1>11
  <2> HIDE DEF W
  <2>4. /\ W \in Seq(Writes) /\ Len(W) = Len(u) + Len(b)
        /\ \A i \in 1 .. Len(u) : W[i] = u[i]
        /\ \A i \in 1 .. Len(b) : W[Len(u) + i] = b[i]
    BY <1>12 DEF W
  <2> QED
    BY <1>11, <2>1, <2>2, <2>3, <2>4
<1>14. MoveOn(d, f, tmp, f.location) = W
  BY <1>3 DEF u, W
<1> HIDE DEF W
<1> QED
  BY <1>7, <1>8, <1>9, <1>13, <1>14 DEF last, LeavesAll

-----------------------------------------------------------------------------
(* The data.                                                               *)

\* What MovedBundlesKeepData says of one bundle.
Kept(f) == LastIntact(f) /\ (f.inode_offset \notin settled => Intact(f))

DataKept(d) == \A n \in Live(d) : Kept(d.inodes[n])

\* The sectors of a bundle are its bits.
LEMMA BitOfSector ==
    ASSUME NEW f \in Inode, NEW len, len = Sectors(f.size)
    PROVE  /\ SectorsOf(f) = f.location .. (f.location + len - 1)
           /\ f.location + len - 1 \in SectorsOf(f)
           /\ \A s \in SectorsOf(f) : SectorCount - 1 - s \in Bits(f)
           /\ Bits(f) \subseteq 0 .. (SectorCount - 1)
                => SectorsOf(f) \subseteq DiskSectors
<1>1. /\ len \in Nat \ {0}
      /\ f.location \in 0 .. (SectorCount - 1) /\ SectorCount \in Nat
      /\ Bits(f) = (SectorCount - f.location - len)
                     .. (SectorCount - f.location - 1)
  BY BitsAre, LayoutAssumption
<1>2. SectorsOf(f) = f.location .. (f.location + len - 1)
  BY <1>1 DEF SectorsOf
<1>3. Bits(f) \subseteq 0 .. (SectorCount - 1) => f.location + len <= SectorCount
  <2>1. SectorCount - f.location - len \in Bits(f)
    BY <1>1
  <2> QED
    BY <1>1, <2>1
<1> QED
  BY <1>1, <1>2, <1>3 DEF DiskSectors

\* The sectors of the hole belong to no bundle.
LEMMA HoleSectors ==
    ASSUME NEW d, Consistent(d), NEW n \in Live(d),
           NEW f, f = d.inodes[n], NEW len, len = Sectors(f.size),
           NEW tmp, Hole(d, tmp, len),
           NEW to \in Place(f, tmp) .. (Place(f, tmp) + len - 1)
    PROVE  to \in DiskSectors /\ \A m \in Live(d) : to \notin SectorsOf(d.inodes[m])
<1>1. /\ f \in Inode /\ len \in Nat \ {0}
  BY HoleIsFree, InHole
<1>2. Place(f, tmp) = SectorCount - tmp - len /\ SectorCount \in Nat
      /\ tmp \in 0 .. (SectorCount - len)
  BY <1>1, LayoutAssumption DEF Place, Hole
<1>3. to \in DiskSectors /\ SectorCount - 1 - to \in Run(tmp, len)
  BY <1>1, <1>2 DEF DiskSectors, Run
<1>4. ASSUME NEW m \in Live(d), to \in SectorsOf(d.inodes[m])
      PROVE  FALSE
  <2>1. d.inodes[m] \in Inode /\ Bits(d.inodes[m]) \subseteq d.at
    BY DEF Consistent, LiveInodesNamed, TableExact, LiveBits
  <2>2. SectorCount - 1 - to \in Bits(d.inodes[m])
    BY <1>4, <2>1, BitOfSector
  <2> QED
    BY <1>3, <2>1, <2>2 DEF Hole
<1> QED
  BY <1>3, <1>4

\* No sector belongs to two bundles.
LEMMA SectorsApart ==
    ASSUME NEW d, Recoverable(d), NEW m \in Live(d),
           NEW n \in Live(d), m # n
    PROVE  SectorsOf(d.inodes[m]) \cap SectorsOf(d.inodes[n]) = {}
<1> SUFFICES ASSUME NEW s \in SectorsOf(d.inodes[m]), s \in SectorsOf(d.inodes[n])
             PROVE  FALSE
  OBVIOUS
<1>1. d.inodes[m] \in Inode /\ d.inodes[n] \in Inode
  BY DEF Recoverable, LiveInodesNamed
<1>2. SectorCount - 1 - s \in Bits(d.inodes[m])
      /\ SectorCount - 1 - s \in Bits(d.inodes[n])
  BY <1>1, BitOfSector
<1> QED
  BY <1>2 DEF Recoverable, BundlesApart

\* Consistent file systems are recoverable.
LEMMA ConsistentIsRecoverable ==
    ASSUME NEW d
    PROVE  Consistent(d) <=> Recoverable(d) /\ TableExact(d)
  BY DEF Consistent, Recoverable

\* Bundles lie on the disk.
LEMMA SectorsOnDisk ==
    ASSUME NEW d, Recoverable(d), NEW n \in Live(d)
    PROVE  SectorsOf(d.inodes[n]) \subseteq DiskSectors
<1>1. d.inodes[n] \in Inode /\ Bits(d.inodes[n]) \subseteq DataBits(d)
  BY DEF Recoverable, LiveInodesNamed, BundlesApart
<1>2. DataBits(d) \subseteq 0 .. (SectorCount - 1)
  BY LayoutAssumption
  DEF Recoverable, FileSystem, DataBits, MetadataSize
<1> QED
  BY <1>1, <1>2, BitOfSector

\* A write of data to a sector of no bundle, or one to a settled bundle that
\* leaves its last sector as it is, harms nobody.
LEMMA CopyKeeps ==
    ASSUME NEW d, Consistent(d), NEW n \in Live(d), DataKept(d),
           data = [s \in DiskSectors |-> data[s]],
           NEW from, NEW to \in DiskSectors,
           data' = [data EXCEPT ![to] = data[from]],
           settled' = settled,
           \/ \A m \in Live(d) : to \notin SectorsOf(d.inodes[m])
           \/ /\ to \in SectorsOf(d.inodes[n]) /\ n \in settled
              /\ to = d.inodes[n].location + Sectors(d.inodes[n].size) - 1
                   => data[from] = data[to]
    PROVE  DataKept(d)'
<1>1. \A m \in Live(d) : d.inodes[m] \in Inode /\ d.inodes[m].inode_offset = m
  BY DEF Consistent, LiveInodesNamed
<1>2. \A s \in DiskSectors : s # to => data'[s] = data[s]
  OBVIOUS
<1>3. data'[to] = data[from]
  OBVIOUS
<1> SUFFICES ASSUME NEW m \in Live(d) PROVE Kept(d.inodes[m])'
  BY DEF DataKept
<1> DEFINE f == d.inodes[m]
           last == f.location + Sectors(f.size) - 1
<1>4. /\ SectorsOf(f) \subseteq DiskSectors /\ last \in SectorsOf(f)
      /\ f.inode_offset = m
  BY <1>1, SectorsOnDisk, BitOfSector, ConsistentIsRecoverable
<1>5. /\ data[last] = DataOf(f, last)
      /\ m \notin settled => \A s \in SectorsOf(f) : data[s] = DataOf(f, s)
  BY <1>4 DEF DataKept, Kept, LastIntact, Intact
<1> HIDE DEF last
<1>6. /\ data'[last] = DataOf(f, last)
      /\ m \notin settled => \A s \in SectorsOf(f) : data'[s] = DataOf(f, s)
  <2>1. CASE to \notin SectorsOf(f)
    BY <1>2, <1>4, <1>5, <2>1
  <2>2. CASE to \in SectorsOf(f)
    <3>1. m = n /\ n \in settled /\ (to = last => data[from] = data[to])
      BY <2>2, SectorsApart, ConsistentIsRecoverable DEF last
    <3> QED
      BY <1>2, <1>3, <1>4, <1>5, <3>1
  <2> QED
    BY <2>1, <2>2
<1> QED
  BY <1>4, <1>6 DEF Kept, LastIntact, Intact, last

\* The sectors of the bundle that the first i writes have copied to the hole.
CopiedUpTo(f, tmp, i) ==
    \A r \in 0 .. (Sectors(f.size) - 1) :
      r + 2 <= i => data[Place(f, tmp) + r] = data[f.location + r]

\* A bundle that is wholly copied may have its inode lead to the hole; of a
\* settled bundle the last sector is enough.
LEMMA HoleKept ==
    ASSUME NEW d, Consistent(d), DataKept(d),
           NEW n \in Live(d), NEW f, f = d.inodes[n], NEW len, len = Sectors(f.size),
           NEW tmp, Hole(d, tmp, len),
           NEW e, Like(e, d), e.inodes = Moved(d, f, Place(f, tmp)),
           n \notin settled => CopiedUpTo(f, tmp, len + 1),
           data[Place(f, tmp) + len - 1] = data[f.location + len - 1]
    PROVE  DataKept(e)
<1> DEFINE g == Relocated(f, Place(f, tmp))
<1>1. /\ f \in Inode /\ g \in Inode /\ f.inode_offset = n
      /\ len \in Nat \ {0}
  BY HoleIsFree, InHole
<1>2. Live(e) = Live(d)
  BY AtHole
<1>3. e.inodes[n] = g /\ \A m \in Live(d) \ {n} : e.inodes[m] = d.inodes[m]
  <2>1. n \in InodeNumbers /\ d.inodes \in [InodeNumbers -> Inode \cup {NoInode}]
    BY DEF Consistent, FileSystem, Live
  <2> QED
    BY <1>1, <2>1 DEF Moved, Live, Consistent, FileSystem
<1>4. /\ g.location = Place(f, tmp) /\ g.size = f.size /\ g.inode_offset = n
      /\ f.location \in Int /\ Place(f, tmp) \in Int
  <2>1. g.location = Place(f, tmp) /\ g.size = f.size /\ g.inode_offset = n
    BY <1>1 DEF Inode, Relocated
  <2>2. f.location \in Int /\ Place(f, tmp) \in Int
    BY <1>1, LayoutAssumption DEF Inode, Place, Hole
  <2> QED
    BY <2>1, <2>2
<1> HIDE DEF g
<1>5. Kept(f)
  BY DEF DataKept
<1>6. \A r \in Int : DataOf(g, Place(f, tmp) + r) = DataOf(f, f.location + r)
  BY <1>1, <1>4 DEF DataOf
<1>7. LastIntact(g)
  <2>1. /\ Place(f, tmp) + len - 1 = Place(f, tmp) + (len - 1)
        /\ f.location + len - 1 = f.location + (len - 1)
        /\ len - 1 \in Int
    BY <1>1, <1>4
  <2>2. data[f.location + len - 1] = DataOf(f, f.location + len - 1)
    BY <1>1, <1>5 DEF Kept, LastIntact
  <2>3. data[Place(f, tmp) + len - 1] = DataOf(g, Place(f, tmp) + len - 1)
    BY <1>6, <2>1, <2>2
  <2> QED
    BY <1>1, <1>4, <2>3 DEF LastIntact
<1>8. ASSUME n \notin settled
      PROVE  Intact(g)
  <2>1. SectorsOf(g) = Place(f, tmp) .. (Place(f, tmp) + len - 1)
        /\ SectorsOf(f) = f.location .. (f.location + len - 1)
    BY <1>1, <1>4 DEF SectorsOf
  <2> SUFFICES ASSUME NEW s \in SectorsOf(g) PROVE data[s] = DataOf(g, s)
    BY DEF Intact
  <2> DEFINE r == s - Place(f, tmp)
  <2>2. /\ r \in 0 .. (len - 1) /\ r + 2 <= len + 1 /\ r \in Int
        /\ s = Place(f, tmp) + r
        /\ f.location + r \in SectorsOf(f)
    BY <1>1, <1>4, <2>1
  <2> HIDE DEF r
  <2>3. data[s] = data[f.location + r]
    BY <1>8, <2>2 DEF CopiedUpTo
  <2>4. data[f.location + r] = DataOf(f, f.location + r)
    BY <1>1, <1>5, <1>8, <2>2 DEF Kept, Intact
  <2> QED
    BY <1>6, <2>2, <2>3, <2>4
<1>9. Kept(g)
  BY <1>4, <1>7, <1>8 DEF Kept
<1> QED
  BY <1>2, <1>3, <1>9 DEF DataKept

-----------------------------------------------------------------------------
(* The invariant.                                                          *)

\* The loop goes on from file system d, or returns and leaves it.
LoopAt(d) ==
    IF loop = Returned THEN Compact(d)
    ELSE loop.rest # {} /\ ToDo(d, loop.rest, loop.k)

\* The file system as it was when the turn began, with the bundle and the hole
\* that the turn is about.
Turning(d, n, tmp) ==
    /\ Consistent(d) /\ DataKept(d)
    /\ n \in Live(d)
    /\ Hole(d, tmp, Sectors(d.inodes[n].size))
    /\ Like(fs, d)

AfterMove(d, f, tmp) ==
    [d EXCEPT !.at     = (@ \cup Run(tmp, Sectors(f.size))) \ Bits(f),
              !.inodes = Moved(d, f, Place(f, tmp))]

\* The first branch of a turn, of which i writes have been made.
Moving(d, n, tmp, i) ==
    LET f   == d.inodes[n]
        len == Sectors(f.size)
    IN
    /\ Turning(d, n, tmp)
    /\ i \in 0 .. (len + 2)
    /\ writes = SubSeq(MoveTurn(d, f, tmp), i + 1, len + 3)
    /\ fs.inodes = IF i <= len + 1 THEN d.inodes
                   ELSE Moved(d, f, Place(f, tmp))
    /\ CopiedUpTo(f, tmp, i)
    /\ LoopAt(AfterMove(d, f, tmp))

\* The second branch: the bundle is in its place, and settled.
Staying(d, n, tmp, i) ==
    LET f   == d.inodes[n]
        len == Sectors(f.size)
    IN
    /\ Turning(d, n, tmp)
    /\ i \in 0 .. (3 * len + 5)
    /\ n \in settled
    /\ LeavesAll(d, f, tmp)
    /\ writes = SubSeq(StayTurn(d, f, tmp), i + 1, 3 * len + 6)
    /\ fs.inodes = IF i \in (len + 2) .. (3 * len + 4)
                   THEN Moved(d, f, Place(f, tmp)) ELSE d.inodes
    /\ i <= len + 1 => CopiedUpTo(f, tmp, i)
    /\ i >= len + 1 => data[Place(f, tmp) + len - 1]
                            = data[f.location + len - 1]
    /\ LoopAt(d)

MidTurn ==
    \E d \in FileSystem, n \in InodeNumbers, tmp \in Nat, i \in Nat :
      Moving(d, n, tmp, i) \/ Staying(d, n, tmp, i)

DefragInv ==
    /\ clock \in 0 .. MaxClock
    /\ power \in {"up", "down"}
    /\ pending # NoBundle =>
         pending \in [size : Sizes, ttl : TTLs, custody : BOOLEAN]
    /\ data = [s \in DiskSectors |-> data[s]]
    /\ power = "down" => writes = <<>> /\ loop = Returned
    /\ writes = <<>> => Recoverable(fs) /\ DataKept(fs)
    /\ power = "up" /\ writes = <<>> =>
         Consistent(fs) /\ (loop # Returned => LoopAt(fs))
    /\ writes # <<>> => MidTurn

-----------------------------------------------------------------------------
(* One disk_write after the other.                                         *)

\* Of the writes of a turn the next one is made, the others are left.
LEMMA NextWrite ==
    ASSUME DiskWrite, NEW W \in Seq(Writes), NEW n \in Nat, Len(W) = n,
           NEW i \in 0 .. (n - 1), writes = SubSeq(W, i + 1, n)
    PROVE  /\ Head(writes) = W[i + 1] /\ W[i + 1] \in Writes
           /\ writes' = SubSeq(W, (i + 1) + 1, n)
           /\ i + 1 = n => writes' = <<>>
           /\ i + 1 # n => writes' # <<>>
<1>1. i + 1 \in 1 .. n /\ n \in (i + 1) .. n
  OBVIOUS
<1>2. Head(writes) = W[i + 1] /\ writes' = SubSeq(W, (i + 1) + 1, n)
  <2>1. Head(SubSeq(W, i + 1, n)) = W[i + 1]
        /\ Tail(SubSeq(W, i + 1, n)) = SubSeq(W, (i + 1) + 1, n)
    BY <1>1, HeadTailOfSubSeq
  <2>2. writes' = Tail(writes)
    BY DEF DiskWrite
  <2> QED
    BY <2>1, <2>2
<1>3. W[i + 1] \in Writes
  BY <1>1, ElementOfSeq
<1>4. i + 1 = n => writes' = <<>>
  BY <1>1, <1>2, SubSeqEmpty
<1>5. ASSUME i + 1 # n PROVE writes' # <<>>
  <2>1. \A j \in ((i + 1) + 1) .. n : W[j] \in Writes
    BY <1>1, ElementOfSeq
  <2>2. (i + 1) + 1 <= n /\ (i + 1) + 1 \in Int /\ n \in Int
    BY <1>1, <1>5
  <2>3. Len(SubSeq(W, (i + 1) + 1, n)) = n - ((i + 1) + 1) + 1
    BY <2>1, <2>2, SubSeqProperties
  <2>4. Len(SubSeq(W, (i + 1) + 1, n)) # 0
    BY <2>2, <2>3
  <2> QED
    BY <1>2, <2>4, EmptySeq
<1> QED
  BY <1>2, <1>3, <1>4, <1>5

\* A write of a table or of the inodes.
LEMMA PartWritten ==
    ASSUME NEW d, Like(fs, d), DiskWrite,
           NEW part \in {"at", "inodes"}, NEW value,
           Head(writes).part = part, Head(writes).value = value,
           part = "at" => value \in SUBSET (0 .. (SectorCount - 1)),
           part = "inodes" => value \in [InodeNumbers -> Inode \cup {NoInode}]
    PROVE  /\ Like(fs', d) /\ data' = data
           /\ part = "at" => fs'.at = value /\ fs'.inodes = fs.inodes
           /\ part = "inodes" => fs'.inodes = value /\ fs'.at = fs.at
<1>1. fs' = [fs EXCEPT ![part] = value] /\ data' = data
  BY DEF DiskWrite
<1>2. CASE part = "at"
  BY <1>1, <1>2 DEF Like, FileSystem
<1>3. CASE part = "inodes"
  BY <1>1, <1>3 DEF Like, FileSystem
<1> QED
  BY <1>1, <1>2, <1>3

\* A copy of a sector.
LEMMA SectorWritten ==
    ASSUME DiskWrite, NEW from, NEW to, Head(writes) = Copy(from, to)
    PROVE  data' = [data EXCEPT ![to] = data[from]] /\ fs' = fs
<1>1. /\ Head(writes).part = "data"
      /\ Head(writes).value.to = to /\ Head(writes).value.from = from
  BY DEF Copy, Write
<1> QED
  BY <1>1 DEF DiskWrite

\* A copy to a sector of the hole: no bundle is there.
LEMMA HoleFilled ==
    ASSUME data = [s \in DiskSectors |-> data[s]],
           NEW d, NEW n, NEW tmp, Turning(d, n, tmp),
           NEW f, f = d.inodes[n], NEW len, len = Sectors(f.size),
           NEW i \in 1 .. len,
           Head(writes) = Copy(f.location + i - 1, Place(f, tmp) + i - 1),
           CopiedUpTo(f, tmp, i), DiskWrite
    PROVE  /\ fs' = fs /\ DataKept(d)'
           /\ data' = [s \in DiskSectors |-> data'[s]]
           /\ CopiedUpTo(f, tmp, i + 1)'
<1> DEFINE from == f.location + i - 1
           to   == Place(f, tmp) + i - 1
<1>1. /\ Consistent(d) /\ DataKept(d) /\ n \in Live(d)
      /\ Hole(d, tmp, len)
  BY DEF Turning
<1>2. /\ f \in Inode /\ len \in Nat \ {0}
  BY <1>1, HoleIsFree, InHole
<1>3. f.location \in Int /\ Place(f, tmp) \in Int
  BY <1>1, <1>2, LayoutAssumption DEF Inode, Place, Hole
<1>4. data' = [data EXCEPT ![to] = data[from]] /\ fs' = fs /\ settled' = settled
  BY SectorWritten DEF DiskWrite
<1>5. to \in Place(f, tmp) .. (Place(f, tmp) + len - 1)
  BY <1>2, <1>3
<1>6. to \in DiskSectors /\ \A m \in Live(d) : to \notin SectorsOf(d.inodes[m])
  BY <1>1, <1>5, HoleSectors
<1>7. \A r \in 0 .. (len - 1) :
        /\ f.location + r # to
        /\ f.location + r \in DiskSectors /\ Place(f, tmp) + r \in DiskSectors
  <2>1. SectorsOf(f) = f.location .. (f.location + len - 1)
        /\ SectorsOf(f) \subseteq DiskSectors
    BY <1>1, <1>2, SectorsOnDisk, ConsistentIsRecoverable DEF SectorsOf
  <2> HIDE DEF to
  <2>2. \A r \in 0 .. (len - 1) :
          /\ f.location + r \in SectorsOf(f)
          /\ Place(f, tmp) + r \in Place(f, tmp) .. (Place(f, tmp) + len - 1)
    BY <1>2, <1>3, <2>1
  <2>3. \A s \in Place(f, tmp) .. (Place(f, tmp) + len - 1) : s \in DiskSectors
    BY <1>1, HoleSectors
  <2> QED
    BY <1>1, <1>6, <2>1, <2>2, <2>3
<1> DEFINE hole(r) == Place(f, tmp) + r
           old(r)  == f.location + r
<1>8. /\ from = old(i - 1) /\ to = hole(i - 1) /\ i - 1 \in 0 .. (len - 1)
      /\ \A r \in 0 .. (len - 1) : r + 2 <= i + 1 => r + 2 <= i \/ r = i - 1
      /\ \A r \in 0 .. (len - 1) : r + 2 <= i => hole(r) # to
  BY <1>2, <1>3
<1>9. \A r \in 0 .. (len - 1) :
        old(r) # to /\ old(r) \in DiskSectors /\ hole(r) \in DiskSectors
  BY <1>7
<1>10. \A r \in 0 .. (len - 1) : r + 2 <= i => data[hole(r)] = data[old(r)]
  BY DEF CopiedUpTo
<1> HIDE DEF from, to, hole, old
<1>11. DataKept(d)'
  BY <1>1, <1>4, <1>6, CopyKeeps
<1>12. data' = [s \in DiskSectors |-> data'[s]]
       /\ data'[to] = data[from]
       /\ \A s \in DiskSectors : s # to => data'[s] = data[s]
  BY <1>4, <1>6
<1>13. \A r \in 0 .. (len - 1) : r + 2 <= i + 1 => data'[hole(r)] = data'[old(r)]
  BY <1>8, <1>9, <1>10, <1>12
<1>14. CopiedUpTo(f, tmp, i + 1)'
  BY <1>13 DEF CopiedUpTo, hole, old
<1> QED
  BY <1>4, <1>11, <1>12, <1>14

\* A write of the beginning that the two branches share.
LEMMA HoleStep ==
    ASSUME data = [s \in DiskSectors |-> data[s]],
           NEW d, NEW n, NEW tmp, Turning(d, n, tmp),
           NEW f, f = d.inodes[n], NEW len, len = Sectors(f.size),
           NEW i \in 0 .. (len + 1),
           Head(writes) = MoveToHole(d, f, tmp)[i + 1],
           fs.inodes = d.inodes, CopiedUpTo(f, tmp, i), DiskWrite
    PROVE  /\ Turning(d, n, tmp)'
           /\ data' = [s \in DiskSectors |-> data'[s]]
           /\ CopiedUpTo(f, tmp, i + 1)'
           /\ fs'.inodes = IF i + 1 <= len + 1 THEN d.inodes
                           ELSE Moved(d, f, Place(f, tmp))
<1> DEFINE W == MoveToHole(d, f, tmp)
<1>1. /\ Consistent(d) /\ DataKept(d) /\ n \in Live(d)
      /\ Hole(d, tmp, len) /\ Like(fs, d)
  BY DEF Turning
<1>2. /\ f \in Inode /\ f.inode_offset = n /\ len \in Nat \ {0}
  BY <1>1, HoleIsFree, InHole
<1>3. /\ W[1].part = "at" /\ W[1].value \in SUBSET (0 .. (SectorCount - 1))
      /\ \A j \in 1 .. len :
           W[j + 1] = Copy(f.location + j - 1, Place(f, tmp) + j - 1)
      /\ W[len + 2] = Write("inodes", Moved(d, f, Place(f, tmp)))
  <2>1. GoesToHole(d, f, tmp)
    BY <1>1, HoleWrites
  <2> QED
    BY <2>1 DEF GoesToHole
<1>4. settled' = settled
  BY DEF DiskWrite
<1> HIDE DEF W
<1>5. ASSUME Like(fs', d), DataKept(d)'
      PROVE  Turning(d, n, tmp)'
  BY <1>1, <1>5 DEF Turning
<1>6. ASSUME data' = data
      PROVE  DataKept(d)'
  BY <1>1, <1>4, <1>6 DEF DataKept, Kept, LastIntact, Intact
<1>7. CASE i = 0
  <2>1. Head(writes) = W[1]
    BY <1>7 DEF W
  <2>2. Like(fs', d) /\ data' = data /\ fs'.inodes = fs.inodes
    BY <1>1, <1>3, <2>1, PartWritten
  <2>3. CopiedUpTo(f, tmp, i + 1)'
    BY <1>2, <1>7 DEF CopiedUpTo
  <2> QED
    BY <1>2, <1>5, <1>6, <1>7, <2>2, <2>3
<1>8. CASE i \in 1 .. len
  <2>1. Head(writes) = Copy(f.location + i - 1, Place(f, tmp) + i - 1)
    BY <1>3, <1>8 DEF W
  <2>2. /\ fs' = fs /\ DataKept(d)'
        /\ data' = [s \in DiskSectors |-> data'[s]]
        /\ CopiedUpTo(f, tmp, i + 1)'
    BY <1>8, <2>1, HoleFilled
  <2> QED
    BY <1>1, <1>2, <1>5, <1>8, <2>2
<1>9. CASE i = len + 1
  <2>1. Head(writes) = Write("inodes", Moved(d, f, Place(f, tmp)))
    <3>1. i + 1 = len + 2
      BY <1>2, <1>9
    <3> QED
      BY <1>3, <3>1 DEF W
  <2>2. Moved(d, f, Place(f, tmp)) \in [InodeNumbers -> Inode \cup {NoInode}]
    <3>1. Relocated(f, Place(f, tmp)) \in Inode
      BY <1>1, HoleIsFree, InHole
    <3> QED
      BY <1>1, <3>1 DEF Moved, Consistent, FileSystem
  <2>3. /\ Like(fs', d) /\ data' = data
        /\ fs'.inodes = Moved(d, f, Place(f, tmp))
    BY <1>1, <2>1, <2>2, PartWritten DEF Write
  <2>4. CopiedUpTo(f, tmp, i + 1)'
    <3>1. \A r \in 0 .. (len - 1) : r + 2 <= i
      BY <1>2, <1>9
    <3> QED
      BY <2>3, <3>1 DEF CopiedUpTo
  <2> QED
    BY <1>2, <1>5, <1>6, <1>9, <2>3, <2>4
<1> QED
  BY <1>2, <1>7, <1>8, <1>9

\* What holds when the writes of a turn have all been made, and the loop can go
\* on from file system e.
Turned(e) ==
    /\ fs = e /\ Consistent(e) /\ DataKept(e)
    /\ writes = <<>>
    /\ LoopAt(e)

\* A write of the first branch.
LEMMA MovingStep ==
    ASSUME data = [s \in DiskSectors |-> data[s]],
           NEW d, NEW n, NEW tmp, NEW i, Moving(d, n, tmp, i), DiskWrite,
           NEW f, f = d.inodes[n], NEW len, len = Sectors(f.size)
    PROVE  /\ data' = [s \in DiskSectors |-> data'[s]]
           /\ \/ i + 1 \in Nat /\ writes' # <<>> /\ Moving(d, n, tmp, i + 1)'
              \/ Turned(AfterMove(d, f, tmp))'
<1> DEFINE W == MoveTurn(d, f, tmp)
           e == AfterMove(d, f, tmp)
<1>1. /\ Consistent(d) /\ DataKept(d) /\ n \in Live(d)
      /\ Hole(d, tmp, len) /\ Like(fs, d) /\ Turning(d, n, tmp)
  BY DEF Turning, Moving
<1>2. /\ f \in Inode /\ f.inode_offset = n /\ len \in Nat \ {0}
  BY <1>1, HoleIsFree, InHole
<1>3. /\ i \in 0 .. (len + 2)
      /\ writes = SubSeq(W, i + 1, len + 3)
      /\ fs.inodes = IF i <= len + 1 THEN d.inodes
                     ELSE Moved(d, f, Place(f, tmp))
      /\ CopiedUpTo(f, tmp, i)
      /\ LoopAt(e)
  BY DEF Moving
<1>4. /\ W \in Seq(Writes) /\ Len(W) = len + 3
      /\ \A j \in 1 .. (len + 2) : W[j] = MoveToHole(d, f, tmp)[j]
      /\ W[len + 3] = Write("at", (d.at \cup Run(tmp, len)) \ Bits(f))
  <2>1. StaysInHole(d, f, tmp)
    BY <1>1, MoveWrites
  <2> QED
    BY <2>1 DEF StaysInHole
<1>5. writes' = Tail(writes) /\ settled' = settled /\ loop' = loop
  BY DEF DiskWrite
<1> HIDE DEF W, e
<1>6. /\ Head(writes) = W[i + 1]
      /\ writes' = SubSeq(W, (i + 1) + 1, len + 3)
      /\ i + 1 = len + 3 => writes' = <<>>
      /\ i + 1 # len + 3 => writes' # <<>>
  <2>1. i \in 0 .. ((len + 3) - 1) /\ len + 3 \in Nat
    BY <1>2, <1>3
  <2> QED
    BY <1>3, <1>4, <2>1, NextWrite
<1>7. LoopAt(e)'
  BY <1>3, <1>5 DEF LoopAt, ToDo
<1>8. CASE i \in 0 .. (len + 1)
  <2>1. /\ i + 1 \in 1 .. (len + 2) /\ i + 1 # len + 3 /\ i <= len + 1
        /\ i + 1 \in 0 .. (len + 2) /\ i + 1 \in Nat
    BY <1>2, <1>8
  <2>2. Head(writes) = MoveToHole(d, f, tmp)[i + 1] /\ fs.inodes = d.inodes
    BY <1>3, <1>4, <1>6, <2>1
  <2>3. /\ Turning(d, n, tmp)'
        /\ data' = [s \in DiskSectors |-> data'[s]]
        /\ CopiedUpTo(f, tmp, i + 1)'
        /\ fs'.inodes = IF i + 1 <= len + 1 THEN d.inodes
                        ELSE Moved(d, f, Place(f, tmp))
    <3>1. Turning(d, n, tmp) /\ CopiedUpTo(f, tmp, i)
      BY <1>1, <1>3
    <3> QED
      BY <1>8, <2>2, <3>1, HoleStep
  <2>4. Moving(d, n, tmp, i + 1)'
    BY <1>6, <1>7, <2>1, <2>3 DEF Moving, W, e
  <2> QED
    BY <1>6, <2>1, <2>3, <2>4
<1>9. CASE i = len + 2
  <2> DEFINE table == (d.at \cup Run(tmp, len)) \ Bits(f)
  <2>1. /\ i + 1 = len + 3 /\ ~(i <= len + 1)
    BY <1>2, <1>9
  <2>2. table \in SUBSET (0 .. (SectorCount - 1))
    <3>1. Run(tmp, len) \subseteq DataBits(d)
      BY <1>1, HoleIsFree, InHole
    <3> QED
      BY <1>1, <3>1, MetadataAndData DEF Consistent, FileSystem
  <2>3. Head(writes).part = "at" /\ Head(writes).value = table
    BY <1>4, <1>6, <2>1 DEF Write
  <2> HIDE DEF table
  <2>4. /\ Like(fs', d) /\ data' = data /\ fs'.at = table
        /\ fs'.inodes = Moved(d, f, Place(f, tmp))
    BY <1>1, <1>3, <2>1, <2>2, <2>3, PartWritten
  <2>5. fs' = e
    BY <1>1, <2>4 DEF e, AfterMove, table, Like, Consistent, FileSystem
  <2>6. Consistent(e) /\ Like(e, d)
        /\ e.inodes = Moved(d, f, Place(f, tmp))
    <3>1. Like(e, d) /\ e.at = table /\ e.inodes = Moved(d, f, Place(f, tmp))
      BY <2>4, <2>5
    <3> QED
      BY <1>1, <3>1, AtHole DEF table
  <2>7. DataKept(e)
    <3>1. \A r \in 0 .. (len - 1) : r + 2 <= i
      BY <1>2, <1>9
    <3>2. CopiedUpTo(f, tmp, len + 1)
      BY <1>3, <3>1 DEF CopiedUpTo
    <3>3. data[Place(f, tmp) + len - 1] = data[f.location + len - 1]
      <4>1. /\ len - 1 \in 0 .. (len - 1)
            /\ Place(f, tmp) + (len - 1) = Place(f, tmp) + len - 1
            /\ f.location + (len - 1) = f.location + len - 1
        BY <1>1, <1>2, LayoutAssumption DEF Inode, Place, Hole
      <4> QED
        BY <1>3, <3>1, <4>1 DEF CopiedUpTo
    <3> QED
      BY <1>1, <2>6, <3>2, <3>3, HoleKept
  <2>8. DataKept(e)'
    BY <1>5, <2>4, <2>7 DEF DataKept, Kept, LastIntact, Intact
  <2>9. Turned(e)'
    BY <1>6, <1>7, <2>1, <2>5, <2>6, <2>8 DEF Turned
  <2> QED
    BY <2>4, <2>9 DEF e
<1> QED
  BY <1>2, <1>3, <1>8, <1>9

\* The writes of the second branch in their order.
GoesThereAndBack(d, f, tmp) ==
    LET len == Sectors(f.size)
        W   == StayTurn(d, f, tmp)
    IN
    /\ W \in Seq(Writes) /\ Len(W) = 3 * len + 6
    /\ \A i \in 1 .. (len + 2) : W[i] = MoveToHole(d, f, tmp)[i]
    /\ \A i \in {len + 3, len + 4} :
         W[i].part = "at" /\ W[i].value \in SUBSET (0 .. (SectorCount - 1))
    /\ \A i \in (len + 5) .. (3 * len + 4) :
         \E to \in BothPlaces(f, tmp) :
           W[i] = Copy(Place(f, tmp) + len - 1, to)
    /\ W[3 * len + 5] = Write("inodes", d.inodes)
    /\ W[3 * len + 6] = Write("at", d.at)

LEMMA StayWrites ==
    ASSUME NEW d, Consistent(d), NEW n \in Live(d),
           NEW f, f = d.inodes[n], NEW len, len = Sectors(f.size),
           NEW tmp, Hole(d, tmp, len), LeavesAll(d, f, tmp)
    PROVE  GoesThereAndBack(d, f, tmp)
<1> DEFINE s == MoveToHole(d, f, tmp)
           t == MoveOn(d, f, tmp, f.location)
           last == Place(f, tmp) + len - 1
           targets == BothPlaces(f, tmp)
           W == s \o t
<1>1. s \in Seq(Writes) /\ Len(s) = len + 2 /\ len \in Nat \ {0}
  <2>1. GoesToHole(d, f, tmp)
    BY HoleWrites
  <2>2. s \in Seq(Writes) /\ Len(s) = len + 2
    BY <2>1 DEF GoesToHole
  <2> QED
    BY <2>2, HoleIsFree
<1>2. /\ t \in Seq(Writes) /\ Len(t) = 2 * len + 4
      /\ \A i \in {1, 2} : t[i].part = "at"
                           /\ t[i].value \in SUBSET (0 .. (SectorCount - 1))
      /\ \A i \in 1 .. (2 * len) : \E to \in targets : t[i + 2] = Copy(last, to)
      /\ t[2 * len + 3] = Write("inodes", d.inodes)
      /\ t[2 * len + 4] = Write("at", d.at)
  BY DEF LeavesAll
<1> HIDE DEF s, t, targets, last
<1>3. /\ W \in Seq(Writes) /\ Len(W) = Len(s) + Len(t)
      /\ \A i \in 1 .. Len(s) : W[i] = s[i]
      /\ \A i \in 1 .. Len(t) : W[Len(s) + i] = t[i]
  BY <1>1, <1>2, WritesJoined
<1> HIDE DEF W
<1>4. Len(W) = 3 * len + 6
      /\ \A i \in (len + 3) .. (3 * len + 6) : W[i] = t[i - (len + 2)]
  <2>0. Len(s) = len + 2 /\ Len(t) = 2 * len + 4 /\ len \in Nat
    BY <1>1, <1>2
  <2>1. Len(s) + Len(t) = 3 * len + 6
    BY <2>0
  <2>2. ASSUME NEW i \in (len + 3) .. (3 * len + 6)
        PROVE  W[i] = t[i - (len + 2)]
    <3>1. i - (len + 2) \in 1 .. Len(t) /\ Len(s) + (i - (len + 2)) = i
      BY <2>0
    <3> QED
      BY <1>3, <3>1
  <2> QED
    BY <1>3, <2>1, <2>2
<1>5. \A i \in {len + 3, len + 4} :
        W[i].part = "at" /\ W[i].value \in SUBSET (0 .. (SectorCount - 1))
  <2> TAKE i \in {len + 3, len + 4}
  <2>1. i \in (len + 3) .. (3 * len + 6) /\ i - (len + 2) \in {1, 2}
    BY <1>1
  <2>2. W[i] = t[i - (len + 2)]
    BY <1>4, <2>1
  <2> QED
    BY <1>2, <2>1, <2>2
<1>6. \A i \in (len + 5) .. (3 * len + 4) :
        \E to \in targets : W[i] = Copy(last, to)
  <2> TAKE i \in (len + 5) .. (3 * len + 4)
  <2>1. /\ i \in (len + 3) .. (3 * len + 6)
        /\ i - (len + 4) \in 1 .. (2 * len)
        /\ (i - (len + 4)) + 2 = i - (len + 2)
    BY <1>1
  <2>2. W[i] = t[(i - (len + 4)) + 2]
    BY <1>4, <2>1
  <2> QED
    BY <1>2, <2>1, <2>2
<1>7. /\ W[3 * len + 5] = Write("inodes", d.inodes)
      /\ W[3 * len + 6] = Write("at", d.at)
  <2>1. /\ 3 * len + 5 \in (len + 3) .. (3 * len + 6)
        /\ 3 * len + 6 \in (len + 3) .. (3 * len + 6)
        /\ (3 * len + 5) - (len + 2) = 2 * len + 3
        /\ (3 * len + 6) - (len + 2) = 2 * len + 4
    BY <1>1
  <2> QED
    BY <1>2, <1>4, <2>1
<1>8. StayTurn(d, f, tmp) = W
  BY DEF StayTurn, W, s, t
<1>9. \A i \in 1 .. (len + 2) : W[i] = s[i]
  BY <1>1, <1>3
<1>10. /\ W \in Seq(Writes)
       /\ \A i \in 1 .. (len + 2) : W[i] = MoveToHole(d, f, tmp)[i]
  BY <1>3, <1>9 DEF s
<1> QED
  BY <1>4, <1>5, <1>6, <1>7, <1>8, <1>10 DEF targets, last, GoesThereAndBack

\* The copies of the second branch.
LEMMA LastCopied ==
    ASSUME data = [s \in DiskSectors |-> data[s]],
           NEW d, NEW n, NEW tmp, Turning(d, n, tmp), n \in settled,
           NEW f, f = d.inodes[n], NEW len, len = Sectors(f.size),
           data[Place(f, tmp) + len - 1] = data[f.location + len - 1],
           NEW to \in BothPlaces(f, tmp),
           Head(writes) = Copy(Place(f, tmp) + len - 1, to), DiskWrite
    PROVE  /\ Turning(d, n, tmp)' /\ fs' = fs
           /\ data' = [s \in DiskSectors |-> data'[s]]
           /\ data'[Place(f, tmp) + len - 1] = data'[f.location + len - 1]
<1> DEFINE last == Place(f, tmp) + len - 1
           own  == f.location + len - 1
<1>1. /\ Consistent(d) /\ DataKept(d) /\ n \in Live(d)
      /\ Hole(d, tmp, len) /\ Like(fs, d)
  BY DEF Turning
<1>2. /\ f \in Inode /\ len \in Nat \ {0}
  BY <1>1, HoleIsFree, InHole
<1>3. f.location \in Int /\ Place(f, tmp) \in Int
  BY <1>1, <1>2, LayoutAssumption DEF Inode, Place, Hole
<1>4. SectorsOf(f) \subseteq DiskSectors /\ own \in SectorsOf(f)
  BY <1>1, <1>2, SectorsOnDisk, ConsistentIsRecoverable, BitOfSector
<1>5. last \in Place(f, tmp) .. (Place(f, tmp) + len - 1)
  BY <1>2, <1>3
<1> HIDE DEF last, own
<1>6. \A s \in Place(f, tmp) .. (Place(f, tmp) + len - 1) :
        s \in DiskSectors /\ \A m \in Live(d) : s \notin SectorsOf(d.inodes[m])
  BY <1>1, HoleSectors
<1>7. to \in DiskSectors /\ last \in DiskSectors /\ own \in DiskSectors
  BY <1>4, <1>5, <1>6 DEF BothPlaces
<1>8. /\ data' = [data EXCEPT ![to] = data[last]] /\ fs' = fs
      /\ settled' = settled
  BY SectorWritten DEF DiskWrite, last
<1>9. /\ data' = [s \in DiskSectors |-> data'[s]]
      /\ data'[to] = data[last]
      /\ \A s \in DiskSectors : s # to => data'[s] = data[s]
  BY <1>7, <1>8
<1>10. data[last] = data[own]
  BY DEF last, own
<1>11. data'[last] = data'[own]
  BY <1>7, <1>9, <1>10
<1>12. DataKept(d)'
  <2>1. \/ \A m \in Live(d) : to \notin SectorsOf(d.inodes[m])
        \/ /\ to \in SectorsOf(d.inodes[n]) /\ n \in settled
           /\ to = d.inodes[n].location + len - 1 => data[last] = data[to]
    BY <1>6, <1>10 DEF own, BothPlaces
  <2> QED
    BY <1>1, <1>7, <1>8, <2>1, CopyKeeps
<1>13. Turning(d, n, tmp)'
  BY <1>1, <1>8, <1>12 DEF Turning
<1> QED
  BY <1>8, <1>9, <1>11, <1>13 DEF last, own

\* A write of the second branch.
LEMMA StayingStep ==
    ASSUME data = [s \in DiskSectors |-> data[s]],
           NEW d, NEW n, NEW tmp, NEW i, Staying(d, n, tmp, i), DiskWrite
    PROVE  /\ data' = [s \in DiskSectors |-> data'[s]]
           /\ \/ i + 1 \in Nat /\ writes' # <<>> /\ Staying(d, n, tmp, i + 1)'
              \/ Turned(d)'
<1>0. PICK f, len : f = d.inodes[n] /\ len = Sectors(f.size)
  OBVIOUS
<1> DEFINE W == StayTurn(d, f, tmp)
           LastThere == data[Place(f, tmp) + len - 1]
                          = data[f.location + len - 1]
<1>1. /\ Turning(d, n, tmp) /\ n \in settled /\ LeavesAll(d, f, tmp)
      /\ i \in 0 .. (3 * len + 5)
      /\ writes = SubSeq(W, i + 1, 3 * len + 6)
      /\ fs.inodes = IF i \in (len + 2) .. (3 * len + 4)
                     THEN Moved(d, f, Place(f, tmp)) ELSE d.inodes
      /\ i <= len + 1 => CopiedUpTo(f, tmp, i)
      /\ i >= len + 1 => LastThere
      /\ LoopAt(d)
  BY <1>0 DEF Staying
<1>2. /\ Consistent(d) /\ DataKept(d) /\ n \in Live(d)
      /\ Hole(d, tmp, len) /\ Like(fs, d)
  BY <1>0, <1>1 DEF Turning
<1>3. /\ f \in Inode /\ len \in Nat \ {0}
      /\ f.location \in Int /\ Place(f, tmp) \in Int
  <2>1. /\ f \in Inode /\ len \in Nat \ {0}
        /\ Place(f, tmp) \in 0 .. (SectorCount - 1)
    BY <1>0, <1>2, HoleIsFree
  <2> QED
    BY <2>1, LayoutAssumption DEF Inode
<1>4. /\ W \in Seq(Writes) /\ Len(W) = 3 * len + 6
      /\ \A j \in 1 .. (len + 2) : W[j] = MoveToHole(d, f, tmp)[j]
      /\ \A j \in {len + 3, len + 4} :
           W[j].part = "at" /\ W[j].value \in SUBSET (0 .. (SectorCount - 1))
      /\ \A j \in (len + 5) .. (3 * len + 4) :
           \E to \in BothPlaces(f, tmp) :
             W[j] = Copy(Place(f, tmp) + len - 1, to)
      /\ W[3 * len + 5] = Write("inodes", d.inodes)
      /\ W[3 * len + 6] = Write("at", d.at)
  <2>1. GoesThereAndBack(d, f, tmp)
    BY <1>0, <1>1, <1>2, StayWrites
  <2> QED
    BY <1>0, <2>1 DEF GoesThereAndBack
<1>5. settled' = settled /\ loop' = loop
  BY DEF DiskWrite
<1> HIDE DEF W, LastThere
<1>6. /\ Head(writes) = W[i + 1]
      /\ writes' = SubSeq(W, (i + 1) + 1, 3 * len + 6)
      /\ i + 1 = 3 * len + 6 => writes' = <<>>
      /\ i + 1 # 3 * len + 6 => writes' # <<>>
  <2>1. i \in 0 .. ((3 * len + 6) - 1) /\ 3 * len + 6 \in Nat
    BY <1>1, <1>3
  <2> QED
    BY <1>1, <1>4, <2>1, NextWrite
<1>7. LoopAt(d)'
  BY <1>1, <1>5 DEF LoopAt, ToDo
<1>8. ASSUME Turning(d, n, tmp)', i + 1 \in 0 .. (3 * len + 5),
             fs'.inodes = IF i + 1 \in (len + 2) .. (3 * len + 4)
                          THEN Moved(d, f, Place(f, tmp)) ELSE d.inodes,
             i + 1 <= len + 1 => CopiedUpTo(f, tmp, i + 1)',
             i + 1 >= len + 1 => LastThere'
      PROVE  i + 1 \in Nat /\ writes' # <<>> /\ Staying(d, n, tmp, i + 1)'
  <2>1. i + 1 \in Nat /\ i + 1 # 3 * len + 6
    BY <1>3, <1>8
  <2>2. Staying(d, n, tmp, i + 1)'
    BY <1>0, <1>1, <1>5, <1>6, <1>7, <1>8 DEF Staying, W, LastThere
  <2> QED
    BY <1>6, <2>1, <2>2
<1>9. CASE i \in 0 .. (len + 1)
  <2>1. /\ i + 1 \in 1 .. (len + 2) /\ i <= len + 1
        /\ i + 1 \in 0 .. (3 * len + 5)
        /\ i \notin (len + 2) .. (3 * len + 4)
        /\ ~(i + 1 <= len + 1) <=> i + 1 \in (len + 2) .. (3 * len + 4)
    BY <1>3, <1>9
  <2>2. /\ Head(writes) = MoveToHole(d, f, tmp)[i + 1]
        /\ fs.inodes = d.inodes /\ CopiedUpTo(f, tmp, i)
    BY <1>1, <1>4, <1>6, <2>1
  <2>3. /\ Turning(d, n, tmp)'
        /\ data' = [s \in DiskSectors |-> data'[s]]
        /\ CopiedUpTo(f, tmp, i + 1)'
        /\ fs'.inodes = IF i + 1 <= len + 1 THEN d.inodes
                        ELSE Moved(d, f, Place(f, tmp))
    <3>1. Turning(d, n, tmp)
      BY <1>1
    <3> QED
      BY <1>0, <1>9, <2>2, <3>1, HoleStep
  <2>4. i + 1 >= len + 1 => LastThere'
    <3>1. /\ len - 1 \in 0 .. (len - 1)
          /\ i + 1 >= len + 1 => (len - 1) + 2 <= i + 1
          /\ Place(f, tmp) + (len - 1) = Place(f, tmp) + len - 1
          /\ f.location + (len - 1) = f.location + len - 1
      BY <1>3, <2>1
    <3> QED
      BY <1>0, <2>3, <3>1 DEF CopiedUpTo, LastThere
  <2>5. fs'.inodes = IF i + 1 \in (len + 2) .. (3 * len + 4)
                     THEN Moved(d, f, Place(f, tmp)) ELSE d.inodes
    BY <2>1, <2>3
  <2> QED
    BY <1>8, <2>1, <2>3, <2>4, <2>5
<1>10. CASE i \in {len + 2, len + 3}
  <2>1. /\ i + 1 \in {len + 3, len + 4} /\ i >= len + 1
        /\ i + 1 \in 0 .. (3 * len + 5) /\ ~(i + 1 <= len + 1)
        /\ i \in (len + 2) .. (3 * len + 4)
        /\ i + 1 \in (len + 2) .. (3 * len + 4)
    BY <1>3, <1>10
  <2>2. /\ Head(writes).part = "at"
        /\ Head(writes).value \in SUBSET (0 .. (SectorCount - 1))
    BY <1>4, <1>6, <2>1
  <2>3. Like(fs', d) /\ data' = data /\ fs'.inodes = fs.inodes
    BY <1>2, <2>2, PartWritten
  <2>4. Turning(d, n, tmp)'
    BY <1>0, <1>2, <1>5, <2>3 DEF Turning, DataKept, Kept, LastIntact, Intact
  <2>5. LastThere'
    BY <1>1, <2>1, <2>3 DEF LastThere
  <2> QED
    BY <1>1, <1>8, <2>1, <2>3, <2>4, <2>5
<1>11. CASE i \in (len + 4) .. (3 * len + 3)
  <2>1. /\ i + 1 \in (len + 5) .. (3 * len + 4) /\ i >= len + 1
        /\ i + 1 \in 0 .. (3 * len + 5) /\ ~(i + 1 <= len + 1)
        /\ i \in (len + 2) .. (3 * len + 4)
        /\ i + 1 \in (len + 2) .. (3 * len + 4)
    BY <1>3, <1>11
  <2>2. PICK to \in BothPlaces(f, tmp) :
          Head(writes) = Copy(Place(f, tmp) + len - 1, to)
    BY <1>4, <1>6, <2>1
  <2>3. data[Place(f, tmp) + len - 1] = data[f.location + len - 1]
    BY <1>1, <2>1 DEF LastThere
  <2>4. /\ Turning(d, n, tmp)' /\ fs' = fs
        /\ data' = [s \in DiskSectors |-> data'[s]]
        /\ data'[Place(f, tmp) + len - 1] = data'[f.location + len - 1]
    <3>1. Turning(d, n, tmp) /\ n \in settled
      BY <1>1
    <3> QED
      BY <1>0, <2>2, <2>3, <3>1, LastCopied
  <2>5. LastThere'
    BY <2>4 DEF LastThere
  <2> QED
    BY <1>1, <1>8, <2>1, <2>4, <2>5
<1>12. CASE i = 3 * len + 4
  <2>1. /\ i + 1 = 3 * len + 5 /\ i >= len + 1
        /\ i + 1 \in 0 .. (3 * len + 5) /\ ~(i + 1 <= len + 1)
        /\ i + 1 \notin (len + 2) .. (3 * len + 4)
    BY <1>3, <1>12
  <2>2. /\ Head(writes).part = "inodes" /\ Head(writes).value = d.inodes
        /\ d.inodes \in [InodeNumbers -> Inode \cup {NoInode}]
    BY <1>2, <1>4, <1>6, <2>1 DEF Write, Consistent, FileSystem
  <2>3. Like(fs', d) /\ data' = data /\ fs'.inodes = d.inodes
    BY <1>2, <2>2, PartWritten
  <2>4. Turning(d, n, tmp)'
    BY <1>0, <1>2, <1>5, <2>3 DEF Turning, DataKept, Kept, LastIntact, Intact
  <2>5. LastThere'
    BY <1>1, <2>1, <2>3 DEF LastThere
  <2> QED
    BY <1>8, <2>1, <2>3, <2>4, <2>5
<1>13. CASE i = 3 * len + 5
  <2>1. /\ i + 1 = 3 * len + 6
        /\ i \notin (len + 2) .. (3 * len + 4)
    BY <1>3, <1>13
  <2>2. /\ Head(writes).part = "at" /\ Head(writes).value = d.at
        /\ d.at \in SUBSET (0 .. (SectorCount - 1))
    BY <1>2, <1>4, <1>6, <2>1 DEF Write, Consistent, FileSystem
  <2>3. Like(fs', d) /\ data' = data /\ fs'.inodes = d.inodes /\ fs'.at = d.at
    BY <1>1, <1>2, <2>1, <2>2, PartWritten
  <2>4. fs' = d
    BY <1>2, <2>3, AtBegin
  <2>5. DataKept(d)'
    BY <1>2, <1>5, <2>3 DEF DataKept, Kept, LastIntact, Intact
  <2> QED
    BY <1>2, <1>6, <1>7, <2>1, <2>3, <2>4, <2>5 DEF Turned
<1>14. \/ i \in 0 .. (len + 1) \/ i \in {len + 2, len + 3}
       \/ i \in (len + 4) .. (3 * len + 3)
       \/ i = 3 * len + 4 \/ i = 3 * len + 5
  <2>1. i \in 0 .. (3 * len + 5) /\ len \in Nat \ {0}
    BY <1>1, <1>3
  <2> QED
    BY <2>1
<1> QED
  BY <1>9, <1>10, <1>11, <1>12, <1>13, <1>14

-----------------------------------------------------------------------------
(* Each step preserves the invariant.                                      *)

\* What a restart, and the bundle agent, find at any point of a turn.
LEMMA TurnView ==
    ASSUME NEW d, Consistent(d), NEW n \in Live(d),
           NEW f, f = d.inodes[n], NEW len, len = Sectors(f.size),
           NEW tmp, Hole(d, tmp, len), NEW e, Like(e, d),
           e.inodes \in {d.inodes, Moved(d, f, Place(f, tmp))}
    PROVE  Recoverable(e) /\ Bundles(e) = Bundles(d)
<1>1. CASE e.inodes = d.inodes
  BY <1>1, AtBegin
<1>2. CASE e.inodes = Moved(d, f, Place(f, tmp))
  BY <1>2, AtHole
<1> QED
  BY <1>1, <1>2

\* The power may fail at any point: a restart finds all it needs, and the data.
LEMMA AlwaysGood ==
    ASSUME DefragInv
    PROVE  Recoverable(fs) /\ DataKept(fs)
<1>1. CASE writes = <<>>
  BY <1>1 DEF DefragInv
<1>2. CASE writes # <<>>
  <2>1. PICK d, n, tmp, i : Moving(d, n, tmp, i) \/ Staying(d, n, tmp, i)
    BY <1>2 DEF DefragInv, MidTurn
  <2>2. PICK f, len : f = d.inodes[n] /\ len = Sectors(f.size)
    OBVIOUS
  <2>3. /\ Consistent(d) /\ DataKept(d) /\ n \in Live(d)
        /\ Hole(d, tmp, len) /\ Like(fs, d)
    BY <2>1, <2>2 DEF Moving, Staying, Turning
  <2>4. fs.inodes \in {d.inodes, Moved(d, f, Place(f, tmp))}
    BY <2>1, <2>2 DEF Moving, Staying
  <2>5. Recoverable(fs)
    BY <2>2, <2>3, <2>4, TurnView
  <2>6. CASE fs.inodes = d.inodes
    <3>1. Live(fs) = Live(d)
      BY <2>3 DEF Like, Live, InodeMax
    <3> QED
      BY <2>3, <2>5, <2>6, <3>1 DEF DataKept
  <2>7. CASE fs.inodes # d.inodes
    <3>1. fs.inodes = Moved(d, f, Place(f, tmp))
      BY <2>4, <2>7
    <3>2. len \in Nat \ {0} /\ f \in Inode
      BY <2>2, <2>3, HoleIsFree, InHole
    <3>3. /\ n \notin settled => CopiedUpTo(f, tmp, len + 1)
          /\ data[Place(f, tmp) + len - 1] = data[f.location + len - 1]
      <4>1. CASE Moving(d, n, tmp, i)
        <5>1. i = len + 2 /\ CopiedUpTo(f, tmp, i)
          BY <2>2, <2>7, <3>2, <4>1 DEF Moving
        <5>2. \A r \in 0 .. (len - 1) : r + 2 <= i
          BY <3>2, <5>1
        <5>3. /\ len - 1 \in 0 .. (len - 1)
              /\ Place(f, tmp) + (len - 1) = Place(f, tmp) + len - 1
              /\ f.location + (len - 1) = f.location + len - 1
          BY <2>3, <3>2, LayoutAssumption, HoleIsFree DEF Inode, Place, Hole
        <5> QED
          BY <2>2, <5>1, <5>2, <5>3 DEF CopiedUpTo
      <4>2. CASE Staying(d, n, tmp, i)
        <5>1. n \in settled /\ i >= len + 1
              /\ (i >= len + 1 => data[Place(f, tmp) + len - 1]
                                      = data[f.location + len - 1])
          BY <2>2, <2>7, <3>2, <4>2 DEF Staying
        <5> QED
          BY <5>1
      <4> QED
        BY <2>1, <4>1, <4>2
    <3> QED
      BY <2>2, <2>3, <2>5, <3>1, <3>3, HoleKept
  <2> QED
    BY <2>5, <2>6, <2>7
<1> QED
  BY <1>1, <1>2

\* A disk_write of a turn.  The bundle agent sees nothing of it, and the last
\* one of the last turn leaves no gap.
LEMMA WriteStep ==
    ASSUME DefragInv, DiskWrite
    PROVE  DefragInv' /\ Bundles(fs') = Bundles(fs) /\ (Idle' => Compact(fs'))
<1>1. /\ writes # <<>> /\ power = "up"
      /\ UNCHANGED <<clock, loop, power, pending, settled>>
  BY DEF DiskWrite
<1>2. /\ clock \in 0 .. MaxClock /\ data = [s \in DiskSectors |-> data[s]]
      /\ pending # NoBundle =>
           pending \in [size : Sizes, ttl : TTLs, custody : BOOLEAN]
      /\ MidTurn
  BY <1>1 DEF DefragInv
<1>3. PICK d \in FileSystem, n \in InodeNumbers, tmp \in Nat, i \in Nat :
        Moving(d, n, tmp, i) \/ Staying(d, n, tmp, i)
  BY <1>2 DEF MidTurn
<1>4. PICK f, len : f = d.inodes[n] /\ len = Sectors(f.size)
  OBVIOUS
<1>5. /\ Consistent(d) /\ n \in Live(d)
      /\ Hole(d, tmp, len) /\ Like(fs, d)
      /\ fs.inodes \in {d.inodes, Moved(d, f, Place(f, tmp))}
  BY <1>3, <1>4 DEF Moving, Staying, Turning
<1>6. Bundles(fs) = Bundles(d)
  BY <1>4, <1>5, TurnView
<1>7. ASSUME NEW e, Turned(e)', Like(e, d),
             e.inodes \in {d.inodes, Moved(d, f, Place(f, tmp))},
             data' = [s \in DiskSectors |-> data'[s]]
      PROVE  DefragInv' /\ Bundles(fs') = Bundles(fs) /\ (Idle' => Compact(fs'))
  <2>1. /\ fs' = e /\ Consistent(e) /\ DataKept(e)'
        /\ writes' = <<>> /\ LoopAt(e)'
    BY <1>7 DEF Turned
  <2>2. Bundles(e) = Bundles(d) /\ Recoverable(e)
    BY <1>4, <1>5, <1>7, TurnView
  <2>3. DataKept(fs)' /\ LoopAt(fs)'
    BY <2>1 DEF DataKept, Kept, LastIntact, Intact, LoopAt, ToDo
  <2>4. DefragInv'
    BY <1>1, <1>2, <1>7, <2>1, <2>2, <2>3 DEF DefragInv
  <2>5. Idle' => Compact(fs')
    BY <2>1 DEF Idle, LoopAt
  <2> QED
    BY <1>6, <2>1, <2>2, <2>4, <2>5
<1>8. ASSUME Like(fs', d), fs'.inodes \in {d.inodes, Moved(d, f, Place(f, tmp))},
             data' = [s \in DiskSectors |-> data'[s]],
             writes' # <<>>, MidTurn'
      PROVE  DefragInv' /\ Bundles(fs') = Bundles(fs) /\ (Idle' => Compact(fs'))
  <2>1. Bundles(fs') = Bundles(d)
    BY <1>4, <1>5, <1>8, TurnView
  <2>2. DefragInv'
    BY <1>1, <1>2, <1>8 DEF DefragInv
  <2>3. ~Idle'
    BY <1>8 DEF Idle
  <2> QED
    BY <1>6, <2>1, <2>2, <2>3
<1>9. CASE Moving(d, n, tmp, i)
  <2>1. /\ data' = [s \in DiskSectors |-> data'[s]]
        /\ \/ i + 1 \in Nat /\ writes' # <<>> /\ Moving(d, n, tmp, i + 1)'
           \/ Turned(AfterMove(d, f, tmp))'
    BY <1>2, <1>4, <1>9, MovingStep
  <2>2. CASE i + 1 \in Nat /\ writes' # <<>> /\ Moving(d, n, tmp, i + 1)'
    <3>1. Like(fs', d) /\ fs'.inodes \in {d.inodes, Moved(d, f, Place(f, tmp))}
      BY <1>4, <2>2 DEF Moving, Turning
    <3>2. MidTurn'
      BY <1>3, <2>2 DEF MidTurn
    <3> QED
      BY <1>8, <2>1, <2>2, <3>1, <3>2
  <2>3. CASE Turned(AfterMove(d, f, tmp))'
    <3> DEFINE e == AfterMove(d, f, tmp)
    <3>1. e \in FileSystem
      BY <2>3 DEF Turned, Consistent
    <3>2. e.inodes = Moved(d, f, Place(f, tmp)) /\ Like(e, d)
      BY <1>3, <3>1 DEF AfterMove, Like, FileSystem
    <3> HIDE DEF e
    <3> QED
      BY <1>7, <2>1, <2>3, <3>2 DEF e
  <2> QED
    BY <2>1, <2>2, <2>3
<1>10. CASE Staying(d, n, tmp, i)
  <2>1. /\ data' = [s \in DiskSectors |-> data'[s]]
        /\ \/ i + 1 \in Nat /\ writes' # <<>> /\ Staying(d, n, tmp, i + 1)'
           \/ Turned(d)'
    BY <1>2, <1>10, StayingStep
  <2>2. CASE i + 1 \in Nat /\ writes' # <<>> /\ Staying(d, n, tmp, i + 1)'
    <3>1. Like(fs', d) /\ fs'.inodes \in {d.inodes, Moved(d, f, Place(f, tmp))}
      BY <1>4, <2>2 DEF Staying, Turning
    <3>2. MidTurn'
      BY <1>3, <2>2 DEF MidTurn
    <3> QED
      BY <1>8, <2>1, <2>2, <3>1, <3>2
  <2>3. CASE Turned(d)'
    BY <1>3, <1>7, <2>1, <2>3 DEF Like
  <2> QED
    BY <2>1, <2>2, <2>3
<1> QED
  BY <1>3, <1>9, <1>10

\* The loop goes on behind the bundle whose turn it was, or there is none left.
LEMMA LoopContinues ==
    ASSUME NEW d, Consistent(d), NEW rest, NEW f \in rest, NEW k,
           ToDo(d, rest \ {f}, k), settled' = settled,
           loop' = IF rest = {f} THEN Returned
                   ELSE [rest |-> rest \ {f}, k |-> k]
    PROVE  LoopAt(d)'
<1>1. CASE rest = {f}
  <2>1. rest \ {f} = {}
    BY <1>1
  <2>2. Compact(d)
    BY <2>1, NothingToDo
  <2> QED
    BY <1>1, <2>2 DEF LoopAt
<1>2. CASE rest # {f}
  <2>1. loop'.rest = rest \ {f} /\ loop'.k = k /\ rest \ {f} # {}
    BY <1>2
  <2>2. loop' # Returned
    BY <2>1 DEF Returned
  <2>3. ToDo(d, loop.rest, loop.k)'
    BY <2>1 DEF ToDo
  <2> QED
    BY <2>1, <2>2, <2>3 DEF LoopAt
<1> QED
  BY <1>1, <1>2

\* The writes of a turn that has just begun are all still to be made.
LEMMA AllWritesLeft ==
    ASSUME NEW W \in Seq(Writes), NEW n \in Nat \ {0}, Len(W) = n
    PROVE  SubSeq(W, 0 + 1, n) = W /\ W # <<>>
  BY SubSeqFull

\* A turn begins: its writes are those of one of the branches, or none.
LEMMA TurnBegins ==
    ASSUME DefragInv, DefragmentBundle, RightTurn(fs, loop.rest, loop.k)
    PROVE  /\ DefragInv' /\ UNCHANGED <<fs, clock, result>>
           /\ Idle' => Compact(fs')
<1>1. /\ power = "up" /\ writes = <<>> /\ loop # Returned
      /\ UNCHANGED <<fs, clock, result, data, power, pending, settled>>
  BY DEF DefragmentBundle
<1>2. /\ clock \in 0 .. MaxClock /\ data = [s \in DiskSectors |-> data[s]]
      /\ pending # NoBundle =>
           pending \in [size : Sizes, ttl : TTLs, custody : BOOLEAN]
      /\ Recoverable(fs) /\ Consistent(fs) /\ DataKept(fs)
      /\ loop.rest # {} /\ ToDo(fs, loop.rest, loop.k)
  BY <1>1 DEF DefragInv, LoopAt
<1>3. PICK d, rest, k, f, len :
        /\ d = fs /\ rest = loop.rest /\ k = loop.k
        /\ f = LastInode(rest) /\ len = Sectors(f.size)
  OBVIOUS
<1>4. PICK t : t = FindSeq(d.at, SectorCount, len)
  OBVIOUS
<1>5. /\ Consistent(d) /\ rest # {} /\ ToDo(d, rest, k)
      /\ DataKept(d)' /\ DataKept(d) /\ fs' = d
      /\ RightTurn(d, rest, k)
  <2>1. DataKept(fs)'
    BY <1>1, <1>2 DEF DataKept, Kept, LastIntact, Intact
  <2>2. DataKept(d)'
    BY <1>1, <1>3, <2>1 DEF DataKept, Kept, LastIntact, Intact
  <2> QED
    BY <1>1, <1>2, <1>3, <2>2
<1>6. /\ f \in rest /\ f \in Inode
      /\ \A g \in rest : g.location <= f.location
      /\ \/ HasSeq(d.at, SectorCount, len) /\ k = SectorCount - t
         \/ /\ ~HasSeq(d.at, SectorCount, len) \/ k # SectorCount - t
            /\ f.location = k - len
            /\ f.inode_offset \in settled
            /\ HasSeq(d.at, SectorCount, len) =>
                 Run(SectorCount - f.location, len) \cap (0 .. (SectorCount - 1))
                   \subseteq d.at \cup Run(t, len)
  BY <1>3, <1>4, <1>5, TurnCases
<1>7. len \in Nat \ {0}
  BY <1>3, <1>6, BitsAre
<1>8. /\ f.inode_offset \in Live(d) /\ d.inodes[f.inode_offset] = f
      /\ k \in Int
  BY <1>5, <1>6 DEF ToDo
<1>9. \/ /\ ~HasSeq(d.at, SectorCount, len)
         /\ Turn(f, <<>>, f.location)
      \/ /\ HasSeq(d.at, SectorCount, len)
         /\ k = SectorCount - t
         /\ Turn(f, MoveTurn(d, f, t), Place(f, t))
      \/ /\ HasSeq(d.at, SectorCount, len)
         /\ k # SectorCount - t
         /\ Turn(f, MoveToHole(d, f, t) \o MoveOn(d, f, t, k - len), k - len)
  BY <1>3, <1>4, <1>7 DEF DefragmentBundle, MoveTurn
<1>10. SectorCount \in Nat /\ k = SectorCount - (SectorCount - k)
  BY <1>8, LayoutAssumption
<1>11. ASSUME HasSeq(d.at, SectorCount, len)
       PROVE  Hole(d, t, len)
  BY <1>4, <1>7, <1>11, FirstFitIsHole
<1>12. ASSUME Hole(d, t, len)
       PROVE  /\ Turning(d, f.inode_offset, t)'
              /\ fs'.inodes = d.inodes
              /\ CopiedUpTo(f, t, 0)'
  <2>1. Like(fs', d)
    BY <1>5 DEF Like, Consistent
  <2>2. CopiedUpTo(f, t, 0)'
    BY <1>3, <1>7 DEF CopiedUpTo
  <2> QED
    BY <1>3, <1>5, <1>8, <1>12, <2>1, <2>2 DEF Turning
<1>13. ASSUME writes' # <<>>, MidTurn'
       PROVE  DefragInv' /\ (Idle' => Compact(fs'))
  BY <1>1, <1>2, <1>13 DEF DefragInv, Idle
<1>14. d \in FileSystem /\ f.inode_offset \in InodeNumbers
       /\ (Hole(d, t, len) => t \in Nat)
  BY <1>5, <1>6, <1>7, LayoutAssumption DEF Consistent, Inode, Hole
<1>15. CASE ~HasSeq(d.at, SectorCount, len)
  <2>1. Turn(f, <<>>, f.location) /\ f.location = k - len
    BY <1>6, <1>9, <1>15
  <2>2. ToDo(d, rest \ {f}, f.location)
    BY <1>3, <1>5, <1>6, <2>1, StayEnds
  <2>3. LoopAt(d)' /\ writes' = <<>>
    BY <1>1, <1>3, <1>5, <1>6, <2>1, <2>2, LoopContinues DEF Turn
  <2>4. LoopAt(fs)' /\ DataKept(fs)'
    <3>1. LoopAt(fs)'
      BY <1>5, <2>3 DEF LoopAt, ToDo
    <3> QED
      BY <1>1, <1>2, <3>1 DEF DataKept, Kept, LastIntact, Intact
  <2>5. DefragInv'
    BY <1>1, <1>2, <2>3, <2>4 DEF DefragInv
  <2>6. Idle' => Compact(fs')
    BY <2>4 DEF Idle, LoopAt
  <2> QED
    BY <1>1, <2>5, <2>6
<1>16. CASE HasSeq(d.at, SectorCount, len) /\ k = SectorCount - t
  <2> DEFINE W == MoveTurn(d, f, t)
             e == AfterMove(d, f, t)
  <2>1. Hole(d, t, len) /\ Turn(f, W, Place(f, t))
    BY <1>9, <1>11, <1>16
  <2>2. W \in Seq(Writes) /\ Len(W) = len + 3
    <3>1. StaysInHole(d, f, t)
      BY <1>3, <1>5, <1>8, <2>1, MoveWrites
    <3> QED
      BY <1>3, <3>1 DEF StaysInHole
  <2> HIDE DEF W
  <2>3. /\ writes' = W /\ W # <<>>
        /\ writes' = SubSeq(W, 0 + 1, len + 3)
    <3>1. len + 3 \in Nat \ {0} /\ writes' = W
      BY <1>7, <2>1 DEF Turn
    <3> QED
      BY <2>2, <3>1, AllWritesLeft
  <2>4. /\ Like(e, d) /\ e.inodes = Moved(d, f, Place(f, t))
        /\ e.at = (d.at \cup Run(t, len)) \ Bits(f)
    <3>1. Moved(d, f, Place(f, t)) \in [InodeNumbers -> Inode \cup {NoInode}]
      <4>1. Relocated(f, Place(f, t)) \in Inode
        BY <1>3, <1>5, <1>8, <2>1, InHole
      <4> QED
        BY <1>14, <4>1 DEF Moved, FileSystem
    <3>2. (d.at \cup Run(t, len)) \ Bits(f) \in SUBSET (0 .. (SectorCount - 1))
      <4>1. Run(t, len) \subseteq DataBits(d)
        BY <1>3, <1>5, <1>8, <2>1, HoleIsFree
      <4> QED
        BY <1>5, <4>1, MetadataAndData DEF Consistent, FileSystem
    <3> QED
      BY <1>3, <1>14, <3>1, <3>2 DEF AfterMove, Like, FileSystem
  <2> HIDE DEF e
  <2>5. Consistent(e)
    BY <1>3, <1>5, <1>8, <2>1, <2>4, AtHole
  <2>6. ToDo(e, rest \ {f}, Place(f, t))
    BY <1>3, <1>5, <1>6, <1>16, <2>1, <2>4, MoveEnds
  <2>7. LoopAt(e)'
    BY <1>1, <1>3, <1>6, <2>1, <2>5, <2>6, LoopContinues DEF Turn
  <2>8. Moving(d, f.inode_offset, t, 0)'
    BY <1>3, <1>7, <1>8, <1>12, <2>1, <2>3, <2>7 DEF Moving, W, e
  <2>9. MidTurn'
    BY <1>14, <2>1, <2>8 DEF MidTurn
  <2> QED
    BY <1>1, <1>13, <2>3, <2>9
<1>17. CASE HasSeq(d.at, SectorCount, len) /\ k # SectorCount - t
  <2> DEFINE W == StayTurn(d, f, t)
  <2>1. /\ f.location = k - len /\ f.inode_offset \in settled
        /\ Hole(d, t, len)
        /\ Turn(f, W, f.location)
    BY <1>6, <1>9, <1>11, <1>17 DEF StayTurn
  <2>2. LeavesAll(d, f, t)
    BY <1>3, <1>5, <1>6, <1>8, <1>17, <2>1, MoveOnWrites
  <2>3. W \in Seq(Writes) /\ Len(W) = 3 * len + 6
    <3>1. GoesThereAndBack(d, f, t)
      BY <1>3, <1>5, <1>8, <2>1, <2>2, StayWrites
    <3> QED
      BY <1>3, <3>1 DEF GoesThereAndBack
  <2> HIDE DEF W
  <2>4. /\ writes' = W /\ W # <<>>
        /\ writes' = SubSeq(W, 0 + 1, 3 * len + 6)
    <3>1. 3 * len + 6 \in Nat \ {0} /\ writes' = W
      BY <1>7, <2>1 DEF Turn
    <3> QED
      BY <2>3, <3>1, AllWritesLeft
  <2>5. ToDo(d, rest \ {f}, f.location)
    BY <1>3, <1>5, <1>6, <2>1, StayEnds
  <2>6. LoopAt(d)'
    BY <1>1, <1>3, <1>5, <1>6, <2>1, <2>5, LoopContinues DEF Turn
  <2>7. Staying(d, f.inode_offset, t, 0)'
    <3>1. /\ 0 \in 0 .. (3 * len + 5) /\ ~(0 >= len + 1)
          /\ 0 \notin (len + 2) .. (3 * len + 4)
      BY <1>7
    <3>2. f.inode_offset \in settled'
      BY <1>1, <2>1
    <3> QED
      BY <1>3, <1>8, <1>12, <2>1, <2>2, <2>4, <2>6, <3>1, <3>2 DEF Staying, W
  <2>8. MidTurn'
    BY <1>14, <2>1, <2>7 DEF MidTurn
  <2> QED
    BY <1>1, <1>13, <2>4, <2>8
<1> QED
  BY <1>15, <1>16, <1>17

\* The bundles of file system e are where they are in d.
KeepsPlaces(d, e) ==
    \A m \in Live(e) :
      /\ m \in Live(d)
      /\ e.inodes[m].location = d.inodes[m].location
      /\ e.inodes[m].size = d.inodes[m].size
      /\ e.inodes[m].inode_offset = d.inodes[m].inode_offset

\* The calls leave the data of the bundles that they leave.
LEMMA OwnedKept ==
    ASSUME DataKept(fs), NEW e, fs' = e, Recoverable(e), KeepsPlaces(fs, e),
           data' = OwnedData(e),
           settled \cap Live(e) \subseteq settled'
    PROVE  DataKept(fs)' /\ data' = [s \in DiskSectors |-> data'[s]]
<1>1. \A s \in DiskSectors : s \in Owned(e) => data'[s] = data[s]
  BY DEF OwnedData
<1>2. data' = [s \in DiskSectors |-> data'[s]]
  BY DEF OwnedData
<1>3. ASSUME NEW m \in Live(e)
      PROVE  Kept(e.inodes[m])'
  <2>1. PICK f, g : f = fs.inodes[m] /\ g = e.inodes[m]
    OBVIOUS
  <2>2. /\ m \in Live(fs) /\ g.location = f.location /\ g.size = f.size
        /\ g.inode_offset = f.inode_offset /\ g.inode_offset = m
        /\ g \in Inode /\ Kept(f)
    BY <1>3, <2>1 DEF Recoverable, LiveInodesNamed, DataKept, KeepsPlaces
  <2>3. SectorsOf(g) = SectorsOf(f) /\ \A s : DataOf(g, s) = DataOf(f, s)
    BY <2>2 DEF SectorsOf, DataOf
  <2>4. g.location + Sectors(g.size) - 1 \in SectorsOf(g)
    BY <2>2, BitOfSector, BitsAre
  <2>5. \A s \in SectorsOf(g) : data'[s] = data[s]
    <3>1. SectorsOf(g) \subseteq DiskSectors
      BY <2>1, SectorsOnDisk
    <3>2. SectorsOf(g) \subseteq Owned(e)
      BY <2>1 DEF Owned
    <3> QED
      BY <1>1, <3>1, <3>2
  <2>6. LastIntact(g)'
    BY <2>2, <2>3, <2>4, <2>5 DEF Kept, LastIntact
  <2>7. m \notin settled' => Intact(g)'
    <3>1. m \notin settled' => m \notin settled
      BY <1>3
    <3> QED
      BY <2>2, <2>3, <2>5, <3>1 DEF Kept, Intact
  <2> QED
    BY <2>1, <2>2, <2>6, <2>7 DEF Kept
<1> QED
  BY <1>2, <1>3 DEF DataKept, Kept, LastIntact, Intact

\* A call of the file system between two others.
LEMMA CallEnds ==
    ASSUME DefragInv, Idle, UNCHANGED <<loop, writes, power>>,
           Inv', DataKept(fs)',
           data' = [s \in DiskSectors |-> data'[s]],
           pending' # NoBundle =>
             pending' \in [size : Sizes, ttl : TTLs, custody : BOOLEAN]
    PROVE  DefragInv'
<1>1. /\ power' = "up" /\ writes' = <<>> /\ loop' = Returned
      /\ Consistent(fs)' /\ clock' \in 0 .. MaxClock
  BY DEF Idle, Inv
<1>2. Recoverable(fs)'
  BY <1>1 DEF Recoverable, Consistent
<1> QED
  BY <1>1, <1>2 DEF DefragInv

\* A call that stores no bundle.
LEMMA KeptByCall ==
    ASSUME RestoreAligned, DefragInv, Idle, [Next]_vars, Keep,
           KeepsPlaces(fs, fs'),
           pending' # NoBundle =>
             pending' \in [size : Sizes, ttl : TTLs, custody : BOOLEAN]
    PROVE  DefragInv'
<1>1. PICK e : e = fs'
  OBVIOUS
<1>2. Inv /\ DataKept(fs)
  BY DEF DefragInv, Idle, Inv
<1>3. Inv'
  BY <1>2, NextInv
<1>4. Consistent(e) /\ Recoverable(e)
  BY <1>1, <1>3 DEF Inv, Consistent, Recoverable
<1>5. /\ data' = OwnedData(e) /\ settled' = settled \cap Live(e)
      /\ UNCHANGED <<loop, writes, power>>
  BY <1>1 DEF Keep
<1>6. DataKept(fs)' /\ data' = [s \in DiskSectors |-> data'[s]]
  BY <1>1, <1>2, <1>4, <1>5, OwnedKept
<1> QED
  BY <1>3, <1>5, <1>6, CallEnds

\* Room is made without moving a bundle.
LEMMA RoomForPlaces ==
    ASSUME Consistent(fs), NEW size \in Sizes
    PROVE  LET d == RoomFor(size) IN
           \A m \in Live(d) : m \in Live(fs) /\ d.inodes[m] = fs.inodes[m]
<1> DEFINE r == ResizeInodeBlock(fs)
           d == RoomFor(size)
<1>1. Consistent(r) /\ Live(r) = Live(fs) /\ r.inodes = fs.inodes
  BY ResizedConsistent
<1>2. d = r \/ \E v \in Live(fs) : d = Deleted(r, r.inodes[v])
  BY RoomForCases
<1> HIDE DEF r, d
<1>3. CASE d = r
  BY <1>1, <1>3 DEF d
<1>4. ASSUME NEW v \in Live(fs), d = Deleted(r, r.inodes[v])
      PROVE  \A m \in Live(d) : m \in Live(fs) /\ d.inodes[m] = fs.inodes[m]
  <2>1. /\ Live(d) = Live(r) \ {v}
        /\ \A m \in Live(r) \ {v} : d.inodes[m] = r.inodes[m]
    BY <1>1, <1>4, DeletedConsistent
  <2> QED
    BY <1>1, <2>1
<1> QED
  BY <1>2, <1>3, <1>4 DEF d

\* The new bundle g has the first hole that is large enough, in the file system r
\* in which there is room for it.
StoresFirstFit(e, r, g) ==
    /\ Consistent(r)
    /\ \A m \in Live(r) : m \in Live(fs) /\ r.inodes[m] = fs.inodes[m]
    /\ g \in Inode /\ g.inode_offset \notin Live(r)
    /\ HasSeq(r.at, SectorCount, Sectors(g.size))
    /\ g.location = SectorCount - FindSeq(r.at, SectorCount, Sectors(g.size))
                      - Sectors(g.size)
    /\ Live(e) = Live(r) \cup {g.inode_offset}
    /\ e.inodes[g.inode_offset] = g
    /\ \A m \in Live(r) : e.inodes[m] = r.inodes[m]

LEMMA StoredFirstFit ==
    ASSUME Consistent(fs),
           NEW b \in [size : Sizes, ttl : TTLs, custody : BOOLEAN],
           StoreBundle(b), NEW e, e = fs'
    PROVE  \E r, g :
             /\ StoresFirstFit(e, r, g)
             /\ data' = [s \in DiskSectors |-> IF s \in SectorsOf(g)
                                              THEN DataOf(g, s) ELSE OwnedData(e)[s]]
             /\ settled' = (settled \cap Live(e)) \ {g.inode_offset}
<1> DEFINE d == RoomFor(b.size)
           f == NewInode(d, b.size, b.ttl, b.custody)
           n == f.inode_offset
<1>1. b.size \in Sizes /\ b.ttl \in TTLs /\ b.custody \in BOOLEAN
  OBVIOUS
<1>2. CreateBundle(b.size, b.ttl, b.custody)
  BY DEF StoreBundle
<1>3. /\ Consistent(d)
      /\ \A m \in Live(d) : m \in Live(fs) /\ d.inodes[m] = fs.inodes[m]
  BY <1>1, RoomForConsistent, RoomForPlaces
<1>4. /\ e = Placed(d, f) /\ Fits(d, b.size)
      /\ f \in Inode /\ Bits(f) \subseteq 0 .. (SectorCount - 1)
      /\ Bits(f) \cap d.at = {} /\ n \notin d.it
  <2>1. Fits(d, b.size) /\ e = Placed(d, f)
    BY <1>2 DEF CreateBundle, Return
  <2>2. HasFreeInode(d)
    <3>1. HasFreeInode(ResizeInodeBlock(fs))
      BY <1>2 DEF CreateBundle
    <3> QED
      BY <1>1, <3>1, RoomForCases
  <2> QED
    BY <1>1, <1>3, <2>1, <2>2, NewInodeFits
<1>5. f.location = SectorCount - FindSeq(d.at, SectorCount, Sectors(b.size))
                     - Sectors(b.size) /\ f.size = b.size
  BY DEF NewInode
<1>6. /\ data' = [s \in DiskSectors |-> IF s \in SectorsOf(f)
                                        THEN DataOf(f, s) ELSE OwnedData(e)[s]]
      /\ settled' = (settled \cap Live(e)) \ {f.inode_offset}
  BY DEF StoreBundle
<1> HIDE DEF d, f, n
<1>7. /\ Live(e) = Live(d) \cup {f.inode_offset}
      /\ e.inodes[f.inode_offset] = f
      /\ \A m \in Live(d) : e.inodes[m] = d.inodes[m]
  BY <1>3, <1>4, PlacedConsistent DEF n
<1>8. f.inode_offset \notin Live(d)
  BY <1>4 DEF n, Live
<1>9. StoresFirstFit(e, d, f)
  BY <1>3, <1>4, <1>5, <1>7, <1>8 DEF StoresFirstFit, Fits
<1> QED
  BY <1>6, <1>9

\* fs_create_write stores a bundle.
LEMMA StoreStep ==
    ASSUME RestoreAligned, DefragInv, Idle,
           NEW b \in [size : Sizes, ttl : TTLs, custody : BOOLEAN],
           StoreBundle(b)
    PROVE  DefragInv' /\ [Next]_vars
<1>1. CreateBundle(b.size, b.ttl, b.custody) /\ pending' = NoBundle
      /\ UNCHANGED <<loop, writes, power, todo>>
  BY DEF StoreBundle
<1>2. [Next]_vars
  BY <1>1 DEF Next, FsCreate
<1>3. Inv /\ Consistent(fs) /\ DataKept(fs)
  BY DEF DefragInv, Idle, Inv
<1>4. Inv'
  BY <1>2, <1>3, NextInv
<1>5. PICK e : e = fs'
  OBVIOUS
<1>6. Consistent(e) /\ Recoverable(e)
  BY <1>4, <1>5 DEF Inv, Consistent, Recoverable
<1>7. PICK r, g :
        /\ StoresFirstFit(e, r, g)
        /\ data' = [s \in DiskSectors |-> IF s \in SectorsOf(g)
                                         THEN DataOf(g, s) ELSE OwnedData(e)[s]]
        /\ settled' = (settled \cap Live(e)) \ {g.inode_offset}
  BY <1>3, <1>5, StoredFirstFit
<1>8. /\ \A m \in Live(r) : m \in Live(fs) /\ e.inodes[m] = fs.inodes[m]
      /\ g \in Inode
      /\ Live(e) = Live(r) \cup {g.inode_offset}
      /\ e.inodes[g.inode_offset] = g
  BY <1>7 DEF StoresFirstFit
<1>9. SectorsOf(g) \subseteq DiskSectors
  BY <1>6, <1>8, SectorsOnDisk
<1>10. data' = [s \in DiskSectors |-> data'[s]]
       /\ \A s \in SectorsOf(g) : data'[s] = DataOf(g, s)
  BY <1>7, <1>9
<1>11. ASSUME NEW m \in Live(e)
       PROVE  Kept(e.inodes[m])'
  <2>1. CASE m = g.inode_offset
    <3>1. g.location + Sectors(g.size) - 1 \in SectorsOf(g)
      BY <1>8, BitOfSector, BitsAre
    <3> QED
      BY <1>8, <1>10, <2>1, <3>1 DEF Kept, LastIntact, Intact
  <2>2. CASE m # g.inode_offset
    <3>1. PICK h : h = e.inodes[m]
      OBVIOUS
    <3>2. /\ m \in Live(r) /\ m \in Live(fs) /\ h = fs.inodes[m]
          /\ h \in Inode /\ h.inode_offset = m /\ Kept(h)
      BY <1>3, <1>6, <1>8, <2>2, <3>1
      DEF DataKept, Recoverable, LiveInodesNamed
    <3>3. /\ SectorsOf(h) \subseteq DiskSectors
          /\ SectorsOf(h) \cap SectorsOf(g) = {}
          /\ SectorsOf(h) \subseteq Owned(e)
      <4>1. SectorsOf(h) \subseteq DiskSectors
        BY <1>6, <3>1, SectorsOnDisk
      <4>2. SectorsOf(h) \cap SectorsOf(g) = {}
        BY <1>6, <1>8, <2>2, <3>1, SectorsApart
      <4> QED
        BY <3>1, <4>1, <4>2 DEF Owned
    <3>4. \A s \in SectorsOf(h) : data'[s] = data[s]
      BY <1>7, <3>3 DEF OwnedData
    <3>5. h.location + Sectors(h.size) - 1 \in SectorsOf(h)
      BY <3>2, BitOfSector, BitsAre
    <3>6. m \notin settled' => m \notin settled
      BY <1>7, <1>11, <2>2
    <3> QED
      BY <3>1, <3>2, <3>4, <3>5, <3>6 DEF Kept, LastIntact, Intact
  <2> QED
    BY <2>1, <2>2
<1>12. DataKept(fs)'
  BY <1>5, <1>11 DEF DataKept, Kept, LastIntact, Intact
<1> QED
  BY <1>1, <1>2, <1>4, <1>10, <1>12, CallEnds

\* fs_create_write refuses a bundle.
LEMMA RefuseStep ==
    ASSUME RestoreAligned, DefragInv, Idle,
           NEW b \in [size : Sizes, ttl : TTLs, custody : BOOLEAN],
           RefuseBundle(b)
    PROVE  DefragInv' /\ [Next]_vars /\ KeepsPlaces(fs, fs')
<1>1. /\ b.size \in Sizes /\ b.ttl \in TTLs /\ b.custody \in BOOLEAN
      /\ Consistent(fs)
  BY DEF DefragInv, Idle
<1>2. /\ CreateWithoutInode \/ CreateWithoutSpace(b.size)
      /\ Keep /\ pending' = b
  BY DEF RefuseBundle
<1>3. [Next]_vars
  BY <1>1, <1>2 DEF Next, FsCreate
<1>4. \A m \in Live(fs') : m \in Live(fs) /\ fs'.inodes[m] = fs.inodes[m]
  <2>1. CASE CreateWithoutInode
    BY <1>1, <2>1, ResizedConsistent DEF CreateWithoutInode, Return
  <2>2. CASE CreateWithoutSpace(b.size)
    BY <1>1, <2>2, RoomForPlaces DEF CreateWithoutSpace, Return
  <2> QED
    BY <1>2, <2>1, <2>2
<1>5. KeepsPlaces(fs, fs')
  BY <1>4 DEF KeepsPlaces
<1>6. DefragInv'
  BY <1>2, <1>3, <1>5, KeptByCall
<1> QED
  BY <1>3, <1>5, <1>6

\* The other calls of the agent, and the collection of expired bundles.
LEMMA OtherStep ==
    ASSUME RestoreAligned, DefragInv, OtherCall \/ Collect
    PROVE  DefragInv' /\ [Next]_vars /\ KeepsPlaces(fs, fs')
<1>1. /\ Idle /\ Keep /\ UNCHANGED pending
      /\ Consistent(fs)
      /\ pending # NoBundle =>
           pending \in [size : Sizes, ttl : TTLs, custody : BOOLEAN]
  BY DEF OtherCall, Collect, DefragInv, Idle
<1>2. SUFFICES ASSUME \/ \E n \in Live(fs) : FsDelete(fs.inodes[n])
                      \/ \E n \in Live(fs), ttl \in TTLs, custody \in BOOLEAN :
                           FsClose([fs.inodes[n] EXCEPT !.custody = custody,
                                                        !.time_to_live = ttl])
                      \/ RestoreFs
                      \/ DeleteInvalidInodes
               PROVE  DefragInv' /\ [Next]_vars /\ KeepsPlaces(fs, fs')
  BY DEF OtherCall, Collect
<1>3. [Next]_vars
  BY <1>2 DEF Next
<1>4. ASSUME NEW n \in Live(fs), FsDelete(fs.inodes[n])
      PROVE  KeepsPlaces(fs, fs')
  BY <1>1, <1>4, DeletedConsistent DEF FsDelete, Return, KeepsPlaces
<1>5. ASSUME NEW n \in Live(fs), NEW ttl \in TTLs, NEW custody \in BOOLEAN,
             FsClose([fs.inodes[n] EXCEPT !.custody = custody,
                                          !.time_to_live = ttl])
      PROVE  KeepsPlaces(fs, fs')
  <2>1. PICK g : g = [fs.inodes[n] EXCEPT !.custody = custody,
                                          !.time_to_live = ttl]
    OBVIOUS
  <2>2. /\ g \in Inode /\ g.inode_offset = n
        /\ g.inode_offset = fs.inodes[n].inode_offset
        /\ g.size = fs.inodes[n].size /\ g.location = fs.inodes[n].location
    BY <1>1, <2>1 DEF Consistent, LiveInodesNamed, Inode
  <2>3. /\ Live(fs') = Live(fs)
        /\ \A m \in Live(fs) : fs'.inodes[m] = IF m = n THEN g ELSE fs.inodes[m]
    <3>1. fs' = Written(fs, g)
      BY <1>5, <2>1 DEF FsClose, Return
    <3> QED
      BY <1>1, <2>2, <3>1, WrittenConsistent
  <2> QED
    BY <2>2, <2>3 DEF KeepsPlaces
<1>6. ASSUME RestoreFs
      PROVE  KeepsPlaces(fs, fs')
  <2>1. fs' = fs
    BY <1>1, <1>6, RestoredConsistent DEF RestoreFs, Return
  <2> QED
    BY <2>1 DEF KeepsPlaces
<1>7. ASSUME DeleteInvalidInodes
      PROVE  KeepsPlaces(fs, fs')
  BY <1>1, <1>7, CollectedConsistent DEF DeleteInvalidInodes, Return, KeepsPlaces
<1>8. KeepsPlaces(fs, fs')
  BY <1>2, <1>4, <1>5, <1>6, <1>7
<1> QED
  BY <1>1, <1>3, <1>8, KeptByCall

\* A defragment begins with all bundles still to be done.
LEMMA BeginStep ==
    ASSUME DefragInv, BeginDefragment
    PROVE  DefragInv'
<1>1. /\ Idle /\ Live(fs) # {}
      /\ loop' = [rest |-> {fs.inodes[n] : n \in Live(fs)}, k |-> SectorCount]
      /\ settled' = settled \cup {n \in Live(fs) : InOrder(n)}
      /\ UNCHANGED <<fs, clock, data, writes, power, pending>>
  BY DEF BeginDefragment, LoadedInodes
<1>2. PICK d, all : d = fs /\ all = {d.inodes[n] : n \in Live(d)}
  OBVIOUS
<1>3. /\ Consistent(fs) /\ Recoverable(fs) /\ DataKept(fs)
      /\ clock \in 0 .. MaxClock /\ data = [s \in DiskSectors |-> data[s]]
      /\ pending # NoBundle =>
           pending \in [size : Sizes, ttl : TTLs, custody : BOOLEAN]
      /\ power = "up" /\ writes = <<>>
  BY <1>1 DEF DefragInv, Idle
<1>4. DataKept(fs)'
  BY <1>1, <1>3 DEF DataKept, Kept, LastIntact, Intact
<1>5. all # {} /\ loop'.rest = all /\ loop'.k = SectorCount /\ loop' # Returned
  <2>1. all # {} /\ loop'.rest = all /\ loop'.k = SectorCount
    BY <1>1, <1>2
  <2> QED
    BY <2>1 DEF Returned
<1>6. \A n \in Live(d) :
        \/ n \in settled'
        \/ \E b \in 0 .. (SectorCount - 1 - d.inodes[n].location) : b \notin d.at
  BY <1>1, <1>2 DEF InOrder
<1>7. \A g \in all : /\ g.inode_offset \in Live(d) /\ d.inodes[g.inode_offset] = g
  BY <1>2, <1>3 DEF Consistent, LiveInodesNamed
<1>8. SectorCount \in Int /\ SectorCount - SectorCount \in Nat
      /\ 0 .. (SectorCount - SectorCount - 1) = {}
  BY LayoutAssumption
<1>9. \A n \in Live(d) : d.inodes[n] \in all
  BY <1>2
<1>10. \A g \in all : \/ g.inode_offset \in settled'
                      \/ \E b \in 0 .. (SectorCount - 1 - g.location) : b \notin d.at
  BY <1>6, <1>7
<1>11. ToDo(d, loop.rest, loop.k)'
  BY <1>5, <1>7, <1>8, <1>9, <1>10 DEF ToDo
<1>12. LoopAt(fs)'
  <2>1. ToDo(fs, loop.rest, loop.k)'
    BY <1>1, <1>2, <1>11 DEF ToDo
  <2> QED
    BY <1>5, <2>1 DEF LoopAt
<1> QED
  BY <1>1, <1>3, <1>4, <1>12 DEF DefragInv

\* The agent forgets what it was about to do.
LEMMA FailStep ==
    ASSUME DefragInv, PowerFails
    PROVE  DefragInv'
<1>1. Recoverable(fs) /\ DataKept(fs)
  BY AlwaysGood
<1>2. /\ power' = "down" /\ loop' = Returned /\ writes' = <<>>
      /\ pending' = NoBundle /\ UNCHANGED <<fs, clock, data, settled>>
  BY DEF PowerFails
<1>3. DataKept(fs)'
  BY <1>1, <1>2 DEF DataKept, Kept, LastIntact, Intact
<1> QED
  BY <1>1, <1>2, <1>3 DEF DefragInv

\* restore_fs makes an exact table of the inodes alone.
LEMMA RestoredExact ==
    ASSUME RestoreAligned, NEW d, Recoverable(d)
    PROVE  /\ Consistent(Restored(d)) /\ Live(Restored(d)) = Live(d)
           /\ Restored(d).inodes = d.inodes
<1> DEFINE e == Restored(d)
<1>1. /\ e.at = PartialByte \cup Metadata(d) \cup LiveBits(d)
      /\ e.it = d.it /\ e.inodes = d.inodes
      /\ e.inode_block_size = d.inode_block_size
  BY DEF Restored, Recoverable, FileSystem
<1>2. /\ Live(e) = Live(d) /\ Metadata(e) = Metadata(d)
      /\ LiveBits(e) = LiveBits(d) /\ DataBits(e) = DataBits(d)
      /\ InodeMax(e) = InodeMax(d) /\ MetadataSize(e) = MetadataSize(d)
  BY <1>1 DEF Live, Metadata, LiveBits, DataBits, InodeMax, MetadataSize
<1>3. /\ MetadataSize(d) \in Nat /\ MetadataSize(d) <= SectorCount
      /\ InodeBlock + InitInodeBlockSize <= MetadataSize(d)
      /\ SectorCount \in Nat
  BY LayoutAssumption
  DEF Recoverable, FileSystem, MetadataInside, MetadataSize
<1>4. PartialByte \subseteq Metadata(d)
  BY <1>3, LayoutAssumption DEF PartialByte, Metadata, Run, RestoreAligned
<1>5. Metadata(d) \subseteq 0 .. (SectorCount - 1)
      /\ DataBits(d) \subseteq 0 .. (SectorCount - 1)
  BY <1>3 DEF Metadata, Run, DataBits
<1>6. LiveBits(d) \subseteq DataBits(d)
  BY DEF LiveBits, Recoverable, BundlesApart
<1>7. e \in FileSystem
  <2>1. e.at \in SUBSET (0 .. (SectorCount - 1))
    BY <1>1, <1>4, <1>5, <1>6
  <2>2. e = [d EXCEPT !.at = PartialByte \cup Metadata(d) \cup LiveBits(d)]
    BY DEF Restored
  <2> HIDE DEF e
  <2> QED
    BY <1>1, <2>1, <2>2 DEF Recoverable, FileSystem
<1> HIDE DEF e
<1>8. TableExact(e)
  BY <1>1, <1>2, <1>4 DEF TableExact
<1>9. Recoverable(e)
  BY <1>1, <1>2, <1>7
  DEF Recoverable, LiveInodesNamed, BundlesApart, InodeBlockClosed,
      MetadataInside
<1> QED
  BY <1>1, <1>2, <1>8, <1>9, ConsistentIsRecoverable DEF e

\* After a failure all bundles are there, and the table is exact again.
LEMMA RestartStep ==
    ASSUME RestoreAligned, DefragInv, Restart
    PROVE  /\ DefragInv' /\ Bundles(fs') = Bundles(fs) /\ UNCHANGED clock
           /\ result' = [call |-> "restore_fs", code |-> "FS_OK"]
<1>1. /\ power = "down" /\ power' = "up"
      /\ fs' = Restored(fs) /\ data' = OwnedData(fs')
      /\ UNCHANGED <<clock, loop, writes, pending, settled>>
      /\ result' = [call |-> "restore_fs", code |-> "FS_OK"]
  BY DEF Restart, RestoreFs, Return
<1>2. /\ clock \in 0 .. MaxClock /\ writes = <<>> /\ loop = Returned
      /\ pending # NoBundle =>
           pending \in [size : Sizes, ttl : TTLs, custody : BOOLEAN]
      /\ Recoverable(fs) /\ DataKept(fs)
  BY <1>1 DEF DefragInv
<1>3. PICK e : e = fs'
  OBVIOUS
<1>4. Consistent(e) /\ Live(e) = Live(fs) /\ e.inodes = fs.inodes
  BY <1>1, <1>2, <1>3, RestoredExact
<1>5. Recoverable(e)
  BY <1>4 DEF Recoverable, Consistent
<1>6. Bundles(e) = Bundles(fs)
  BY <1>4, SameBundles
<1>7. DataKept(fs)' /\ data' = [s \in DiskSectors |-> data'[s]]
  <2>1. KeepsPlaces(fs, e)
    BY <1>4 DEF KeepsPlaces
  <2> QED
    BY <1>1, <1>2, <1>3, <1>5, <2>1, OwnedKept
<1>8. Consistent(fs)' /\ Recoverable(fs)'
  BY <1>3, <1>4, <1>5, <1>6
  DEF Consistent, Recoverable, LiveInodesNamed, BundlesApart,
      TableExact, InodeBlockClosed, MetadataInside
<1> QED
  BY <1>1, <1>2, <1>3, <1>6, <1>7, <1>8 DEF DefragInv

\* Nothing of the invariant depends on the time or on what the agent has to do.
LEMMA DefragStutter ==
    ASSUME DefragInv, clock' \in 0 .. MaxClock,
           UNCHANGED <<fs, data, loop, writes, power, pending, settled>>
    PROVE  DefragInv'
<1>1. DataKept(fs)' <=> DataKept(fs)
  BY DEF DataKept, Kept, LastIntact, Intact
<1>2. LoopAt(fs)' <=> LoopAt(fs)
  BY DEF LoopAt, ToDo
<1>3. ASSUME MidTurn PROVE MidTurn'
  <2>1. PICK d \in FileSystem, n \in InodeNumbers, tmp \in Nat, i \in Nat :
          Moving(d, n, tmp, i) \/ Staying(d, n, tmp, i)
    BY <1>3 DEF MidTurn
  <2>2. Turning(d, n, tmp) => Turning(d, n, tmp)'
    BY DEF Turning, DataKept, Kept, LastIntact, Intact
  <2>3. /\ \A e : LoopAt(e) => LoopAt(e)'
        /\ \A f, j : CopiedUpTo(f, tmp, j) => CopiedUpTo(f, tmp, j)'
    BY DEF LoopAt, ToDo, CopiedUpTo
  <2>4. Moving(d, n, tmp, i) => Moving(d, n, tmp, i)'
    BY <2>2, <2>3 DEF Moving
  <2>5. Staying(d, n, tmp, i) => Staying(d, n, tmp, i)'
    BY <2>2, <2>3 DEF Staying
  <2> QED
    BY <2>1, <2>4, <2>5 DEF MidTurn
<1> QED
  BY <1>1, <1>2, <1>3 DEF DefragInv

\* A formatted disk has no bundles, and nothing is going on.
LEMMA DefragInitInv ==
    ASSUME DefragInit
    PROVE  DefragInv
<1>1. Init /\ loop = Returned /\ writes = <<>> /\ power = "up"
      /\ pending = NoBundle /\ data = [s \in DiskSectors |-> NoData]
  BY DEF DefragInit
<1>2. Consistent(fs) /\ clock \in 0 .. MaxClock
  BY <1>1, InitInv DEF Inv
<1>3. Live(fs) = {}
  BY <1>1, LayoutAssumption DEF Init, Live, InodeMax, Run
<1>4. Recoverable(fs) /\ DataKept(fs)
  BY <1>2, <1>3 DEF Consistent, Recoverable, DataKept
<1> QED
  BY <1>1, <1>2, <1>4 DEF DefragInv

\* The calls of fs_create_write, at once or by the loop of the agent.
LEMMA CreateStep ==
    ASSUME RestoreAligned, DefragInv, CreateWrite \/ TryAgain
    PROVE  /\ Idle /\ DefragInv' /\ [Next]_vars
           /\ \/ KeepsPlaces(fs, fs')
              \/ \E b \in [size : Sizes, ttl : TTLs, custody : BOOLEAN] :
                   StoreBundle(b)
<1>1. PICK b \in [size : Sizes, ttl : TTLs, custody : BOOLEAN] :
        Idle /\ (StoreBundle(b) \/ RefuseBundle(b))
  <2>1. CASE CreateWrite
    <3>1. PICK size \in Sizes, ttl \in TTLs, custody \in BOOLEAN :
            \/ StoreBundle(Bundle(size, ttl, custody))
            \/ RefuseBundle(Bundle(size, ttl, custody))
      BY <2>1 DEF CreateWrite
    <3>2. Bundle(size, ttl, custody)
            \in [size : Sizes, ttl : TTLs, custody : BOOLEAN]
      BY DEF Bundle
    <3> QED
      BY <2>1, <3>1, <3>2 DEF CreateWrite
  <2>2. CASE TryAgain
    <3>1. pending \in [size : Sizes, ttl : TTLs, custody : BOOLEAN]
      BY <2>2 DEF TryAgain, DefragInv
    <3> QED
      BY <2>2, <3>1 DEF TryAgain
  <2> QED
    BY <2>1, <2>2
<1> QED
  BY <1>1, StoreStep, RefuseStep

\* Each step, if it is no turn of the loop that goes wrong.
LEMMA DefragStep ==
    ASSUME RestoreAligned, DefragInv, [DefragNext]_defragVars,
           DefragmentBundle => RightTurn(fs, loop.rest, loop.k)
    PROVE  /\ DefragInv'
           /\ [Store!StoreNext]_(Store!storeVars)
           /\ power = "up" /\ ~Idle /\ Idle' => Compact(fs')
<1>1. ASSUME DefragInv', UNCHANGED <<clock, result>>,
             Bundles(fs') = Bundles(fs),
             power = "up" /\ ~Idle /\ Idle' => Compact(fs')
      PROVE  /\ DefragInv'
             /\ [Store!StoreNext]_(Store!storeVars)
             /\ power = "up" /\ ~Idle /\ Idle' => Compact(fs')
  BY <1>1 DEF Store!storeVars, bundles
<1>2. CASE CreateWrite \/ TryAgain \/ OtherCall \/ Collect
  <2>1. Idle /\ DefragInv' /\ [Next]_vars
    BY <1>2, CreateStep, OtherStep DEF OtherCall, Collect
  <2>2. Inv
    BY <2>1 DEF DefragInv, Idle, Inv
  <2> QED
    BY <2>1, <2>2, StepRefines
<1>3. CASE BeginDefragment
  <2>1. Idle /\ UNCHANGED <<fs, clock, result>>
    BY <1>3 DEF BeginDefragment
  <2> QED
    BY <1>1, <1>3, <2>1, BeginStep
<1>4. CASE DefragmentNothing
  <2>1. Idle /\ UNCHANGED <<fs, clock, result>>
        /\ UNCHANGED <<data, loop, writes, power, pending, settled>>
    BY <1>4 DEF DefragmentNothing
  <2>2. DefragInv'
    BY <2>1, DefragStutter DEF DefragInv
  <2> QED
    BY <1>1, <2>1, <2>2
<1>5. CASE DefragmentBundle
  BY <1>1, <1>5, TurnBegins
<1>6. CASE DiskWrite
  <2>1. UNCHANGED <<clock, result>>
    BY <1>6 DEF DiskWrite
  <2> QED
    BY <1>1, <1>6, <2>1, WriteStep
<1>7. CASE PowerFails
  <2>1. UNCHANGED <<fs, clock, result>> /\ ~Idle'
    BY <1>7 DEF PowerFails, Idle
  <2> QED
    BY <1>1, <1>7, <2>1, FailStep
<1>8. CASE Restart
  <2>1. power # "up"
    BY <1>8 DEF Restart
  <2>2. /\ DefragInv' /\ Bundles(fs') = Bundles(fs) /\ UNCHANGED clock
        /\ result' = [call |-> "restore_fs", code |-> "FS_OK"]
    BY <1>8, RestartStep
  <2>3. Store!Repair
    BY <2>2 DEF Store!Repair, Store!Returns, bundles
  <2> QED
    BY <2>1, <2>2, <2>3 DEF Store!StoreNext
<1>9. CASE TimePasses
  <2>1. /\ UNCHANGED <<fs, result, data, loop, writes, power, pending, settled>>
        /\ clock < MaxClock /\ clock' = clock + 1
    BY <1>9 DEF TimePasses, Tick
  <2>2. clock' \in 0 .. MaxClock
    BY <2>1, BundleAssumption DEF DefragInv
  <2>3. DefragInv'
    BY <2>1, <2>2, DefragStutter
  <2>4. Store!StoreNext
    BY <2>1 DEF Store!StoreNext, Store!Tick, bundles
  <2>5. Idle' <=> Idle
    BY <2>1 DEF Idle
  <2> QED
    BY <2>3, <2>4, <2>5
<1>10. CASE UNCHANGED defragVars
  <2>1. /\ UNCHANGED <<fs, clock, result, data, loop, writes, power>>
        /\ UNCHANGED <<pending, settled>>
    BY <1>10 DEF defragVars
  <2>2. DefragInv'
    BY <2>1, DefragStutter DEF DefragInv
  <2>3. Idle' <=> Idle
    BY <2>1 DEF Idle
  <2> QED
    BY <1>1, <2>1, <2>2, <2>3
<1> QED
  BY <1>2, <1>3, <1>4, <1>5, <1>6, <1>7, <1>8, <1>9, <1>10
  DEF DefragNext, Defragment

-----------------------------------------------------------------------------
(* What the bundle agent may rely on, as long as every turn is right.      *)

\* A turn of the loop changes what is still to be done.
LEMMA OnlyTurns ==
    ASSUME DefragInv, UNCHANGED defragVars
    PROVE  ~DefragmentBundle
<1> SUFFICES ASSUME DefragmentBundle PROVE FALSE
  OBVIOUS
<1>1. PICK rest, k, f : rest = loop.rest /\ k = loop.k /\ f = LastInode(rest)
  OBVIOUS
<1>2. loop # Returned /\ rest # {} /\ ToDo(fs, rest, k) /\ Consistent(fs)
  BY <1>1 DEF DefragmentBundle, DefragInv, LoopAt
<1>3. f \in rest
  <2>1. rest \subseteq Inode
    BY <1>2 DEF ToDo, Consistent, LiveInodesNamed
  <2> QED
    BY <1>1, <1>2, <2>1, LastInodeIsLast
<1>4. PICK ws, j : Turn(f, ws, j)
  BY <1>1 DEF DefragmentBundle
<1>5. loop' = loop
  BY DEF defragVars
<1>6. loop' = Returned \/ loop'.rest = rest \ {f}
  BY <1>1, <1>4 DEF Turn
<1> QED
  BY <1>1, <1>2, <1>3, <1>5, <1>6

\* The invariant of the calls, the turns of defragment, and the failures.  In
\* this and the theorems below the bundles may have any sizes, and every turn of
\* the loop is right.
THEOREM DefragInvariance ==
    ASSUME RestoreAligned PROVE DefragSpec /\ TurnsAreRight => []DefragInv
<1>1. DefragInit => DefragInv
  BY DefragInitInv
<1>2. DefragInv /\ [DefragNext]_defragVars
        /\ [DefragmentBundle => RightTurn(fs, loop.rest, loop.k)]_defragVars
        => DefragInv'
  BY DefragStep, OnlyTurns
<1> QED
  BY <1>1, <1>2, PTL DEF DefragSpec, TurnsAreRight

\* Whenever a call may be made, also after a defragment that was cut off by a
\* failure of power at any of its writes, no sector is lost and none is free
\* that a bundle owns.
THEOREM DefragTablesAgree ==
    ASSUME RestoreAligned PROVE DefragSpec /\ TurnsAreRight => []TablesAgree
<1>1. DefragInv => TablesAgree
  BY DEF DefragInv, Idle, TablesAgree, Consistent, TableExact,
         LiveSectorsMarked, NoLeakedSector
<1> QED
  BY <1>1, DefragInvariance, PTL

\* Bundles never overlap, also between two writes of a defragment.
THEOREM DefragKeepsApart ==
    ASSUME RestoreAligned
    PROVE  DefragSpec /\ TurnsAreRight => []ExtentsDisjoint
<1>1. DefragInv => ExtentsDisjoint
  <2> SUFFICES ASSUME DefragInv PROVE ExtentsDisjoint
    OBVIOUS
  <2>1. Recoverable(fs)
    BY AlwaysGood
  <2>2. DataBits(fs) \subseteq 0 .. (SectorCount - 1)
        /\ DataBits(fs) \cap Metadata(fs) = {}
    BY <2>1, LayoutAssumption
    DEF Recoverable, FileSystem, MetadataInside, DataBits, Metadata, Run,
        MetadataSize
  <2> QED
    BY <2>1, <2>2 DEF Recoverable, BundlesApart, ExtentsDisjoint
<1> QED
  BY <1>1, DefragInvariance, PTL

\* At every write of a defragment the inodes lead to the data: wherever the
\* power fails, no bundle that the defragment may still move is lost, and of
\* one in its place the last sector is left.
THEOREM DefragKeepsData ==
    ASSUME RestoreAligned
    PROVE  DefragSpec /\ TurnsAreRight => []MovedBundlesKeepData
<1>1. DefragInv => MovedBundlesKeepData
  <2> SUFFICES ASSUME DefragInv PROVE MovedBundlesKeepData
    OBVIOUS
  <2>1. Recoverable(fs) /\ DataKept(fs)
    BY AlwaysGood
  <2> QED
    BY <2>1
    DEF Recoverable, LiveInodesNamed, DataKept, Kept, MovedBundlesKeepData
<1> QED
  BY <1>1, DefragInvariance, PTL

\* A defragment that returns has left no free sector behind a bundle.
THEOREM DefragCompacts ==
    ASSUME RestoreAligned
    PROVE  DefragSpec /\ TurnsAreRight => DefragmentCompacts
<1>1. DefragInv /\ [DefragNext]_defragVars
        /\ [DefragmentBundle => RightTurn(fs, loop.rest, loop.k)]_defragVars
        => [power = "up" /\ ~Idle /\ Idle' =>
              \A b \in LiveBits(fs') : 0 .. b \subseteq fs'.at]_defragVars
  BY DefragStep, OnlyTurns DEF Compact
<1> QED
  BY <1>1, DefragInvariance, PTL DEF DefragSpec, TurnsAreRight, DefragmentCompacts

\* Seen from the bundle agent a defragment does nothing, a failure of power
\* during it neither: the calls are those of the abstract store.
THEOREM DefragImplementsStore ==
    ASSUME RestoreAligned
    PROVE  DefragSpec /\ TurnsAreRight => ImplementsBundleStore
<1>1. DefragInit => Store!StoreInit
  BY InitRefines DEF DefragInit
<1>2. DefragInv /\ [DefragNext]_defragVars
        /\ [DefragmentBundle => RightTurn(fs, loop.rest, loop.k)]_defragVars
        => [Store!StoreNext]_(Store!storeVars)
  BY DefragStep, OnlyTurns
<1> QED
  BY <1>1, <1>2, DefragInvariance, PTL
  DEF DefragSpec, TurnsAreRight, ImplementsBundleStore, Store!StoreSpec

-----------------------------------------------------------------------------
(* Bundles of one length: every turn is right.                             *)

\* No bundle has more sectors than another.
SameLength == \A s, t \in Sizes : Sectors(s) = Sectors(t)

\* The number of sectors of a bundle.
Length == Sectors(CHOOSE size \in Sizes : TRUE)

Block(j) == Run(j * Length, Length)

InBlock(f) == \E j \in Nat : Bits(f) = Block(j)

InBlocks(d) == \A n \in Live(d) : InBlock(d.inodes[n])

\* Blocks follow one another.
LEMMA BlockOrder ==
    ASSUME NEW n \in Nat, NEW i \in Nat, NEW j \in Nat, i < j
    PROVE  i * n + n <= j * n
<1>1. PICK c \in Nat : j = i + 1 + c
  <2>1. j - i - 1 \in Nat /\ j = i + 1 + (j - i - 1)
    OBVIOUS
  <2> QED
    BY <2>1
<1>2. (i + 1 + c) * n = i * n + n + c * n
  OBVIOUS
<1>3. c * n \in Nat /\ i * n \in Nat
  OBVIOUS
<1> QED
  BY <1>1, <1>2, <1>3

\* Each bit is in a block.
LEMMA BlockOf ==
    ASSUME NEW n \in Nat \ {0}, NEW b \in Nat
    PROVE  \E j \in Nat : b \in j * n .. (j * n + n - 1)
<1>1. /\ b \div n \in Nat /\ b % n \in 0 .. (n - 1)
      /\ b = n * (b \div n) + (b % n)
  OBVIOUS
<1>2. n * (b \div n) = (b \div n) * n
  BY <1>1
<1>3. b \in (b \div n) * n .. ((b \div n) * n + n - 1)
  BY <1>1, <1>2
<1> QED
  BY <1>1, <1>3

\* All bundles have the one length.
LEMMA OneLength ==
    ASSUME SameLength, NEW size \in Sizes
    PROVE  Sectors(size) = Length /\ Length \in Nat \ {0}
<1>1. (CHOOSE s \in Sizes : TRUE) \in Sizes
  OBVIOUS
<1>2. size \in Nat \ {0}
  BY BundleAssumption
<1>3. Sectors(size) \in Nat \ {0}
  BY <1>2, SectorsPositive
<1> QED
  BY <1>1, <1>3 DEF SameLength, Length

\* A block is all of its bits.
LEMMA BlockIs ==
    ASSUME Length \in Nat \ {0}, NEW j \in Nat
    PROVE  /\ j * Length \in Nat
           /\ j * Length \in Block(j)
           /\ Block(j) = j * Length .. (j * Length + Length - 1)
<1>1. j * Length \in Nat
  OBVIOUS
<1> QED
  BY <1>1 DEF Block, Run

\* Two blocks are the same or have no bit in common.
LEMMA BlocksApart ==
    ASSUME Length \in Nat \ {0}, NEW i \in Nat, NEW j \in Nat,
           Block(i) \cap Block(j) # {}
    PROVE  i = j
<1>1. /\ i * Length \in Nat /\ Block(i) = i * Length .. (i * Length + Length - 1)
      /\ j * Length \in Nat /\ Block(j) = j * Length .. (j * Length + Length - 1)
  BY BlockIs
<1>2. PICK b : b \in Block(i) /\ b \in Block(j)
  OBVIOUS
<1>3. i < j => i * Length + Length <= j * Length
  BY BlockOrder
<1>4. j < i => j * Length + Length <= i * Length
  BY BlockOrder
<1> QED
  BY <1>1, <1>2, <1>3, <1>4

\* The bits of a bundle are as many as all bundles have.
LEMMA LengthOfBits ==
    ASSUME SameLength, NEW f \in Inode
    PROVE  /\ Sectors(f.size) = Length /\ Length \in Nat \ {0}
           /\ f.location \in 0 .. (SectorCount - 1)
           /\ Bits(f) = (SectorCount - f.location - Length)
                          .. (SectorCount - f.location - 1)
<1>1. f.size \in Sizes /\ f.location \in 0 .. (SectorCount - 1)
  BY DEF Inode
<1>2. Sectors(f.size) = Length /\ Length \in Nat \ {0}
  BY <1>1, OneLength
<1> QED
  BY <1>1, <1>2, LayoutAssumption DEF Bits, Run

\* The place of a bundle follows from its block.
LEMMA PlaceOfBlock ==
    ASSUME SameLength, NEW f \in Inode, NEW j \in Nat, Bits(f) = Block(j)
    PROVE  f.location = SectorCount - j * Length - Length
<1>1. /\ Length \in Nat \ {0} /\ f.location \in 0 .. (SectorCount - 1)
      /\ Bits(f) = (SectorCount - f.location - Length)
                     .. (SectorCount - f.location - 1)
  BY LengthOfBits
<1>2. j * Length \in Nat /\ Block(j) = j * Length .. (j * Length + Length - 1)
  BY <1>1, BlockIs
<1> DEFINE x == SectorCount - f.location - Length
           y == j * Length
<1>3. x \in Int /\ y \in Int /\ x .. (x + Length - 1) = y .. (y + Length - 1)
  <2>1. x + Length - 1 = SectorCount - f.location - 1 /\ x \in Int
    BY <1>1, LayoutAssumption
  <2>2. Bits(f) = x .. (x + Length - 1)
    BY <1>1, <2>1
  <2> QED
    BY <1>2, <2>1, <2>2
<1>4. x = y
  <2> HIDE DEF x, y
  <2>1. x \in x .. (x + Length - 1) /\ y \in y .. (y + Length - 1)
    BY <1>1, <1>3
  <2> QED
    BY <1>1, <1>3, <2>1
<1> QED
  BY <1>1, <1>2, <1>4, LayoutAssumption

\* The next k is that of the next block.
LEMMA NextBlock ==
    ASSUME Length \in Nat, NEW k \in Int, NEW p \in Nat,
           SectorCount - k = p * Length
    PROVE  SectorCount - (k - Length) = (p + 1) * Length
<1>1. (p + 1) * Length = p * Length + Length
  OBVIOUS
<1> QED
  BY <1>1, LayoutAssumption

\* Whatever leaves the place and the number of a bundle keeps it in its block.
LEMMA SamePlaces ==
    ASSUME NEW d, NEW e, InBlocks(d), KeepsPlaces(d, e)
    PROVE  InBlocks(e)
<1>1. \A m \in Live(e) : m \in Live(d) /\ Bits(e.inodes[m]) = Bits(d.inodes[m])
  BY DEF Bits, KeepsPlaces
<1> QED
  BY <1>1 DEF InBlocks, InBlock

\* A block before the metadata is free or a bundle.
LEMMA BlockCases ==
    ASSUME SameLength, Length \in Nat \ {0}, NEW d, Consistent(d), InBlocks(d),
           NEW j \in Nat, Block(j) \subseteq DataBits(d)
    PROVE  \/ Block(j) \cap d.at = {}
           \/ \E n \in Live(d) : Bits(d.inodes[n]) = Block(j)
<1> SUFFICES ASSUME NEW b \in Block(j), b \in d.at
             PROVE  \E n \in Live(d) : Bits(d.inodes[n]) = Block(j)
  OBVIOUS
<1>1. b \notin Metadata(d)
  BY MetadataAndData
<1>2. PICK n \in Live(d) : b \in Bits(d.inodes[n])
  BY <1>1 DEF Consistent, TableExact, LiveBits
<1>3. PICK i \in Nat : Bits(d.inodes[n]) = Block(i)
  BY DEF InBlocks, InBlock
<1>4. i = j
  BY <1>2, <1>3, BlocksApart
<1> QED
  BY <1>3, <1>4

\* First fit begins with a block: if the bits of a hole are free, so are those
\* of the block in which it begins.
LEMMA FirstFitIsBlock ==
    ASSUME SameLength, Length \in Nat \ {0}, NEW d, Consistent(d), InBlocks(d),
           HasSeq(d.at, SectorCount, Length)
    PROVE  LET tmp == FindSeq(d.at, SectorCount, Length) IN
           /\ tmp \in 0 .. (SectorCount - Length)
           /\ \E q \in Nat : tmp = q * Length
           /\ Run(tmp, Length) \cap d.at = {}
           /\ \A i \in FreeStarts(d.at, SectorCount, Length) : tmp <= i
<1> DEFINE tmp == FindSeq(d.at, SectorCount, Length)
<1>1. tmp \in 0 .. (SectorCount - Length) /\ Run(tmp, Length) \cap d.at = {}
  BY FindSeqIsFree, LayoutAssumption DEF CheckSeq
<1>2. \A i \in FreeStarts(d.at, SectorCount, Length) : tmp <= i
  <2>1. FreeStarts(d.at, SectorCount, Length) \in SUBSET Nat
    BY DEF FreeStarts
  <2> QED
    BY <2>1, LeastInSet DEF FindSeq, HasSeq
<1> HIDE DEF tmp
<1>3. PICK q \in Nat : tmp \in q * Length .. (q * Length + Length - 1)
  <2>1. tmp \in Nat
    BY <1>1, LayoutAssumption
  <2> QED
    BY <2>1, BlockOf
<1>4. q * Length \in Nat /\ Block(q) = q * Length .. (q * Length + Length - 1)
  BY BlockIs
<1>5. tmp \notin d.at
  BY <1>1 DEF Run
<1>6. tmp \in DataBits(d)
  BY <1>1, <1>5, FreeIsData, LayoutAssumption
<1>7. ASSUME NEW b \in Block(q), b \in d.at PROVE FALSE
  <2>1. b \in Nat /\ b >= q * Length /\ b <= q * Length + Length - 1
    BY <1>4
  <2>2. b < tmp
    <3>1. b >= tmp => b \in Run(tmp, Length)
      BY <1>1, <1>3, <1>4, <2>1 DEF Run
    <3> QED
      BY <1>1, <1>7, <2>1, <3>1
  <2>3. b \in DataBits(d)
    BY <1>6, <2>1, <2>2, MetadataAndData, LayoutAssumption DEF DataBits
  <2>4. b \notin Metadata(d)
    BY <2>3, MetadataAndData
  <2>5. PICK n \in Live(d) : b \in Bits(d.inodes[n])
    BY <1>7, <2>4 DEF Consistent, TableExact, LiveBits
  <2>6. PICK i \in Nat : Bits(d.inodes[n]) = Block(i)
    BY DEF InBlocks, InBlock
  <2>7. i = q
    BY <2>5, <2>6, BlocksApart
  <2>8. tmp \in Bits(d.inodes[n])
    BY <1>3, <1>4, <2>6, <2>7
  <2> QED
    BY <1>5, <2>8 DEF Consistent, TableExact, LiveBits
<1>8. q * Length \in FreeStarts(d.at, SectorCount, Length)
  BY <1>1, <1>3, <1>4, <1>7, LayoutAssumption DEF FreeStarts, CheckSeq, Block
<1>9. tmp = q * Length
  BY <1>1, <1>2, <1>3, <1>4, <1>8
<1> QED
  BY <1>1, <1>2, <1>9 DEF tmp

\* In each turn the hole is the place of the bundle, or the bundle is there.
LEMMA BlockTurn ==
    ASSUME SameLength, NEW d, Consistent(d), InBlocks(d),
           NEW rest, rest # {}, NEW k, ToDo(d, rest, k),
           NEW p \in Nat, SectorCount - k = p * Length
    PROVE  LET f   == LastInode(rest)
               tmp == FindSeq(d.at, SectorCount, Length) IN
           /\ f \in rest /\ f \in Inode
           /\ \/ HasSeq(d.at, SectorCount, Length) /\ k = SectorCount - tmp
              \/ f.location = k - Length
<1> DEFINE f   == LastInode(rest)
           tmp == FindSeq(d.at, SectorCount, Length)
<1>1. \A g \in rest : g \in Inode /\ g.inode_offset \in Live(d)
                      /\ d.inodes[g.inode_offset] = g
  BY DEF ToDo, Consistent, LiveInodesNamed
<1>2. f \in rest /\ \A g \in rest : g.location <= f.location
  BY <1>1, LastInodeIsLast
<1> HIDE DEF f
<1>3. f \in Inode /\ f.inode_offset \in Live(d) /\ d.inodes[f.inode_offset] = f
  BY <1>1, <1>2
<1>4. /\ Length \in Nat \ {0} /\ f.location \in 0 .. (SectorCount - 1)
      /\ Bits(f) = (SectorCount - f.location - Length)
                     .. (SectorCount - f.location - 1)
  BY <1>3, LengthOfBits
<1>6. PICK j \in Nat : Bits(f) = Block(j)
  BY <1>3 DEF InBlocks, InBlock
<1> DEFINE P == p * Length
           J == j * Length
<1>5. SectorCount - k = P
  OBVIOUS
<1>7. /\ P \in Nat /\ Block(p) = P .. (P + Length - 1)
      /\ J \in Nat /\ Block(j) = J .. (J + Length - 1)
      /\ k \in Int /\ SectorCount \in Nat
      /\ j < p => J + Length <= P
      /\ p < j => P + Length <= J
  BY <1>4, BlockIs, BlockOrder, LayoutAssumption DEF ToDo
<1>71. /\ \A n \in Live(d) : Bits(d.inodes[n]) = Block(p) =>
             d.inodes[n].location = SectorCount - P - Length
      /\ f.location = SectorCount - J - Length
      /\ Block(p) = Run(P, Length)
  <2>1. \A n \in Live(d) : d.inodes[n] \in Inode
    BY DEF Consistent, LiveInodesNamed
  <2> QED
    BY <1>3, <1>6, <2>1, PlaceOfBlock DEF Block
<1>72. HasSeq(d.at, SectorCount, Length) =>
        /\ tmp \in 0 .. (SectorCount - Length)
        /\ Run(tmp, Length) \cap d.at = {}
        /\ \A i \in FreeStarts(d.at, SectorCount, Length) : tmp <= i
  BY <1>4, FirstFitIsBlock
<1> HIDE DEF P, J
<1>8. j >= p
  <2>1. J \notin 0 .. (SectorCount - k - 1)
    <3>1. J \in Block(j)
      BY <1>4, <1>7
    <3> QED
      BY <1>2, <1>6, <3>1 DEF ToDo
  <2>2. ~(J + Length <= P)
    BY <1>4, <1>5, <1>7, <2>1
  <2> QED
    BY <1>4, <1>7, <2>2
<1>9. Block(p) \subseteq DataBits(d)
  <2>1. Block(j) \subseteq DataBits(d)
    BY <1>3, <1>6 DEF Consistent, BundlesApart
  <2>2. p = j \/ P + Length <= J
    BY <1>4, <1>7, <1>8
  <2>3. J \in DataBits(d)
    BY <1>4, <1>7, <2>1
  <2> QED
    BY <1>4, <1>7, <2>1, <2>2, <2>3, MetadataAndData DEF DataBits
<1>10. P + Length <= SectorCount
  <2>1. P + Length - 1 \in DataBits(d)
    BY <1>4, <1>7, <1>9
  <2> QED
    BY <1>4, <1>7, <2>1, MetadataAndData DEF DataBits
<1>11. CASE Block(p) \cap d.at = {}
  <2>1. P \in FreeStarts(d.at, SectorCount, Length)
    <3>1. CheckSeq(d.at, P, Length)
      BY <1>71, <1>11 DEF CheckSeq
    <3>2. P \in 0 .. (SectorCount - Length)
      BY <1>4, <1>7, <1>10
    <3> QED
      BY <3>1, <3>2 DEF FreeStarts
  <2>2. HasSeq(d.at, SectorCount, Length)
    BY <2>1 DEF HasSeq
  <2>3. /\ tmp \in 0 .. (SectorCount - Length)
        /\ Run(tmp, Length) \cap d.at = {}
        /\ tmp <= P
    BY <1>72, <2>1, <2>2
  <2> HIDE DEF tmp
  <2>4. tmp \notin d.at
    <3>1. tmp \in Int
      BY <1>4, <1>7, <2>3
    <3>2. tmp \in Run(tmp, Length)
      BY <1>4, <3>1 DEF Run
    <3> QED
      BY <2>3, <3>2
  <2>5. tmp \notin 0 .. (SectorCount - k - 1)
    BY <2>4 DEF ToDo
  <2>6. tmp = P
    BY <1>4, <1>5, <1>7, <2>3, <2>5
  <2> QED
    BY <1>2, <1>3, <1>5, <1>7, <2>2, <2>6 DEF f, tmp
<1>12. CASE \E n \in Live(d) : Bits(d.inodes[n]) = Block(p)
  <2>1. PICK n \in Live(d) : Bits(d.inodes[n]) = Block(p)
    BY <1>12
  <2>2. P \in Bits(d.inodes[n]) /\ P \notin 0 .. (SectorCount - k - 1)
    BY <1>4, <1>5, <1>7, <2>1
  <2>3. d.inodes[n] \in rest
    BY <2>2 DEF ToDo
  <2>4. d.inodes[n].location = SectorCount - P - Length
    BY <1>71, <2>1
  <2>5. f.location = SectorCount - J - Length
    BY <1>71
  <2>6. J <= P
    BY <1>2, <1>4, <1>7, <2>3, <2>4, <2>5
  <2>7. j = p
    BY <1>4, <1>6, <1>7, <1>8, <2>6
  <2>8. f.location = k - Length
    BY <1>4, <1>5, <1>7, <2>5, <2>7
  <2> QED
    BY <1>2, <1>3, <2>8 DEF f
<1> QED
  BY <1>4, <1>9, <1>11, <1>12, BlockCases

\* If it is, the block behind it is a bundle, or the hole: everything up to the
\* bundle is used, so that a free block would have been the first fit.
LEMMA BlockBehind ==
    ASSUME SameLength, NEW d, Consistent(d), InBlocks(d),
           NEW rest, NEW k, ToDo(d, rest, k),
           NEW p \in Nat, SectorCount - k = p * Length,
           NEW f \in rest, f.location = k - Length,
           HasSeq(d.at, SectorCount, Length),
           NEW tmp, tmp = FindSeq(d.at, SectorCount, Length)
    PROVE  Run(SectorCount - f.location, Length) \subseteq d.at \cup Run(tmp, Length)
<1>1. f \in Inode
  BY DEF ToDo, Consistent, LiveInodesNamed
<1>2. Length \in Nat \ {0} /\ f.location \in 0 .. (SectorCount - 1)
      /\ SectorCount \in Nat /\ k \in Int
  BY <1>1, LengthOfBits, LayoutAssumption DEF ToDo
<1> DEFINE next == SectorCount - f.location
<1>0. ToDo(d, rest \ {f}, f.location)
  <2>1. f.location = k - Sectors(f.size)
    BY <1>1, LengthOfBits
  <2> QED
    BY <1>1, <2>1, StayEnds
<1>3. PICK r \in Nat : next = r * Length
  BY <1>2, NextBlock
<1>4. 0 .. (next - 1) \subseteq d.at
  BY <1>0 DEF ToDo
<1>5. /\ tmp \in 0 .. (SectorCount - Length)
      /\ Run(tmp, Length) \cap d.at = {}
      /\ \A i \in FreeStarts(d.at, SectorCount, Length) : tmp <= i
  BY <1>2, FirstFitIsBlock
<1>6. PICK q \in Nat : tmp = q * Length
  BY <1>2, FirstFitIsBlock
<1>7. next \in Nat /\ tmp \in Nat
  BY <1>2, <1>5
<1>8. r < q => next + Length <= tmp
  BY <1>2, <1>3, <1>6, BlockOrder
<1>9. q < r => tmp + Length <= next
  BY <1>2, <1>3, <1>6, BlockOrder
<1>10. Block(r) = Run(next, Length)
  BY <1>3 DEF Block
<1> HIDE DEF next
<1>11. tmp \in Run(tmp, Length) /\ tmp \notin d.at
  BY <1>2, <1>5, <1>7 DEF Run
<1>12. ~(q < r)
  BY <1>2, <1>4, <1>7, <1>9, <1>11
<1>13. Run(next, Length) \subseteq d.at \cup Run(tmp, Length)
  <2>1. CASE r = q
    BY <1>3, <1>6, <2>1 DEF next
  <2>2. CASE r < q
    <3>1. tmp \in DataBits(d)
      BY <1>2, <1>5, <1>11, FreeIsData
    <3>2. Block(r) \subseteq DataBits(d)
      BY <1>2, <1>7, <1>8, <1>10, <2>2, <3>1, MetadataAndData DEF DataBits, Run
    <3>3. Block(r) \cap d.at # {}
      <4> SUFFICES ASSUME Block(r) \cap d.at = {} PROVE FALSE
        OBVIOUS
      <4>1. next \in FreeStarts(d.at, SectorCount, Length)
        <5>1. CheckSeq(d.at, next, Length)
          BY <1>10 DEF CheckSeq
        <5>2. next \in 0 .. (SectorCount - Length)
          BY <1>2, <1>5, <1>7, <1>8, <2>2
        <5> QED
          BY <5>1, <5>2 DEF FreeStarts
      <4> QED
        BY <1>2, <1>5, <1>7, <1>8, <2>2, <4>1
    <3>4. PICK n \in Live(d) : Bits(d.inodes[n]) = Block(r)
      BY <1>2, <3>2, <3>3, BlockCases
    <3> QED
      BY <1>10, <3>4 DEF Consistent, TableExact, LiveBits
  <2> QED
    BY <1>12, <2>1, <2>2
<1> QED
  BY <1>13 DEF next

\* Hence a turn is right.
LEMMA BlockTurnIsRight ==
    ASSUME SameLength, NEW d, Consistent(d), InBlocks(d),
           NEW rest, rest # {}, NEW k, ToDo(d, rest, k),
           NEW p \in Nat, SectorCount - k = p * Length
    PROVE  RightTurn(d, rest, k)
<1>1. PICK f, t : f = LastInode(rest) /\ t = FindSeq(d.at, SectorCount, Length)
  OBVIOUS
<1>2. /\ f \in rest /\ f \in Inode
      /\ \/ HasSeq(d.at, SectorCount, Length) /\ k = SectorCount - t
         \/ f.location = k - Length
  BY <1>1, BlockTurn
<1>3. Sectors(f.size) = Length
  BY <1>2, LengthOfBits
<1>4. f.location = k - Length /\ HasSeq(d.at, SectorCount, Length)
        => Run(SectorCount - f.location, Length) \subseteq d.at \cup Run(t, Length)
  BY <1>1, <1>2, BlockBehind
<1> QED
  BY <1>1, <1>2, <1>3, <1>4 DEF RightTurn

\* What the writes of inodes that are left put into blocks.
BlockWrites(d) ==
    {w \in Writes : w.part = "inodes" => \A n \in Live(d) : InBlock(w.value[n])}

\* The bundles are in blocks, before and after each write of their inodes, and
\* the loop goes through the disk block by block.
BlockInv ==
    /\ InBlocks(fs)
    /\ writes \in Seq(BlockWrites(fs))
    /\ loop # Returned => \E p \in Nat : SectorCount - loop.k = p * Length

\* A sequence of writes of which each keeps the blocks.
LEMMA WritesInBlocks ==
    ASSUME NEW d, NEW W \in Seq(Writes), NEW n \in Nat, Len(W) = n,
           \A i \in 1 .. n : W[i].part = "inodes" =>
             \A m \in Live(d) : InBlock(W[i].value[m])
    PROVE  W \in Seq(BlockWrites(d))
<1>1. \A i \in 1 .. n : W[i] \in BlockWrites(d)
  BY ElementOfSeq DEF BlockWrites
<1>2. W = [i \in 1 .. n |-> W[i]]
  BY SeqDef
<1>3. W \in [1 .. n -> BlockWrites(d)]
  BY <1>1, <1>2, Zenon
<1> QED
  BY <1>3, SeqDef

\* A new bundle has a block of its own.
LEMMA StoreInBlock ==
    ASSUME SameLength, InBlocks(fs), NEW e, NEW r, NEW g, StoresFirstFit(e, r, g)
    PROVE  InBlocks(e)
<1>1. /\ Consistent(r) /\ g \in Inode
      /\ \A m \in Live(r) : m \in Live(fs) /\ r.inodes[m] = fs.inodes[m]
      /\ Live(e) = Live(r) \cup {g.inode_offset}
      /\ e.inodes[g.inode_offset] = g
      /\ \A m \in Live(r) : e.inodes[m] = r.inodes[m]
  BY DEF StoresFirstFit
<1>2. InBlocks(r)
  BY <1>1 DEF InBlocks
<1>3. Sectors(g.size) = Length /\ Length \in Nat \ {0}
  BY <1>1, LengthOfBits
<1>4. PICK t : t = FindSeq(r.at, SectorCount, Length)
  OBVIOUS
<1>5. HasSeq(r.at, SectorCount, Length) /\ g.location = SectorCount - t - Length
  BY <1>3, <1>4 DEF StoresFirstFit
<1>6. t \in 0 .. (SectorCount - Length) /\ \E q \in Nat : t = q * Length
  BY <1>1, <1>2, <1>3, <1>4, <1>5, FirstFitIsBlock
<1>7. Bits(g) = Run(t, Length)
  <2>1. SectorCount - (g.location + Length) = t
    BY <1>3, <1>5, <1>6, LayoutAssumption
  <2> QED
    BY <1>3, <2>1 DEF Bits
<1>8. InBlock(g)
  BY <1>6, <1>7 DEF InBlock, Block
<1> QED
  BY <1>1, <1>2, <1>8 DEF InBlocks

\* The common beginning of a turn keeps the blocks if the hole is one.
LEMMA HoleInBlocks ==
    ASSUME NEW d, Consistent(d), InBlocks(d), NEW n \in Live(d),
           NEW f, f = d.inodes[n], NEW len, len = Sectors(f.size),
           NEW tmp, Hole(d, tmp, len), NEW q \in Nat, tmp = q * Length,
           len = Length, NEW i \in 1 .. (len + 2),
           MoveToHole(d, f, tmp)[i].part = "inodes"
    PROVE  \A m \in Live(d) : InBlock(MoveToHole(d, f, tmp)[i].value[m])
<1> DEFINE W == MoveToHole(d, f, tmp)
<1>0. PICK g : g = Relocated(f, Place(f, tmp))
  OBVIOUS
<1>1. f.inode_offset = n /\ len \in Nat \ {0} /\ f \in Inode
  BY HoleIsFree
<1>2. InBlock(g)
  <2>1. /\ tmp \in Nat /\ SectorCount \in Nat
        /\ Place(f, tmp) = SectorCount - (tmp + len)
    BY LayoutAssumption DEF Hole, Place
  <2>2. g.location = Place(f, tmp) /\ g.size = f.size
    BY <1>0, <1>1 DEF Inode, Relocated
  <2>3. \A c, l, b \in Nat : c - ((c - (b + l)) + l) = b
    OBVIOUS
  <2>4. Sectors(g.size) = len
    BY <2>2
  <2>5. SectorCount - (g.location + Sectors(g.size)) = tmp
    BY <1>1, <2>1, <2>2, <2>3, <2>4
  <2>6. Bits(g) = Run(tmp, len)
    BY <2>4, <2>5 DEF Bits
  <2> QED
    BY <2>6 DEF InBlock, Block
<1>3. /\ W[1].part = "at"
      /\ \A j \in 1 .. len :
           W[j + 1] = Copy(f.location + j - 1, Place(f, tmp) + j - 1)
      /\ W[len + 2] = Write("inodes", Moved(d, f, Place(f, tmp)))
  <2>1. GoesToHole(d, f, tmp)
    BY HoleWrites
  <2> QED
    BY <2>1 DEF GoesToHole
<1>4. n \in InodeNumbers /\ d.inodes \in [InodeNumbers -> Inode \cup {NoInode}]
  BY DEF Consistent, FileSystem, Live
<1> HIDE DEF W
<1>5. \A m \in Live(d) : InBlock(Moved(d, f, Place(f, tmp))[m])
  <2> TAKE m \in Live(d)
  <2>1. Moved(d, f, Place(f, tmp))[m] = IF m = n THEN g ELSE d.inodes[m]
    BY <1>0, <1>1, <1>4 DEF Moved, Live
  <2> QED
    BY <1>2, <2>1 DEF InBlocks
<1>6. W[i].part = "inodes"
  BY DEF W
<1>7. i = len + 2
  <2>1. i # 1
    BY <1>3, <1>6
  <2>2. ASSUME NEW j \in 1 .. len, i = j + 1
        PROVE  FALSE
    <3>1. \A from, to : Copy(from, to).part = "data"
      BY DEF Copy, Write
    <3>2. W[j + 1].part = "data"
      BY <1>3, <3>1
    <3> QED
      BY <1>6, <2>2, <3>2
  <2>3. i \in 1 .. (len + 2) /\ i # 1 => i = len + 2 \/ i - 1 \in 1 .. len
    BY <1>1
  <2>4. i = (i - 1) + 1
    OBVIOUS
  <2> QED
    BY <2>1, <2>2, <2>3, <2>4
<1>8. W[i].value = Moved(d, f, Place(f, tmp))
  BY <1>3, <1>7 DEF Write
<1> QED
  BY <1>5, <1>8 DEF W

\* The first branch keeps the blocks.
LEMMA MoveInBlocks ==
    ASSUME NEW d, Consistent(d), InBlocks(d), NEW n \in Live(d),
           NEW f, f = d.inodes[n], NEW len, len = Sectors(f.size),
           NEW tmp, Hole(d, tmp, len), NEW q \in Nat, tmp = q * Length,
           len = Length
    PROVE  MoveTurn(d, f, tmp) \in Seq(BlockWrites(d))
<1>1. PICK W : W = MoveTurn(d, f, tmp)
  OBVIOUS
<1>2. /\ W \in Seq(Writes) /\ Len(W) = len + 3
      /\ \A i \in 1 .. (len + 2) : W[i] = MoveToHole(d, f, tmp)[i]
      /\ W[len + 3].part = "at"
  <2>1. StaysInHole(d, f, tmp)
    BY MoveWrites
  <2> QED
    BY <1>1, <2>1 DEF StaysInHole, Write
<1>3. len \in Nat
  BY HoleIsFree
<1>4. ASSUME NEW i \in 1 .. (len + 3), W[i].part = "inodes"
      PROVE  \A m \in Live(d) : InBlock(W[i].value[m])
  <2>1. i \in 1 .. (len + 2)
    BY <1>2, <1>3, <1>4
  <2>2. W[i] = MoveToHole(d, f, tmp)[i]
    BY <1>2, <2>1
  <2>3. MoveToHole(d, f, tmp)[i].part = "inodes"
    BY <1>4, <2>2
  <2> QED
    BY <2>1, <2>2, <2>3, HoleInBlocks
<1>5. len + 3 \in Nat
  BY <1>3
<1> QED
  BY <1>1, <1>2, <1>4, <1>5, WritesInBlocks

\* So does the second one.
LEMMA StayInBlocks ==
    ASSUME NEW d, Consistent(d), InBlocks(d), NEW n \in Live(d),
           NEW f, f = d.inodes[n], NEW len, len = Sectors(f.size),
           NEW tmp, Hole(d, tmp, len), NEW q \in Nat, tmp = q * Length,
           len = Length, LeavesAll(d, f, tmp)
    PROVE  StayTurn(d, f, tmp) \in Seq(BlockWrites(d))
<1>1. PICK W : W = StayTurn(d, f, tmp)
  OBVIOUS
<1>2. /\ W \in Seq(Writes) /\ Len(W) = 3 * len + 6
      /\ \A i \in 1 .. (len + 2) : W[i] = MoveToHole(d, f, tmp)[i]
      /\ \A i \in {len + 3, len + 4} : W[i].part = "at"
      /\ \A i \in (len + 5) .. (3 * len + 4) : W[i].part = "data"
      /\ W[3 * len + 5] = Write("inodes", d.inodes)
      /\ W[3 * len + 6].part = "at"
  <2>1. GoesThereAndBack(d, f, tmp)
    BY StayWrites
  <2>2. \A from, to : Copy(from, to).part = "data"
    BY DEF Copy, Write
  <2>3. Write("at", d.at).part = "at"
    BY DEF Write
  <2> QED
    BY <1>1, <2>1, <2>2, <2>3 DEF GoesThereAndBack
<1>3. len \in Nat \ {0}
  BY HoleIsFree
<1>4. ASSUME NEW i \in 1 .. (3 * len + 6), W[i].part = "inodes"
      PROVE  \A m \in Live(d) : InBlock(W[i].value[m])
  <2>1. \/ i \in 1 .. (len + 2) \/ i \in {len + 3, len + 4}
        \/ i \in (len + 5) .. (3 * len + 4)
        \/ i = 3 * len + 5 \/ i = 3 * len + 6
    BY <1>3
  <2>2. i \in 1 .. (len + 2) \/ i = 3 * len + 5
    BY <1>2, <1>4, <2>1
  <2>3. CASE i \in 1 .. (len + 2)
    <3>1. W[i] = MoveToHole(d, f, tmp)[i]
      BY <1>2, <2>3
    <3>2. MoveToHole(d, f, tmp)[i].part = "inodes"
      BY <1>4, <3>1
    <3> QED
      BY <2>3, <3>1, <3>2, HoleInBlocks
  <2>4. CASE i = 3 * len + 5
    BY <1>2, <2>4 DEF Write, InBlocks
  <2> QED
    BY <2>2, <2>3, <2>4
<1>5. 3 * len + 6 \in Nat
  BY <1>3
<1> QED
  BY <1>1, <1>2, <1>4, <1>5, WritesInBlocks

\* A turn begins.
LEMMA BlockTurnStep ==
    ASSUME SameLength, DefragInv, BlockInv, DefragmentBundle
    PROVE  RightTurn(fs, loop.rest, loop.k) /\ BlockInv'
<1>1. writes = <<>> /\ loop # Returned /\ fs' = fs
  BY DEF DefragmentBundle
<1>2. /\ Consistent(fs) /\ InBlocks(fs)
      /\ loop.rest # {} /\ ToDo(fs, loop.rest, loop.k)
  BY <1>1 DEF DefragInv, LoopAt, BlockInv, DefragmentBundle
<1>3. PICK d, rest, k, f, len, t :
        /\ d = fs /\ rest = loop.rest /\ k = loop.k
        /\ f = LastInode(rest) /\ len = Sectors(f.size)
        /\ t = FindSeq(d.at, SectorCount, len)
  OBVIOUS
<1>4. /\ Consistent(d) /\ InBlocks(d) /\ rest # {} /\ ToDo(d, rest, k)
      /\ fs' = d
  BY <1>1, <1>2, <1>3
<1>5. PICK p \in Nat : SectorCount - k = p * Length
  BY <1>1, <1>3 DEF BlockInv
<1>6. RightTurn(d, rest, k)
  BY <1>4, <1>5, BlockTurnIsRight
<1>7. /\ f \in rest /\ f \in Inode
      /\ \/ HasSeq(d.at, SectorCount, len) /\ k = SectorCount - t
         \/ /\ ~HasSeq(d.at, SectorCount, len) \/ k # SectorCount - t
            /\ f.location = k - len
            /\ HasSeq(d.at, SectorCount, len) =>
                 Run(SectorCount - f.location, len) \cap (0 .. (SectorCount - 1))
                   \subseteq d.at \cup Run(t, len)
  BY <1>3, <1>4, <1>6, TurnCases
<1>8. len = Length /\ len \in Nat \ {0}
  BY <1>3, <1>7, LengthOfBits
<1>9. /\ f.inode_offset \in Live(d) /\ d.inodes[f.inode_offset] = f
      /\ k \in Int /\ SectorCount \in Nat
  BY <1>4, <1>7, LayoutAssumption DEF ToDo
<1>10. \/ /\ ~HasSeq(d.at, SectorCount, len)
          /\ Turn(f, <<>>, f.location)
       \/ /\ HasSeq(d.at, SectorCount, len)
          /\ k = SectorCount - t
          /\ Turn(f, MoveTurn(d, f, t), Place(f, t))
       \/ /\ HasSeq(d.at, SectorCount, len)
          /\ k # SectorCount - t
          /\ Turn(f, MoveToHole(d, f, t) \o MoveOn(d, f, t, k - len), k - len)
  BY <1>3, <1>8 DEF DefragmentBundle, MoveTurn
<1>11. ASSUME NEW ws \in Seq(BlockWrites(d)), Turn(f, ws, k - len)
       PROVE  BlockInv'
  <2>1. writes' = ws /\ (loop' # Returned => loop'.k = k - Length)
    BY <1>8, <1>11 DEF Turn
  <2>2. SectorCount - (k - Length) = (p + 1) * Length /\ p + 1 \in Nat
    BY <1>5, <1>8, <1>9, NextBlock
  <2>3. InBlocks(fs)' /\ writes' \in Seq(BlockWrites(fs))'
    BY <1>4, <1>11, <2>1 DEF InBlocks, BlockWrites
  <2> QED
    BY <2>1, <2>2, <2>3 DEF BlockInv
<1>12. ASSUME HasSeq(d.at, SectorCount, len)
       PROVE  Hole(d, t, len) /\ \E q \in Nat : t = q * Length
  <2>1. Hole(d, t, len)
    BY <1>3, <1>8, <1>12, FirstFitIsHole
  <2>2. \E q \in Nat : t = q * Length
    BY <1>3, <1>4, <1>8, <1>12, FirstFitIsBlock
  <2> QED
    BY <2>1, <2>2
<1>13. CASE ~HasSeq(d.at, SectorCount, len)
  <2>1. Turn(f, <<>>, f.location) /\ f.location = k - len
    BY <1>7, <1>10, <1>13
  <2>2. <<>> \in Seq(BlockWrites(d))
    OBVIOUS
  <2>3. BlockInv'
    BY <1>11, <2>1, <2>2
  <2> QED
    BY <1>3, <1>6, <2>3
<1>14. CASE HasSeq(d.at, SectorCount, len) /\ k = SectorCount - t
  <2>1. Turn(f, MoveTurn(d, f, t), Place(f, t)) /\ Hole(d, t, len)
    BY <1>10, <1>12, <1>14
  <2>2. MoveTurn(d, f, t) \in Seq(BlockWrites(d))
    BY <1>3, <1>4, <1>8, <1>9, <1>12, <1>14, <2>1, MoveInBlocks
  <2>3. Place(f, t) = k - len
    <3>1. t \in Int
      BY <1>8, <1>9, <2>1 DEF Hole
    <3> QED
      BY <1>3, <1>8, <1>9, <1>14, <3>1 DEF Place
  <2> QED
    BY <1>3, <1>6, <1>11, <2>1, <2>2, <2>3
<1>15. CASE HasSeq(d.at, SectorCount, len) /\ k # SectorCount - t
  <2>1. /\ Turn(f, StayTurn(d, f, t), k - len) /\ Hole(d, t, len)
        /\ Run(SectorCount - f.location, len) \cap (0 .. (SectorCount - 1))
             \subseteq d.at \cup Run(t, len)
    BY <1>7, <1>10, <1>12, <1>15 DEF StayTurn
  <2>2. LeavesAll(d, f, t)
    BY <1>3, <1>4, <1>9, <2>1, MoveOnWrites
  <2>3. StayTurn(d, f, t) \in Seq(BlockWrites(d))
    BY <1>3, <1>4, <1>8, <1>9, <1>12, <1>15, <2>1, <2>2, StayInBlocks
  <2> QED
    BY <1>3, <1>6, <1>11, <2>1, <2>3
<1> QED
  BY <1>3, <1>6, <1>13, <1>14, <1>15

\* A disk_write.
LEMMA BlockWriteStep ==
    ASSUME DefragInv, BlockInv, DiskWrite
    PROVE  BlockInv'
<1>1. PICK w : w = Head(writes)
  OBVIOUS
<1>2. w \in BlockWrites(fs) /\ writes' \in Seq(BlockWrites(fs)) /\ loop' = loop
  BY <1>1, HeadTailProperties DEF DiskWrite, BlockInv
<1>3. fs \in FileSystem
  BY AlwaysGood DEF Recoverable
<1>4. w.part \in {"at", "data", "inodes"}
  BY <1>2 DEF BlockWrites, Writes
<1>5. \/ fs' = fs
      \/ w.part \in {"at", "inodes"} /\ fs' = [fs EXCEPT ![w.part] = w.value]
  BY <1>1, <1>4 DEF DiskWrite
<1>6. /\ fs'.it = fs.it /\ fs'.inode_block_size = fs.inode_block_size
      /\ \/ fs'.inodes = fs.inodes
         \/ w.part = "inodes" /\ fs'.inodes = w.value
  BY <1>3, <1>5 DEF FileSystem
<1>7. Live(fs') = Live(fs)
  BY <1>6 DEF Live, InodeMax
<1>8. InBlocks(fs')
  BY <1>2, <1>6, <1>7 DEF InBlocks, BlockInv, BlockWrites
<1>9. BlockWrites(fs') = BlockWrites(fs)
  BY <1>7 DEF BlockWrites
<1> QED
  BY <1>2, <1>8, <1>9 DEF BlockInv, InBlocks, BlockWrites

\* Calls that leave the bundles in their places.
LEMMA BlockCallStep ==
    ASSUME BlockInv, writes = <<>>, InBlocks(fs'), loop' = Returned, writes' = <<>>
    PROVE  BlockInv'
BY DEF BlockInv, InBlocks

\* Each step.
LEMMA BlockStep ==
    ASSUME SameLength, RestoreAligned, DefragInv, BlockInv,
           [DefragNext]_defragVars
    PROVE  /\ BlockInv'
           /\ DefragmentBundle => RightTurn(fs, loop.rest, loop.k)
<1>0. (BlockInv' /\ ~DefragmentBundle)
        \/ (BlockInv' /\ RightTurn(fs, loop.rest, loop.k))
      => /\ BlockInv'
         /\ DefragmentBundle => RightTurn(fs, loop.rest, loop.k)
  OBVIOUS
<1>1. CASE DefragmentBundle
  BY <1>1, BlockTurnStep
<1>2. SUFFICES ASSUME ~DefragmentBundle
               PROVE  BlockInv'
  BY <1>1
<1>3. ASSUME UNCHANGED <<fs, writes, loop>>
      PROVE  BlockInv'
  BY <1>3 DEF BlockInv, InBlocks, BlockWrites
<1>4. CASE CreateWrite \/ TryAgain
  <2>1. /\ Idle
        /\ \/ KeepsPlaces(fs, fs')
           \/ \E b \in [size : Sizes, ttl : TTLs, custody : BOOLEAN] :
                StoreBundle(b)
    BY <1>4, CreateStep
  <2>2. /\ writes = <<>> /\ loop = Returned /\ Consistent(fs)
        /\ UNCHANGED <<loop, writes>>
    <3>1. UNCHANGED <<loop, writes>>
      BY <1>4 DEF CreateWrite, TryAgain, StoreBundle, RefuseBundle, Keep
    <3> QED
      BY <2>1, <3>1 DEF Idle, DefragInv
  <2>3. InBlocks(fs')
    <3>1. CASE KeepsPlaces(fs, fs')
      BY <3>1, SamePlaces DEF BlockInv
    <3>2. ASSUME NEW b \in [size : Sizes, ttl : TTLs, custody : BOOLEAN],
                 StoreBundle(b)
          PROVE  InBlocks(fs')
      <4>1. PICK e : e = fs'
        OBVIOUS
      <4>2. PICK r, g : StoresFirstFit(e, r, g)
        BY <2>2, <3>2, <4>1, StoredFirstFit
      <4>3. InBlocks(e)
        BY <4>2, StoreInBlock DEF BlockInv
      <4> QED
        BY <4>1, <4>3
    <3> QED
      BY <2>1, <3>1, <3>2
  <2> QED
    BY <2>2, <2>3, BlockCallStep
<1>5. CASE OtherCall \/ Collect
  <2>1. KeepsPlaces(fs, fs')
    BY <1>5, OtherStep
  <2>2. writes = <<>> /\ loop = Returned /\ UNCHANGED <<loop, writes>>
    BY <1>5 DEF OtherCall, Collect, Keep, Idle
  <2>3. InBlocks(fs')
    BY <2>1, SamePlaces DEF BlockInv
  <2> QED
    BY <2>2, <2>3, BlockCallStep
<1>6. CASE BeginDefragment
  <2>1. /\ UNCHANGED <<fs, writes>> /\ loop'.k = SectorCount
    BY <1>6 DEF BeginDefragment
  <2>2. 0 \in Nat /\ SectorCount - SectorCount = 0 * Length
    <3>1. SectorCount \in Nat
      BY LayoutAssumption
    <3>2. PICK n \in Live(fs) : fs.inodes[n] \in Inode
      BY <1>6, AlwaysGood DEF BeginDefragment, Recoverable, LiveInodesNamed
    <3>3. Length \in Nat
      BY <3>2, LengthOfBits
    <3> QED
      BY <3>1, <3>3
  <2> QED
    BY <2>1, <2>2 DEF BlockInv, InBlocks, BlockWrites
<1>7. CASE DiskWrite
  BY <1>7, BlockWriteStep
<1>8. CASE PowerFails
  <2>1. fs' = fs /\ loop' = Returned /\ writes' = <<>>
    BY <1>8 DEF PowerFails
  <2> QED
    BY <2>1 DEF BlockInv, InBlocks
<1>9. CASE Restart
  <2>1. /\ fs' = Restored(fs) /\ UNCHANGED <<loop, writes>>
        /\ loop = Returned /\ writes = <<>> /\ Recoverable(fs)
    BY <1>9 DEF Restart, RestoreFs, Return, DefragInv
  <2>2. KeepsPlaces(fs, fs')
    BY <2>1, RestoredExact DEF KeepsPlaces
  <2>3. InBlocks(fs')
    BY <2>2, SamePlaces DEF BlockInv
  <2> QED
    BY <2>1, <2>3, BlockCallStep
<1>10. CASE DefragmentNothing \/ TimePasses \/ UNCHANGED defragVars
  <2>1. UNCHANGED <<fs, writes, loop>>
    BY <1>10 DEF DefragmentNothing, TimePasses, Tick, defragVars
  <2> QED
    BY <2>1, <1>3
<1> QED
  BY <1>2, <1>4, <1>5, <1>6, <1>7, <1>8, <1>9, <1>10 DEF DefragNext, Defragment

\* With bundles of one length every turn of the loop finds its hole or its bundle
\* in the right place: the moves of the turns before it never get in its way.
THEOREM DefragTurnsRight ==
    ASSUME SameLength, RestoreAligned PROVE DefragSpec => TurnsAreRight
<1>1. DefragInit => DefragInv /\ BlockInv
  <2> SUFFICES ASSUME DefragInit PROVE DefragInv /\ BlockInv
    OBVIOUS
  <2>1. Live(fs) = {}
    BY LayoutAssumption DEF DefragInit, Init, Live, InodeMax, Run
  <2>2. writes = <<>> /\ loop = Returned
    BY DEF DefragInit
  <2> QED
    BY <2>1, <2>2, DefragInitInv DEF BlockInv, InBlocks
<1>2. DefragInv /\ BlockInv /\ [DefragNext]_defragVars
        => /\ DefragInv' /\ BlockInv'
           /\ [DefragmentBundle => RightTurn(fs, loop.rest, loop.k)]_defragVars
  BY BlockStep, DefragStep
<1> QED
  BY <1>1, <1>2, PTL DEF DefragSpec, TurnsAreRight
=============================================================================
