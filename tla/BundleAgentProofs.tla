-------------------------- MODULE BundleAgentProofs --------------------------
(***************************************************************************)
(* Proofs about BundleAgent, for every disk: an agent that follows its     *)
(* rule never acts on a stale copy.  The rule is about what the agent can  *)
(* see, the copy and the clock; that it is enough depends on everything    *)
(* that fs_create and the maintenance tasks may do to a bundle meanwhile.  *)
(***************************************************************************)
EXTENDS BundleAgent, FileSystemProofs

\* The copy in the agent's hands is an inode, and fresh if it is entitled.
AgentInv ==
    /\ Inv
    /\ HasCopy => file \in Inode
    /\ EntitledCopyIsFresh

-----------------------------------------------------------------------------
(* What each call does to a bundle that the agent is entitled to.          *)

\* fs_create takes neither the slot nor the sectors of such a bundle.
LEMMA CreateKeepsEntitled ==
    ASSUME Inv, NEW size \in Sizes, NEW ttl \in TTLs, NEW custody \in BOOLEAN,
           FsCreate(size, ttl, custody), NEW n \in Live(fs),
           fs.inodes[n].custody, ~IsNotValid(fs.inodes[n])
    PROVE  n \in Live(fs') /\ fs'.inodes[n] = fs.inodes[n]
<1> DEFINE r == ResizeInodeBlock(fs)
           d == RoomFor(size)
           f == NewInode(d, size, ttl, custody)
           Kept(e) == n \in Live(e) /\ e.inodes[n] = fs.inodes[n]
<1>1. Consistent(fs) /\ Consistent(r) /\ Consistent(d)
  BY ResizedConsistent, RoomForConsistent DEF Inv
<1>2. Live(r) = Live(fs) /\ r.inodes = fs.inodes
  BY <1>1, ResizedConsistent
<1>3. Kept(d)
  <2>1. CASE d = r
    BY <1>2, <2>1
  <2>2. ASSUME NEW v \in Live(fs), d = Deleted(r, r.inodes[v]),
               ~r.inodes[v].custody \/ IsNotValid(r.inodes[v])
        PROVE  Kept(d)
    <3>1. v # n
      BY <1>2, <2>2
    <3> QED
      BY <1>1, <1>2, <2>2, <3>1, DeletedConsistent
  <2> QED
    BY <1>1, <2>1, <2>2, RoomForCases
<1>4. CASE CreateWithoutInode
  BY <1>2, <1>4 DEF CreateWithoutInode, Return
<1>5. CASE CreateBundle(size, ttl, custody)
  <2>1. HasFreeInode(d) /\ Fits(d, size) /\ fs' = Placed(d, f)
    BY <1>1, <1>5, RoomForCases DEF CreateBundle, Return
  <2>2. /\ f \in Inode /\ f.inode_offset \notin d.it
        /\ Bits(f) \subseteq 0 .. (SectorCount - 1) /\ Bits(f) \cap d.at = {}
    BY <1>1, <2>1, NewInodeFits
  <2> HIDE DEF f, d
  <2> QED
    BY <1>1, <1>3, <2>1, <2>2, PlacedConsistent
<1>6. CASE CreateWithoutSpace(size)
  BY <1>3, <1>6 DEF CreateWithoutSpace, Return
<1> QED
  BY <1>4, <1>5, <1>6 DEF FsCreate

\* The inode that fs_create hands to the agent is the one in the slot.
LEMMA CreateHandsOut ==
    ASSUME Inv, NEW size \in Sizes, NEW ttl \in TTLs, NEW custody \in BOOLEAN,
           CreateBundle(size, ttl, custody)
    PROVE  LET f == NewInode(RoomFor(size), size, ttl, custody) IN
           /\ f \in Inode
           /\ f.inode_offset \in Live(fs')
           /\ fs'.inodes[f.inode_offset] = f
<1> DEFINE d == RoomFor(size)
           f == NewInode(d, size, ttl, custody)
<1>1. Consistent(fs) /\ Consistent(d)
  BY RoomForConsistent DEF Inv
<1>2. HasFreeInode(d) /\ Fits(d, size) /\ fs' = Placed(d, f)
  BY <1>1, RoomForCases DEF CreateBundle, Return
<1>3. /\ f \in Inode /\ f.inode_offset \notin d.it
      /\ Bits(f) \subseteq 0 .. (SectorCount - 1) /\ Bits(f) \cap d.at = {}
  BY <1>1, <1>2, NewInodeFits
<1> HIDE DEF f
<1> HIDE DEF d
<1>4. /\ f.inode_offset \in Live(fs')
      /\ fs'.inodes[f.inode_offset] = f
  BY <1>1, <1>2, <1>3, PlacedConsistent
<1> QED
  BY <1>3, <1>4 DEF f, d

\* A fresh copy may be handed to fs_delete.
LEMMA UsableIsLive ==
    ASSUME AgentInv, Usable
    PROVE  /\ file \in Inode /\ file.inode_offset \in Live(fs)
           /\ fs.inodes[file.inode_offset] = file
  BY DEF AgentInv, Usable, EntitledCopyIsFresh

-----------------------------------------------------------------------------
(* The invariant.                                                          *)

\* A fresh disk and an agent without a copy satisfy the invariant.
LEMMA AgentInitInv == AgentInit => AgentInv
  BY InitInv DEF AgentInit, AgentInv, EntitledCopyIsFresh, HasCopy

\* Each step of the agent is a call of FileSystem that its rule allows, or
\* an fs_open, which changes nothing.
LEMMA AgentStep ==
    ASSUME AgentInv, [AgentNext]_agentVars
    PROVE  [Next]_vars \/ \E n \in InodeNumbers : FsOpen(n)
<1>1. ASSUME NEW size \in Sizes, NEW ttl \in TTLs, NEW custody \in BOOLEAN,
             AgentCreate(size, ttl, custody)
      PROVE  Next
  BY <1>1 DEF AgentCreate, Next
<1>3. CASE AgentDelete
  <2>1. Usable /\ FsDelete(file)
    BY <1>3 DEF AgentDelete
  <2>2. file.inode_offset \in Live(fs)
        /\ FsDelete(fs.inodes[file.inode_offset])
    BY <2>1, UsableIsLive
  <2> QED
    BY <2>2 DEF Next
<1>4. ASSUME NEW ttl \in TTLs, NEW custody \in BOOLEAN,
             AgentClose(ttl, custody)
      PROVE  Next
  <2>1. Usable /\ FsClose([file EXCEPT !.custody = custody,
                                       !.time_to_live = ttl])
    BY <1>4 DEF AgentClose, FsClose
  <2>2. /\ file.inode_offset \in Live(fs)
        /\ FsClose([fs.inodes[file.inode_offset] EXCEPT
                      !.custody = custody, !.time_to_live = ttl])
    BY <2>1, UsableIsLive
  <2> QED
    BY <2>2 DEF Next
<1>5. CASE Maintenance
  BY <1>5 DEF Maintenance, Next
<1>6. CASE Tick
  BY <1>6 DEF Next
<1>7. CASE UNCHANGED agentVars
  BY <1>7 DEF agentVars, vars
<1> QED
  BY <1>1, <1>3, <1>4, <1>5, <1>6, <1>7 DEF AgentNext

\* Every call of the agent, and the passing of time, keep the invariant.
LEMMA AgentNextInv ==
    ASSUME RestoreAligned, AgentInv, [AgentNext]_agentVars
    PROVE  AgentInv'
<1> DEFINE Fresh == /\ HasCopy => file \in Inode
                    /\ EntitledCopyIsFresh
<1>1. Inv'
  <2>1. CASE [Next]_vars
    BY <2>1, NextInv DEF AgentInv
  <2>2. CASE \E n \in InodeNumbers : FsOpen(n)
    BY <2>2 DEF FsOpen, AgentInv, Inv
  <2> QED
    BY <2>1, <2>2, AgentStep
<1>2. ASSUME NEW size \in Sizes, NEW ttl \in TTLs, NEW custody \in BOOLEAN,
             AgentCreate(size, ttl, custody)
      PROVE  Fresh'
  <2>1. FsCreate(size, ttl, custody) /\ UNCHANGED clock
    BY <1>2 DEF AgentCreate, FsCreate, CreateWithoutInode, CreateBundle,
                CreateWithoutSpace, Return
  <2>2. CASE file' = file
    BY <2>1, <2>2, CreateKeepsEntitled
    DEF AgentInv, EntitledCopyIsFresh, Entitled, HasCopy, IsNotValid
  <2>3. CASE CreateBundle(size, ttl, custody)
             /\ file' = NewInode(RoomFor(size), size, ttl, custody)
    <3>1. /\ file' \in Inode /\ file'.inode_offset \in Live(fs')
          /\ fs'.inodes[file'.inode_offset] = file'
      BY <2>3, CreateHandsOut DEF AgentInv
    <3> QED
      BY <3>1 DEF EntitledCopyIsFresh
  <2> QED
    BY <1>2, <2>2, <2>3 DEF AgentCreate
<1>3. ASSUME NEW n \in InodeNumbers, FsOpen(n)
      PROVE  Fresh'
  <2>1. CASE n \in Live(fs)
    <3>1. /\ file' \in Inode /\ file'.inode_offset = n
          /\ file' = fs'.inodes[n] /\ n \in Live(fs')
      BY <1>3, <2>1
      DEF FsOpen, Live, AgentInv, Inv, Consistent, LiveInodesNamed
    <3> QED
      BY <3>1 DEF EntitledCopyIsFresh
  <2>2. CASE n \in fs.it /\ n \notin Live(fs)
    <3>1. file' = Garbage
      BY <1>3, <2>2 DEF FsOpen, Live
    <3> QED
      BY <3>1 DEF EntitledCopyIsFresh, HasCopy
  <2>3. CASE n \notin fs.it
    BY <1>3, <2>3
    DEF FsOpen, AgentInv, EntitledCopyIsFresh, Entitled, HasCopy, IsNotValid
  <2> QED
    BY <2>1, <2>2, <2>3
<1>4. ASSUME AgentDelete PROVE Fresh'
  BY <1>4 DEF AgentDelete, EntitledCopyIsFresh, HasCopy
<1>5. ASSUME NEW ttl \in TTLs, NEW custody \in BOOLEAN,
             AgentClose(ttl, custody)
      PROVE  Fresh'
  <2> DEFINE n == file.inode_offset
  <2>1. /\ file \in Inode /\ n \in Live(fs) /\ fs.inodes[n] = file
    BY <1>5, UsableIsLive DEF AgentClose
  <2>2. /\ file' \in Inode /\ file'.inode_offset = n
        /\ file'.size = file.size /\ file'.location = file.location
        /\ fs' = Written(fs, file')
    BY <1>5, <2>1 DEF AgentClose, FsClose, Return, Inode
  <2> HIDE DEF n
  <2>3. n \in Live(fs') /\ fs'.inodes[n] = file'
    BY <2>1, <2>2, WrittenConsistent DEF AgentInv, Inv
  <2> QED
    BY <2>2, <2>3 DEF EntitledCopyIsFresh
<1>6. ASSUME DeleteInvalidInodes /\ UNCHANGED file PROVE Fresh'
  BY <1>6, CollectedConsistent
  DEF DeleteInvalidInodes, Return, AgentInv, Inv, EntitledCopyIsFresh,
      Entitled, HasCopy, IsNotValid
<1>7. ASSUME RestoreFs /\ UNCHANGED file PROVE Fresh'
  BY <1>7, RestoredConsistent
  DEF RestoreFs, Return, AgentInv, Inv, EntitledCopyIsFresh,
      Entitled, HasCopy, IsNotValid
<1>8. ASSUME Tick /\ UNCHANGED file PROVE Fresh'
  <2>1. clock \in Int
    BY DEF AgentInv, Inv
  <2>2. file \in Inode => file.time_to_live \in TTLs
    BY DEF Inode
  <2>3. \A ttl \in TTLs : ttl \in Int
    BY BundleAssumption
  <2> QED
    BY <1>8, <2>1, <2>2, <2>3
    DEF Tick, AgentInv, EntitledCopyIsFresh, Entitled, HasCopy, IsNotValid
<1>9. ASSUME UNCHANGED agentVars PROVE Fresh'
  BY <1>9 DEF agentVars, AgentInv, EntitledCopyIsFresh, Entitled, HasCopy,
              IsNotValid
<1>10. Fresh'
  BY <1>2, <1>3, <1>4, <1>5, <1>6, <1>7, <1>8, <1>9
  DEF AgentNext, Maintenance
<1> QED
  BY <1>1, <1>10 DEF AgentInv

\* The agent's invariant holds in every reachable state.
THEOREM AgentInvariance ==
    ASSUME RestoreAligned PROVE AgentSpec => []AgentInv
  BY AgentInitInv, AgentNextInv, PTL DEF AgentSpec

\* No sector of the metadata or of a bundle is marked free with an agent that
\* keeps copies of inodes and calls fs_delete and fs_close with them.
THEOREM AgentKeepsSectorsMarked ==
    ASSUME RestoreAligned PROVE AgentSpec => []LiveSectorsMarked
<1>1. AgentInv => LiveSectorsMarked
  BY DEF AgentInv, Inv, Consistent, TableExact, LiveSectorsMarked
<1> QED
  BY <1>1, AgentInvariance, PTL

\* A copy that the agent is entitled to use is what the disk holds, whatever
\* fs_create has deleted for room and the maintenance tasks have collected
\* since fs_create or fs_open filled it in.
THEOREM EntitledCopiesAreFresh ==
    ASSUME RestoreAligned PROVE AgentSpec => []EntitledCopyIsFresh
<1>1. AgentInv => EntitledCopyIsFresh
  BY DEF AgentInv
<1> QED
  BY <1>1, AgentInvariance, PTL

\* fs_delete gives up the bundle whose copy it is called with; every other
\* bundle keeps its inode and its sectors.
THEOREM DeletionIsExact ==
    ASSUME RestoreAligned PROVE AgentSpec => OnlyTheFileIsDeleted
<1> DEFINE Exact == AgentDelete =>
                      \A n \in Live(fs) :
                        fs.inodes[n] # file =>
                          /\ n \in Live(fs')
                          /\ Bits(fs.inodes[n]) \subseteq fs'.at
<1>1. AgentInv => Exact
  <2> SUFFICES ASSUME AgentInv, AgentDelete, NEW n \in Live(fs),
                      fs.inodes[n] # file
               PROVE  /\ n \in Live(fs')
                      /\ Bits(fs.inodes[n]) \subseteq fs'.at
    OBVIOUS
  <2> DEFINE v == file.inode_offset
  <2>1. v \in Live(fs) /\ fs.inodes[v] = file /\ Consistent(fs)
    BY UsableIsLive DEF AgentDelete, AgentInv, Inv
  <2>2. fs' = Deleted(fs, fs.inodes[v])
    BY <2>1 DEF AgentDelete, FsDelete, Return
  <2>3. v # n
    BY <2>1
  <2> HIDE DEF v
  <2>4. n \in Live(fs') /\ fs'.at = fs.at \ Bits(fs.inodes[v])
    BY <2>1, <2>2, <2>3, DeletedConsistent
  <2>5. /\ Bits(fs.inodes[n]) \subseteq fs.at
        /\ Bits(fs.inodes[n]) \cap Bits(fs.inodes[v]) = {}
    BY <2>1, <2>3 DEF Consistent, TableExact, LiveBits, BundlesApart
  <2> QED
    BY <2>4, <2>5
<1>2. AgentInv /\ [AgentNext]_agentVars => [Exact]_agentVars
  BY <1>1
<1> QED
  BY <1>2, AgentInvariance, PTL DEF AgentSpec, OnlyTheFileIsDeleted

\* The store that the agent sees is the abstract one, also when it works
\* with copies that it has kept: its rule keeps it from deleting or changing a
\* bundle that it did not mean.
THEOREM AgentImplementsStore ==
    ASSUME RestoreAligned PROVE AgentSpec => ImplementsBundleStore
<1>1. AgentInit => Store!StoreInit
  BY InitRefines DEF AgentInit
<1>2. AgentInv /\ [AgentNext]_agentVars => [Store!StoreNext]_(Store!storeVars)
  <2> SUFFICES ASSUME AgentInv, [AgentNext]_agentVars
               PROVE  [Store!StoreNext]_(Store!storeVars)
    OBVIOUS
  <2>1. CASE [Next]_vars
    BY <2>1, StepRefines DEF AgentInv
  <2>2. ASSUME NEW n \in InodeNumbers, FsOpen(n)
        PROVE  Store!StoreNext
    BY <2>2 DEF FsOpen, Store!StoreNext, Store!Open, Store!Returns, bundles
  <2> QED
    BY <2>1, <2>2, AgentStep
<1> QED
  BY <1>1, <1>2, AgentInvariance, PTL
  DEF AgentSpec, ImplementsBundleStore, Store!StoreSpec
=============================================================================
