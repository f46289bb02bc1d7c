------------------------------ MODULE Defragment ------------------------------
(***************************************************************************)
(* FileSystem with the data of its bundles and with defragment             *)
(* (maintenance_tasks.c), one disk_write after the other.  The power may   *)
(* fail before each of them; the agent then mounts the disk and calls      *)
(* restore_fs.  The other calls are one step each (PowerLoss cuts them).   *)
(*                                                                         *)
(* defragment takes the bundles from the end of the disk on and looks for  *)
(* the first hole for each.  It wants the bundle right below the one       *)
(* before it, which begins at sector k.  If the hole is there, the bundle  *)
(* moves.  Otherwise the hole is meant as a place for a copy while the     *)
(* bundle is brought to its place.                                         *)
(*                                                                         *)
(* The agent follows the loop of the system tests: if a bundle cannot be   *)
(* stored it calls delete_invalid_inodes and defragment and tries again.   *)
(***************************************************************************)
EXTENDS FileSystem, Sequences

CONSTANTS
    NoData,     \* content of a sector that is no part of a bundle
    NoBundle    \* the agent has no bundle that is still to be stored

VARIABLES
    data,       \* the content of the sectors
    loop,       \* the inodes that defragment has still to do, and k
    writes,     \* the disk_writes of the current turn that are left
    power,      \* "up" or "down"
    pending,    \* the bundle that fs_create has refused, or NoBundle
    todo,       \* the calls that the agent makes before it tries again
    settled     \* bundles that a defragment has found in their place

defragVars == <<fs, clock, result, data, loop, writes, power, pending, todo,
                settled>>

DiskSectors == 0 .. (SectorCount - 1)

SectorsOf(f) == f.location .. (f.location + Sectors(f.size) - 1)

\* What fs_write puts into the sectors of a bundle.
Part(n, r) == [inode |-> n, part |-> r]

DataOf(f, s) == Part(f.inode_offset, s - f.location)

Owned(d) == UNION {SectorsOf(d.inodes[n]) : n \in Live(d)}

\* Nothing reads the data of a sector that no bundle owns.
OwnedData(d) == [s \in DiskSectors |-> IF s \in Owned(d) THEN data[s] ELSE NoData]

-----------------------------------------------------------------------------
(* One turn of the loop of defragment as a sequence of writes.  A write    *)
(* of data copies a sector.                                                *)

Write(part, value) == [part |-> part, value |-> value]

Copy(from, to) == Write("data", [from |-> from, to |-> to])

WriteAt(table) == Write("at", table)

\* Mutant: the inode goes to the slot behind its own.
WriteInodeNextSlot(d, f, location) ==
    Write("inodes", [d.inodes EXCEPT ![f.inode_offset + 1] =
                       [f EXCEPT !.location = location]])

WriteInode(d, f, location) ==
    Write("inodes", [d.inodes EXCEPT ![f.inode_offset] =
                       [f EXCEPT !.location = location]])

\* Mutant: one sector too high.
PlaceTooHigh(f, tmp) == SectorCount - (tmp + Sectors(f.size)) + 1

\* The place of a bundle whose first bit is tmp.
Place(f, tmp) == SectorCount - (tmp + Sectors(f.size))

\* The sectors of the bundle one by one.
CopySectors(f, tmp) ==
    [r \in 1 .. Sectors(f.size) |->
       Copy(f.location + r - 1, Place(f, tmp) + r - 1)]

WithHole(d, f, tmp) == WriteSeq(d.at, tmp, Sectors(f.size))

\* Mutant: the inode is written before the bundle is copied.
MoveToHoleInodeFirst(d, f, tmp) ==
    <<WriteAt(WithHole(d, f, tmp)), WriteInode(d, f, Place(f, tmp))>>
      \o CopySectors(f, tmp)

\* The hole at bit tmp is marked, the bundle copied, the inode written.
MoveToHole(d, f, tmp) ==
    <<WriteAt(WithHole(d, f, tmp))>> \o CopySectors(f, tmp)
      \o <<WriteInode(d, f, Place(f, tmp))>>

\* Mutant: the last of the old sectors stays marked.
FreeOldPlaceShort(d, f, tmp) ==
    LET len == Sectors(f.size)
    IN <<WriteAt(DeleteSeq(WithHole(d, f, tmp), SectorCount - f.location - len,
                           len - 1))>>

\* The hole was the right place: the old sectors are freed.
FreeOldPlace(d, f, tmp) ==
    LET len == Sectors(f.size)
    IN <<WriteAt(DeleteSeq(WithHole(d, f, tmp), SectorCount - f.location - len,
                           len))>>

\* It was not: the bundle is to go on from the hole to `to'.  The bits that are
\* freed and marked are those behind the ones that are meant.  Nothing is read:
\* SEC_BUFFER still holds the last sector of the bundle.
MoveOn(d, f, tmp, to) ==
    LET len    == Sectors(f.size)
        freed  == DeleteSeq(WithHole(d, f, tmp), SectorCount - f.location, len)
        marked == WriteSeq(freed, SectorCount - to, len) \cap (0 .. (SectorCount - 1))
        last   == Place(f, tmp) + len - 1
    IN <<WriteAt(freed), WriteAt(marked)>>
       \o [i \in 1 .. 2 * len |->
             Copy(last, (IF i % 2 = 1 THEN Place(f, tmp) ELSE to)
                          + (i - 1) \div 2)]
       \o <<WriteInode(d, f, to), WriteAt(DeleteSeq(marked, tmp, len))>>

\* Mutant: from the other end.
FirstInode(inodes) ==
    CHOOSE f \in inodes : \A g \in inodes : f.location <= g.location

\* quicksort_inodes sorts them by their location; the loop begins with the last.
LastInode(inodes) ==
    CHOOSE f \in inodes : \A g \in inodes : g.location <= f.location

\* load_all_inodes.
LoadedInodes(d) == {d.inodes[n] : n \in Live(d)}

-----------------------------------------------------------------------------
(* The calls.                                                              *)

Returned == [rest |-> {}, k |-> 0]

Idle == power = "up" /\ writes = <<>> /\ loop = Returned

DefragInit ==
    /\ Init
    /\ data = [s \in DiskSectors |-> NoData]
    /\ loop = Returned
    /\ writes = <<>>
    /\ power = "up"
    /\ pending = NoBundle
    /\ todo = <<>>
    /\ settled = {}

\* What a call of FileSystem leaves of the data.
Keep == /\ data' = OwnedData(fs')
        /\ settled' = settled \cap Live(fs')
        /\ UNCHANGED <<loop, writes, power>>

Bundle(size, ttl, custody) ==
    [size |-> size, ttl |-> ttl, custody |-> custody]

\* fs_create_write.
StoreBundle(b) ==
    /\ CreateBundle(b.size, b.ttl, b.custody)
    /\ \E f \in {NewInode(RoomFor(b.size), b.size, b.ttl, b.custody)},
          kept \in {OwnedData(fs')} :
         /\ data' = [s \in DiskSectors |-> IF s \in SectorsOf(f)
                                           THEN DataOf(f, s) ELSE kept[s]]
         /\ settled' = (settled \cap Live(fs')) \ {f.inode_offset}
    /\ pending' = NoBundle
    /\ UNCHANGED <<loop, writes, power, todo>>

Cleanup == <<"delete_invalid_inodes", "defragment">>

RefuseBundle(b) ==
    /\ CreateWithoutInode \/ CreateWithoutSpace(b.size)
    /\ Keep
    /\ pending' = b
    /\ todo' = Cleanup

CreateWrite ==
    /\ Idle /\ pending = NoBundle
    /\ \E size \in Sizes, ttl \in TTLs, custody \in BOOLEAN :
         \/ StoreBundle(Bundle(size, ttl, custody))
         \/ RefuseBundle(Bundle(size, ttl, custody))

TryAgain ==
    /\ Idle /\ pending # NoBundle /\ todo = <<>>
    /\ StoreBundle(pending) \/ RefuseBundle(pending)

\* While it retries, the agent makes no other calls than those of the loop.
OtherCall ==
    /\ Idle /\ pending = NoBundle
    /\ \/ \E n \in Live(fs) : FsDelete(fs.inodes[n])
       \/ \E n \in Live(fs), ttl \in TTLs, custody \in BOOLEAN :
            FsClose([fs.inodes[n] EXCEPT !.custody = custody,
                                         !.time_to_live = ttl])
       \/ RestoreFs
    /\ Keep /\ UNCHANGED <<pending, todo>>

\* A maintenance task is due in the loop, or called at any other time.
Due(call) ==
    \/ pending = NoBundle /\ UNCHANGED todo
    \/ todo # <<>> /\ Head(todo) = call /\ todo' = Tail(todo)

Collect ==
    /\ Idle /\ Due("delete_invalid_inodes")
    /\ DeleteInvalidInodes
    /\ Keep /\ UNCHANGED pending

\* A bundle with no free sector behind it, between it and the end of the disk.
InOrder(n) == \A b \in 0 .. (SectorCount - 1 - fs.inodes[n].location) : b \in fs.at

BeginDefragment ==
    /\ Idle /\ Due("defragment")
    /\ Live(fs) # {}
    /\ loop' = [rest |-> LoadedInodes(fs), k |-> SectorCount]
    /\ settled' = settled \cup {n \in Live(fs) : InOrder(n)}
    /\ UNCHANGED <<fs, clock, result, data, writes, power, pending>>

\* Without bundles defragment does nothing.
DefragmentNothing ==
    /\ Idle /\ Due("defragment")
    /\ Live(fs) = {}
    /\ UNCHANGED <<fs, clock, result, data, loop, writes, power, pending, settled>>

\* Mutant: k is not set at the end of a turn.
TurnFromSamePlace(f, ws, k) ==
    /\ writes' = ws
    /\ loop' = IF loop.rest = {f} THEN Returned
               ELSE [loop EXCEPT !.rest = @ \ {f}]

\* The next turn of the loop, with k the place of this bundle for the turn
\* after it.
Turn(f, ws, k) ==
    /\ writes' = ws
    /\ loop' = IF loop.rest = {f} THEN Returned
               ELSE [rest |-> loop.rest \ {f}, k |-> k]

DefragmentBundle ==
    LET f   == LastInode(loop.rest)
        len == Sectors(f.size)
        to  == loop.k - len
    IN /\ power = "up" /\ writes = <<>> /\ loop # Returned
       /\ \/ /\ ~HasSeq(fs.at, SectorCount, len)
             /\ Turn(f, <<>>, f.location)
          \/ /\ HasSeq(fs.at, SectorCount, len)
             /\ \E tmp \in {FindSeq(fs.at, SectorCount, len)} :
                  IF loop.k = SectorCount - tmp
                  THEN Turn(f, MoveToHole(fs, f, tmp) \o FreeOldPlace(fs, f, tmp),
                            Place(f, tmp))
                  ELSE Turn(f, MoveToHole(fs, f, tmp) \o MoveOn(fs, f, tmp, to), to)
       /\ UNCHANGED <<fs, clock, result, data, power, pending, todo, settled>>

\* The turn finds what the loop is written for.  There is no hole, and the bundle
\* is in its place.  Or the hole is its place.  Or the bundle is in its place, and
\* all bits that MoveOn takes for its own are used, but for those of the hole.
RightTurn(d, rest, k) ==
    LET f       == LastInode(rest)
        len     == Sectors(f.size)
        tmp     == FindSeq(d.at, SectorCount, len)
        inPlace == f.location = k - len
    IN IF ~HasSeq(d.at, SectorCount, len) THEN inPlace
       ELSE \/ k = SectorCount - tmp
            \/ /\ inPlace
               /\ Run(SectorCount - f.location, len) \cap (0 .. (SectorCount - 1))
                    \subseteq d.at \cup Run(tmp, len)

DiskWrite ==
    LET w == Head(writes) IN
    /\ power = "up"
    /\ writes # <<>>
    /\ writes' = Tail(writes)
    /\ IF w.part = "data"
       THEN data' = [data EXCEPT ![w.value.to] = data[w.value.from]] /\ fs' = fs
       ELSE fs' = [fs EXCEPT ![w.part] = w.value] /\ data' = data
    /\ UNCHANGED <<clock, result, loop, power, pending, todo, settled>>

\* The agent forgets what it was about to do.
PowerFails ==
    /\ power = "up"
    /\ ~Idle
    /\ power' = "down"
    /\ loop' = Returned
    /\ writes' = <<>>
    /\ pending' = NoBundle
    /\ todo' = <<>>
    /\ UNCHANGED <<fs, clock, result, data, settled>>

\* fs_mount and restore_fs.
Restart ==
    /\ power = "down"
    /\ power' = "up"
    /\ RestoreFs
    /\ data' = OwnedData(fs')
    /\ UNCHANGED <<loop, writes, pending, todo, settled>>

TimePasses ==
    /\ Tick
    /\ UNCHANGED <<data, loop, writes, power, pending, todo, settled>>

Defragment == BeginDefragment \/ DefragmentNothing \/ DefragmentBundle \/ DiskWrite

DefragNext == \/ CreateWrite \/ TryAgain \/ OtherCall \/ Collect \/ Defragment
              \/ PowerFails \/ Restart \/ TimePasses

\* What TryAgain does to the loop of the agent; no other action does it.
TryReturns ==
    /\ Idle /\ pending # NoBundle /\ todo = <<>>
    /\ \/ pending' = NoBundle /\ UNCHANGED todo
       \/ todo' = Cleanup /\ UNCHANGED pending

\* A call that has begun goes on, the loop of the agent too, and time passes.
\* Nothing is assumed of the power.
Fairness == /\ WF_<<pending, todo>>(TryReturns)
            /\ WF_defragVars(pending # NoBundle /\ (Collect \/ Defragment))
            /\ WF_defragVars(TimePasses)

DefragSpec == DefragInit /\ [][DefragNext]_defragVars /\ Fairness

-----------------------------------------------------------------------------
(* Properties.                                                             *)

Intact(f) == \A s \in SectorsOf(f) : data[s] = DataOf(f, s)

LastIntact(f) ==
    LET s == f.location + Sectors(f.size) - 1 IN data[s] = DataOf(f, s)

\* Every turn of the loop is right, whatever the turns before it have moved, if
\* all bundles have one length.
TurnsAreRight ==
    [][DefragmentBundle => RightTurn(fs, loop.rest, loop.k)]_defragVars

\* Whenever a call may be made, also after a defragment that was cut off, both
\* tables and the inodes agree and no sector is lost.
TablesAgree == Idle => LiveSectorsMarked /\ NoLeakedSector

\* At every write of a defragment, the inode of a bundle that is not settled
\* leads to its data: a failure of power at any point loses none of them, and
\* what happens to a settled bundle harms no other.  A settled one has its last
\* sector, which is all of a bundle of one sector.
MovedBundlesKeepData ==
    \A n \in Live(fs) : /\ LastIntact(fs.inodes[n])
                        /\ n \notin settled => Intact(fs.inodes[n])

\* When a defragment returns, the bundles are at the end of the disk without a
\* gap: all free sectors are together, next to the inode block.
DefragmentCompacts ==
    [][power = "up" /\ ~Idle /\ Idle' =>
         \A b \in LiveBits(fs') : 0 .. b \subseteq fs'.at]_defragVars

\* A bundle that was refused is stored in the end by the loop of the system
\* tests, unless the power fails: expired bundles are collected, and neither
\* growth nor defragment use up the room.
EventuallyStored == (pending # NoBundle) ~> (pending = NoBundle)

\* Copying the bundles to their place copies their data: when a defragment
\* returns, every bundle has it.
DefragmentKeepsData ==
    [][power = "up" /\ ~Idle /\ Idle' =>
         (\A n \in Live(fs) : Intact(fs.inodes[n]))']_defragVars
=============================================================================
