----------------------------- MODULE PowerLoss -----------------------------
(***************************************************************************)
(* BundleFS when the power may fail.  A call of FileSystem is here the     *)
(* sequence of its disk_writes, each of which changes one part of the      *)
(* disk: the allocation table, the inode allocation table, an inode, or    *)
(* the superblock.  The window buffers and the mounted struct hold nothing *)
(* between calls that the disk does not, so a failure means that the rest  *)
(* of the writes is not done.  The agent then mounts the disk and calls    *)
(* restore_fs before anything else.  A disk_write of one sector is atomic, *)
(* and each table is one sector.                                           *)
(*                                                                         *)
(* fs is the disk.  Unlike in FileSystem, a slot of the inode block keeps  *)
(* its old inode when the bundle is deleted.                               *)
(***************************************************************************)
EXTENDS FileSystem, Sequences

CONSTANT
    Uncut   \* bound: the power does not fail just before a write to these parts

Parts == {"at", "it", "inodes", "inode_block_size"}

ASSUME UncutAssumption == Uncut \subseteq Parts

VARIABLES
    writes,   \* the writes that the current call has still to do
    power,    \* "up", "down", or "restoring" until restore_fs has returned
    created,  \* the inode that fs_create will have created, or NoInode
    kept      \* the bundles that the agent may rely on

powerVars == <<fs, clock, result, writes, power, created, kept>>

-----------------------------------------------------------------------------
(* Calls as sequences of writes.                                           *)

Write(part, value) == [part |-> part, value |-> value]

\* What the last of the writes to a part leaves there, or what was there.
Latest(ws, part, old) ==
    LET W == {i \in 1 .. Len(ws) : ws[i].part = part}
    IN IF W = {} THEN old
       ELSE ws[CHOOSE i \in W : \A j \in W : j <= i].value

Apply(d, ws) == [at     |-> Latest(ws, "at", d.at),
                 it     |-> Latest(ws, "it", d.it),
                 inodes |-> Latest(ws, "inodes", d.inodes),
                 inode_block_size |->
                   Latest(ws, "inode_block_size", d.inode_block_size)]

\* fs_delete: the sectors first, then the inode.
DeleteWrites(d, f) ==
    <<Write("at", d.at \ Bits(f)), Write("it", d.it \ {f.inode_offset})>>

\* resize_inode_block: both tables, then the superblock.
GrowWrites(d) ==
    <<Write("at", Grown(d).at), Write("it", Grown(d).it),
      Write("inode_block_size", Grown(d).inode_block_size)>>

\* The end of fs_create: both tables, then the inode.
PlaceWrites(d, f) ==
    <<Write("at", d.at \cup Bits(f)), Write("it", d.it \cup {f.inode_offset}),
      Write("inodes", [d.inodes EXCEPT ![f.inode_offset] = f])>>

GrowthWrites == IF ~HasFreeInode(fs) /\ CanGrow(fs) THEN GrowWrites(fs) ELSE <<>>

\* The bundle that free_disk_space deletes, as a set.
Victims(d, size) ==
    IF HasFreeInode(d) /\ ~Fits(d, size) /\ Expendable(d, size) # {}
    THEN {Least(Expendable(d, size))} ELSE {}

EvictionWrites(d, size) ==
    IF Victims(d, size) = {} THEN <<>>
    ELSE DeleteWrites(d, d.inodes[Least(Victims(d, size))])

\* The numbers of S in ascending order: the set of this one sequence.
ByNumber(S) == {s \in [1 .. Cardinality(S) -> S] :
                  \A i, j \in 1 .. Cardinality(S) : i < j => s[i] < s[j]}

Expired == {n \in Live(fs) : IsNotValid(fs.inodes[n])}

\* The sectors of the first i inodes of s.
BitsUpTo(s, i) == UNION {Bits(fs.inodes[s[j]]) : j \in 1 .. i}

\* Mutant: every fs_delete begins with the inode allocation table as it was
\* at first.
CollectFromOldTable(s) ==
    [i \in 1 .. 2 * Len(s) |->
       IF i % 2 = 1 THEN Write("at", fs.at \ BitsUpTo(s, i \div 2 + 1))
       ELSE Write("it", fs.it \ {s[i \div 2]})]

\* delete_invalid_inodes: the two writes of fs_delete for one inode after the
\* other, each from the tables as the one before has left them.
CollectWrites(s) ==
    [i \in 1 .. 2 * Len(s) |->
       IF i % 2 = 1 THEN Write("at", fs.at \ BitsUpTo(s, i \div 2 + 1))
       ELSE Write("it", fs.it \ {s[j] : j \in 1 .. (i \div 2)})]

\* Mutant: the bundles are marked before the metadata, and wiped with it.
RestoreInodesFirst(s) ==
    <<Write("at", LiveBits(fs)), Write("at", PartialByte \cup Metadata(fs))>>

\* restore_fs: the wiped table is first saved with the metadata in it, then
\* again for each bundle.
RestoreWrites(s) ==
    [i \in 1 .. (Len(s) + 1) |->
       Write("at", PartialByte \cup Metadata(fs) \cup BitsUpTo(s, i - 1))]

-----------------------------------------------------------------------------
(* The calls, the writes and the power.                                    *)

PowerInit == /\ Init
             /\ writes = <<>>
             /\ power = "up"
             /\ created = NoInode
             /\ kept = [n \in {} |-> NoInode]

Ready == power = "up" /\ writes = <<>>

\* A call begins; it will do ws, may create f, will give up `gone' and return code.
Begin(call, ws, f, gone, code) ==
    /\ writes' = ws
    /\ created' = f
    /\ kept' = [n \in DOMAIN kept \ gone |-> kept[n]]
    /\ result' = [call |-> call, code |-> code]
    /\ UNCHANGED <<fs, clock, power>>

BeginCreate(size, ttl, custody) ==
    LET d     == Apply(fs, GrowthWrites)
        ws    == GrowthWrites \o EvictionWrites(d, size)
        e     == Apply(fs, ws)
        f     == NewInode(e, size, ttl, custody)
    IN IF HasFreeInode(d) /\ Fits(e, size)
       THEN Begin("fs_create", ws \o PlaceWrites(e, f), f, Victims(d, size), "FS_OK")
       ELSE Begin("fs_create", ws, NoInode, Victims(d, size), "FS_FULL")

BeginDelete(n) ==
    Begin("fs_delete", DeleteWrites(fs, fs.inodes[n]), NoInode, {n}, "FS_OK")

BeginClose(n, ttl, custody) ==
    Begin("fs_close",
          <<Write("inodes", [fs.inodes EXCEPT ![n].custody = custody,
                                              ![n].time_to_live = ttl])>>,
          NoInode, {}, "FS_OK")

BeginCollect ==
    \E s \in ByNumber(Expired) :
      Begin("delete_invalid_inodes", CollectWrites(s), NoInode, Expired, "FS_OK")

BeginRestore ==
    \E s \in ByNumber(Live(fs)) :
      Begin("restore_fs", RestoreWrites(s), NoInode, {}, "FS_OK")

\* With the last write the call returns.
DiskWrite ==
    /\ power # "down"
    /\ writes # <<>>
    /\ fs' = Apply(fs, <<Head(writes)>>)
    /\ writes' = Tail(writes)
    /\ IF writes' = <<>>
       THEN /\ power' = "up"
            /\ created' = NoInode
            /\ kept' = IF created = NoInode THEN kept
                       ELSE [n \in DOMAIN kept \cup {created.inode_offset} |->
                               IF n = created.inode_offset THEN created
                               ELSE kept[n]]
       ELSE UNCHANGED <<power, created, kept>>
    /\ UNCHANGED <<clock, result>>

PowerFails ==
    /\ power # "down"
    /\ writes # <<>>
    /\ Head(writes).part \notin Uncut
    /\ power' = "down"
    /\ writes' = <<>>
    /\ created' = NoInode
    /\ UNCHANGED <<fs, clock, result, kept>>

\* Mutant: the recovery clears the inode allocation table as well.
RestartFreesInodes ==
    /\ power = "down"
    /\ power' = "restoring"
    /\ writes' = <<Write("it", fs.it \ Live(fs))>>
    /\ UNCHANGED <<fs, clock, result, created, kept>>

\* fs_mount, and restore_fs begins.
Restart ==
    /\ power = "down"
    /\ power' = "restoring"
    /\ \E s \in ByNumber(Live(fs)) : writes' = RestoreWrites(s)
    /\ UNCHANGED <<fs, clock, result, created, kept>>

\* A call takes less than a second.
PowerTick ==
    /\ writes = <<>>
    /\ Tick
    /\ UNCHANGED <<writes, power, created, kept>>

Calls ==
    /\ Ready
    /\ \/ \E size \in Sizes, ttl \in TTLs, custody \in BOOLEAN :
            BeginCreate(size, ttl, custody)
       \/ \E n \in Live(fs) : BeginDelete(n)
       \/ \E n \in Live(fs), ttl \in TTLs, custody \in BOOLEAN :
            BeginClose(n, ttl, custody)
       \/ BeginCollect
       \/ BeginRestore

PowerNext == Calls \/ DiskWrite \/ PowerFails \/ Restart \/ PowerTick

PowerSpec == PowerInit /\ [][PowerNext]_powerVars

-----------------------------------------------------------------------------
(* Properties.                                                             *)

\* A bundle whose fs_create has returned stays where it is, with its inode,
\* through every failure of power and every recovery, until a call that
\* deletes, collects or evicts it has begun.
KeptBundlesSurvive ==
    \A n \in DOMAIN kept : /\ n \in Live(fs)
                           /\ fs.inodes[n].location = kept[n].location
                           /\ fs.inodes[n].size = kept[n].size

\* Whenever calls are accepted again, all bundles, also those that a cut off
\* fs_delete has left, have sectors of their own that are marked used, and
\* nothing else is marked.
RecoveredIsConsistent ==
    Ready => LiveSectorsMarked /\ NoLeakedSector /\ ExtentsDisjoint

\* A disk as FileSystem sees it: nothing is in a slot whose bit is 0.
Seen(d) == [d EXCEPT !.inodes = [n \in InodeNumbers |->
                                   IF n \in Live(d) THEN d.inodes[n]
                                   ELSE NoInode]]

Whole == INSTANCE FileSystem WITH fs <- Seen(Apply(fs, writes))

\* While the power is up, the writes of a call add up to what FileSystem does
\* in one step, also on a disk that a recovery has left.
CallsAreWhole ==
    [][power = "up" /\ power' = "up" =>
         UNCHANGED Whole!vars \/ Whole!Next]_powerVars
=============================================================================
