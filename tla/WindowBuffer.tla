---------------------------- MODULE WindowBuffer ----------------------------
(***************************************************************************)
(* An allocation table that is larger than the memory for it, seen through *)
(* a window (window_buffer.c and the *_global functions of                 *)
(* bit_functions.c).  The table is TableSectors sectors of the disk, the   *)
(* buffer holds some of them, from sector global_index on.  The callers    *)
(* believe that they work on one long sequence of bits; that sequence is   *)
(* the variable `used', and the properties compare the two.                *)
(*                                                                         *)
(* Sectors are numbered from the first sector of the table (global_start   *)
(* in the code).  Behind the table lie sectors of somebody else, of which  *)
(* the window can see Sectors - 1; they are zero.                          *)
(***************************************************************************)
EXTENDS Integers, FiniteSetsExt, BitTable, SequencesExt

CONSTANTS
    TableSectors,    \* win->global_end - win->global_start + 1
    BufferSectors,   \* sectors that fit into the buffer
    SectorBits,      \* bits of a sector
    ByteBits,        \* bits of a byte
    CallsOnWhole     \* TRUE: fs_getfree and restore_fs are called as well

ASSUME WindowAssumption ==
    /\ TableSectors \in Nat \ {0} /\ BufferSectors \in Nat \ {0}
    /\ ByteBits \in Nat \ {0} /\ SectorBits \in Nat \ {0}
    /\ SectorBits % ByteBits = 0
    /\ CallsOnWhole \in BOOLEAN

VARIABLES
    w,       \* the window and the disk
    used     \* the bits that are 1 as far as the callers know

vars == <<w, used>>

\* win->sectors
Sectors == IF BufferSectors > TableSectors THEN TableSectors ELSE BufferSectors

BufBits == Sectors * SectorBits
TableBits == TableSectors * SectorBits
DiskBits  == TableBits + (Sectors - 1) * SectorBits

Window == [disk         : SUBSET (0 .. (DiskBits - 1)),
           buffer       : SUBSET (0 .. (BufBits - 1)),
           global_index : 0 .. (TableSectors - 1),
           ok           : BOOLEAN]   \* what the last call returned

-----------------------------------------------------------------------------
(* Moving the window.                                                      *)

Loaded(disk, sector) ==
    {b \in 0 .. (BufBits - 1) : sector * SectorBits + b \in disk}

SaveWindow(v) ==
    [v EXCEPT !.disk = DeleteSeq(@, v.global_index * SectorBits, BufBits)
                         \cup {v.global_index * SectorBits + b : b \in v.buffer}]

\* reload_window
ReloadWindow(v) == [v EXCEPT !.buffer = Loaded(v.disk, v.global_index)]

\* Mutant: an index one behind the table is accepted.
MoveWindowTooFar(v, index) ==
    IF index > TableSectors THEN [v EXCEPT !.ok = FALSE]
    ELSE IF index = v.global_index THEN v
    ELSE ReloadWindow([SaveWindow(v) EXCEPT !.global_index = index])

\* Mutant: the buffer is not saved before it is read again.
MoveWindowWithoutSave(v, index) ==
    IF index >= TableSectors THEN [v EXCEPT !.ok = FALSE]
    ELSE IF index = v.global_index THEN v
    ELSE ReloadWindow([v EXCEPT !.global_index = index])

\* The index counts sectors.
MoveWindow(v, index) ==
    IF index >= TableSectors THEN [v EXCEPT !.ok = FALSE]
    ELSE IF index = v.global_index THEN v
    ELSE ReloadWindow([SaveWindow(v) EXCEPT !.global_index = index])

-----------------------------------------------------------------------------
(* write_seq_global, delete_seq_global and check_seq_global cut a sequence *)
(* into the part in the first window, full windows, and a rest.  Here the  *)
(* index of a window counts buffers.                                       *)

Chunk(index, from, length) ==
    [index |-> index, from |-> from, length |-> length]

Chunks(index, length) ==
    LET first  == index \div BufBits
        from   == index % BufBits
        start  == IF length < BufBits - from THEN length ELSE BufBits - from
        full   == length \div BufBits
        middle == IF full > 1 THEN full - 1 ELSE 0
        rest   == length - start - middle * BufBits
    IN <<Chunk(first, from, start)>>
         \o [k \in 1 .. middle |-> Chunk(first + k, 0, BufBits)]
         \o (IF rest > 0 THEN <<Chunk(first + middle + 1, 0, rest)>> ELSE <<>>)

\* What lies behind the last bit of the buffer is not part of the table.
InBuffer(bits) == bits \cap (0 .. (BufBits - 1))

\* write_seq, delete_seq or check_seq in the buffer.
OnChunk(op, u, c) ==
    CASE op = "write"  -> [u EXCEPT !.buffer = InBuffer(WriteSeq(@, c.from, c.length))]
      [] op = "delete" -> [u EXCEPT !.buffer = DeleteSeq(@, c.from, c.length)]
      [] op = "check"  -> [u EXCEPT !.ok = CheckSeq(u.buffer, c.from, c.length)]

\* A move to the window of the chunk, unless something has failed before.
InItsWindow(op, u, c) ==
    LET m == MoveWindow(u, c.index) IN
    IF u.ok /\ m.ok THEN OnChunk(op, m, c) ELSE [u EXCEPT !.ok = FALSE]

OnChunks(op, v, index, length) ==
    FoldLeft(LAMBDA u, c : InItsWindow(op, u, c),
             [v EXCEPT !.ok = TRUE], Chunks(index, length))

SaveIfOk(v) == IF v.ok THEN SaveWindow(v) ELSE v

WriteSeqGlobal(v, index, length) == SaveIfOk(OnChunks("write", v, index, length))

\* Mutant: the last window is not saved.
DeleteSeqGlobalUnsaved(v, index, length) == OnChunks("delete", v, index, length)

DeleteSeqGlobal(v, index, length) == SaveIfOk(OnChunks("delete", v, index, length))

\* Mutant: only the first window is looked at.
CheckSeqGlobalStart(v, index, length) ==
    LET m == MoveWindow([v EXCEPT !.ok = TRUE], index \div BufBits)
        b == index % BufBits
    IN [m EXCEPT !.ok = CheckSeq(InBuffer(Run(b, length)) \cap m.buffer,
                                 b, length)]

CheckSeqGlobal(v, index, length) == OnChunks("check", v, index, length)

-----------------------------------------------------------------------------
(* find_seq_global.  The result is a record: the window afterwards, and    *)
(* the index or NotFound.                                                  *)

NotFound == -1

\* The loops go on to global_end, a sector number of the disk, and so to at
\* least one index behind the table, where move_window makes them end.
Windows == [k \in 1 .. (TableSectors + 1) |-> k - 1]

\* Zero bits at the end of the buffer (*end_length of find_seq_new).
TailLength(buffer) ==
    Cardinality({b \in 0 .. (BufBits - 1) : b .. (BufBits - 1) \cap buffer = {}})

\* Mutant: zeroes at the end of the window before are forgotten.
SearchWindowAlone(s, k, length) ==
    LET m    == MoveWindow(s.window, k)
        base == k * SectorBits
        At(i) == [s EXCEPT !.window = m, !.index = i]
    IN IF s.index # NotFound \/ ~m.ok THEN s
       ELSE IF HasSeq(m.buffer, BufBits, length)
            THEN At(base + FindSeq(m.buffer, BufBits, length))
       ELSE At(NotFound)

\* One window of find_seq_global_small: first the sequence that began at the
\* end of the window before, then one inside of this window.
SearchWindow(s, k, length) ==
    LET m    == MoveWindow(s.window, k)
        base == k * SectorBits
        At(i) == [s EXCEPT !.window = m, !.index = i]
    IN IF s.index # NotFound \/ ~m.ok THEN s
       ELSE IF k > 0 /\ CheckSeq(m.buffer, 0, length - s.tail)
            THEN At(base - s.tail)
       ELSE IF HasSeq(m.buffer, BufBits, length)
            THEN At(base + FindSeq(m.buffer, BufBits, length))
       ELSE [At(NotFound) EXCEPT !.tail = TailLength(m.buffer)]

FindSeqGlobalSmall(v, length) ==
    FoldLeft(LAMBDA s, k : SearchWindow(s, k, length),
             [window |-> [v EXCEPT !.ok = TRUE], index |-> NotFound, tail |-> 0],
             Windows)

\* One window of the search for a sequence longer than the buffer.  `missing'
\* is tmp_length, `begin' is tmp_index, `place' is tmp_global_index and `i' is
\* the byte counter of the middle part, which also is what `place' is set to.
SearchLongWindow(s, k, length) ==
    LET m         == MoveWindow(s.window, k)
        tail      == TailLength(m.buffer)
        begin     == BufBits - tail
        firstUsed == Least(m.buffer) \div ByteBits
        t         == [s EXCEPT !.window = m]
    IN IF s.index # NotFound \/ ~m.ok THEN s
       ELSE IF s.missing = length
            THEN [t EXCEPT !.begin = begin, !.missing = @ - tail, !.place = s.i]
       ELSE IF s.missing > BufBits
            THEN IF m.buffer = {}
                 THEN [t EXCEPT !.missing = @ - BufBits,
                                !.i = BufBits \div ByteBits]
                 ELSE [t EXCEPT !.missing = length, !.begin = begin,
                                !.i = firstUsed, !.place = firstUsed]
       ELSE IF CheckSeq(m.buffer, 0, s.missing)
            THEN [t EXCEPT !.index =
                    s.place * (SectorBits \div ByteBits) + s.begin]
       ELSE [t EXCEPT !.missing = length, !.begin = begin, !.place = s.i]

\* i is read before it is set: garbage is what the stack holds.
FindLongSeqGlobal(v, length, garbage) ==
    FoldLeft(LAMBDA s, k : SearchLongWindow(s, k, length),
             [window |-> [v EXCEPT !.ok = TRUE], index |-> NotFound, missing |-> length,
              begin |-> 0, place |-> garbage, i |-> garbage],
             Windows)

FindSeqGlobal(v, length, garbage) ==
    IF length <= BufBits THEN FindSeqGlobalSmall(v, length)
    ELSE FindLongSeqGlobal(v, length, garbage)

-----------------------------------------------------------------------------
(* inodes_used and access_table, on the inode allocation table.            *)

\* Mutant: the window stays where it is.
AccessWithoutMove(v, byte) ==
    [window |-> v, bits |-> {b \in v.buffer : b \div ByteBits =
                                byte % (BufBits \div ByteBits)}]

\* access_table; here bits are the ones of the byte, by their place in the buffer.
AccessTable(v, byte) ==
    LET m == MoveWindow(v, byte \div (BufBits \div ByteBits))
    IN [window |-> m, bits |-> {b \in m.buffer : b \div ByteBits =
                                  byte % (BufBits \div ByteBits)}]

\* What get_ino_pos asks for each slot.
SlotUsed(v, n) ==
    \E b \in AccessTable(v, n \div ByteBits).bits : b % ByteBits = n % ByteBits

\* The window at each sector of the table, one move after the other.
Visits(v) ==
    FoldLeft(LAMBDA s, k : Append(s, MoveWindow(s[Len(s)], k - 1)),
             <<v>>, [k \in 1 .. TableSectors |-> k])

\* Mutant: the bits behind the last whole byte are forgotten.
CountedInWholeBytes(v, inodeMax) ==
    LET seen  == Tail(Visits(v))
        whole == ByteBits * (inodeMax \div ByteBits)
    IN MapThenSumSet(LAMBDA k : Cardinality({b \in seen[k].buffer : b < whole}),
                     DOMAIN seen)

\* inodes_used: the bytes that inode_max fills are counted in each sector, the
\* bits of the next byte in the last one.
InodesUsed(v, inodeMax) ==
    LET seen  == Tail(Visits(v))
        whole == ByteBits * (inodeMax \div ByteBits)
    IN MapThenSumSet(LAMBDA k : Cardinality({b \in seen[k].buffer : b < whole}),
                     DOMAIN seen)
       + Cardinality({b \in seen[TableSectors].buffer :
                        b \in whole .. (inodeMax - 1)})

-----------------------------------------------------------------------------
(* restore_fs, on the allocation table.                                    *)

\* Mutant: all bytes are cleared but the first one.
WipedButTheFirst(v) == [v EXCEPT !.buffer = {b \in @ : b < ByteBits}]

\* Each turn of the loop fills the whole buffer and moves nothing, so the turn
\* for the last sector is what remains: it clears what lies before the end of
\* the table, counted in buffers.
Wiped(v) ==
    LET m == (TableSectors - 1) * BufferSectors * SectorBits
    IN [v EXCEPT !.buffer = {b \in 0 .. (BufBits - 1) : m + b >= TableBits}]

\* The sectors in use are marked again; `bits' are those of metadata and
\* bundles.
RestoreTable(v, bits) ==
    SaveWindow(FoldSet(LAMBDA b, u : WriteSeqGlobal(u, b, 1), Wiped(v), bits))

-----------------------------------------------------------------------------
(* The calls.                                                              *)

\* init_window on the table that fs_mkfs has filled with ones.
Init ==
    /\ used = 0 .. (TableBits - 1)
    /\ w = [disk |-> used, buffer |-> Loaded(used, 0), global_index |-> 0,
            ok |-> TRUE]

\* A sequence found by find_seq_global is not longer than the buffer, and
\* fs_mkfs clears a long one from bit 0 on.
Requests ==
    {r \in (0 .. (TableBits - 1)) \X (1 .. TableBits) :
       /\ r[1] + r[2] <= TableBits
       /\ r[2] <= BufBits \/ r[1] = 0}

Write(index, length) ==
    /\ w' = WriteSeqGlobal(w, index, length)
    /\ used' = WriteSeq(used, index, length)

Delete(index, length) ==
    /\ w' = DeleteSeqGlobal(w, index, length)
    /\ used' = DeleteSeq(used, index, length)

Check(index, length) ==
    /\ w' = CheckSeqGlobal(w, index, length)
    /\ UNCHANGED used

Find(length, garbage) ==
    /\ w' = [FindSeqGlobal(w, length, garbage).window EXCEPT !.ok = TRUE]
    /\ UNCHANGED used

Reload == w' = ReloadWindow(w) /\ UNCHANGED used

\* Mutant: the buffer is not read.
MountWithoutRead == w' = [w EXCEPT !.global_index = 0] /\ UNCHANGED used

\* fs_mount, after a shutdown or inside of fs_create: init_window starts over
\* without saving the buffer.
Mount ==
    /\ w' = [w EXCEPT !.global_index = 0, !.buffer = Loaded(w.disk, 0)]
    /\ UNCHANGED used

\* Mutant: the buffer is cleared for the table.
GetFreeClears ==
    /\ CallsOnWhole
    /\ w' = [w EXCEPT !.buffer = {}]
    /\ UNCHANGED used

CountInodes ==
    /\ w' = [Visits(w)[TableSectors + 1] EXCEPT !.ok = TRUE]
    /\ UNCHANGED used

LoadInodes(byte) ==
    /\ w' = [AccessTable(w, byte).window EXCEPT !.ok = TRUE]
    /\ UNCHANGED used

\* The other bits that are 1 have been lost by an improper shutdown.
Restore(bits) ==
    /\ w' = RestoreTable(w, bits)
    /\ used' = bits

\* fs_getfree reads the table into the buffer of the window.
GetFree ==
    /\ CallsOnWhole
    /\ w' = [w EXCEPT !.buffer = Loaded(w.disk, 0)]
    /\ UNCHANGED used

Next ==
    \/ \E r \in Requests : Write(r[1], r[2])
    \/ \E r \in Requests : Delete(r[1], r[2])
    \/ \E r \in Requests : Check(r[1], r[2])
    \/ \E length \in 1 .. TableBits, garbage \in 0 .. 1 : Find(length, garbage)
    \/ CountInodes
    \/ \E byte \in 0 .. (TableBits \div ByteBits - 1) : LoadInodes(byte)
    \/ Reload
    \/ Mount
    \/ CallsOnWhole /\ \E bits \in SUBSET used : Restore(bits)
    \/ GetFree

Spec == Init /\ [][Next]_vars

-----------------------------------------------------------------------------
(* Properties.                                                             *)

TypeOK == w \in Window /\ used \subseteq 0 .. (TableBits - 1)

\* After every call the table on disk is what the callers have asked for, and
\* the sectors behind it are untouched: a restart loses nothing.
TableIsWhatWasAsked == w.disk = used

\* global_index is the index of the first sector in the buffer: what is in
\* the buffer is what the disk holds there, so a later save writes no sector
\* over another one.
WindowShowsItsSectors == w.buffer = Loaded(w.disk, w.global_index)

\* From wherever the window is, find_seq_global returns the first sequence of
\* zeroes in the table, also one that lies in two windows, and none only if
\* there is none.  Sequences longer than the buffer are left out.
FindIsFirstFit ==
    \A length \in 1 .. BufBits :
      FindSeqGlobalSmall(w, length).index =
        IF HasSeq(used, TableBits, length)
        THEN FindSeq(used, TableBits, length) ELSE NotFound

\* check_seq_global is true exactly if the whole sequence is zero.
CheckIsExact ==
    \A r \in Requests :
      CheckSeqGlobal(w, r[1], r[2]).ok <=> CheckSeq(used, r[1], r[2])

\* Whichever window another call has left, get_ino_pos finds the inodes that
\* are in use and no others.
SlotsAreFound == \A n \in 0 .. (TableBits - 1) : SlotUsed(w, n) <=> n \in used

\* defragment makes room for as many inodes as inodes_used counts, before it
\* loads those in use: they have room, if inode_max is within a sector and the
\* bits from there on are 1.  Of a table of one sector the count is right.
InodesHaveRoom ==
    \A inodeMax \in 1 .. SectorBits :
      LET loaded  == Cardinality(used \cap (0 .. (inodeMax - 1)))
          counted == InodesUsed(w, inodeMax)
      IN inodeMax .. (TableBits - 1) \subseteq used =>
           /\ counted >= loaded
           /\ TableSectors = 1 => counted = loaded
=============================================================================
