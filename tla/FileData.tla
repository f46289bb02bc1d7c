------------------------------ MODULE FileData ------------------------------
(***************************************************************************)
(* The data of bundles: fs_write, fs_read and the checksum of a sector     *)
(* (hardware_specifics.c).  A bundle has the sectors from its location on; *)
(* each holds Payload bytes and, behind them, a checksum.  The bytes that  *)
(* the last sector has too many are 0xFF.  fs_write writes one sector      *)
(* after the other and may be cut off in between.                          *)
(*                                                                         *)
(* A byte has one bit here and is a word of the checksum of its own, so    *)
(* that exclusive or is whether the number of ones is odd.                 *)
(***************************************************************************)
EXTENDS Integers, FiniteSets

CONSTANTS
    Payload,        \* sector_size - check_size()
    Files,          \* the bundles: records of a location and a size
    MaxCorruptions, \* bound: bits of a sector that the medium may flip
    MaxVersions,    \* bound: contents that the sectors of a bundle may be of
    NoWrite         \* no fs_write is going on

ASSUME DataAssumption ==
    /\ Payload \in Nat \ {0}
    /\ \A f \in Files : f.location \in Nat /\ f.size \in Nat \ {0}
    /\ MaxCorruptions \in Nat
    /\ MaxVersions \in Nat

VARIABLES
    sectors,     \* the sectors of the disk that belong to bundles
    writing,     \* the fs_write that is going on, or NoWrite
    versions,    \* what the last fs_write of each bundle that returned has
                 \* written, and those that were begun since
    flips        \* bits of a sector that were flipped since it was written

vars == <<sectors, writing, versions, flips>>

Byte == 0 .. 1
Padding == 1

Count(f) == (f.size + Payload - 1) \div Payload

SectorsOf(f) == f.location .. (f.location + Count(f) - 1)

ASSUME FilesAreApart ==
    \A f, g \in Files : f # g => SectorsOf(f) \cap SectorsOf(g) = {}

Sector == [data : [0 .. (Payload - 1) -> Byte], check : Byte]

Buffer(f) == [0 .. (f.size - 1) -> Byte]

-----------------------------------------------------------------------------
(* fs_write and fs_read.                                                   *)

\* Mutant: the last word is forgotten.
ChecksumShort(data) ==
    Cardinality({k \in DOMAIN data \ {Payload - 1} : data[k] = 1}) % 2

\* calc_crc32_8, the exclusive or of the words: 1 if an odd number of them is.
Checksum(data) == Cardinality({k \in DOMAIN data : data[k] = 1}) % 2

pad(f) == f.size % Payload

\* Mutant: the last sector begins one byte late.
SectorDataLate(f, buffer, i) ==
    [k \in 0 .. (Payload - 1) |->
       IF i < Count(f) - 1 THEN buffer[i * Payload + k]
       ELSE IF k < pad(f) /\ k > 0 THEN buffer[i * Payload + k - 1]
       ELSE Padding]

\* Mutant: the place in the buffer is not moved on.
SectorDataFromStart(f, buffer, i) ==
    [k \in 0 .. (Payload - 1) |->
       IF i < Count(f) - 1 \/ k < pad(f) THEN buffer[k] ELSE Padding]

\* The bytes of sector i of a bundle.
SectorData(f, buffer, i) ==
    [k \in 0 .. (Payload - 1) |->
       IF i < Count(f) - 1 \/ k < pad(f) THEN buffer[i * Payload + k]
       ELSE Padding]

BeginWrite(f, buffer) ==
    /\ writing = NoWrite
    /\ Cardinality(versions[f] \cup {buffer}) <= MaxVersions
    /\ writing' = [file |-> f, buffer |-> buffer, i |-> 0]
    /\ versions' = [versions EXCEPT ![f] = @ \cup {buffer}]
    /\ UNCHANGED <<sectors, flips>>

\* One turn of the loop, or what follows it for the last sector; with that
\* fs_write returns.
WriteSector ==
    /\ writing # NoWrite
    /\ LET f    == writing.file
           s    == f.location + writing.i
           data == SectorData(f, writing.buffer, writing.i)
       IN /\ sectors' = [sectors EXCEPT ![s] = [data  |-> data,
                                                check |-> Checksum(data)]]
          /\ flips' = [flips EXCEPT ![s] = 0]
          /\ IF writing.i = Count(f) - 1
             THEN /\ writing' = NoWrite
                  /\ versions' = [versions EXCEPT ![f] = {writing.buffer}]
             ELSE /\ writing' = [writing EXCEPT !.i = @ + 1]
                  /\ UNCHANGED versions

PowerFails ==
    /\ writing # NoWrite
    /\ writing' = NoWrite
    /\ UNCHANGED <<sectors, versions, flips>>

\* The medium loses a bit of the data.
Corrupt(s, k) ==
    /\ flips[s] < MaxCorruptions
    /\ sectors' = [sectors EXCEPT ![s].data[k] = 1 - @]
    /\ flips' = [flips EXCEPT ![s] = @ + 1]
    /\ UNCHANGED <<writing, versions>>

Intact(s) == sectors[s].check = Checksum(sectors[s].data)

\* The positions of the buffer that fs_read sets when it returns FS_OK.
Copied(f) == 0 .. ((Count(f) - 1) * Payload + pad(f) - 1)

\* The checksum of a sector is looked at when the sector has been copied, so
\* that the caller's buffer holds the sectors up to the first bad one, too.
\* length only is compared with the size.
FsRead(f, length) ==
    LET bad  == {i \in 0 .. (Count(f) - 1) : ~Intact(f.location + i)}
        read == {b \in Copied(f) : \A i \in bad : b \div Payload <= i}
    IN IF length > f.size
       THEN [code |-> "FS_PARAM_ERROR", buffer |-> <<>>]
       ELSE [code   |-> IF bad = {} THEN "FS_OK" ELSE "FS_CHECK_ERROR",
             buffer |-> [b \in read |-> sectors[f.location + b \div Payload]
                                          .data[b % Payload]]]

-----------------------------------------------------------------------------

\* What the sectors of a new bundle hold; the checksum fits.
Old == [data |-> [k \in 0 .. (Payload - 1) |-> 0], check |-> 0]

\* No bundle has been written yet: the old content counts as its only version.
Init ==
    /\ writing = NoWrite
    /\ versions = [f \in Files |-> {[b \in Copied(f) |-> 0]}]
    /\ sectors = [s \in UNION {SectorsOf(f) : f \in Files} |-> Old]
    /\ flips = [s \in DOMAIN sectors |-> 0]

Next ==
    \/ \E f \in Files : \E buffer \in Buffer(f) : BeginWrite(f, buffer)
    \/ WriteSector
    \/ PowerFails
    \/ \E s \in DOMAIN sectors, k \in 0 .. (Payload - 1) : Corrupt(s, k)

Spec == Init /\ [][Next]_vars

-----------------------------------------------------------------------------
(* Properties.                                                             *)

\* What fs_read returns with FS_OK is what was written last, byte for byte,
\* however many sectors it needs, whatever was written to its neighbours and
\* however often an fs_write of the same data was cut off and repeated.
ReadReturnsWritten ==
    \A f \in Files :
      FsRead(f, f.size).code = "FS_OK" =>
        \A buffer \in versions[f] :
          versions[f] = {buffer} => FsRead(f, f.size).buffer = buffer

\* After an fs_write that was cut off, fs_read returns a mixture with FS_OK: but
\* each of its sectors is wholly one that was to be written there, or one that was
\* there before.
SectorsAreWhole ==
    \A f \in Files :
      LET r     == FsRead(f, f.size)
          of(i) == {b \in DOMAIN r.buffer : b \div Payload = i}
      IN r.code = "FS_OK" =>
           \A i \in 0 .. (Count(f) - 1) : \E buffer \in versions[f] :
             \A b \in of(i) : r.buffer[b] = buffer[b]

\* A lost bit is noticed, and only a lost bit makes fs_read fail, also when the
\* sectors come from different calls of fs_write.
CorruptionIsNoticed ==
    \A f \in Files :
      (FsRead(f, f.size).code = "FS_CHECK_ERROR") <=>
        \E s \in SectorsOf(f) : flips[s] > 0
=============================================================================
