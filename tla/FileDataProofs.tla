--------------------------- MODULE FileDataProofs ---------------------------
(***************************************************************************)
(* Proofs about FileData for bundles of every size, at all places where    *)
(* they do not overlap, and for every number of calls of fs_write that     *)
(* return or are cut off.  A sector of which no bit was lost is, with all  *)
(* of its bytes, one that some fs_write was to put there (DataInv); one    *)
(* lost bit changes the checksum, so that fs_read never takes it for such  *)
(* a sector.                                                               *)
(***************************************************************************)
EXTENDS FileData, FiniteSetTheorems, TLAPS

\* An exclusive or finds one lost bit in a sector, not two.
OneFlip == MaxCorruptions <= 1

\* The bundles that do not fill their last sector; the others lose what is in
\* it, see the README.
PartlyFilled == \A f \in Files : pad(f) # 0

Places == UNION {SectorsOf(f) : f \in Files}

Bytes == 0 .. (Payload - 1)

\* Sector i of a bundle holds what belongs there of the buffer.
Agrees(f, i, buffer) ==
    \A k \in Bytes :
      i * Payload + k \in Copied(f) =>
        sectors[f.location + i].data[k] = buffer[i * Payload + k]

\* All writes of the current fs_write up to sector i have been made.
WrittenUpTo(i) ==
    \A j \in 0 .. (i - 1) :
      flips[writing.file.location + j] = 0 =>
        Agrees(writing.file, j, writing.buffer)

Typed ==
    /\ sectors \in [Places -> Sector]
    /\ flips \in [Places -> 0 .. 1]
    /\ versions = [f \in Files |-> versions[f]]

\* The checksum fits exactly the sectors that have lost nothing.
ChecksFit == \A s \in Places : flips[s] = 0 <=> Intact(s)

SectorsWhole ==
    \A f \in Files : \A i \in 0 .. (Count(f) - 1) :
      flips[f.location + i] = 0 =>
        \E buffer \in versions[f] : Agrees(f, i, buffer)

WriteGoesOn ==
    writing # NoWrite =>
      /\ writing = [file |-> writing.file, buffer |-> writing.buffer,
                    i |-> writing.i]
      /\ writing.file \in Files
      /\ writing.buffer \in Buffer(writing.file)
      /\ writing.buffer \in versions[writing.file]
      /\ writing.i \in 0 .. (Count(writing.file) - 1)
      /\ WrittenUpTo(writing.i)

DataInv == Typed /\ ChecksFit /\ SectorsWhole /\ WriteGoesOn

-----------------------------------------------------------------------------
(* Arithmetic of sectors.                                                  *)

\* Multiplication by the size of a sector keeps the order.
LEMMA TimesPayload ==
    ASSUME NEW a \in Int, NEW b \in Int, a <= b
    PROVE  a * Payload <= b * Payload
  BY DataAssumption

\* How the size of a bundle is split into sectors.
LEMMA SizeInSectors ==
    ASSUME NEW f \in Files
    PROVE  /\ f.size \in Nat \ {0} /\ f.location \in Nat
           /\ Count(f) \in Nat \ {0}
           /\ pad(f) \in 0 .. (Payload - 1)
           /\ pad(f) = 0 => f.size = Count(f) * Payload
           /\ pad(f) # 0 => f.size = (Count(f) - 1) * Payload + pad(f)
<1> DEFINE z == f.size
           q == z \div Payload
           r == z % Payload
<1>1. z \in Nat \ {0} /\ f.location \in Nat /\ Payload \in Nat \ {0}
  BY DataAssumption
<1> HIDE DEF z
<1>2. q \in Nat /\ r \in 0 .. (Payload - 1) /\ z = q * Payload + r
  BY <1>1
<1>3. CASE r = 0
  <2>1. q # 0
    BY <1>1, <1>2, <1>3
  <2>2. (z + Payload - 1) \div Payload = q
    BY <1>1, <1>2, <1>3
  <2> QED
    BY <1>1, <1>2, <1>3, <2>1, <2>2 DEF Count, pad, z
<1>4. CASE r # 0
  <2>1. (z + Payload - 1) \div Payload = q + 1
    BY <1>1, <1>2, <1>4
  <2>2. Count(f) = q + 1 /\ pad(f) = r
    BY <2>1 DEF Count, pad, z
  <2> HIDE DEF q, r
  <2> QED
    BY <1>1, <1>2, <1>4, <2>2 DEF z
<1> QED
  BY <1>3, <1>4

\* The bytes that a sector takes from the buffer are in the buffer.
LEMMA BytesInBuffer ==
    ASSUME NEW f \in Files, NEW i \in 0 .. (Count(f) - 1), NEW k \in Bytes,
           i < Count(f) - 1 \/ k < pad(f)
    PROVE  i * Payload + k \in 0 .. (f.size - 1)
<1> DEFINE c == Count(f)
           p == pad(f)
<1>1. /\ c \in Nat \ {0} /\ p \in 0 .. (Payload - 1) /\ f.size \in Nat
      /\ p = 0 => f.size = c * Payload
      /\ p # 0 => f.size = (c - 1) * Payload + p
      /\ Payload \in Nat \ {0} /\ i \in 0 .. (c - 1) /\ k \in 0 .. (Payload - 1)
      /\ i < c - 1 \/ k < p
  BY SizeInSectors, DataAssumption DEF Bytes
<1> HIDE DEF c, p
<1>2. i * Payload \in Nat /\ (c - 1) * Payload \in Nat
      /\ c * Payload = (c - 1) * Payload + Payload
  BY <1>1
<1>3. CASE i < c - 1
  <2>1. (i + 1) * Payload <= (c - 1) * Payload
    BY <1>1, <1>3, TimesPayload
  <2>2. (i + 1) * Payload = i * Payload + Payload
    BY <1>1
  <2> QED
    BY <1>1, <1>2, <2>1, <2>2
<1>4. CASE i = c - 1 /\ k < p
  BY <1>1, <1>2, <1>4
<1> QED
  BY <1>1, <1>3, <1>4

\* What fs_read copies from a sector, fs_write has taken from the buffer.
LEMMA CopiedAreTaken ==
    ASSUME NEW f \in Files, NEW i \in 0 .. (Count(f) - 1), NEW k \in Bytes,
           i * Payload + k \in Copied(f)
    PROVE  i < Count(f) - 1 \/ k < pad(f)
<1> DEFINE c == Count(f)
           p == pad(f)
<1>1. /\ c \in Nat \ {0} /\ p \in 0 .. (Payload - 1)
      /\ Payload \in Nat \ {0} /\ i \in 0 .. (c - 1) /\ k \in 0 .. (Payload - 1)
      /\ i * Payload + k \in 0 .. ((c - 1) * Payload + p - 1)
  BY SizeInSectors, DataAssumption DEF Bytes, Copied
<1> HIDE DEF c, p
<1>2. CASE i = c - 1
  <2> DEFINE x == i * Payload
             m == (c - 1) * Payload
  <2>1. x = m /\ m \in Nat
    BY <1>1, <1>2
  <2>2. x + k \in 0 .. (m + p - 1)
    BY <1>1
  <2> HIDE DEF x, m
  <2>3. k < p
    BY <1>1, <2>1, <2>2
  <2> QED
    BY <2>3 DEF p
<1> QED
  BY <1>1, <1>2 DEF c, p

\* The place of a byte in the sectors.
LEMMA ByteInSector ==
    ASSUME NEW f \in Files, NEW b \in Copied(f)
    PROVE  /\ b \div Payload \in 0 .. (Count(f) - 1)
           /\ b % Payload \in Bytes
           /\ (b \div Payload) * Payload + (b % Payload) = b
<1> DEFINE c == Count(f)
           p == pad(f)
           q == b \div Payload
           r == b % Payload
<1>1. /\ c \in Nat \ {0} /\ p \in 0 .. (Payload - 1)
      /\ Payload \in Nat \ {0}
      /\ b \in 0 .. ((c - 1) * Payload + p - 1)
  BY SizeInSectors, DataAssumption DEF Copied
<1> HIDE DEF c, p
<1>2. q \in Nat /\ r \in 0 .. (Payload - 1) /\ q * Payload + r = b
  BY <1>1
<1> HIDE DEF q, r
<1>3. q < c
  <2>1. c <= q => c * Payload <= q * Payload
    BY <1>1, <1>2, TimesPayload
  <2>2. c * Payload = (c - 1) * Payload + Payload
        /\ c * Payload \in Nat /\ q * Payload \in Nat
    BY <1>1, <1>2
  <2> QED
    BY <1>1, <1>2, <2>1, <2>2
<1>4. q \in 0 .. (c - 1) /\ r \in Bytes /\ q * Payload + r = b
  BY <1>1, <1>2, <1>3 DEF Bytes
<1> QED
  BY <1>4 DEF c, q, r

\* Sectors belong to one bundle and one part of it.
LEMMA PlaceIsOne ==
    ASSUME NEW f \in Files, NEW i \in 0 .. (Count(f) - 1),
           NEW g \in Files, NEW j \in 0 .. (Count(g) - 1),
           f.location + i = g.location + j
    PROVE  f = g /\ i = j
<1>1. f.location + i \in SectorsOf(f) /\ g.location + j \in SectorsOf(g)
  BY SizeInSectors DEF SectorsOf
<1>2. f = g
  BY <1>1, FilesAreApart
<1> QED
  BY <1>2, SizeInSectors

\* Each of the sectors of a bundle is on the disk.
LEMMA PlaceExists ==
    ASSUME NEW f \in Files, NEW i \in 0 .. (Count(f) - 1)
    PROVE  f.location + i \in Places
<1>1. f.location + i \in SectorsOf(f)
  BY SizeInSectors DEF SectorsOf
<1> QED
  BY <1>1 DEF Places

-----------------------------------------------------------------------------
(* The checksum.                                                           *)

\* A checksum is a word of one bit.
LEMMA ChecksumTyped ==
    ASSUME NEW data \in [Bytes -> Byte]
    PROVE  Checksum(data) \in Byte
<1> DEFINE S == {k \in DOMAIN data : data[k] = 1}
<1>1. IsFiniteSet(S)
  <2>1. IsFiniteSet(Bytes) /\ S \in SUBSET Bytes
    BY FS_Interval, DataAssumption DEF Bytes
  <2> QED
    BY <2>1, FS_Subset
<1>2. Cardinality(S) \in Nat
  BY <1>1, FS_CardinalityType
<1> QED
  BY <1>2 DEF Checksum, Byte

\* One lost bit changes the checksum.
LEMMA FlipChangesChecksum ==
    ASSUME NEW data \in [Bytes -> Byte], NEW k \in Bytes
    PROVE  LET e == [data EXCEPT ![k] = 1 - @] IN
           /\ e \in [Bytes -> Byte]
           /\ Checksum(e) # Checksum(data)
<1> DEFINE e == [data EXCEPT ![k] = 1 - @]
           S == {m \in DOMAIN data : data[m] = 1}
           T == {m \in DOMAIN e : e[m] = 1}
<1>1. /\ e \in [Bytes -> Byte]
      /\ \A m \in Bytes : e[m] = IF m = k THEN 1 - data[m] ELSE data[m]
      /\ data[k] \in 0 .. 1
  BY DEF Byte
<1>2. S = {m \in Bytes : data[m] = 1} /\ T = {m \in Bytes : e[m] = 1}
  BY <1>1
<1> HIDE DEF e
<1>5. IsFiniteSet(S)
  <2>1. IsFiniteSet(Bytes) /\ S \in SUBSET Bytes
    BY <1>2, FS_Interval, DataAssumption DEF Bytes
  <2> QED
    BY <2>1, FS_Subset
<1>3. CASE data[k] = 1
  <2>1. T = S \ {k} /\ k \in S
    BY <1>1, <1>2, <1>3
  <2> QED
    <3>2. Cardinality(S) \in Nat /\ Cardinality(T) = Cardinality(S) - 1
      <4> HIDE DEF S, T
      <4> QED
        BY <1>5, <2>1, FS_RemoveElement, FS_CardinalityType
    <3>3. Cardinality(T) % 2 # Cardinality(S) % 2
      BY <3>2
    <3> QED
      BY <1>1, <3>3 DEF Checksum, e
<1>4. CASE data[k] = 0
  <2>1. T = S \cup {k} /\ k \notin S
    BY <1>1, <1>2, <1>4
  <2> QED
    <3>2. Cardinality(S) \in Nat /\ Cardinality(T) = Cardinality(S) + 1
      <4> HIDE DEF S, T
      <4> QED
        BY <1>5, <2>1, FS_AddElement, FS_CardinalityType
    <3>3. Cardinality(T) % 2 # Cardinality(S) % 2
      BY <3>2
    <3> QED
      BY <1>1, <3>3 DEF Checksum, e
<1> QED
  BY <1>1, <1>3, <1>4

\* What fs_write makes of a part of the buffer is a sector.
LEMMA SectorDataTyped ==
    ASSUME NEW f \in Files, NEW buffer \in Buffer(f),
           NEW i \in 0 .. (Count(f) - 1)
    PROVE  /\ SectorData(f, buffer, i) \in [Bytes -> Byte]
           /\ \A k \in Bytes :
                i * Payload + k \in Copied(f) =>
                  SectorData(f, buffer, i)[k] = buffer[i * Payload + k]
<1>1. ASSUME NEW k \in Bytes, i < Count(f) - 1 \/ k < pad(f)
      PROVE  buffer[i * Payload + k] \in Byte
  BY <1>1, BytesInBuffer DEF Buffer
<1>2. Padding \in Byte
  BY DEF Padding, Byte
<1>3. \A k \in Bytes : i * Payload + k \in Copied(f) =>
                         i < Count(f) - 1 \/ k < pad(f)
  BY CopiedAreTaken
<1>4. SectorData(f, buffer, i) =
        [k \in Bytes |-> IF i < Count(f) - 1 \/ k < pad(f)
                         THEN buffer[i * Payload + k] ELSE Padding]
  BY DEF SectorData, Bytes
<1> QED
  BY <1>1, <1>2, <1>3, <1>4

-----------------------------------------------------------------------------
(* The invariant.                                                          *)

\* The old content counts as written.
LEMMA DataInitInv == Init => DataInv
<1> SUFFICES ASSUME Init PROVE DataInv
  OBVIOUS
<1>1. /\ writing = NoWrite
      /\ versions = [f \in Files |-> {[b \in Copied(f) |-> 0]}]
      /\ sectors = [s \in Places |-> Old]
      /\ flips = [s \in Places |-> 0]
  BY DEF Init, Places
<1>2. Old.data = [k \in Bytes |-> 0] /\ Old.check = 0 /\ Old \in Sector
  BY DEF Old, Bytes, Sector, Byte
<1>3. Checksum(Old.data) = 0
  <2> DEFINE S == {k \in DOMAIN Old.data : Old.data[k] = 1}
  <2>1. S = {}
    BY <1>2
  <2> HIDE DEF S
  <2>2. Cardinality(S) = 0
    BY <2>1, FS_EmptySet
  <2> QED
    BY <2>2 DEF S, Checksum
<1>4. Typed
  BY <1>1, <1>2 DEF Typed
<1>5. ChecksFit
  BY <1>1, <1>2, <1>3 DEF ChecksFit, Intact
<1>6. SectorsWhole
  <2> SUFFICES ASSUME NEW f \in Files, NEW i \in 0 .. (Count(f) - 1)
               PROVE  \E buffer \in versions[f] : Agrees(f, i, buffer)
    BY DEF SectorsWhole
  <2>1. f.location + i \in Places
    BY PlaceExists
  <2>2. sectors[f.location + i].data = [k \in Bytes |-> 0]
    BY <1>1, <1>2, <2>1
  <2>3. Agrees(f, i, [b \in Copied(f) |-> 0])
    BY <2>2 DEF Agrees
  <2> QED
    BY <1>1, <2>3
<1> QED
  BY <1>1, <1>4, <1>5, <1>6 DEF DataInv, WriteGoesOn

\* fs_write begins.
LEMMA BeginWriteInv ==
    ASSUME DataInv, NEW f \in Files, NEW buffer \in Buffer(f),
           BeginWrite(f, buffer)
    PROVE  DataInv'
<1>1. /\ sectors' = sectors /\ flips' = flips
      /\ writing' = [file |-> f, buffer |-> buffer, i |-> 0]
      /\ versions' = [versions EXCEPT ![f] = @ \cup {buffer}]
      /\ Typed /\ ChecksFit /\ SectorsWhole
  BY DEF BeginWrite, DataInv
<1>2. /\ \A g \in Files : versions[g] \subseteq versions'[g]
      /\ buffer \in versions'[f] /\ versions' = [g \in Files |-> versions'[g]]
  BY <1>1 DEF Typed
<1>3. Typed' /\ ChecksFit'
  BY <1>1, <1>2 DEF Typed, ChecksFit, Intact
<1>4. SectorsWhole'
  BY <1>1, <1>2 DEF SectorsWhole, Agrees
<1>5. WriteGoesOn'
  <2>1. 0 \in 0 .. (Count(f) - 1)
    BY SizeInSectors
  <2>2. writing'.file = f /\ writing'.buffer = buffer /\ writing'.i = 0
    BY <1>1
  <2>3. WrittenUpTo(writing.i)'
    BY <2>2 DEF WrittenUpTo
  <2>4. writing' = [file |-> writing'.file, buffer |-> writing'.buffer,
                    i |-> writing'.i]
    BY <1>1, <2>2
  <2> QED
    BY <1>2, <2>1, <2>2, <2>3, <2>4 DEF WriteGoesOn
<1> QED
  BY <1>3, <1>4, <1>5 DEF DataInv

\* A sector is written; with the last one all of the bundle is of one buffer.
LEMMA WriteSectorInv ==
    ASSUME DataInv, WriteSector
    PROVE  DataInv'
<1> PICK f, i, buffer :
           f = writing.file /\ i = writing.i /\ buffer = writing.buffer
  OBVIOUS
<1> DEFINE s == f.location + i
           data == SectorData(f, buffer, i)
           new == [data |-> data, check |-> Checksum(data)]
<1>1. /\ f \in Files /\ buffer \in Buffer(f) /\ buffer \in versions[f]
      /\ i \in 0 .. (Count(f) - 1)
      /\ WrittenUpTo(i) /\ Typed /\ ChecksFit /\ SectorsWhole
      /\ writing = [file |-> f, buffer |-> buffer, i |-> i]
  BY DEF WriteSector, DataInv, WriteGoesOn
<1>2. s \in Places
  BY <1>1, PlaceExists
<1>3. /\ sectors' = [sectors EXCEPT ![s] = new]
      /\ flips' = [flips EXCEPT ![s] = 0]
      /\ IF i = Count(f) - 1
         THEN /\ writing' = NoWrite
              /\ versions' = [versions EXCEPT ![f] = {buffer}]
         ELSE /\ writing' = [writing EXCEPT !.i = i + 1]
              /\ UNCHANGED versions
  BY DEF WriteSector
<1>4. /\ data \in [Bytes -> Byte]
      /\ \A k \in Bytes : i * Payload + k \in Copied(f) =>
                            data[k] = buffer[i * Payload + k]
  BY <1>1, SectorDataTyped
<1> HIDE DEF data
<1>5. new \in Sector /\ new.data = data /\ new.check = Checksum(data)
  BY <1>4, ChecksumTyped DEF Sector, Bytes
<1> HIDE DEF new
<1>6. /\ sectors'[s] = new /\ flips'[s] = 0
      /\ \A t \in Places \ {s} : sectors'[t] = sectors[t] /\ flips'[t] = flips[t]
      /\ sectors' \in [Places -> Sector] /\ flips' \in [Places -> 0 .. 1]
  BY <1>1, <1>2, <1>3, <1>5 DEF Typed
<1>7. versions' = [g \in Files |-> versions'[g]] /\ buffer \in versions'[f]
      /\ \A g \in Files : g # f => versions'[g] = versions[g]
  BY <1>1, <1>3 DEF Typed
<1>8. Typed'
  BY <1>6, <1>7 DEF Typed
<1>9. ChecksFit'
  <2> SUFFICES ASSUME NEW t \in Places PROVE (flips[t] = 0 <=> Intact(t))'
    BY DEF ChecksFit
  <2> QED
    BY <1>1, <1>5, <1>6 DEF ChecksFit, Intact
<1> HIDE DEF s
<1>10. Agrees(f, i, buffer)'
  BY <1>4, <1>5, <1>6 DEF Agrees, s
<1>11. ASSUME NEW g \in Files, NEW j \in 0 .. (Count(g) - 1), NEW b,
              g # f \/ j # i
       PROVE  /\ flips'[g.location + j] = flips[g.location + j]
              /\ Agrees(g, j, b)' <=> Agrees(g, j, b)
  <2>1. g.location + j \in Places
    BY PlaceExists
  <2>2. g.location + j # s
    BY <1>1, <1>11, PlaceIsOne DEF s
  <2> QED
    BY <1>6, <2>1, <2>2 DEF Agrees
<1>12. ASSUME NEW j \in 0 .. i, flips'[f.location + j] = 0
       PROVE  Agrees(f, j, buffer)'
  <2>1. CASE j = i
    BY <1>10, <2>1
  <2>2. CASE j # i
    <3>1. j \in 0 .. (i - 1) /\ j \in 0 .. (Count(f) - 1)
      BY <1>1, <2>2, SizeInSectors
    <3>2. flips[f.location + j] = 0
      BY <1>1, <1>11, <1>12, <2>2, <3>1
    <3>3. Agrees(f, j, buffer)
      BY <1>1, <3>1, <3>2 DEF WrittenUpTo
    <3> QED
      BY <1>1, <1>11, <2>2, <3>1, <3>3
  <2> QED
    BY <2>1, <2>2
<1>13. SectorsWhole'
  <2> SUFFICES ASSUME NEW g \in Files, NEW j \in 0 .. (Count(g) - 1),
                      flips'[g.location + j] = 0
               PROVE  \E b \in versions'[g] : Agrees(g, j, b)'
    BY DEF SectorsWhole
  <2>1. CASE g # f
    BY <1>1, <1>7, <1>11, <2>1 DEF SectorsWhole
  <2>2. CASE g = f /\ j = i
    BY <1>7, <1>10, <2>2
  <2>3. CASE g = f /\ j # i /\ i = Count(f) - 1
    <3>1. j \in 0 .. i
      BY <2>3
    <3> QED
      BY <1>7, <1>12, <2>3, <3>1
  <2>4. CASE g = f /\ j # i /\ i # Count(f) - 1
    <3>1. versions' = versions
      BY <1>3, <2>4
    <3>2. PICK b \in versions[g] : Agrees(g, j, b)
      BY <1>1, <1>11, <2>4 DEF SectorsWhole
    <3> QED
      BY <1>11, <2>4, <3>1, <3>2
  <2> QED
    BY <2>1, <2>2, <2>3, <2>4
<1>14. WriteGoesOn'
  <2>1. CASE i = Count(f) - 1
    BY <1>3, <2>1 DEF WriteGoesOn
  <2>2. CASE i # Count(f) - 1
    <3>1. writing' = [file |-> f, buffer |-> buffer, i |-> i + 1]
      BY <1>1, <1>3, <2>2
    <3>2. writing'.file = f /\ writing'.buffer = buffer /\ writing'.i = i + 1
      BY <3>1
    <3>3. i + 1 \in 0 .. (Count(f) - 1) /\ (i + 1) - 1 = i
      BY <1>1, <2>2, SizeInSectors
    <3>4. WrittenUpTo(writing.i)'
      BY <1>12, <3>2, <3>3 DEF WrittenUpTo
    <3>5. writing' = [file |-> writing'.file, buffer |-> writing'.buffer,
                      i |-> writing'.i]
      BY <3>1, <3>2
    <3> QED
      BY <1>1, <1>7, <3>2, <3>3, <3>4, <3>5 DEF WriteGoesOn
  <2> QED
    BY <2>1, <2>2
<1> QED
  BY <1>8, <1>9, <1>13, <1>14 DEF DataInv

\* A bit is lost: the sector no longer passes for what was written.
LEMMA CorruptInv ==
    ASSUME OneFlip, DataInv, NEW s \in Places, NEW k \in Bytes, Corrupt(s, k)
    PROVE  DataInv'
<1> DEFINE data == [sectors[s].data EXCEPT ![k] = 1 - @]
<1>1. /\ Typed /\ ChecksFit /\ SectorsWhole /\ WriteGoesOn
      /\ flips[s] < MaxCorruptions
      /\ sectors' = [sectors EXCEPT ![s].data[k] = 1 - @]
      /\ flips' = [flips EXCEPT ![s] = @ + 1]
      /\ writing' = writing /\ versions' = versions
  BY DEF Corrupt, DataInv
<1>2. flips[s] = 0
  <2>1. flips[s] \in 0 .. 1
    BY <1>1 DEF Typed
  <2> QED
    BY <1>1, <2>1, DataAssumption DEF OneFlip
<1>3. sectors[s] \in Sector /\ sectors[s].data \in [Bytes -> Byte]
  BY <1>1 DEF Typed, Sector, Bytes
<1>4. data \in [Bytes -> Byte] /\ Checksum(data) # Checksum(sectors[s].data)
  BY <1>3, FlipChangesChecksum
<1>5. sectors' = [sectors EXCEPT ![s] = [@ EXCEPT !.data = data]]
  BY <1>1
<1> HIDE DEF data
<1>6. /\ sectors'[s].data = data /\ sectors'[s].check = sectors[s].check
      /\ sectors'[s] \in Sector /\ flips'[s] = 1
      /\ \A t \in Places \ {s} : sectors'[t] = sectors[t] /\ flips'[t] = flips[t]
      /\ sectors' \in [Places -> Sector] /\ flips' \in [Places -> 0 .. 1]
  <2>1. [sectors[s] EXCEPT !.data = data]
          = [data |-> data, check |-> sectors[s].check]
    BY <1>3 DEF Sector
  <2>2. [data |-> data, check |-> sectors[s].check] \in Sector
    BY <1>3, <1>4 DEF Sector, Bytes
  <2> QED
    BY <1>1, <1>2, <1>5, <2>1, <2>2 DEF Typed
<1>7. Typed'
  BY <1>1, <1>6 DEF Typed
<1>8. ChecksFit'
  <2> SUFFICES ASSUME NEW t \in Places PROVE (flips[t] = 0 <=> Intact(t))'
    BY DEF ChecksFit
  <2>1. sectors[s].check = Checksum(sectors[s].data)
    BY <1>1, <1>2 DEF ChecksFit, Intact
  <2> QED
    BY <1>1, <1>4, <1>6, <2>1 DEF ChecksFit, Intact
<1>9. ASSUME NEW g \in Files, NEW j \in 0 .. (Count(g) - 1), NEW b,
             flips'[g.location + j] = 0
      PROVE  /\ flips[g.location + j] = 0
             /\ Agrees(g, j, b)' <=> Agrees(g, j, b)
  <2>1. g.location + j \in Places /\ g.location + j # s
    BY <1>6, <1>9, PlaceExists
  <2> QED
    BY <1>6, <1>9, <2>1 DEF Agrees
<1>10. SectorsWhole'
  BY <1>1, <1>9 DEF SectorsWhole
<1>11. WriteGoesOn'
  <2>1. CASE writing = NoWrite
    BY <1>1, <2>1 DEF WriteGoesOn
  <2>2. CASE writing # NoWrite
    <3>1. \A j \in 0 .. (writing.i - 1) : j \in 0 .. (Count(writing.file) - 1)
      BY <1>1, <2>2, SizeInSectors DEF WriteGoesOn
    <3>2. WrittenUpTo(writing.i)'
      BY <1>1, <1>9, <2>2, <3>1 DEF WriteGoesOn, WrittenUpTo
    <3> QED
      BY <1>1, <2>2, <3>2 DEF WriteGoesOn
  <2> QED
    BY <2>1, <2>2
<1> QED
  BY <1>7, <1>8, <1>10, <1>11 DEF DataInv

\* Every step keeps the invariant.
LEMMA DataNextInv ==
    ASSUME OneFlip, DataInv, [Next]_vars
    PROVE  DataInv'
<1>1. CASE PowerFails
  BY <1>1 DEF PowerFails, DataInv, Typed, ChecksFit, Intact, SectorsWhole,
              Agrees, WriteGoesOn
<1>2. CASE UNCHANGED vars
  BY <1>2 DEF vars, DataInv, Typed, ChecksFit, Intact, SectorsWhole,
              Agrees, WriteGoesOn, WrittenUpTo
<1>3. DOMAIN sectors = Places
  BY DEF DataInv, Typed
<1> QED
  BY <1>1, <1>2, <1>3, BeginWriteInv, WriteSectorInv, CorruptInv DEF Next, Bytes

-----------------------------------------------------------------------------
(* The theorems.                                                           *)

\* What fs_read finds: no sector has lost a bit, and then all is copied.
LEMMA ReadFinds ==
    ASSUME DataInv, NEW f \in Files
    PROVE  LET r == FsRead(f, f.size) IN
           /\ r.code \in {"FS_OK", "FS_CHECK_ERROR"}
           /\ r.code = "FS_OK" <=> \A i \in 0 .. (Count(f) - 1) :
                                     flips[f.location + i] = 0
           /\ r.code = "FS_OK" =>
                r.buffer = [b \in Copied(f) |->
                              sectors[f.location + b \div Payload]
                                .data[b % Payload]]
<1> DEFINE bad == {i \in 0 .. (Count(f) - 1) : ~Intact(f.location + i)}
           read == {b \in Copied(f) : \A i \in bad : b \div Payload <= i}
           buffer == [b \in read |-> sectors[f.location + b \div Payload]
                                       .data[b % Payload]]
<1>1. ~(f.size > f.size)
  BY SizeInSectors
<1>2. FsRead(f, f.size) =
        [code   |-> IF bad = {} THEN "FS_OK" ELSE "FS_CHECK_ERROR",
         buffer |-> buffer]
  BY <1>1 DEF FsRead
<1>3. \A i \in 0 .. (Count(f) - 1) :
        flips[f.location + i] = 0 <=> Intact(f.location + i)
  BY PlaceExists DEF DataInv, ChecksFit
<1>4. bad = {} <=> \A i \in 0 .. (Count(f) - 1) : flips[f.location + i] = 0
  BY <1>3
<1>5. bad = {} => read = Copied(f)
  OBVIOUS
<1> HIDE DEF bad
<1>6. bad = {} =>
        buffer = [b \in Copied(f) |-> sectors[f.location + b \div Payload]
                                        .data[b % Payload]]
  BY <1>5
<1> HIDE DEF buffer
<1> QED
  BY <1>2, <1>4, <1>6

\* The invariant holds in every reachable state.
THEOREM DataInvariance == ASSUME OneFlip PROVE Spec => []DataInv
<1>1. DataInv /\ [Next]_vars => DataInv'
  BY DataNextInv
<1> QED
  BY <1>1, DataInitInv, PTL DEF Spec

\* fs_read fails if and only if a sector of the bundle has lost a bit.
THEOREM LostBitsAreNoticed ==
    ASSUME OneFlip PROVE Spec => []CorruptionIsNoticed
<1>1. DataInv => CorruptionIsNoticed
  <2> SUFFICES ASSUME DataInv, NEW f \in Files
               PROVE  FsRead(f, f.size).code = "FS_CHECK_ERROR"
                        <=> \E s \in SectorsOf(f) : flips[s] > 0
    BY DEF CorruptionIsNoticed
  <2>1. FsRead(f, f.size).code = "FS_CHECK_ERROR"
          <=> ~\A i \in 0 .. (Count(f) - 1) : flips[f.location + i] = 0
    BY ReadFinds
  <2>2. \A i \in 0 .. (Count(f) - 1) : /\ f.location + i \in SectorsOf(f)
                                       /\ flips[f.location + i] \in 0 .. 1
    BY PlaceExists, SizeInSectors DEF SectorsOf, DataInv, Typed
  <2>3. \A s \in SectorsOf(f) : \E i \in 0 .. (Count(f) - 1) :
          s = f.location + i
    <3> SUFFICES ASSUME NEW s \in SectorsOf(f)
                 PROVE  \E i \in 0 .. (Count(f) - 1) : s = f.location + i
      OBVIOUS
    <3>1. s - f.location \in 0 .. (Count(f) - 1)
          /\ s = f.location + (s - f.location)
      BY SizeInSectors DEF SectorsOf
    <3> QED
      BY <3>1
  <2>4. ASSUME NEW i \in 0 .. (Count(f) - 1)
        PROVE  flips[f.location + i] = 0 <=> ~(flips[f.location + i] > 0)
    BY <2>2
  <2> QED
    BY <2>1, <2>2, <2>3, <2>4
<1> QED
  BY <1>1, DataInvariance, PTL

\* What fs_read returns with FS_OK has in each sector the bytes of one buffer
\* that was to be written, however many calls of fs_write were cut off.
THEOREM SectorsStayWhole ==
    ASSUME OneFlip PROVE Spec => []SectorsAreWhole
<1>1. DataInv => SectorsAreWhole
  <2> SUFFICES ASSUME DataInv, NEW f \in Files, FsRead(f, f.size).code = "FS_OK",
                      NEW i \in 0 .. (Count(f) - 1)
               PROVE  LET r == FsRead(f, f.size)
                          of == {b \in DOMAIN r.buffer : b \div Payload = i}
                      IN \E buffer \in versions[f] :
                           \A b \in of : r.buffer[b] = buffer[b]
    BY DEF SectorsAreWhole
  <2> DEFINE r == FsRead(f, f.size)
  <2>1. /\ flips[f.location + i] = 0
        /\ r.buffer = [b \in Copied(f) |-> sectors[f.location + b \div Payload]
                                             .data[b % Payload]]
    BY ReadFinds
  <2>2. PICK buffer \in versions[f] : Agrees(f, i, buffer)
    BY <2>1 DEF DataInv, SectorsWhole
  <2> HIDE DEF r
  <2>3. ASSUME NEW b \in DOMAIN r.buffer, b \div Payload = i
        PROVE  r.buffer[b] = buffer[b]
    <3>1. /\ b \in Copied(f) /\ b % Payload \in Bytes
          /\ i * Payload + (b % Payload) = b
      BY <2>1, <2>3, ByteInSector
    <3>2. sectors[f.location + i].data[b % Payload] = buffer[b]
      BY <2>2, <3>1 DEF Agrees
    <3> QED
      BY <2>1, <2>3, <3>1, <3>2
  <2> QED
    BY <2>3 DEF r
<1> QED
  BY <1>1, DataInvariance, PTL

\* A bundle that does not fill its last sector is read as it was written.
THEOREM BundlesAreReadAsWritten ==
    ASSUME OneFlip, PartlyFilled PROVE Spec => []ReadReturnsWritten
<1> DEFINE Buffers == \A f \in Files : versions[f] \subseteq [Copied(f) -> Byte]
<1>1. \A f \in Files : Buffer(f) = [Copied(f) -> Byte]
  <2> TAKE f \in Files
  <2>1. f.size = (Count(f) - 1) * Payload + pad(f)
    BY SizeInSectors DEF PartlyFilled
  <2> QED
    <3>1. f.size - 1 = (Count(f) - 1) * Payload + pad(f) - 1
      <4>1. (Count(f) - 1) * Payload \in Int /\ pad(f) \in Int
        BY SizeInSectors, DataAssumption
      <4> QED
        BY <2>1, <4>1
    <3>2. 0 .. (f.size - 1) = Copied(f)
      BY <3>1, Zenon DEF Copied
    <3> QED
      BY <3>2 DEF Buffer
<1>2. Init => Buffers
  BY DEF Init, Byte
<1>3. DataInv /\ Buffers /\ [Next]_vars => Buffers'
  <2> SUFFICES ASSUME DataInv, Buffers, [Next]_vars PROVE Buffers'
    OBVIOUS
  <2>1. versions = [f \in Files |-> versions[f]]
    BY DEF DataInv, Typed
  <2>2. ASSUME NEW f \in Files, NEW buffer \in Buffer(f), BeginWrite(f, buffer)
        PROVE  Buffers'
    BY <1>1, <2>1, <2>2 DEF BeginWrite
  <2>3. CASE WriteSector
    <3>1. /\ writing.file \in Files
          /\ writing.buffer \in versions[writing.file]
          /\ versions' \in {versions, [versions EXCEPT ![writing.file]
                                                  = {writing.buffer}]}
      BY <2>3 DEF WriteSector, DataInv, WriteGoesOn
    <3> QED
      BY <2>1, <3>1
  <2>4. CASE UNCHANGED versions
    BY <2>4
  <2> QED
    BY <2>2, <2>3, <2>4 DEF Next, vars, PowerFails, Corrupt
<1>4. DataInv /\ Buffers => ReadReturnsWritten
  <2> SUFFICES ASSUME DataInv, Buffers, NEW f \in Files,
                      FsRead(f, f.size).code = "FS_OK",
                      NEW buffer \in versions[f], versions[f] = {buffer}
               PROVE  FsRead(f, f.size).buffer = buffer
    BY DEF ReadReturnsWritten
  <2> DEFINE r == FsRead(f, f.size).buffer
  <2>1. /\ \A i \in 0 .. (Count(f) - 1) : flips[f.location + i] = 0
        /\ r = [b \in Copied(f) |-> sectors[f.location + b \div Payload]
                                      .data[b % Payload]]
    BY ReadFinds
  <2>2. \A i \in 0 .. (Count(f) - 1) : Agrees(f, i, buffer)
    BY <2>1 DEF DataInv, SectorsWhole
  <2>3. buffer \in [Copied(f) -> Byte]
    OBVIOUS
  <2> HIDE DEF r
  <2>4. \A b \in Copied(f) : r[b] = buffer[b]
    <3> TAKE b \in Copied(f)
    <3>1. /\ b \div Payload \in 0 .. (Count(f) - 1) /\ b % Payload \in Bytes
          /\ (b \div Payload) * Payload + (b % Payload) = b
      BY ByteInSector
    <3>2. sectors[f.location + b \div Payload].data[b % Payload] = buffer[b]
      BY <2>2, <3>1 DEF Agrees
    <3> QED
      BY <2>1, <3>2
  <2>5. r = buffer
    BY <2>1, <2>3, <2>4
  <2> QED
    BY <2>5 DEF r
<1> HIDE DEF Buffers
<1> QED
  BY <1>2, <1>3, <1>4, DataInvariance, PTL DEF Spec
=============================================================================
