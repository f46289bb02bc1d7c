------------------------- MODULE WindowBufferProofs -------------------------
(***************************************************************************)
(* Proofs about WindowBuffer for tables and sectors of every size.  What   *)
(* is said of the table that the callers see holds if the buffer has one   *)
(* sector or the whole table (Fits), what find_seq_global returns only if  *)
(* it has one sector; TypeOK holds for buffers of every size.              *)
(*                                                                         *)
(* The lemmas about induction, folds, and zeroes come from                 *)
(* BitFunctionsProofs, instantiated with the bytes of the buffer; so does  *)
(* what the last section says, that the byte-wise functions do in these    *)
(* bytes what the window does in its buffer.                               *)
(***************************************************************************)
EXTENDS WindowBuffer, FiniteSetTheorems, SequenceTheorems, TLAPS

\* The bytes of the buffer; behind them is whatever there is, here zeroes.
BufferBytes ==
    [k \in 0 .. (BufBits \div ByteBits) |->
       {c \in 0 .. (ByteBits - 1) : k * ByteBits + c \in w.buffer}]

Bytes == INSTANCE BitFunctionsProofs
         WITH TableBytes <- BufBits \div ByteBits, table <- BufferBytes, used <- w.buffer

\* The sizes that the definitions are built from.
LEMMA Sizes ==
    /\ ByteBits \in Nat \ {0} /\ SectorBits \in Nat \ {0}
    /\ TableSectors \in Nat \ {0} /\ Sectors \in Nat \ {0} /\ Sectors <= TableSectors
    /\ BufBits \in Nat \ {0} /\ SectorBits <= BufBits /\ TableBits \in Nat
    /\ DiskBits = TableSectors * SectorBits + BufBits - SectorBits /\ DiskBits \in Nat
    /\ BufBits \div ByteBits \in Nat \ {0}
<1>1. /\ ByteBits \in Nat \ {0} /\ SectorBits \in Nat \ {0}
      /\ TableSectors \in Nat \ {0} /\ Sectors \in Nat \ {0} /\ Sectors <= TableSectors
  BY WindowAssumption DEF Sectors
<1>2. PICK m \in Nat, n \in Nat : Sectors = m + 1 /\ TableSectors = n + 1
  <2>1. Sectors - 1 \in Nat /\ TableSectors - 1 \in Nat
        /\ Sectors = Sectors - 1 + 1 /\ TableSectors = TableSectors - 1 + 1
    BY <1>1
  <2> QED
    BY <2>1
<1>3. /\ BufBits = m * SectorBits + SectorBits /\ m * SectorBits \in Nat
      /\ TableSectors * SectorBits = n * SectorBits + SectorBits
      /\ n * SectorBits \in Nat /\ (Sectors - 1) * SectorBits = m * SectorBits
  BY <1>1, <1>2 DEF BufBits
<1>4. /\ BufBits \in Nat \ {0} /\ SectorBits <= BufBits /\ TableBits \in Nat
      /\ DiskBits = TableSectors * SectorBits + BufBits - SectorBits /\ DiskBits \in Nat
  <2> DEFINE M == m * SectorBits
             N == n * SectorBits
  <2> HIDE DEF M, N
  <2>1. /\ M \in Nat /\ N \in Nat /\ BufBits = M + SectorBits
        /\ TableBits = N + SectorBits /\ DiskBits = N + SectorBits + M
        /\ TableSectors * SectorBits = N + SectorBits
    BY <1>3, Zenon DEF M, N, TableBits, DiskBits
  <2> QED
    BY <1>1, <2>1
<1>5. BufBits \div ByteBits \in Nat \ {0}
  <2>1. SectorBits % ByteBits = 0
    BY WindowAssumption
  <2>2. SectorBits >= ByteBits
    BY <1>1, <2>1
  <2>3. BufBits >= ByteBits
    BY <1>1, <1>4, <2>2
  <2> HIDE DEF BufBits
  <2> QED
    BY <1>1, <1>4, <2>3
<1> QED
  BY <1>1, <1>4, <1>5

-----------------------------------------------------------------------------
(* What BitFunctionsProofs has proved, for the operators of WindowBuffer.  *)

\* A nonempty set of natural numbers has a least element.
LEMMA LeastInSet ==
    ASSUME NEW S \in SUBSET Nat, S # {}
    PROVE  Least(S) \in S /\ \A j \in S : Least(S) <= j
  BY Sizes, Bytes!LeastInSet DEF Least, Bytes!Least

\* What holds of 0 and with i of i + 1 holds up to n.
LEMMA InductionUpTo ==
    ASSUME NEW n \in Nat, NEW S, 0 \in S,
           \A i \in 0 .. (n - 1) : i \in S => i + 1 \in S
    PROVE  \A i \in 0 .. n : i \in S
  BY Sizes, Bytes!InductionUpTo

\* Folds over finite sets and over sequences are well defined.
FoldData(S, choose, States, base, op) == Bytes!FoldData(S, choose, States, base, op)
IsFold(iter, S, choose, States, base, op) ==
    Bytes!IsFold(iter, S, choose, States, base, op)

\* A fold over the subsets of a finite set exists.
LEMMA FoldExists ==
    ASSUME NEW S, NEW choose, NEW States, NEW base, NEW op,
           FoldData(S, choose, States, base, op)
    PROVE  \E iter : IsFold(iter, S, choose, States, base, op)
  BY Sizes, Bytes!FoldExists DEF FoldData, IsFold

StaysIn(op, n, States) == Bytes!StaysIn(op, n, States)
IsFoldLeft(iter, n, States, base, op) == Bytes!IsFoldLeft(iter, n, States, base, op)

\* So does one over the first indices of a sequence.
LEMMA FoldLeftExists ==
    ASSUME NEW n \in Nat, NEW States, NEW base \in States, NEW op,
           StaysIn(op, n, States)
    PROVE  \E iter : IsFoldLeft(iter, n, States, base, op)
  BY Sizes, Bytes!FoldLeftExists DEF StaysIn, IsFoldLeft

\* The largest of the first i indices, and of other sets of indices.
LEMMA FirstIndices ==
    ASSUME NEW i \in Nat \ {0}
    PROVE  1 .. i # {} /\ Max(1 .. i) = i /\ (1 .. i) \ {i} = 1 .. (i - 1)
  BY Sizes, Bytes!FirstIndices DEF Max, Bytes!Max

\* The largest of some indices is one of them.
LEMMA LargestIndex ==
    ASSUME NEW n \in Nat, NEW s \in SUBSET (1 .. n), s # {}
    PROVE  Max(s) \in 1 .. n /\ s \ {Max(s)} \in SUBSET (1 .. n)
<1>1. n \in Int /\ \A x \in s : x \in Int /\ x <= n
  OBVIOUS
<1>2. Max(s) \in s
  BY <1>1, Sizes, Bytes!LargestInSet DEF Max, Bytes!Max
<1> QED
  BY <1>2

\* Multiples, quotients and remainders.
LEMMA Multiples ==
    ASSUME NEW b \in Nat, NEW i \in Int, NEW j \in Int, i < j
    PROVE  i * b + b <= j * b
  BY Sizes, Bytes!Multiples

\* Quotient and remainder.
LEMMA Digits ==
    ASSUME NEW b \in Nat \ {0}, NEW i \in Nat
    PROVE  /\ i \div b \in Nat /\ i % b \in 0 .. (b - 1)
           /\ i = (i \div b) * b + (i % b)
  OBVIOUS

\* The digits of what is put together from two.
LEMMA DigitsOf ==
    ASSUME NEW b \in Nat \ {0}, NEW q \in Nat, NEW c \in 0 .. (b - 1)
    PROVE  (q * b + c) \div b = q /\ (q * b + c) % b = c
  BY Sizes, Bytes!DigitsOf

\* A sequence of zeroes is one in each of its parts.
LEMMA Parts ==
    ASSUME NEW u, NEW i \in Int, NEW m \in Nat, NEW n \in Nat
    PROVE  CheckSeq(u, i, m + n) <=> CheckSeq(u, i, m) /\ CheckSeq(u, i + m, n)
  BY DEF CheckSeq, Run

\* The zeroes at the end of the buffer.
LEMMA Tails ==
    ASSUME NEW buffer
    PROVE  /\ TailLength(buffer) \in 0 .. BufBits
           /\ CheckSeq(buffer, BufBits - TailLength(buffer), TailLength(buffer))
           /\ TailLength(buffer) < BufBits => BufBits - TailLength(buffer) - 1 \in buffer
<1>1. BufBits \in Nat
  BY Sizes
<1> HIDE DEF BufBits
<1> DEFINE l == Cardinality({b \in 0 .. (BufBits - 1) :
                              b .. (BufBits - 1) \cap buffer = {}})
<1>2. /\ l \in 0 .. BufBits /\ Bytes!CheckSeq(buffer, BufBits - l, l)
      /\ l < BufBits => BufBits - l - 1 \in buffer
  <2>1. LET z == Bytes!Cardinality({b \in 0 .. (BufBits - 1) :
                                      b .. (BufBits - 1) \cap buffer = {}}) IN
        /\ z \in 0 .. BufBits /\ Bytes!CheckSeq(buffer, BufBits - z, z)
        /\ z < BufBits => BufBits - z - 1 \in buffer
    BY <1>1, Sizes, Bytes!ZeroesAtEnd
  <2>2. \A S : Bytes!Cardinality(S) = Cardinality(S)
    BY Zenon DEF Cardinality, Bytes!Cardinality
  <2> QED
    BY <2>1, <2>2
<1>3. TailLength(buffer) = l
  BY DEF TailLength
<1> HIDE DEF l
<1>4. CheckSeq(buffer, BufBits - l, l)
  BY <1>2 DEF CheckSeq, Run, Bytes!CheckSeq, Bytes!Run
<1> QED
  BY <1>2, <1>3, <1>4

-----------------------------------------------------------------------------
(* The window, for buffers of every size.                                  *)

\* The bits that the buffer covers lie on the disk.
LEMMA Covered ==
    ASSUME NEW g \in 0 .. (TableSectors - 1), NEW b \in 0 .. (BufBits - 1)
    PROVE  g * SectorBits + b \in 0 .. (DiskBits - 1)
<1>1. g * SectorBits + SectorBits <= TableSectors * SectorBits /\ g * SectorBits \in Nat
      /\ TableSectors * SectorBits \in Nat
  BY Sizes, Multiples
<1> DEFINE G == g * SectorBits
           T == TableSectors * SectorBits
<1> HIDE DEF G, T
<1>2. G + SectorBits <= T /\ G \in Nat /\ T \in Nat /\ DiskBits = T + BufBits - SectorBits
  BY <1>1, Sizes DEF G, T
<1>3. G + b \in 0 .. (DiskBits - 1)
  BY <1>2, Sizes
<1> QED
  BY <1>3 DEF G

\* What is read into the buffer lies in it.
LEMMA LoadedType ==
    ASSUME NEW disk, NEW sector
    PROVE  Loaded(disk, sector) \in SUBSET (0 .. (BufBits - 1))
  BY DEF Loaded

\* Saving the buffer keeps the type of a window.
LEMMA SaveType ==
    ASSUME NEW v \in Window
    PROVE  /\ SaveWindow(v) \in Window /\ SaveWindow(v).ok = v.ok
           /\ SaveWindow(v).buffer = v.buffer
           /\ SaveWindow(v).global_index = v.global_index
<1> DEFINE disk == DeleteSeq(v.disk, v.global_index * SectorBits, BufBits)
                     \cup {v.global_index * SectorBits + b : b \in v.buffer}
<1>1. disk \in SUBSET (0 .. (DiskBits - 1))
  <2>1. \A b \in v.buffer : v.global_index * SectorBits + b \in 0 .. (DiskBits - 1)
    BY Covered DEF Window
  <2>2. v.disk \in SUBSET (0 .. (DiskBits - 1))
    BY DEF Window
  <2> QED
    BY <2>1, <2>2 DEF DeleteSeq
<1>2. SaveWindow(v) = [v EXCEPT !.disk = disk]
  BY DEF SaveWindow
<1> HIDE DEF disk
<1> QED
  BY <1>1, <1>2 DEF Window

\* So does a move.
LEMMA MoveType ==
    ASSUME NEW v \in Window, NEW index \in Nat
    PROVE  MoveWindow(v, index) \in Window
<1>1. CASE index >= TableSectors
  BY <1>1 DEF MoveWindow, Window
<1>2. CASE ~(index >= TableSectors) /\ index = v.global_index
  BY <1>2 DEF MoveWindow
<1>3. CASE ~(index >= TableSectors) /\ index # v.global_index
  <2> DEFINE u == [SaveWindow(v) EXCEPT !.global_index = index]
  <2>1. u \in Window
    <3>1. SaveWindow(v) \in Window /\ index \in 0 .. (TableSectors - 1)
      BY <1>3, SaveType, Sizes
    <3> QED
      BY <3>1 DEF Window
  <2>2. MoveWindow(v, index) = [u EXCEPT !.buffer = Loaded(u.disk, u.global_index)]
    BY <1>3, Zenon DEF MoveWindow, ReloadWindow
  <2> HIDE DEF u
  <2>3. Loaded(u.disk, u.global_index) \in SUBSET (0 .. (BufBits - 1))
    BY LoadedType
  <2> QED
    BY <2>1, <2>2, <2>3 DEF Window
<1> QED
  BY <1>1, <1>2, <1>3

\* The parts of a sequence.
Cut == [index : Nat, from : Nat, length : Int]

\* The parts of a request: how many there are, and what is in each place.
LEMMA ChunksExist ==
    ASSUME NEW index \in Nat, NEW length \in Nat
    PROVE  LET first  == index \div BufBits
               from   == index % BufBits
               start  == IF length < BufBits - from THEN length ELSE BufBits - from
               full   == length \div BufBits
               middle == IF full > 1 THEN full - 1 ELSE 0
               rest   == length - start - middle * BufBits
               n      == middle + 1 + IF rest > 0 THEN 1 ELSE 0
               cs     == Chunks(index, length) IN
           /\ first \in Nat /\ from \in 0 .. (BufBits - 1) /\ start \in Nat
           /\ full \in Nat /\ middle \in Nat /\ rest \in Int /\ n \in Nat \ {0}
           /\ cs \in Seq(Cut) /\ Len(cs) = n
           /\ cs[1] = Chunk(first, from, start)
           /\ \A k \in 2 .. (middle + 1) : cs[k] = Chunk(first + (k - 1), 0, BufBits)
           /\ rest > 0 => cs[n] = Chunk(first + middle + 1, 0, rest)
<1> DEFINE first  == index \div BufBits
           from   == index % BufBits
           start  == IF length < BufBits - from THEN length ELSE BufBits - from
           full   == length \div BufBits
           middle == IF full > 1 THEN full - 1 ELSE 0
           rest   == length - start - middle * BufBits
           n      == middle + 1 + IF rest > 0 THEN 1 ELSE 0
           one    == <<Chunk(first, from, start)>>
           mid    == [k \in 1 .. middle |-> Chunk(first + k, 0, BufBits)]
           last   == IF rest > 0 THEN <<Chunk(first + middle + 1, 0, rest)>> ELSE <<>>
<1>1. BufBits \in Nat \ {0}
  BY Sizes
<1>2. Chunks(index, length) = one \o mid \o last
  BY Zenon DEF Chunks
<1> HIDE DEF BufBits
<1>3. first \in Nat /\ from \in 0 .. (BufBits - 1) /\ full \in Nat
  BY <1>1, Digits
<1> HIDE DEF first, from, full
<1>4. start \in Nat /\ middle \in Nat
  BY <1>1, <1>3
<1>5. rest \in Int
  <2> HIDE DEF start, middle
  <2> QED
    BY <1>1, <1>4
<1> HIDE DEF start, middle, rest
<1>6. one \in Seq(Cut) /\ Len(one) = 1 /\ one[1] = Chunk(first, from, start)
  BY <1>1, <1>3, <1>4 DEF Cut, Chunk
<1>7. mid \in Seq(Cut) /\ Len(mid) = middle
      /\ \A k \in 1 .. middle : mid[k] = Chunk(first + k, 0, BufBits)
  <2>1. mid \in [1 .. middle -> Cut]
    BY <1>1, <1>3, <1>4 DEF Cut, Chunk
  <2> QED
    BY <1>4, <2>1, IsASeq, LenProperties
<1>8. /\ last \in Seq(Cut) /\ Len(last) = IF rest > 0 THEN 1 ELSE 0
      /\ rest > 0 => last[1] = Chunk(first + middle + 1, 0, rest)
  <2>1. CASE rest > 0
    <3>1. Chunk(first + middle + 1, 0, rest) \in Cut
      BY <1>3, <1>4, <1>5 DEF Cut, Chunk
    <3> QED
      BY <2>1, <3>1
  <2>2. CASE ~(rest > 0)
    BY <2>2
  <2> QED
    BY <2>1, <2>2
<1> HIDE DEF one, mid, last
<1>9. /\ one \o mid \in Seq(Cut) /\ Len(one \o mid) = 1 + middle
      /\ \A i \in 1 .. (1 + middle) :
           (one \o mid)[i] = IF i <= 1 THEN one[i] ELSE mid[i - 1]
  <2>1. /\ one \o mid \in Seq(Cut) /\ Len(one \o mid) = Len(one) + Len(mid)
        /\ \A i \in 1 .. Len(one) + Len(mid) :
             (one \o mid)[i] = IF i <= Len(one) THEN one[i] ELSE mid[i - Len(one)]
    BY <1>6, <1>7, ConcatProperties, Zenon
  <2> QED
    BY <1>6, <1>7, <2>1
<1> DEFINE both == one \o mid
           cs   == both \o last
<1> HIDE DEF both
<1>10. /\ cs \in Seq(Cut) /\ Len(cs) = 1 + middle + Len(last)
       /\ \A i \in 1 .. (1 + middle + Len(last)) :
            cs[i] = IF i <= 1 + middle THEN both[i] ELSE last[i - (1 + middle)]
  <2>1. both \in Seq(Cut) /\ Len(both) = 1 + middle
    BY <1>9 DEF both
  <2>2. /\ both \o last \in Seq(Cut) /\ Len(both \o last) = Len(both) + Len(last)
        /\ \A i \in 1 .. Len(both) + Len(last) :
             (both \o last)[i] = IF i <= Len(both) THEN both[i] ELSE last[i - Len(both)]
    BY <1>8, <2>1, ConcatProperties, Zenon
  <2> QED
    BY <2>1, <2>2
<1> HIDE DEF cs
<1>11. n \in Nat \ {0} /\ Len(cs) = n
  BY <1>4, <1>5, <1>8, <1>10
<1>12. cs[1] = Chunk(first, from, start)
  <2>1. 1 \in 1 .. (1 + middle) /\ 1 \in 1 .. (1 + middle + Len(last))
    BY <1>4, <1>8
  <2> QED
    <3>1. cs[1] = both[1] /\ both[1] = one[1]
      BY <1>4, <1>9, <1>10, <2>1 DEF both
    <3> QED
      BY <1>6, <3>1
<1>13. \A k \in 2 .. (middle + 1) : cs[k] = Chunk(first + (k - 1), 0, BufBits)
  <2> TAKE k \in 2 .. (middle + 1)
  <2>1. k \in 1 .. (1 + middle) /\ k \in 1 .. (1 + middle + Len(last)) /\ ~(k <= 1)
        /\ k - 1 \in 1 .. middle /\ k <= 1 + middle
    BY <1>4, <1>8
  <2>2. cs[k] = both[k] /\ both[k] = mid[k - 1]
    BY <1>9, <1>10, <2>1 DEF both
  <2> QED
    BY <1>7, <2>1, <2>2
<1>14. rest > 0 => cs[n] = Chunk(first + middle + 1, 0, rest)
  <2> SUFFICES ASSUME rest > 0 PROVE cs[n] = Chunk(first + middle + 1, 0, rest)
    OBVIOUS
  <2>1. n = 2 + middle /\ n \in 1 .. (1 + middle + Len(last)) /\ ~(n <= 1 + middle)
        /\ n - (1 + middle) = 1
    BY <1>4, <1>5, <1>8
  <2> HIDE DEF n
  <2> QED
    BY <1>8, <1>10, <2>1
<1>15. cs = Chunks(index, length)
  BY <1>2 DEF cs, both
<1> QED
  BY <1>3, <1>4, <1>5, <1>10, <1>11, <1>12, <1>13, <1>14, <1>15, Zenon
     DEF first, from, start, full, middle, rest, n

\* What is done with a chunk leaves a window.
Operations == {"write", "delete", "check"}

\* One turn of the loops over the parts keeps the type.
LEMMA ChunkType ==
    ASSUME NEW op \in Operations, NEW u \in Window, NEW c \in Cut
    PROVE  InItsWindow(op, u, c) \in Window
<1> DEFINE m == MoveWindow(u, c.index)
<1>1. m \in Window
  BY MoveType DEF Cut
<1> HIDE DEF m
<1>2. InItsWindow(op, u, c) = IF u.ok /\ m.ok THEN OnChunk(op, m, c)
                              ELSE [u EXCEPT !.ok = FALSE]
  BY Zenon DEF InItsWindow, m
<1>3. CASE u.ok /\ m.ok
  <2>1. CASE op = "write"
    <3>1. OnChunk(op, m, c) =
            [m EXCEPT !.buffer = InBuffer(WriteSeq(m.buffer, c.from, c.length))]
      BY <2>1 DEF OnChunk
    <3>2. InBuffer(WriteSeq(m.buffer, c.from, c.length)) \in SUBSET (0 .. (BufBits - 1))
      BY DEF InBuffer
    <3> QED
      BY <1>1, <1>2, <1>3, <3>1, <3>2 DEF Window
  <2>2. CASE op = "delete"
    <3>1. OnChunk(op, m, c) = [m EXCEPT !.buffer = DeleteSeq(m.buffer, c.from, c.length)]
      BY <2>2 DEF OnChunk
    <3>2. DeleteSeq(m.buffer, c.from, c.length) \in SUBSET (0 .. (BufBits - 1))
      BY <1>1 DEF DeleteSeq, Window
    <3> QED
      BY <1>1, <1>2, <1>3, <3>1, <3>2 DEF Window
  <2>3. CASE op = "check"
    <3>1. OnChunk(op, m, c) = [m EXCEPT !.ok = CheckSeq(m.buffer, c.from, c.length)]
      BY <2>3 DEF OnChunk
    <3>2. CheckSeq(m.buffer, c.from, c.length) \in BOOLEAN
      BY DEF CheckSeq
    <3> HIDE DEF m
    <3> QED
      BY <1>1, <1>2, <1>3, <3>1, <3>2 DEF Window
  <2> QED
    BY <2>1, <2>2, <2>3 DEF Operations
<1>4. CASE ~(u.ok /\ m.ok)
  BY <1>2, <1>4 DEF Window
<1> QED
  BY <1>3, <1>4

\* The windows that an operation goes through, chunk by chunk.
LEMMA ChunkSteps ==
    ASSUME NEW op \in Operations, NEW v \in Window, NEW index \in Nat, NEW length \in Nat
    PROVE  LET cs == Chunks(index, length) IN
           \E h : /\ h[0] = [v EXCEPT !.ok = TRUE]
                  /\ \A k \in 1 .. Len(cs) :
                       cs[k] \in Cut /\ h[k] = InItsWindow(op, h[k - 1], cs[k])
                  /\ OnChunks(op, v, index, length) = h[Len(cs)]
<1> DEFINE seq  == Chunks(index, length)
           n    == Len(seq)
           base == [v EXCEPT !.ok = TRUE]
           f    == [p \in (1 .. n) \X Window |-> InItsWindow(op, p[2], seq[p[1]])]
           IsIter(g, D) ==
             g = [s \in SUBSET D |->
                    IF s = {} THEN base
                    ELSE InItsWindow(op, g[s \ {Max(s)}], seq[Max(s)])]
           c    == CHOOSE g : IsIter(g, DOMAIN seq)
           h    == [i \in 0 .. n |-> c[1 .. i]]
<1>1. seq \in Seq(Cut)
  BY ChunksExist
<1>2. OnChunks(op, v, index, length) = c[DOMAIN seq]
  BY DEF OnChunks, FoldLeft, MapThenFoldSet
<1> HIDE DEF seq
<1>3. /\ n \in Nat /\ DOMAIN seq = 1 .. n /\ \A i \in 1 .. n : seq[i] \in Cut
  BY <1>1, LenProperties, ElementOfSeq
<1>4. base \in Window
  BY DEF Window
<1> HIDE DEF base, n
<1>5. \A i \in 1 .. n, u \in Window :
        f[<<i, u>>] = InItsWindow(op, u, seq[i]) /\ f[<<i, u>>] \in Window
  BY <1>3, ChunkType
<1>6. \E g : IsIter(g, 1 .. n)
  <2> HIDE DEF f
  <2>1. PICK g : IsFoldLeft(g, n, Window, base, f)
    <3>1. StaysIn(f, n, Window)
      BY <1>5 DEF StaysIn, Bytes!StaysIn
    <3> QED
      BY <1>3, <1>4, <3>1, FoldLeftExists
  <2>2. /\ g \in [SUBSET (1 .. n) -> Window]
        /\ g = [s \in SUBSET (1 .. n) |->
                 IF s = {} THEN base ELSE f[<<Max(s), g[s \ {Max(s)}]>>]]
    BY <2>1 DEF IsFoldLeft, Bytes!IsFoldLeft, Max, Bytes!Max
  <2>3. \A s \in SUBSET (1 .. n) : s # {} =>
          f[<<Max(s), g[s \ {Max(s)}]>>] = InItsWindow(op, g[s \ {Max(s)}], seq[Max(s)])
    BY <1>3, <1>5, <2>2, LargestIndex
  <2>4. IsIter(g, 1 .. n)
    BY <2>2, <2>3
  <2> QED
    BY <2>4
<1>7. IsIter(c, 1 .. n)
  <2> HIDE DEF IsIter
  <2> QED
    BY <1>3, <1>6
<1> HIDE DEF c
<1>8. h[0] = base
  BY <1>3, <1>7
<1>9. ASSUME NEW i \in 1 .. n PROVE h[i] = InItsWindow(op, h[i - 1], seq[i])
  <2>1. /\ 1 .. i # {} /\ Max(1 .. i) = i /\ (1 .. i) \ {i} = 1 .. (i - 1)
        /\ i - 1 \in 0 .. n /\ i \in 0 .. n
    <3>1. i \in Nat \ {0} /\ i - 1 \in 0 .. n /\ i \in 0 .. n
      BY <1>3
    <3> QED
      BY <3>1, FirstIndices
  <2>2. 1 .. i \in SUBSET (1 .. n)
    BY <1>3
  <2>3. h[i] = c[1 .. i] /\ h[i - 1] = c[1 .. (i - 1)]
    BY <2>1
  <2> HIDE DEF h
  <2> DEFINE s == 1 .. i
  <2>4. c[s] = IF s = {} THEN base
               ELSE InItsWindow(op, c[s \ {Max(s)}], seq[Max(s)])
    <3> HIDE DEF s
    <3> QED
      BY <1>7, <2>2 DEF s
  <2>5. h[i] = InItsWindow(op, c[1 .. (i - 1)], seq[i])
    BY <2>1, <2>3, <2>4
  <2> QED
    BY <2>3, <2>5
<1>10. h[n] = c[1 .. n]
  BY <1>3
<1> HIDE DEF h
<1> QED
  BY <1>2, <1>3, <1>8, <1>9, <1>10 DEF base, n, seq

\* An operation leaves a window, whatever it is asked to do.
LEMMA ChunksType ==
    ASSUME NEW op \in Operations, NEW v \in Window, NEW index \in Nat, NEW length \in Nat
    PROVE  OnChunks(op, v, index, length) \in Window
<1> DEFINE cs == Chunks(index, length)
           n  == Len(cs)
<1>1. PICK h : /\ h[0] = [v EXCEPT !.ok = TRUE]
               /\ \A k \in 1 .. n :
                    cs[k] \in Cut /\ h[k] = InItsWindow(op, h[k - 1], cs[k])
               /\ OnChunks(op, v, index, length) = h[n]
  <2> HIDE DEF cs
  <2> QED
    BY ChunkSteps DEF cs
<1>2. n \in Nat
  <2>1. cs \in Seq(Cut)
    BY ChunksExist
  <2> HIDE DEF cs
  <2> QED
    BY <2>1, LenProperties
<1> HIDE DEF n, cs
<1> DEFINE S == {k \in 0 .. n : h[k] \in Window}
<1>3. 0 \in S
  <2>1. [v EXCEPT !.ok = TRUE] \in Window
    BY DEF Window
  <2>2. 0 \in 0 .. n
    BY <1>2
  <2> QED
    BY <1>1, <2>1, <2>2
<1>4. ASSUME NEW k \in 0 .. (n - 1), k \in S PROVE k + 1 \in S
  <2>1. k + 1 \in 1 .. n /\ k + 1 \in 0 .. n /\ k + 1 - 1 = k
    BY <1>2
  <2>2. cs[k + 1] \in Cut /\ h[k + 1] = InItsWindow(op, h[k], cs[k + 1])
    BY <1>1, <2>1
  <2> QED
    BY <1>4, <2>1, <2>2, ChunkType
<1>5. n \in S
  <2>1. n \in 0 .. n
    BY <1>2
  <2> HIDE DEF S
  <2> QED
    BY <1>2, <1>3, <1>4, <2>1, InductionUpTo
<1> QED
  BY <1>1, <1>5

-----------------------------------------------------------------------------
(* The searches, in steps.                                                 *)

SmallStates == [window : Window, index : Int, tail : Int]

\* One turn of find_seq_global_small keeps the type of its state.
LEMMA SmallType ==
    ASSUME NEW s \in SmallStates, NEW k \in Nat, NEW length \in Int
    PROVE  SearchWindow(s, k, length) \in SmallStates
<1> DEFINE m     == MoveWindow(s.window, k)
           base  == k * SectorBits
           found == FindSeq(m.buffer, BufBits, length)
           tail  == TailLength(m.buffer)
<1>1. m \in Window
  BY MoveType DEF SmallStates
<1>2. base \in Int /\ tail \in Int
  BY Sizes, Tails
<1>3. HasSeq(m.buffer, BufBits, length) => found \in Int
  <2> DEFINE free == FreeStarts(m.buffer, BufBits, length)
  <2>1. free \in SUBSET Nat
    BY DEF FreeStarts
  <2>2. /\ HasSeq(m.buffer, BufBits, length) <=> free # {}
        /\ found = Least(free)
    BY Zenon DEF HasSeq, FindSeq
  <2> HIDE DEF free, found
  <2>3. free # {} => Least(free) \in free
    BY <2>1, LeastInSet
  <2>4. \A i \in free : i \in Int
    BY <2>1
  <2> QED
    BY <2>2, <2>3, <2>4, Zenon
<1>4. SearchWindow(s, k, length) =
        IF s.index # NotFound \/ ~m.ok THEN s
        ELSE IF k > 0 /\ CheckSeq(m.buffer, 0, length - s.tail)
             THEN [s EXCEPT !.window = m, !.index = base - s.tail]
        ELSE IF HasSeq(m.buffer, BufBits, length)
             THEN [s EXCEPT !.window = m, !.index = base + found]
        ELSE [[s EXCEPT !.window = m, !.index = NotFound] EXCEPT !.tail = tail]
  BY Zenon DEF SearchWindow
<1> HIDE DEF m, base, found, tail
<1>5. ASSUME NEW i \in Int PROVE [s EXCEPT !.window = m, !.index = i] \in SmallStates
  BY <1>1 DEF SmallStates
<1>6. base - s.tail \in Int /\ (found \in Int => base + found \in Int) /\ NotFound \in Int
  BY <1>2 DEF SmallStates, NotFound
<1>7. ASSUME NEW t \in SmallStates PROVE [t EXCEPT !.tail = tail] \in SmallStates
  BY <1>2 DEF SmallStates
<1> QED
  BY <1>3, <1>4, <1>5, <1>6, <1>7

\* The states of find_seq_global_small, window by window.
LEMMA SmallSteps ==
    ASSUME NEW v \in Window, NEW length \in Int
    PROVE  \E h : /\ h[0] = [window |-> [v EXCEPT !.ok = TRUE], index |-> NotFound, tail |-> 0]
                  /\ \A i \in 1 .. (TableSectors + 1) :
                       h[i] = SearchWindow(h[i - 1], i - 1, length)
                  /\ FindSeqGlobalSmall(v, length) = h[(TableSectors + 1)]
<1> DEFINE n    == (TableSectors + 1)
           seq  == Windows
           base == [window |-> [v EXCEPT !.ok = TRUE], index |-> NotFound, tail |-> 0]
           f    == [p \in (1 .. n) \X SmallStates |->
                     SearchWindow(p[2], seq[p[1]], length)]
           IsIter(g, D) ==
             g = [s \in SUBSET D |->
                    IF s = {} THEN base
                    ELSE SearchWindow(g[s \ {Max(s)}], seq[Max(s)], length)]
           c    == CHOOSE g : IsIter(g, DOMAIN seq)
           h    == [i \in 0 .. n |-> c[1 .. i]]
<1>1. FindSeqGlobalSmall(v, length) = c[DOMAIN seq]
  BY DEF FindSeqGlobalSmall, FoldLeft, MapThenFoldSet
<1>2. n \in Nat
  BY Sizes
<1>3. /\ DOMAIN seq = 1 .. n
      /\ \A i \in 1 .. n : seq[i] = i - 1 /\ seq[i] \in Nat
  BY <1>2 DEF Windows
<1>4. base \in SmallStates
  <2>1. [v EXCEPT !.ok = TRUE] \in Window
    BY DEF Window
  <2> QED
    BY <2>1 DEF SmallStates, NotFound
<1> HIDE DEF base, n, seq
<1>5. \A i \in 1 .. n, u \in SmallStates :
        f[<<i, u>>] = SearchWindow(u, seq[i], length) /\ f[<<i, u>>] \in SmallStates
  BY <1>3, SmallType
<1>6. \E g : IsIter(g, 1 .. n)
  <2> HIDE DEF f
  <2>1. PICK g : IsFoldLeft(g, n, SmallStates, base, f)
    <3>1. StaysIn(f, n, SmallStates)
      BY <1>5 DEF StaysIn, Bytes!StaysIn
    <3> QED
      BY <1>2, <1>4, <3>1, FoldLeftExists
  <2>2. /\ g \in [SUBSET (1 .. n) -> SmallStates]
        /\ g = [s \in SUBSET (1 .. n) |->
                 IF s = {} THEN base ELSE f[<<Max(s), g[s \ {Max(s)}]>>]]
    BY <2>1 DEF IsFoldLeft, Bytes!IsFoldLeft, Max, Bytes!Max
  <2>3. \A s \in SUBSET (1 .. n) : s # {} =>
          f[<<Max(s), g[s \ {Max(s)}]>>]
            = SearchWindow(g[s \ {Max(s)}], seq[Max(s)], length)
    BY <1>2, <1>5, <2>2, LargestIndex
  <2>4. IsIter(g, 1 .. n)
    BY <2>2, <2>3
  <2> QED
    BY <2>4
<1>7. IsIter(c, 1 .. n)
  <2> HIDE DEF IsIter
  <2> QED
    BY <1>3, <1>6
<1> HIDE DEF c
<1>8. h[0] = base
  BY <1>2, <1>7
<1>9. ASSUME NEW i \in 1 .. n PROVE h[i] = SearchWindow(h[i - 1], seq[i], length)
  <2>1. /\ 1 .. i # {} /\ Max(1 .. i) = i /\ (1 .. i) \ {i} = 1 .. (i - 1)
        /\ i - 1 \in 0 .. n /\ i \in 0 .. n
    <3>1. i \in Nat \ {0} /\ i - 1 \in 0 .. n /\ i \in 0 .. n
      BY <1>2
    <3> QED
      BY <3>1, FirstIndices
  <2>2. 1 .. i \in SUBSET (1 .. n)
    BY <1>2
  <2>3. h[i] = c[1 .. i] /\ h[i - 1] = c[1 .. (i - 1)]
    BY <2>1
  <2> HIDE DEF h
  <2> DEFINE s == 1 .. i
  <2>4. c[s] = IF s = {} THEN base
               ELSE SearchWindow(c[s \ {Max(s)}], seq[Max(s)], length)
    <3> HIDE DEF s
    <3> QED
      BY <1>7, <2>2 DEF s
  <2>5. h[i] = SearchWindow(c[1 .. (i - 1)], seq[i], length)
    BY <2>1, <2>3, <2>4
  <2> QED
    BY <2>3, <2>5
<1>10. h[n] = c[1 .. n]
  BY <1>2
<1> HIDE DEF h
<1> QED
  BY <1>1, <1>3, <1>8, <1>9, <1>10 DEF base, n

LongStates == [window : Window, index : Int, missing : Int, begin : Int, place : Int, i : Int]

\* So does one of the search for a sequence longer than the buffer.
LEMMA LongType ==
    ASSUME NEW s \in LongStates, NEW k \in Nat, NEW length \in Int
    PROVE  SearchLongWindow(s, k, length) \in LongStates
<1> DEFINE m         == MoveWindow(s.window, k)
           tail      == TailLength(m.buffer)
           begin     == BufBits - tail
           firstUsed == Least(m.buffer) \div ByteBits
           found     == s.place * (SectorBits \div ByteBits) + s.begin
           bytes     == BufBits \div ByteBits
           fewer     == s.missing - tail
           next      == s.missing - BufBits
           i         == s.i
<1>1. m \in Window
  BY MoveType DEF LongStates
<1>2. tail \in Int /\ BufBits \in Int
  BY Sizes, Tails
<1>3. begin \in Int /\ fewer \in Int /\ next \in Int /\ i \in Int /\ bytes \in Int
  <2> HIDE DEF tail
  <2> QED
    BY Sizes, <1>2 DEF LongStates
<1>4. found \in Int
  <2>1. s.place \in Int /\ s.begin \in Int /\ SectorBits \div ByteBits \in Int
    BY Sizes DEF LongStates
  <2> HIDE DEF m
  <2> QED
    BY <2>1
<1>5. m.buffer # {} => firstUsed \in Int
  <2>1. m.buffer \in SUBSET Nat
    BY <1>1, Sizes DEF Window
  <2>2. m.buffer # {} => Least(m.buffer) \in Nat
    BY <2>1, LeastInSet
  <2>3. ByteBits \in Nat \ {0}
    BY Sizes
  <2> HIDE DEF m
  <2> QED
    BY <2>2, <2>3
<1>6. SearchLongWindow(s, k, length) =
        IF s.index # NotFound \/ ~m.ok THEN s
        ELSE IF s.missing = length
             THEN [[s EXCEPT !.window = m] EXCEPT !.begin = begin, !.missing = fewer, !.place = i]
        ELSE IF s.missing > BufBits
             THEN IF m.buffer = {}
                  THEN [[s EXCEPT !.window = m] EXCEPT !.missing = next, !.i = bytes]
                  ELSE [[s EXCEPT !.window = m] EXCEPT !.missing = length, !.begin = begin,
                                                       !.i = firstUsed, !.place = firstUsed]
        ELSE IF CheckSeq(m.buffer, 0, s.missing)
             THEN [[s EXCEPT !.window = m] EXCEPT !.index = found]
        ELSE [[s EXCEPT !.window = m] EXCEPT !.missing = length, !.begin = begin, !.place = i]
  BY DEF SearchLongWindow, LongStates
<1> HIDE DEF m, tail, begin, firstUsed, found, bytes, fewer, next, i
<1>7. [s EXCEPT !.window = m] \in LongStates
  BY <1>1 DEF LongStates
<1>8. ASSUME NEW t \in LongStates, NEW a \in Int, NEW b \in Int, NEW c \in Int, NEW d \in Int
      PROVE  /\ [t EXCEPT !.begin = a, !.missing = b, !.place = c] \in LongStates
             /\ [t EXCEPT !.missing = a, !.i = b] \in LongStates
             /\ [t EXCEPT !.missing = a, !.begin = b, !.i = c, !.place = d] \in LongStates
             /\ [t EXCEPT !.index = a] \in LongStates
             /\ [t EXCEPT !.missing = a, !.begin = b, !.place = c] \in LongStates
  BY DEF LongStates
<1> DEFINE t == [s EXCEPT !.window = m]
<1> HIDE DEF t
<1>9. t \in LongStates
  BY <1>7 DEF t
<1>10. /\ [t EXCEPT !.begin = begin, !.missing = fewer, !.place = i] \in LongStates
       /\ [t EXCEPT !.missing = next, !.i = bytes] \in LongStates
       /\ m.buffer # {} => [t EXCEPT !.missing = length, !.begin = begin,
                                     !.i = firstUsed, !.place = firstUsed] \in LongStates
       /\ [t EXCEPT !.index = found] \in LongStates
       /\ [t EXCEPT !.missing = length, !.begin = begin, !.place = i] \in LongStates
  BY <1>3, <1>4, <1>5, <1>8, <1>9
<1> QED
  BY <1>6, <1>10, Zenon DEF t

\* The states of the search for a sequence longer than the buffer.
LEMMA LongSteps ==
    ASSUME NEW v \in Window, NEW length \in Int, NEW garbage \in Int
    PROVE  \E h : /\ h[0] = [window |-> [v EXCEPT !.ok = TRUE], index |-> NotFound, missing |-> length,
                           begin |-> 0, place |-> garbage, i |-> garbage]
                  /\ \A i \in 1 .. (TableSectors + 1) :
                       h[i] = SearchLongWindow(h[i - 1], i - 1, length)
                  /\ FindLongSeqGlobal(v, length, garbage) = h[(TableSectors + 1)]
<1> DEFINE n    == (TableSectors + 1)
           seq  == Windows
           base == [window |-> [v EXCEPT !.ok = TRUE], index |-> NotFound, missing |-> length,
                           begin |-> 0, place |-> garbage, i |-> garbage]
           f    == [p \in (1 .. n) \X LongStates |->
                     SearchLongWindow(p[2], seq[p[1]], length)]
           IsIter(g, D) ==
             g = [s \in SUBSET D |->
                    IF s = {} THEN base
                    ELSE SearchLongWindow(g[s \ {Max(s)}], seq[Max(s)], length)]
           c    == CHOOSE g : IsIter(g, DOMAIN seq)
           h    == [i \in 0 .. n |-> c[1 .. i]]
<1>1. FindLongSeqGlobal(v, length, garbage) = c[DOMAIN seq]
  BY DEF FindLongSeqGlobal, FoldLeft, MapThenFoldSet
<1>2. n \in Nat
  BY Sizes
<1>3. /\ DOMAIN seq = 1 .. n
      /\ \A i \in 1 .. n : seq[i] = i - 1 /\ seq[i] \in Nat
  BY <1>2 DEF Windows
<1>4. base \in LongStates
  <2>1. [v EXCEPT !.ok = TRUE] \in Window
    BY DEF Window
  <2> QED
    BY <2>1 DEF LongStates, NotFound
<1> HIDE DEF base, n, seq
<1>5. \A i \in 1 .. n, u \in LongStates :
        f[<<i, u>>] = SearchLongWindow(u, seq[i], length) /\ f[<<i, u>>] \in LongStates
  BY <1>3, LongType
<1>6. \E g : IsIter(g, 1 .. n)
  <2> HIDE DEF f
  <2>1. PICK g : IsFoldLeft(g, n, LongStates, base, f)
    <3>1. StaysIn(f, n, LongStates)
      BY <1>5 DEF StaysIn, Bytes!StaysIn
    <3> QED
      BY <1>2, <1>4, <3>1, FoldLeftExists
  <2>2. /\ g \in [SUBSET (1 .. n) -> LongStates]
        /\ g = [s \in SUBSET (1 .. n) |->
                 IF s = {} THEN base ELSE f[<<Max(s), g[s \ {Max(s)}]>>]]
    BY <2>1 DEF IsFoldLeft, Bytes!IsFoldLeft, Max, Bytes!Max
  <2>3. \A s \in SUBSET (1 .. n) : s # {} =>
          f[<<Max(s), g[s \ {Max(s)}]>>]
            = SearchLongWindow(g[s \ {Max(s)}], seq[Max(s)], length)
    BY <1>2, <1>5, <2>2, LargestIndex
  <2>4. IsIter(g, 1 .. n)
    BY <2>2, <2>3
  <2> QED
    BY <2>4
<1>7. IsIter(c, 1 .. n)
  <2> HIDE DEF IsIter
  <2> QED
    BY <1>3, <1>6
<1> HIDE DEF c
<1>8. h[0] = base
  BY <1>2, <1>7
<1>9. ASSUME NEW i \in 1 .. n PROVE h[i] = SearchLongWindow(h[i - 1], seq[i], length)
  <2>1. /\ 1 .. i # {} /\ Max(1 .. i) = i /\ (1 .. i) \ {i} = 1 .. (i - 1)
        /\ i - 1 \in 0 .. n /\ i \in 0 .. n
    <3>1. i \in Nat \ {0} /\ i - 1 \in 0 .. n /\ i \in 0 .. n
      BY <1>2
    <3> QED
      BY <3>1, FirstIndices
  <2>2. 1 .. i \in SUBSET (1 .. n)
    BY <1>2
  <2>3. h[i] = c[1 .. i] /\ h[i - 1] = c[1 .. (i - 1)]
    BY <2>1
  <2> HIDE DEF h
  <2> DEFINE s == 1 .. i
  <2>4. c[s] = IF s = {} THEN base
               ELSE SearchLongWindow(c[s \ {Max(s)}], seq[Max(s)], length)
    <3> HIDE DEF s
    <3> QED
      BY <1>7, <2>2 DEF s
  <2>5. h[i] = SearchLongWindow(c[1 .. (i - 1)], seq[i], length)
    BY <2>1, <2>3, <2>4
  <2> QED
    BY <2>3, <2>5
<1>10. h[n] = c[1 .. n]
  BY <1>2
<1> HIDE DEF h
<1> QED
  BY <1>1, <1>3, <1>8, <1>9, <1>10 DEF base, n

\* The windows that have been seen so far.
Seen == {s \in Seq(Window) : Len(s) > 0}

\* inodes_used looks at one window more.
LEMMA SeenType ==
    ASSUME NEW s \in Seen, NEW k \in Nat \ {0}
    PROVE  LET t == Append(s, MoveWindow(s[Len(s)], k - 1)) IN
           t \in Seen /\ Len(t) = Len(s) + 1
<1>1. s \in Seq(Window) /\ Len(s) \in 1 .. Len(s) /\ Len(s) \in Nat
  BY LenProperties DEF Seen
<1>2. s[Len(s)] \in Window
  BY <1>1, ElementOfSeq
<1>3. MoveWindow(s[Len(s)], k - 1) \in Window
  <2>1. k - 1 \in Nat
    OBVIOUS
  <2> QED
    BY <1>2, <2>1, MoveType
<1> QED
  BY <1>1, <1>3, AppendProperties DEF Seen

\* The windows that inodes_used sees, one after the other.
LEMMA VisitSteps ==
    ASSUME NEW v \in Window
    PROVE  \E h : /\ h[0] = <<v>>
                  /\ \A i \in 1 .. TableSectors :
                       h[i] = Append(h[i - 1], MoveWindow(h[i - 1][Len(h[i - 1])], i - 1))
                  /\ Visits(v) = h[TableSectors]
<1> DEFINE n    == TableSectors
           seq  == [k \in 1 .. TableSectors |-> k]
           base == <<v>>
           f    == [p \in (1 .. n) \X Seen |->
                     Append(p[2], MoveWindow(p[2][Len(p[2])], seq[p[1]] - 1))]
           IsIter(g, D) ==
             g = [s \in SUBSET D |->
                    IF s = {} THEN base
                    ELSE Append(g[s \ {Max(s)}], MoveWindow(g[s \ {Max(s)}][Len(g[s \ {Max(s)}])], seq[Max(s)] - 1))]
           c    == CHOOSE g : IsIter(g, DOMAIN seq)
           h    == [i \in 0 .. n |-> c[1 .. i]]
<1>1. Visits(v) = c[DOMAIN seq]
  BY DEF Visits, FoldLeft, MapThenFoldSet
<1>2. n \in Nat
  BY Sizes
<1>3. /\ DOMAIN seq = 1 .. n
      /\ \A i \in 1 .. n : seq[i] = i /\ seq[i] \in (Nat \ {0})
  BY <1>2
<1>4. base \in Seen
  BY DEF Seen
<1> HIDE DEF base, n, seq
<1>5. \A i \in 1 .. n, u \in Seen :
        f[<<i, u>>] = Append(u, MoveWindow(u[Len(u)], seq[i] - 1)) /\ f[<<i, u>>] \in Seen
  BY <1>3, SeenType
<1>6. \E g : IsIter(g, 1 .. n)
  <2> HIDE DEF f
  <2>1. PICK g : IsFoldLeft(g, n, Seen, base, f)
    <3>1. StaysIn(f, n, Seen)
      BY <1>5 DEF StaysIn, Bytes!StaysIn
    <3> QED
      BY <1>2, <1>4, <3>1, FoldLeftExists
  <2>2. /\ g \in [SUBSET (1 .. n) -> Seen]
        /\ g = [s \in SUBSET (1 .. n) |->
                 IF s = {} THEN base ELSE f[<<Max(s), g[s \ {Max(s)}]>>]]
    BY <2>1 DEF IsFoldLeft, Bytes!IsFoldLeft, Max, Bytes!Max
  <2>3. \A s \in SUBSET (1 .. n) : s # {} =>
          f[<<Max(s), g[s \ {Max(s)}]>>]
            = Append(g[s \ {Max(s)}], MoveWindow(g[s \ {Max(s)}][Len(g[s \ {Max(s)}])], seq[Max(s)] - 1))
    BY <1>2, <1>5, <2>2, LargestIndex
  <2>4. IsIter(g, 1 .. n)
    BY <2>2, <2>3
  <2> QED
    BY <2>4
<1>7. IsIter(c, 1 .. n)
  <2> HIDE DEF IsIter
  <2> QED
    BY <1>3, <1>6
<1> HIDE DEF c
<1>8. h[0] = base
  BY <1>2, <1>7
<1>9. ASSUME NEW i \in 1 .. n PROVE h[i] = Append(h[i - 1], MoveWindow(h[i - 1][Len(h[i - 1])], seq[i] - 1))
  <2>1. /\ 1 .. i # {} /\ Max(1 .. i) = i /\ (1 .. i) \ {i} = 1 .. (i - 1)
        /\ i - 1 \in 0 .. n /\ i \in 0 .. n
    <3>1. i \in Nat \ {0} /\ i - 1 \in 0 .. n /\ i \in 0 .. n
      BY <1>2
    <3> QED
      BY <3>1, FirstIndices
  <2>2. 1 .. i \in SUBSET (1 .. n)
    BY <1>2
  <2>3. h[i] = c[1 .. i] /\ h[i - 1] = c[1 .. (i - 1)]
    BY <2>1
  <2> HIDE DEF h
  <2> DEFINE s == 1 .. i
  <2>4. c[s] = IF s = {} THEN base
               ELSE Append(c[s \ {Max(s)}], MoveWindow(c[s \ {Max(s)}][Len(c[s \ {Max(s)}])], seq[Max(s)] - 1))
    <3> HIDE DEF s
    <3> QED
      BY <1>7, <2>2 DEF s
  <2>5. h[i] = Append(c[1 .. (i - 1)], MoveWindow(c[1 .. (i - 1)][Len(c[1 .. (i - 1)])], seq[i] - 1))
    BY <2>1, <2>3, <2>4
  <2> QED
    BY <2>3, <2>5
<1>10. h[n] = c[1 .. n]
  BY <1>2
<1> HIDE DEF h
<1> QED
  BY <1>1, <1>3, <1>8, <1>9, <1>10 DEF base, n

-----------------------------------------------------------------------------
(* Folds over sets.                                                        *)

\* What holds of a finite set if it holds of the set without any of its
\* elements holds of all subsets.
LEMMA SetInduction ==
    ASSUME NEW S, IsFiniteSet(S), NEW T,
           \A s \in SUBSET S : (\A x \in s : s \ {x} \in T) => s \in T
    PROVE  \A s \in SUBSET S : s \in T
<1> DEFINE N == Cardinality(S)
           K == {n \in 0 .. N : \A s \in SUBSET S : Cardinality(s) <= n => s \in T}
<1>1. N \in Nat /\ \A s \in SUBSET S : /\ IsFiniteSet(s) /\ Cardinality(s) \in Nat
                                       /\ Cardinality(s) <= N
  BY FS_CardinalityType, FS_Subset
<1>2. \A s \in SUBSET S : Cardinality(s) = 0 <=> s = {}
  BY <1>1, FS_EmptySet
<1>3. \A s \in SUBSET S : \A x \in s :
        s \ {x} \in SUBSET S /\ Cardinality(s \ {x}) = Cardinality(s) - 1
  <2> TAKE s \in SUBSET S
  <2> TAKE x \in s
  <2> QED
    BY <1>1, FS_RemoveElement
<1> HIDE DEF N
<1>4. 0 \in K
  <2>1. {} \in T
    OBVIOUS
  <2>2. \A s \in SUBSET S : Cardinality(s) <= 0 => s \in T
    BY <1>1, <1>2, <2>1
  <2>3. 0 \in 0 .. N
    BY <1>1
  <2> QED
    BY <2>2, <2>3
<1>5. ASSUME NEW n \in 0 .. (N - 1), n \in K PROVE n + 1 \in K
  <2>1. ASSUME NEW s \in SUBSET S, Cardinality(s) <= n + 1 PROVE s \in T
    <3>1. ASSUME NEW x \in s PROVE s \ {x} \in T
      <4>1. s \ {x} \in SUBSET S /\ Cardinality(s \ {x}) <= n
        <5>1. Cardinality(s) \in Nat /\ n \in Nat
          BY <1>1
        <5>2. s \ {x} \in SUBSET S /\ Cardinality(s \ {x}) = Cardinality(s) - 1
          BY <1>3
        <5> QED
          BY <2>1, <5>1, <5>2
      <4> QED
        BY <1>5, <4>1
    <3> QED
      BY <3>1
  <2>2. n + 1 \in 0 .. N
    BY <1>1
  <2> QED
    BY <2>1, <2>2
<1>6. N \in K
  <2>1. N \in 0 .. N
    BY <1>1
  <2> HIDE DEF K
  <2> QED
    BY <1>1, <1>4, <1>5, <2>1, InductionUpTo
<1> QED
  BY <1>1, <1>6

\* What write_seq_global and delete_seq_global leave is a window.
LEMMA GlobalType ==
    ASSUME NEW v \in Window, NEW index \in Nat, NEW length \in Nat
    PROVE  /\ WriteSeqGlobal(v, index, length) \in Window
           /\ DeleteSeqGlobal(v, index, length) \in Window
           /\ CheckSeqGlobal(v, index, length) \in Window
<1>1. \A op \in Operations : /\ OnChunks(op, v, index, length) \in Window
                             /\ SaveIfOk(OnChunks(op, v, index, length)) \in Window
  BY ChunksType, SaveType DEF SaveIfOk
<1> QED
  BY <1>1 DEF Operations, WriteSeqGlobal, DeleteSeqGlobal, CheckSeqGlobal

\* restore_fs clears bits of the buffer.
LEMMA WipedType ==
    ASSUME NEW v \in Window
    PROVE  Wiped(v) \in Window
<1> DEFINE m    == (TableSectors - 1) * BufferSectors * SectorBits
           bits == {b \in 0 .. (BufBits - 1) : m + b >= TableBits}
<1>1. bits \in SUBSET (0 .. (BufBits - 1)) /\ Wiped(v) = [v EXCEPT !.buffer = bits]
  BY DEF Wiped
<1> HIDE DEF bits
<1> QED
  BY <1>1 DEF Window

\* restore_fs marks the bits one by one; g is the window after each set of bits.
LEMMA RestoreSteps ==
    ASSUME NEW v \in Window, NEW bits \in SUBSET Nat, IsFiniteSet(bits)
    PROVE  \E g : /\ g \in [SUBSET bits -> Window]
                  /\ g[{}] = Wiped(v)
                  /\ \A s \in SUBSET bits : s # {} =>
                       \E x \in s : g[s] = WriteSeqGlobal(g[s \ {x}], x, 1)
                  /\ RestoreTable(v, bits) = SaveWindow(g[bits])
<1> DEFINE base      == Wiped(v)
           choose    == [s \in SUBSET bits |-> CHOOSE x \in s : TRUE]
           f         == [p \in bits \X Window |-> WriteSeqGlobal(p[2], p[1], 1)]
           IsIter(g) ==
             g = [s \in SUBSET bits |->
                    IF s = {} THEN base
                    ELSE WriteSeqGlobal(g[s \ {CHOOSE x \in s : TRUE}],
                                        CHOOSE x \in s : TRUE, 1)]
           c         == CHOOSE g : IsIter(g)
<1>1. RestoreTable(v, bits) = SaveWindow(c[bits])
  BY DEF RestoreTable, FoldSet, MapThenFoldSet
<1>2. base \in Window
  BY WipedType
<1> HIDE DEF base
<1>3. \A x \in bits, u \in Window :
        f[<<x, u>>] = WriteSeqGlobal(u, x, 1) /\ f[<<x, u>>] \in Window
  BY GlobalType
<1>4. \A s \in SUBSET bits : s # {} =>
        choose[s] = (CHOOSE x \in s : TRUE) /\ choose[s] \in s
  OBVIOUS
<1> HIDE DEF f, choose
<1>5. PICK g : IsFold(g, bits, choose, Window, base, f)
  <2>1. FoldData(bits, choose, Window, base, f)
    BY <1>2, <1>3, <1>4, Zenon DEF FoldData, Bytes!FoldData, IsFiniteSet, Bytes!IsFiniteSet
  <2> QED
    BY <2>1, FoldExists
<1>6. /\ g \in [SUBSET bits -> Window]
      /\ g = [s \in SUBSET bits |->
                IF s = {} THEN base ELSE f[<<choose[s], g[s \ {choose[s]}]>>]]
  BY <1>5, Zenon DEF IsFold, Bytes!IsFold
<1>7. \A s \in SUBSET bits : s # {} =>
        f[<<choose[s], g[s \ {choose[s]}]>>]
          = WriteSeqGlobal(g[s \ {CHOOSE x \in s : TRUE}], CHOOSE x \in s : TRUE, 1)
  <2> TAKE s \in SUBSET bits
  <2> HAVE s # {}
  <2> DEFINE x == choose[s]
             u == g[s \ {x}]
  <2>1. x = (CHOOSE y \in s : TRUE) /\ x \in s /\ x \in bits
    BY <1>4
  <2> HIDE DEF x
  <2>2. u \in Window
    BY <1>6
  <2> HIDE DEF u
  <2>3. f[<<x, u>>] = WriteSeqGlobal(u, x, 1)
    BY <1>3, <2>1, <2>2
  <2> QED
    BY <2>1, <2>3, Zenon DEF x, u
<1>8. IsIter(g)
  BY <1>6, <1>7
<1>9. IsIter(c)
  <2> HIDE DEF IsIter
  <2> QED
    BY <1>8
<1> HIDE DEF c
<1>10. c[{}] = base
  BY <1>9
<1>11. \A s \in SUBSET bits : s # {} =>
         \E x \in s : c[s] = WriteSeqGlobal(c[s \ {x}], x, 1)
  <2> TAKE s \in SUBSET bits
  <2> HAVE s # {}
  <2> DEFINE x == CHOOSE y \in s : TRUE
  <2>1. x \in s
    OBVIOUS
  <2>2. c[s] = WriteSeqGlobal(c[s \ {x}], x, 1)
    BY <1>9
  <2> HIDE DEF x
  <2> QED
    BY <2>1, <2>2
<1>12. c \in [SUBSET bits -> Window]
  <2> DEFINE T == {s \in SUBSET bits : c[s] \in Window}
  <2>1. ASSUME NEW s \in SUBSET bits, \A x \in s : s \ {x} \in T PROVE s \in T
    <3>1. CASE s = {}
      BY <1>2, <1>10, <3>1
    <3>2. CASE s # {}
      <4>1. PICK x \in s : c[s] = WriteSeqGlobal(c[s \ {x}], x, 1)
        BY <1>11, <3>2
      <4>2. c[s \ {x}] \in Window /\ x \in Nat
        BY <2>1
      <4> QED
        BY <4>1, <4>2, GlobalType
    <3> QED
      BY <3>1, <3>2
  <2>2. \A s \in SUBSET bits : s \in T
    <3> HIDE DEF T
    <3> QED
      BY <2>1, SetInduction
  <2>3. c = [s \in SUBSET bits |-> c[s]]
    BY <1>9
  <2> QED
    BY <2>2, <2>3
<1> QED
  BY <1>1, <1>10, <1>11, <1>12 DEF base

\* A search leaves a window.
LEMMA SmallFindType ==
    ASSUME NEW v \in Window, NEW length \in Int
    PROVE  FindSeqGlobalSmall(v, length) \in SmallStates
<1> DEFINE n == TableSectors + 1
<1>1. PICK h : /\ h[0] = [window |-> [v EXCEPT !.ok = TRUE], index |-> NotFound, tail |-> 0]
               /\ \A i \in 1 .. n : h[i] = SearchWindow(h[i - 1], i - 1, length)
               /\ FindSeqGlobalSmall(v, length) = h[n]
  BY SmallSteps
<1>2. n \in Nat
  BY Sizes
<1> DEFINE S == {i \in 0 .. n : h[i] \in SmallStates}
<1>3. 0 \in S
  <2>1. [v EXCEPT !.ok = TRUE] \in Window
    BY DEF Window
  <2>2. 0 \in 0 .. n
    BY <1>2
  <2>3. h[0] \in SmallStates
    BY <1>1, <2>1 DEF SmallStates, NotFound
  <2> QED
    BY <2>2, <2>3
<1>4. ASSUME NEW i \in 0 .. (n - 1), i \in S PROVE i + 1 \in S
  <2>1. i + 1 \in 1 .. n /\ i + 1 \in 0 .. n /\ i + 1 - 1 = i /\ i \in Nat
    BY <1>2
  <2>2. h[i + 1] = SearchWindow(h[i], i, length)
    BY <1>1, <2>1
  <2> QED
    BY <1>4, <2>1, <2>2, SmallType
<1>5. \A i \in 0 .. n : i \in S
  <2> HIDE DEF S, n
  <2> QED
    BY <1>2, <1>3, <1>4, InductionUpTo
<1>6. n \in 0 .. n
  BY <1>2
<1> QED
  BY <1>1, <1>5, <1>6

\* The state at the end of the search for a long sequence.
LEMMA LongFindType ==
    ASSUME NEW v \in Window, NEW length \in Int, NEW garbage \in Int
    PROVE  FindLongSeqGlobal(v, length, garbage) \in LongStates
<1> DEFINE n == TableSectors + 1
<1>1. PICK h : /\ h[0] = [window |-> [v EXCEPT !.ok = TRUE], index |-> NotFound, missing |-> length,
                         begin |-> 0, place |-> garbage, i |-> garbage]
               /\ \A i \in 1 .. n : h[i] = SearchLongWindow(h[i - 1], i - 1, length)
               /\ FindLongSeqGlobal(v, length, garbage) = h[n]
  BY LongSteps
<1>2. n \in Nat
  BY Sizes
<1> DEFINE S == {i \in 0 .. n : h[i] \in LongStates}
<1>3. 0 \in S
  <2>1. [v EXCEPT !.ok = TRUE] \in Window
    BY DEF Window
  <2>2. 0 \in 0 .. n
    BY <1>2
  <2>3. h[0] \in LongStates
    BY <1>1, <2>1 DEF LongStates, NotFound
  <2> QED
    BY <2>2, <2>3
<1>4. ASSUME NEW i \in 0 .. (n - 1), i \in S PROVE i + 1 \in S
  <2>1. i + 1 \in 1 .. n /\ i + 1 \in 0 .. n /\ i + 1 - 1 = i /\ i \in Nat
    BY <1>2
  <2>2. h[i + 1] = SearchLongWindow(h[i], i, length)
    BY <1>1, <2>1
  <2> QED
    BY <1>4, <2>1, <2>2, LongType
<1>5. \A i \in 0 .. n : i \in S
  <2> HIDE DEF S, n
  <2> QED
    BY <1>2, <1>3, <1>4, InductionUpTo
<1>6. n \in 0 .. n
  BY <1>2
<1> QED
  BY <1>1, <1>5, <1>6

\* inodes_used sees each sector once, after the window that it starts with.
LEMMA VisitsType ==
    ASSUME NEW v \in Window
    PROVE  /\ Visits(v) \in Seq(Window) /\ Len(Visits(v)) = TableSectors + 1
           /\ Visits(v)[1] = v
           /\ \A k \in 1 .. TableSectors :
                Visits(v)[k + 1] = MoveWindow(Visits(v)[k], k - 1)
<1> DEFINE n == TableSectors
<1>1. PICK h : /\ h[0] = <<v>>
               /\ \A i \in 1 .. n :
                    h[i] = Append(h[i - 1], MoveWindow(h[i - 1][Len(h[i - 1])], i - 1))
               /\ Visits(v) = h[n]
  BY VisitSteps
<1>2. n \in Nat
  BY Sizes
<1> DEFINE Good(i) == /\ h[i] \in Seq(Window) /\ Len(h[i]) = i + 1 /\ h[i][1] = v
                      /\ \A k \in 1 .. i : h[i][k + 1] = MoveWindow(h[i][k], k - 1)
           S == {i \in 0 .. n : Good(i)}
<1>3. 0 \in S
  <2>1. 0 \in 0 .. n
    BY <1>2
  <2>2. Good(0)
    BY <1>1
  <2> QED
    BY <2>1, <2>2
<1>4. ASSUME NEW i \in 0 .. (n - 1), i \in S PROVE i + 1 \in S
  <2> DEFINE s == h[i]
             t == h[i + 1]
             m == MoveWindow(s[i + 1], i)
  <2>1. i + 1 \in 1 .. n /\ i + 1 \in 0 .. n /\ i + 1 - 1 = i /\ i \in Nat
    BY <1>2
  <2>2. Good(i)
    BY <1>4
  <2>3. t = Append(s, m)
    <3>1. h[i + 1] = Append(h[i], MoveWindow(h[i][Len(h[i])], i))
      BY <1>1, <2>1
    <3> QED
      BY <2>2, <3>1
  <2>4. s \in Seq(Window) /\ Len(s) = i + 1 /\ s[1] = v
        /\ \A k \in 1 .. i : s[k + 1] = MoveWindow(s[k], k - 1)
    BY <2>2
  <2>5. m \in Window
    <3>1. s[i + 1] \in Window
      <4>1. i + 1 \in 1 .. Len(s)
        BY <2>1, <2>4
      <4> QED
        BY <2>4, <4>1, ElementOfSeq
    <3> QED
      BY <2>1, <3>1, MoveType
  <2> HIDE DEF s, t, m, Good
  <2>6. /\ t \in Seq(Window) /\ Len(t) = i + 2 /\ t[i + 2] = m
        /\ \A k \in 1 .. (i + 1) : t[k] = s[k]
    <3>1. /\ Append(s, m) \in Seq(Window) /\ Len(Append(s, m)) = Len(s) + 1
          /\ \A k \in 1 .. Len(s) : Append(s, m)[k] = s[k]
          /\ Append(s, m)[Len(s) + 1] = m
      BY <2>4, <2>5, AppendProperties
    <3>2. i + 1 + 1 = i + 2
      BY <2>1
    <3> QED
      BY <2>3, <2>4, <3>1, <3>2
  <2>7. t[1] = v
    <3>1. 1 \in 1 .. (i + 1)
      BY <2>1
    <3> QED
      BY <2>4, <2>6, <3>1
  <2>8. ASSUME NEW k \in 1 .. (i + 1) PROVE t[k + 1] = MoveWindow(t[k], k - 1)
    <3>1. CASE k = i + 1
      <4>1. t[k] = s[i + 1] /\ k + 1 = i + 2 /\ k - 1 = i
        BY <2>1, <2>6, <3>1
      <4> QED
        BY <2>6, <4>1 DEF m
    <3>2. CASE k # i + 1
      <4>1. k \in 1 .. i /\ k + 1 \in 1 .. (i + 1)
        BY <2>1, <3>2
      <4> QED
        BY <2>4, <2>6, <4>1
    <3> QED
      BY <3>1, <3>2
  <2>9. Good(i + 1)
    <3>1. i + 1 + 1 = i + 2
      BY <2>1
    <3> QED
      BY <2>6, <2>7, <2>8, <3>1 DEF Good, t
  <2> QED
    BY <2>1, <2>9
<1>5. n \in S
  <2>1. n \in 0 .. n
    BY <1>2
  <2> HIDE DEF S, n
  <2> QED
    BY <1>2, <1>3, <1>4, <2>1, InductionUpTo
<1> QED
  BY <1>1, <1>5

-----------------------------------------------------------------------------
(* The type of the window, for buffers of every size.                      *)

\* The window that fs_mkfs makes has the type.
LEMMA InitType == Init => TypeOK
<1> SUFFICES ASSUME Init PROVE TypeOK
  OBVIOUS
<1>1. TableBits <= DiskBits /\ TableBits \in Nat /\ DiskBits \in Nat
  BY Sizes DEF TableBits
<1>2. used \in SUBSET (0 .. (DiskBits - 1)) /\ used \in SUBSET (0 .. (TableBits - 1))
  BY <1>1 DEF Init
<1>3. Loaded(used, 0) \in SUBSET (0 .. (BufBits - 1)) /\ 0 \in 0 .. (TableSectors - 1)
  BY LoadedType, Sizes
<1> QED
  BY <1>2, <1>3 DEF Init, TypeOK, Window

\* Every call keeps the type, whatever the buffer has room for: the folds of
\* the calls go through windows only.
LEMMA NextType == TypeOK /\ [Next]_vars => TypeOK'
<1> SUFFICES ASSUME TypeOK, [Next]_vars PROVE TypeOK'
  OBVIOUS
<1>1. w \in Window /\ used \in SUBSET (0 .. (TableBits - 1)) /\ TableBits \in Nat
  BY Sizes DEF TypeOK
<1>2. ASSUME NEW r \in Requests
      PROVE  /\ r[1] \in Nat /\ r[2] \in Nat
             /\ WriteSeq(used, r[1], r[2]) \subseteq 0 .. (TableBits - 1)
             /\ DeleteSeq(used, r[1], r[2]) \subseteq 0 .. (TableBits - 1)
  <2>1. r[1] \in Nat /\ r[2] \in Nat /\ r[1] + r[2] <= TableBits
    BY <1>1 DEF Requests
  <2>2. Run(r[1], r[2]) \subseteq 0 .. (TableBits - 1)
    <3> DEFINE i == r[1]
               n == r[2]
    <3>1. i \in Nat /\ n \in Nat /\ i + n <= TableBits
      BY <2>1
    <3> HIDE DEF i, n
    <3>2. i .. (i + n - 1) \subseteq 0 .. (TableBits - 1)
      BY <1>1, <3>1
    <3> QED
      BY <3>2 DEF Run, i, n
  <2> QED
    BY <1>1, <2>1, <2>2 DEF WriteSeq, DeleteSeq
<1>3. ASSUME NEW v \in Window
      PROVE  /\ [v EXCEPT !.ok = TRUE] \in Window
             /\ \A s \in SUBSET (0 .. (BufBits - 1)) : [v EXCEPT !.buffer = s] \in Window
             /\ \A s \in SUBSET (0 .. (BufBits - 1)) :
                  [v EXCEPT !.global_index = 0, !.buffer = s] \in Window
  <2>1. 0 \in 0 .. (TableSectors - 1)
    BY Sizes
  <2> QED
    BY <2>1 DEF Window
<1>4. CASE \E r \in Requests : Write(r[1], r[2])
  BY <1>1, <1>2, <1>4, GlobalType DEF Write, TypeOK
<1>5. CASE \E r \in Requests : Delete(r[1], r[2])
  BY <1>1, <1>2, <1>5, GlobalType DEF Delete, TypeOK
<1>6. CASE \E r \in Requests : Check(r[1], r[2])
  BY <1>1, <1>2, <1>6, GlobalType DEF Check, TypeOK
<1>7. CASE \E length \in 1 .. TableBits, garbage \in 0 .. 1 : Find(length, garbage)
  <2>1. PICK length \in 1 .. TableBits, garbage \in 0 .. 1 : Find(length, garbage)
    BY <1>7
  <2>2. length \in Int /\ garbage \in Int
    BY <1>1
  <2>3. FindSeqGlobal(w, length, garbage).window \in Window
    <3>1. /\ FindSeqGlobalSmall(w, length).window \in Window
          /\ FindLongSeqGlobal(w, length, garbage).window \in Window
      BY <1>1, <2>2, SmallFindType, LongFindType DEF SmallStates, LongStates
    <3> QED
      BY <3>1 DEF FindSeqGlobal
  <2> QED
    BY <1>1, <1>3, <2>1, <2>3 DEF Find, TypeOK
<1>8. CASE CountInodes
  <2>1. Visits(w)[TableSectors + 1] \in Window
    <3>1. TableSectors + 1 \in 1 .. (TableSectors + 1)
      BY Sizes
    <3> QED
      BY <1>1, <3>1, VisitsType, ElementOfSeq
  <2> QED
    BY <1>1, <1>3, <1>8, <2>1 DEF CountInodes, TypeOK
<1>9. CASE \E byte \in 0 .. (TableBits \div ByteBits - 1) : LoadInodes(byte)
  <2>1. PICK byte \in 0 .. (TableBits \div ByteBits - 1) : LoadInodes(byte)
    BY <1>9
  <2>2. byte \div (BufBits \div ByteBits) \in Nat
    <3> DEFINE b == BufBits \div ByteBits
               m == TableBits \div ByteBits
    <3>1. b \in Nat \ {0} /\ byte \in Nat
      BY Sizes
    <3> HIDE DEF b
    <3>2. byte \div b \in Nat
      BY <3>1, Digits
    <3> QED
      BY <3>2 DEF b
  <2>3. AccessTable(w, byte).window \in Window
    BY <1>1, <2>2, MoveType DEF AccessTable
  <2> QED
    BY <1>1, <1>3, <2>1, <2>3 DEF LoadInodes, TypeOK
<1>10. CASE Reload \/ Mount \/ GetFree
  <2>1. \A k : Loaded(w.disk, k) \in SUBSET (0 .. (BufBits - 1))
    BY LoadedType
  <2>2. w' \in Window /\ used' = used
    BY <1>1, <1>3, <1>10, <2>1 DEF Reload, ReloadWindow, Mount, GetFree
  <2> QED
    BY <1>1, <2>2 DEF TypeOK
<1>11. CASE CallsOnWhole /\ \E bits \in SUBSET used : Restore(bits)
  <2>1. PICK bits \in SUBSET used : Restore(bits)
    BY <1>11
  <2>2. bits \in SUBSET Nat /\ IsFiniteSet(bits)
    <3>1. IsFiniteSet(0 .. (TableBits - 1))
      <4>1. 0 \in Int /\ TableBits - 1 \in Int
        BY <1>1
      <4> QED
        BY <4>1, FS_Interval
    <3>2. bits \in SUBSET (0 .. (TableBits - 1)) /\ bits \in SUBSET Nat
      BY <1>1
    <3> QED
      BY <3>1, <3>2, FS_Subset
  <2>3. PICK g \in [SUBSET bits -> Window] : RestoreTable(w, bits) = SaveWindow(g[bits])
    BY <1>1, <2>2, RestoreSteps
  <2>4. SaveWindow(g[bits]) \in Window
    BY SaveType
  <2> QED
    BY <1>1, <2>1, <2>3, <2>4 DEF Restore, TypeOK
<1>12. CASE UNCHANGED vars
  BY <1>12 DEF vars, TypeOK
<1> QED
  BY <1>4, <1>5, <1>6, <1>7, <1>8, <1>9, <1>10, <1>11, <1>12 DEF Next

\* Whatever is called, and however many sectors the buffer has, the window
\* stays within the table and the disk: global_index is the index of a sector
\* of the table (move_window refuses others), and nothing is stored behind the
\* sectors that a window can show.
THEOREM WindowType == Spec => []TypeOK
<1>1. Init => TypeOK
  BY InitType
<1>2. TypeOK /\ [Next]_vars => TypeOK'
  BY NextType
<1> QED
  BY <1>1, <1>2, PTL DEF Spec

-----------------------------------------------------------------------------
(* What a window shows of the table.                                       *)

\* The table as it is once the buffer has been saved.
View(v) == SaveWindow(v).disk

\* The bits of the view: those of the buffer in its place, elsewhere the disk's.
LEMMA ViewBits ==
    ASSUME NEW v \in Window, NEW x \in Int
    PROVE  x \in View(v) <=>
             IF x \in Run(v.global_index * SectorBits, BufBits)
             THEN x - v.global_index * SectorBits \in v.buffer
             ELSE x \in v.disk
<1> DEFINE G == v.global_index * SectorBits
<1>1. G \in Int /\ BufBits \in Nat
  BY Sizes DEF Window
<1>2. View(v) = DeleteSeq(v.disk, G, BufBits) \cup {G + b : b \in v.buffer}
  BY DEF View, SaveWindow, Window
<1> HIDE DEF G
<1>3. v.buffer \in SUBSET (0 .. (BufBits - 1))
  BY DEF Window
<1>4. x \in {G + b : b \in v.buffer} <=> x - G \in v.buffer
  <2>1. ASSUME NEW b \in v.buffer, x = G + b PROVE x - G \in v.buffer
    <3>1. b \in Int
      BY <1>1, <1>3
    <3>2. x - G = b
      BY <1>1, <2>1, <3>1
    <3> QED
      BY <3>2
  <2>2. x = G + (x - G)
    BY <1>1
  <2> QED
    BY <2>1, <2>2
<1>5. x - G \in v.buffer => x \in Run(G, BufBits)
  <2>1. x - G \in 0 .. (BufBits - 1) => x \in G .. (G + BufBits - 1)
    BY <1>1
  <2> QED
    BY <1>3, <2>1 DEF Run
<1> QED
  BY <1>2, <1>4, <1>5 DEF DeleteSeq, G

\* The place in the buffer of a bit that the window shows.
LEMMA Shown ==
    ASSUME NEW g \in Nat, NEW x \in Int
    PROVE  LET G == g * SectorBits IN
           /\ G \in Nat
           /\ x \in Run(G, BufBits) <=> x - G \in 0 .. (BufBits - 1)
           /\ G + (x - G) = x
<1>1. g * SectorBits \in Nat /\ BufBits \in Nat
  BY Sizes
<1> DEFINE G == g * SectorBits
<1> HIDE DEF G
<1>2. G \in Nat
  BY <1>1 DEF G
<1>3. (x \in Run(G, BufBits) <=> x - G \in 0 .. (BufBits - 1)) /\ G + (x - G) = x
  BY <1>1, <1>2 DEF Run
<1> QED
  BY <1>2, <1>3 DEF G

\* A view is a disk.
LEMMA ViewType ==
    ASSUME NEW v \in Window
    PROVE  View(v) \in SUBSET (0 .. (DiskBits - 1))
  BY SaveType DEF View, Window

\* What is in the buffer is what it shows.
LEMMA BufferIsShown ==
    ASSUME NEW v \in Window
    PROVE  v.buffer = Loaded(View(v), v.global_index)
<1> DEFINE g == v.global_index
           G == g * SectorBits
<1>1. g \in Nat /\ BufBits \in Nat /\ v.buffer \in SUBSET (0 .. (BufBits - 1))
  BY Sizes DEF Window
<1> HIDE DEF g
<1>2. G \in Nat
  BY <1>1, Sizes
<1>3. ASSUME NEW b \in 0 .. (BufBits - 1) PROVE b \in v.buffer <=> G + b \in View(v)
  <2> HIDE DEF G
  <2>1. b \in Int /\ G + b \in Int /\ G + b - G = b
    BY <1>1, <1>2
  <2>2. G + b \in Run(G, BufBits)
    BY <1>1, <1>2 DEF Run
  <2>3. G = v.global_index * SectorBits
    BY DEF G, g
  <2> QED
    BY <2>1, <2>2, <2>3, ViewBits
<1>4. Loaded(View(v), g) = {b \in 0 .. (BufBits - 1) : G + b \in View(v)}
  BY DEF Loaded
<1> QED
  BY <1>1, <1>3, <1>4 DEF g

\* A window that shows a disk, which its own copy agrees with.
Shows(v, disk) ==
    v \in Window /\ v.disk = disk /\ v.buffer = Loaded(disk, v.global_index)

\* The view of a window that shows the disk is the disk.
LEMMA LoadedView ==
    ASSUME NEW v \in Window, NEW disk, v.disk = disk,
           v.buffer = Loaded(disk, v.global_index)
    PROVE  View(v) = disk
<1> DEFINE g == v.global_index
           G == g * SectorBits
<1>1. g \in Nat
  BY Sizes DEF Window
<1>2. ASSUME NEW x \in Int PROVE x \in View(v) <=> x \in disk
  <2>1. /\ x \in Run(G, BufBits) <=> x - G \in 0 .. (BufBits - 1)
        /\ G + (x - G) = x
    <3> HIDE DEF g
    <3> QED
      BY <1>1, Shown
  <2>2. x - G \in v.buffer <=> x - G \in 0 .. (BufBits - 1) /\ G + (x - G) \in disk
    BY DEF Loaded
  <2>3. x \in View(v) <=> IF x \in Run(G, BufBits) THEN x - G \in v.buffer ELSE x \in disk
    BY ViewBits
  <2> HIDE DEF G
  <2> QED
    BY <2>1, <2>2, <2>3
<1>3. View(v) \in SUBSET Int /\ disk \in SUBSET Int
  <2>1. v.disk \in SUBSET (0 .. (DiskBits - 1))
    BY DEF Window
  <2> QED
    BY <2>1, ViewType
<1> QED
  BY <1>2, <1>3

\* A window that was saved shows what was its view.
LEMMA SavedShows ==
    ASSUME NEW v \in Window
    PROVE  Shows(SaveWindow(v), View(v))
  BY SaveType, BufferIsShown DEF Shows, View

\* A move within the table saves the buffer and shows the same table; a move
\* out of it does nothing.
LEMMA MoveKeeps ==
    ASSUME NEW v \in Window, NEW index \in Nat
    PROVE  LET m == MoveWindow(v, index) IN
           /\ m \in Window /\ View(m) = View(v)
           /\ index < TableSectors =>
                /\ m.ok = v.ok /\ m.global_index = index
                /\ m.buffer = Loaded(View(v), index)
           /\ index >= TableSectors => m = [v EXCEPT !.ok = FALSE]
           /\ \A disk : Shows(v, disk) => Shows(m, disk)
<1> DEFINE m == MoveWindow(v, index)
<1>1. TableSectors \in Nat /\ m \in Window
  BY Sizes, MoveType
<1>2. CASE index >= TableSectors
  <2>1. m = [v EXCEPT !.ok = FALSE] /\ ~(index < TableSectors)
    BY <1>1, <1>2 DEF MoveWindow
  <2>2. m.disk = v.disk /\ m.buffer = v.buffer /\ m.global_index = v.global_index
    BY <2>1 DEF Window
  <2>3. View(m) = View(v)
    <3>1. m.disk = v.disk /\ m.buffer = v.buffer /\ m.global_index = v.global_index
      BY <2>2
    <3> HIDE DEF m
    <3> QED
      BY <1>1, <3>1 DEF View, SaveWindow, Window
  <2> HIDE DEF m
  <2> QED
    BY <1>1, <2>1, <2>2, <2>3 DEF Shows, m
<1>3. CASE index < TableSectors /\ index = v.global_index
  <2>1. m = v /\ ~(index >= TableSectors)
    BY <1>1, <1>3 DEF MoveWindow
  <2> QED
    BY <1>1, <1>3, <2>1, BufferIsShown
<1>4. CASE index < TableSectors /\ index # v.global_index
  <2> DEFINE u == [SaveWindow(v) EXCEPT !.global_index = index]
  <2>1. m = [u EXCEPT !.buffer = Loaded(u.disk, u.global_index)]
    <3>1. ~(index >= TableSectors)
      BY <1>1, <1>4
    <3> QED
      BY <1>4, <3>1, Zenon DEF MoveWindow, ReloadWindow
  <2>2. /\ u.disk = View(v) /\ u.global_index = index /\ u.ok = v.ok /\ u \in Window
    <3>1. SaveWindow(v) \in Window /\ SaveWindow(v).ok = v.ok /\ SaveWindow(v).disk = View(v)
      BY SaveType DEF View
    <3>2. index \in 0 .. (TableSectors - 1)
      BY <1>1, <1>4
    <3> QED
      BY <3>1, <3>2 DEF Window
  <2> HIDE DEF u, m
  <2>3. /\ m.disk = View(v) /\ m.global_index = index /\ m.ok = v.ok
        /\ m.buffer = Loaded(View(v), index)
    BY <2>1, <2>2 DEF Window
  <2>4. View(m) = View(v)
    BY <1>1, <2>3, LoadedView DEF m
  <2>5. ~(index >= TableSectors)
    BY <1>1, <1>4
  <2>6. \A disk : Shows(v, disk) => Shows(m, disk)
    BY <1>1, <2>3, LoadedView DEF Shows, m
  <2> QED
    BY <1>1, <2>3, <2>4, <2>5, <2>6 DEF m
<1> QED
  BY <1>1, <1>2, <1>3, <1>4

\* What a change of the buffer does to the table that is shown.
LEMMA ChangeIsShown ==
    ASSUME NEW m \in Window, NEW buffer \in SUBSET (0 .. (BufBits - 1)), NEW x \in Int
    PROVE  LET G == m.global_index * SectorBits IN
           x \in View([m EXCEPT !.buffer = buffer]) <=>
             IF x \in Run(G, BufBits) THEN x - G \in buffer ELSE x \in View(m)
<1> DEFINE t == [m EXCEPT !.buffer = buffer]
<1>1. t \in Window /\ t.global_index = m.global_index /\ t.disk = m.disk /\ t.buffer = buffer
  BY DEF Window
<1> HIDE DEF t
<1>2. /\ x \in View(t) <=> IF x \in Run(m.global_index * SectorBits, BufBits)
                           THEN x - m.global_index * SectorBits \in buffer
                           ELSE x \in m.disk
      /\ x \in View(m) <=> IF x \in Run(m.global_index * SectorBits, BufBits)
                           THEN x - m.global_index * SectorBits \in m.buffer
                           ELSE x \in m.disk
  BY <1>1, ViewBits
<1> QED
  BY <1>2 DEF t

\* What is done in the window of a chunk is done in the table, at the place of
\* the chunk.
LEMMA InWindowInTable ==
    ASSUME NEW u \in Window, u.ok, NEW c \in Cut,
           c.index < TableSectors, c.length \in Nat, c.from + c.length <= BufBits
    PROVE  LET i == c.index * SectorBits + c.from IN
           /\ InItsWindow("write", u, c).ok
           /\ View(InItsWindow("write", u, c)) = WriteSeq(View(u), i, c.length)
           /\ InItsWindow("delete", u, c).ok
           /\ View(InItsWindow("delete", u, c)) = DeleteSeq(View(u), i, c.length)
           /\ InItsWindow("check", u, c).ok <=> CheckSeq(View(u), i, c.length)
           /\ \A disk : Shows(u, disk) => Shows(InItsWindow("check", u, c), disk)
<1> DEFINE m == MoveWindow(u, c.index)
           G == c.index * SectorBits
           f == c.from
           n == c.length
           i == G + f
<1>1. c.index \in Nat /\ f \in Nat /\ n \in Nat /\ f + n <= BufBits /\ BufBits \in Nat
      /\ SectorBits \in Nat
  BY Sizes DEF Cut
<1>2. G \in Nat
  BY <1>1
<1>3. /\ m \in Window /\ View(m) = View(u) /\ m.ok = u.ok /\ m.global_index = c.index
      /\ m.buffer = Loaded(View(u), c.index)
      /\ \A disk : Shows(u, disk) => Shows(m, disk)
  BY <1>1, MoveKeeps
<1> HIDE DEF m
<1>4. \A op : InItsWindow(op, u, c) = OnChunk(op, m, c)
  <2>1. u.ok /\ m.ok
    BY <1>3
  <2> QED
    BY <2>1, Zenon DEF InItsWindow, m
<1> HIDE DEF f, n
<1>5. ASSUME NEW x \in Int
      PROVE  /\ x \in Run(i, n) <=> x - G \in Run(f, n)
             /\ x - G \in Run(f, n) => x - G \in 0 .. (BufBits - 1)
             /\ x \in Run(G, BufBits) <=> x - G \in 0 .. (BufBits - 1)
             /\ x - G \in m.buffer <=> x - G \in 0 .. (BufBits - 1) /\ x \in View(u)
  <2> DEFINE y == x - G
  <2>1. y \in Int /\ G + y = x
    BY <1>2
  <2>2. m.buffer = {b \in 0 .. (BufBits - 1) : G + b \in View(u)}
    BY <1>3 DEF Loaded
  <2> HIDE DEF G, y
  <2>3. /\ x \in Run(G + f, n) <=> y \in Run(f, n)
        /\ y \in Run(f, n) => y \in 0 .. (BufBits - 1)
        /\ x \in Run(G, BufBits) <=> y \in 0 .. (BufBits - 1)
    <3>1. x \in Run(G + f, n) <=> y \in Run(f, n)
      BY <1>1, <1>2, <2>1 DEF Run
    <3>2. y \in Run(f, n) => y \in 0 .. (BufBits - 1)
      BY <1>1, <2>1 DEF Run
    <3>3. x \in Run(G, BufBits) <=> y \in 0 .. (BufBits - 1)
      BY <1>1, <1>2, <2>1 DEF Run
    <3> QED
      BY <3>1, <3>2, <3>3
  <2> QED
    BY <2>1, <2>2, <2>3 DEF y
<1>6. \A S : S \in SUBSET (0 .. (BufBits - 1)) =>
        /\ View([m EXCEPT !.buffer = S]) \in SUBSET Int
        /\ \A x \in Int : x \in View([m EXCEPT !.buffer = S]) <=>
             IF x \in Run(G, BufBits) THEN x - G \in S ELSE x \in View(u)
  <2> TAKE S
  <2> HAVE S \in SUBSET (0 .. (BufBits - 1))
  <2>1. [m EXCEPT !.buffer = S] \in Window
    BY <1>3 DEF Window
  <2>2. View([m EXCEPT !.buffer = S]) \in SUBSET Int
    BY <2>1, Sizes, ViewType
  <2> QED
    BY <1>3, <2>2, ChangeIsShown
<1>7. View(u) \in SUBSET Int /\ Run(i, n) \in SUBSET Int
  BY <1>1, <1>2, Sizes, ViewType DEF Run
<1> HIDE DEF G, i
<1>8. /\ InItsWindow("write", u, c).ok
      /\ View(InItsWindow("write", u, c)) = WriteSeq(View(u), i, n)
  <2> DEFINE S == InBuffer(WriteSeq(m.buffer, f, n))
             h == InItsWindow("write", u, c)
  <2>1. h = [m EXCEPT !.buffer = S]
    BY <1>4, Zenon DEF OnChunk, n, f
  <2>2. S \in SUBSET (0 .. (BufBits - 1))
    BY DEF InBuffer
  <2>3. \A y : y \in S <=> y \in 0 .. (BufBits - 1) /\ (y \in m.buffer \/ y \in Run(f, n))
    BY DEF InBuffer, WriteSeq
  <2> HIDE DEF S, h
  <2>4. View(h) \in SUBSET Int /\ \A x \in Int : x \in View(h) <=>
           IF x \in Run(G, BufBits) THEN x - G \in S ELSE x \in View(u)
    BY <1>6, <2>1, <2>2
  <2>5. \A x \in Int : x \in View(h) <=> x \in View(u) \/ x \in Run(i, n)
    BY <1>5, <2>3, <2>4
  <2>6. h.ok
    BY <1>3, <2>1 DEF Window
  <2> QED
    BY <1>7, <2>4, <2>5, <2>6 DEF WriteSeq, h
<1>9. /\ InItsWindow("delete", u, c).ok
      /\ View(InItsWindow("delete", u, c)) = DeleteSeq(View(u), i, n)
  <2> DEFINE S == DeleteSeq(m.buffer, f, n)
             h == InItsWindow("delete", u, c)
  <2>1. h = [m EXCEPT !.buffer = S]
    BY <1>4 DEF OnChunk, n, f
  <2>2. S \in SUBSET (0 .. (BufBits - 1))
    BY <1>3 DEF DeleteSeq, Window
  <2>3. \A y : y \in S <=> y \in m.buffer /\ y \notin Run(f, n)
    BY DEF DeleteSeq
  <2> HIDE DEF S, h
  <2>4. View(h) \in SUBSET Int /\ \A x \in Int : x \in View(h) <=>
           IF x \in Run(G, BufBits) THEN x - G \in S ELSE x \in View(u)
    BY <1>6, <2>1, <2>2
  <2>5. \A x \in Int : x \in View(h) <=> x \in View(u) /\ x \notin Run(i, n)
    BY <1>5, <2>3, <2>4
  <2>6. h.ok
    BY <1>3, <2>1 DEF Window
  <2> QED
    BY <1>7, <2>4, <2>5, <2>6 DEF DeleteSeq, h
<1>10. /\ InItsWindow("check", u, c).ok <=> CheckSeq(View(u), i, n)
       /\ \A disk : Shows(u, disk) => Shows(InItsWindow("check", u, c), disk)
  <2> DEFINE h == InItsWindow("check", u, c)
  <2>1. h = [m EXCEPT !.ok = CheckSeq(m.buffer, f, n)]
    BY <1>4 DEF OnChunk, n, f
  <2> HIDE DEF h
  <2>2. (h.ok <=> CheckSeq(m.buffer, f, n)) /\ h \in Window
        /\ h.disk = m.disk /\ h.buffer = m.buffer /\ h.global_index = m.global_index
    <3>1. CheckSeq(m.buffer, f, n) \in BOOLEAN
      BY DEF CheckSeq
    <3> QED
      BY <1>3, <2>1, <3>1 DEF Window
  <2>3. CheckSeq(m.buffer, f, n) <=> CheckSeq(View(u), i, n)
    <3>1. ASSUME NEW x \in Int PROVE x \in Run(i, n) /\ x \in View(u) <=>
                                     x - G \in Run(f, n) /\ x - G \in m.buffer
      BY <1>5
    <3>2. ASSUME NEW y \in Run(f, n) PROVE y \in Int /\ G + y \in Int /\ G + y - G = y
      BY <1>1, <1>2, <3>2 DEF Run
    <3>3. ASSUME NEW y \in Run(f, n), y \in m.buffer
          PROVE  G + y \in Run(i, n) /\ G + y \in View(u)
      <4>1. G + y \in Int /\ G + y - G = y
        BY <3>2
      <4> DEFINE x == G + y
      <4>2. x \in Int /\ x - G = y
        BY <1>2, <3>2
      <4> HIDE DEF x
      <4>3. x \in Run(i, n) /\ x \in View(u)
        BY <3>1, <3>3, <4>2
      <4> QED
        BY <4>3 DEF x
    <3>4. ASSUME NEW x \in Run(i, n), x \in View(u)
          PROVE  x - G \in Run(f, n) /\ x - G \in m.buffer
      BY <1>7, <3>1, <3>4
    <3> QED
      BY <3>3, <3>4, Zenon DEF CheckSeq
  <2> QED
    BY <1>3, <2>2, <2>3 DEF Shows, h
<1> QED
  BY <1>8, <1>9, <1>10 DEF i, G, f, n

-----------------------------------------------------------------------------
(* The parts of a sequence, if the buffer has one sector or the whole      *)
(* table: only then are sectors and buffers counted alike.                 *)

Fits ==
    /\ Sectors = 1 \/ Sectors = TableSectors
    /\ CallsOnWhole => TableSectors = 1

\* The numbers of a request.
LEMMA RequestType ==
    ASSUME NEW r \in Requests
    PROVE  /\ r[1] \in Nat /\ r[2] \in Nat \ {0} /\ r[1] + r[2] <= TableBits
           /\ r[2] <= BufBits \/ r[1] = 0
           /\ r[1] \in 0 .. (TableBits - 1) /\ r = <<r[1], r[2]>>
  BY Sizes DEF Requests

\* A place within the table lies in one of its sectors.
LEMMA SectorOfPlace ==
    ASSUME NEW i \in Nat, NEW f \in Nat, i * SectorBits + f < TableBits
    PROVE  i < TableSectors
<1>1. TableSectors \in Nat /\ SectorBits \in Nat
  BY Sizes
<1>2. CASE ~(i < TableSectors)
  <2>1. i = TableSectors \/ TableSectors < i
    BY <1>1, <1>2
  <2>2. TableSectors < i => TableSectors * SectorBits + SectorBits <= i * SectorBits
    BY <1>1, Multiples
  <2> DEFINE I == i * SectorBits
             T == TableSectors * SectorBits
  <2>3. I \in Nat /\ T \in Nat /\ TableBits = T
    BY <1>1 DEF TableBits
  <2>4. i = TableSectors => I = T
    OBVIOUS
  <2>5. I + f < TableBits /\ (TableSectors < i => T + SectorBits <= I)
    BY <2>2
  <2> HIDE DEF I, T
  <2> QED
    BY <1>1, <2>1, <2>3, <2>4, <2>5
<1> QED
  BY <1>2

\* The parts follow one another from the first bit to the last, each within a
\* window of the table; D[k] bits lie in the first k parts.
IsCover(D, n, cs, index, length) ==
    /\ D[0] = 0 /\ D[n] = length
    /\ \A k \in 1 .. n :
         /\ D[k - 1] \in Nat /\ D[k] \in Nat
         /\ cs[k] \in Cut /\ cs[k].length \in Nat /\ cs[k].index < TableSectors
         /\ cs[k].from + cs[k].length <= BufBits
         /\ D[k] = D[k - 1] + cs[k].length
         /\ cs[k].index * SectorBits + cs[k].from = index + D[k - 1]

\* The parts of a request are its bits, each in its window.
LEMMA ChunksCover ==
    ASSUME Fits, NEW r \in Requests
    PROVE  LET cs == Chunks(r[1], r[2]) IN
           Len(cs) \in Nat \ {0} /\ \E D : IsCover(D, Len(cs), cs, r[1], r[2])
<1> DEFINE index  == r[1]
           length == r[2]
           first  == index \div BufBits
           from   == index % BufBits
           start  == IF length < BufBits - from THEN length ELSE BufBits - from
           full   == length \div BufBits
           middle == IF full > 1 THEN full - 1 ELSE 0
           rest   == length - start - middle * BufBits
           n      == middle + 1 + IF rest > 0 THEN 1 ELSE 0
           cs     == Chunks(index, length)
<1>1. /\ index \in Nat /\ length \in Nat \ {0} /\ index + length <= TableBits
      /\ length <= BufBits \/ index = 0
      /\ BufBits \in Nat \ {0} /\ SectorBits \in Nat \ {0} /\ TableBits \in Nat
      /\ TableSectors \in Nat \ {0}
  BY RequestType, Sizes
<1>2. /\ first \in Nat /\ from \in 0 .. (BufBits - 1) /\ start \in Nat
      /\ full \in Nat /\ middle \in Nat /\ rest \in Int /\ n \in Nat \ {0}
      /\ cs \in Seq(Cut) /\ Len(cs) = n
      /\ cs[1] = Chunk(first, from, start)
      /\ \A k \in 2 .. (middle + 1) : cs[k] = Chunk(first + (k - 1), 0, BufBits)
      /\ rest > 0 => cs[n] = Chunk(first + middle + 1, 0, rest)
  <2>1. index \in Nat /\ length \in Nat
    BY <1>1
  <2> HIDE DEF index, length
  <2> QED
    BY <2>1, ChunksExist, Zenon
<1>3. /\ index = first * BufBits + from /\ first * BufBits \in Nat
      /\ length = full * BufBits + (length % BufBits)
      /\ length % BufBits \in 0 .. (BufBits - 1) /\ full * BufBits \in Nat
  <2> HIDE DEF index, length
  <2>1. /\ index = first * BufBits + from
        /\ length = full * BufBits + (length % BufBits)
        /\ length % BufBits \in 0 .. (BufBits - 1)
    BY <1>1, Digits
  <2> HIDE DEF first, full
  <2> QED
    BY <1>1, <1>2, <2>1
<1> HIDE DEF index, length, cs, first, from, full
<1>4. CASE length <= BufBits
  <2>1. middle = 0
    <3>1. full <= 1
      <4>1. full > 1 => 1 * BufBits + BufBits <= full * BufBits
        BY <1>1, <1>2, Multiples
      <4> QED
        <5> DEFINE F == full * BufBits
                   l == length % BufBits
        <5>1. length = F + l /\ l \in 0 .. (BufBits - 1) /\ F \in Nat
              /\ (full > 1 => 1 * BufBits + BufBits <= F)
          BY <1>3, <4>1
        <5>2. 1 * BufBits = BufBits
          BY <1>1
        <5> HIDE DEF F, l
        <5> QED
          BY <1>1, <1>2, <1>4, <5>1, <5>2
    <3> QED
      BY <1>2, <3>1
  <2>2. middle * BufBits = 0
    BY <1>1, <2>1
  <2> DEFINE middleBits == middle * BufBits
  <2> HIDE DEF middleBits, middle
  <2>3. start <= length /\ start >= 0 /\ from + start <= BufBits /\ rest = length - start
        /\ rest <= BufBits /\ rest >= 0 /\ (rest > 0 => from + start = BufBits)
        /\ n = IF rest > 0 THEN 2 ELSE 1
    BY <1>1, <1>2, <1>4, <2>1, <2>2 DEF middleBits
  <2> HIDE DEF start, rest, n
  <2>4. IF Sectors = 1 THEN BufBits = SectorBits
        ELSE first = 0 /\ rest = 0
    <3>1. Sectors = 1 => BufBits = SectorBits
      BY <1>1 DEF BufBits
    <3>2. ASSUME Sectors # 1 PROVE first = 0 /\ rest = 0
      <4>1. BufBits = TableBits
        BY <3>2 DEF Fits, BufBits, TableBits
      <4>2. first = 0
        <5>1. 0 < first => 0 * BufBits + BufBits <= first * BufBits
          BY <1>1, <1>2, Multiples
        <5> DEFINE F == first * BufBits
        <5>2. F \in Nat /\ index = F + from /\ (0 < first => BufBits <= F)
          BY <1>1, <1>3, <5>1
        <5> HIDE DEF F
        <5> QED
          BY <1>1, <1>2, <4>1, <5>2
      <4>3. index = from
        BY <1>1, <1>2, <1>3, <4>2
      <4>4. rest = 0
        <5>1. from + length <= BufBits
          BY <1>1, <4>1, <4>3
        <5>2. start = length
          BY <1>1, <1>2, <5>1 DEF start
        <5> QED
          BY <1>1, <2>3, <5>2
      <4> QED
        BY <4>2, <4>4
    <3> QED
      BY <3>1, <3>2
  <2>5. /\ first * SectorBits + from = index
        /\ rest > 0 => (first + 1) * SectorBits + 0 = index + start
    <3>1. CASE Sectors = 1
      <4> DEFINE F == first * BufBits
      <4>1. F \in Nat /\ F = first * SectorBits /\ (first + 1) * SectorBits = F + BufBits
            /\ index = F + from
        BY <1>1, <1>2, <1>3, <2>4, <3>1
      <4> HIDE DEF F
      <4> QED
        BY <1>1, <1>2, <2>3, <4>1
    <3>2. CASE Sectors # 1
      <4>1. first = 0 /\ rest = 0
        BY <2>4, <3>2
      <4> QED
        BY <1>1, <1>2, <1>3, <4>1
    <3> QED
      BY <3>1, <3>2
  <2>6. first < TableSectors /\ (rest > 0 => first + 1 < TableSectors)
    <3>1. index < TableBits /\ (rest > 0 => index + start < TableBits)
      BY <1>1, <1>2, <2>3
    <3>2. first * SectorBits + from < TableBits
      BY <2>5, <3>1
    <3>3. first < TableSectors
      BY <1>2, <3>2, SectorOfPlace
    <3>4. ASSUME rest > 0 PROVE first + 1 < TableSectors
      <4>1. (first + 1) * SectorBits + 0 < TableBits
        BY <2>5, <3>1, <3>4
      <4>2. first + 1 \in Nat /\ 0 \in Nat
        BY <1>2
      <4> QED
        BY <4>1, <4>2, SectorOfPlace
    <3> QED
      BY <3>3, <3>4
  <2> DEFINE E == [k \in 0 .. n |-> IF k = 0 THEN 0 ELSE IF k = n THEN length ELSE start]
  <2>7. CASE rest > 0
    <3>1. n = 2 /\ E[0] = 0 /\ E[1] = start /\ E[2] = length
      BY <2>3, <2>7
    <3>2. cs[1] = Chunk(first, from, start) /\ cs[2] = Chunk(first + 1, 0, rest)
      BY <1>2, <2>1, <2>7, <3>1
    <3> HIDE DEF E
    <3>3. \A k \in 1 .. n : k = 1 \/ k = 2
      BY <3>1
    <3>4. 1 - 1 = 0 /\ 2 - 1 = 1 /\ length = start + rest /\ 0 + start = start
          /\ rest \in Nat /\ start \in Nat /\ length \in Nat /\ 0 \in Nat
          /\ 0 + rest <= BufBits /\ index + 0 = index /\ from \in Nat /\ first + 1 \in Nat
      BY <1>1, <1>2, <2>3, <2>7
    <3>5. /\ E[0] \in Nat /\ E[1] \in Nat /\ E[2] \in Nat
          /\ cs[1] \in Cut /\ cs[1].length = start /\ cs[1].index = first /\ cs[1].from = from
          /\ cs[2] \in Cut /\ cs[2].length = rest /\ cs[2].index = first + 1 /\ cs[2].from = 0
      BY <1>2, <3>1, <3>2, <3>4 DEF Chunk, Cut
    <3>6. IsCover(E, n, cs, index, length)
      BY <2>3, <2>5, <2>6, <2>7, <3>1, <3>3, <3>4, <3>5 DEF IsCover
    <3> QED
      BY <1>2, <3>6 DEF cs, index, length
  <2>8. CASE rest = 0
    <3>1. n = 1 /\ E[0] = 0 /\ E[1] = length
      BY <2>3, <2>8
    <3>2. cs[1] = Chunk(first, from, start)
      BY <1>2
    <3> HIDE DEF E
    <3>3. \A k \in 1 .. n : k = 1
      BY <3>1
    <3>4. 1 - 1 = 0 /\ length = start /\ 0 + start = start
          /\ start \in Nat /\ length \in Nat /\ 0 \in Nat
          /\ index + 0 = index /\ from \in Nat
      BY <1>1, <1>2, <2>3, <2>8
    <3>5. /\ E[0] \in Nat /\ E[1] \in Nat
          /\ cs[1] \in Cut /\ cs[1].length = start /\ cs[1].index = first /\ cs[1].from = from
      BY <1>2, <3>1, <3>2, <3>4 DEF Chunk, Cut
    <3>6. IsCover(E, n, cs, index, length)
      BY <2>3, <2>5, <2>6, <3>1, <3>3, <3>4, <3>5 DEF IsCover
    <3> QED
      BY <1>2, <3>6 DEF cs, index, length
  <2> QED
    BY <1>2, <2>3, <2>7, <2>8
<1>5. CASE index = 0 /\ length > BufBits
  <2>1. Sectors = 1 /\ BufBits = SectorBits
    <3>1. Sectors = TableSectors => BufBits = TableBits
      BY DEF BufBits, TableBits
    <3>2. Sectors = 1
      BY <1>1, <1>5, <3>1 DEF Fits
    <3> QED
      BY <1>1, <3>2 DEF BufBits
  <2>2. first = 0 /\ from = 0
    <3>1. 0 < first => 0 * BufBits + BufBits <= first * BufBits
      BY <1>1, <1>2, Multiples
    <3> DEFINE F == first * BufBits
    <3>2. F \in Nat /\ index = F + from /\ (0 < first => BufBits <= F)
      BY <1>1, <1>3, <3>1
    <3> HIDE DEF F
    <3> QED
      BY <1>1, <1>2, <1>5, <3>2
  <2>3. start = BufBits
    BY <1>1, <1>2, <1>5, <2>2
  <2>4. full >= 1
    <3>1. full = 0 => full * BufBits = 0
      BY <1>1
    <3> DEFINE F == full * BufBits
               l == length % BufBits
    <3>2. length = F + l /\ l \in 0 .. (BufBits - 1) /\ F \in Nat /\ (full = 0 => F = 0)
      BY <1>3, <3>1
    <3> HIDE DEF F, l
    <3> QED
      BY <1>1, <1>2, <1>5, <3>2
  <2>5. middle = full - 1
    BY <1>2, <2>4
  <2> DEFINE M == middle * BufBits
  <2>6. M \in Nat /\ full * BufBits = M + BufBits
    <3> HIDE DEF middle
    <3>1. full = middle + 1
      BY <1>2, <2>5
    <3> QED
      BY <1>1, <1>2, <3>1
  <2>7. rest \in 0 .. (BufBits - 1) /\ length = M + BufBits + rest
        /\ n = IF rest > 0 THEN middle + 2 ELSE middle + 1
    <3>1. length = M + BufBits + (length % BufBits)
      BY <1>3, <2>6
    <3> DEFINE l == length % BufBits
    <3>2. l \in 0 .. (BufBits - 1) /\ length = M + BufBits + l
      BY <1>3, <3>1
    <3> HIDE DEF l
    <3>3. rest = length - BufBits - M
      BY <1>2, <2>3
    <3> HIDE DEF M, rest, middle
    <3> QED
      BY <1>1, <1>2, <2>6, <3>2, <3>3
  <2> HIDE DEF middle, rest, start
  <2> DEFINE E == [k \in 0 .. n |-> IF k = n THEN length ELSE k * BufBits]
  <2>8. E[0] = 0 /\ E[n] = length
    <3>1. n # 0 /\ 0 \in 0 .. n /\ n \in 0 .. n
      BY <1>2
    <3> HIDE DEF n
    <3> QED
      BY <1>1, <3>1
  <2>9. ASSUME NEW k \in 1 .. n
        PROVE  LET K == (k - 1) * BufBits IN
               /\ K \in Nat /\ E[k - 1] = K
               /\ k <= middle + 1 => /\ cs[k] = Chunk(k - 1, 0, BufBits)
                                     /\ E[k] = K + BufBits
               /\ k = middle + 2 => /\ rest > 0 /\ cs[k] = Chunk(k - 1, 0, rest)
                                    /\ E[k] = K + rest
               /\ k <= middle + 1 \/ k = middle + 2
    <3>1. /\ k \in Nat \ {0} /\ k \in 0 .. n /\ k - 1 \in 0 .. n /\ k - 1 # n /\ k - 1 \in Nat
      BY <1>2
    <3>2. (k - 1) * BufBits \in Nat /\ k * BufBits = (k - 1) * BufBits + BufBits
      BY <1>1, <3>1
    <3>3. E[k - 1] = (k - 1) * BufBits
      BY <3>1
    <3>4. E[k] = IF k = n THEN length ELSE k * BufBits
      BY <3>1
    <3>5. k <= middle + 1 \/ k = middle + 2
      BY <1>2, <2>7
    <3>6. ASSUME k <= middle + 1 PROVE cs[k] = Chunk(k - 1, 0, BufBits)
      <4>1. k = 1 \/ k \in 2 .. (middle + 1)
        BY <1>2, <3>1, <3>6
      <4>2. first + (k - 1) = k - 1 /\ (k = 1 => first = k - 1)
        BY <2>2, <3>1
      <4> QED
        BY <1>2, <2>2, <2>3, <4>1, <4>2
    <3>7. ASSUME k <= middle + 1 PROVE E[k] = (k - 1) * BufBits + BufBits
      <4>1. CASE k = n
        <5>1. k = middle + 1 /\ rest = 0
          BY <1>2, <2>7, <3>1, <3>7, <4>1
        <5>2. (k - 1) * BufBits = M
          <6>1. k - 1 = middle
            BY <1>2, <5>1
          <6> QED
            BY <6>1
        <5>3. E[k] = length
          BY <3>4, <4>1
        <5> HIDE DEF M, E
        <5>4. length = M + BufBits
          BY <1>1, <2>6, <2>7, <5>1
        <5> QED
          BY <5>2, <5>3, <5>4
      <4>2. CASE k # n
        BY <3>2, <3>4, <4>2
      <4> QED
        BY <4>1, <4>2
    <3>8. ASSUME k = middle + 2
          PROVE  rest > 0 /\ cs[k] = Chunk(k - 1, 0, rest) /\ E[k] = (k - 1) * BufBits + rest
      <4>1. rest > 0 /\ k = n
        BY <1>2, <2>7, <3>1, <3>8
      <4>2. first + middle + 1 = k - 1 /\ k - 1 = middle + 1
        BY <1>2, <2>2, <3>8
      <4>3. (k - 1) * BufBits = M + BufBits
        <5>1. (middle + 1) * BufBits = middle * BufBits + BufBits
          BY <1>1, <1>2
        <5> QED
          BY <4>2, <5>1
      <4>4. E[k] = length
        BY <3>4, <4>1
      <4>5. cs[k] = Chunk(k - 1, 0, rest)
        BY <1>2, <4>1, <4>2
      <4> HIDE DEF M, E
      <4> QED
        BY <2>7, <4>1, <4>3, <4>4, <4>5
    <3> HIDE DEF E
    <3> QED
      BY <3>2, <3>3, <3>5, <3>6, <3>7, <3>8
  <2> HIDE DEF E, M
  <2>10. ASSUME NEW k \in 1 .. n
         PROVE  /\ E[k - 1] \in Nat /\ E[k] \in Nat
                /\ cs[k] \in Cut /\ cs[k].length \in Nat /\ cs[k].index < TableSectors
                /\ cs[k].from + cs[k].length <= BufBits
                /\ E[k] = E[k - 1] + cs[k].length
                /\ cs[k].index * SectorBits + cs[k].from = index + E[k - 1]
    <3> DEFINE K == (k - 1) * BufBits
               l == cs[k].length
    <3>1. /\ K \in Nat /\ E[k - 1] = K /\ l \in Nat \ {0} /\ l <= BufBits
          /\ cs[k] = Chunk(k - 1, 0, l) /\ E[k] = K + l
      <4>1. /\ K \in Nat /\ E[k - 1] = K
            /\ k <= middle + 1 => cs[k] = Chunk(k - 1, 0, BufBits) /\ E[k] = K + BufBits
            /\ k = middle + 2 => rest > 0 /\ cs[k] = Chunk(k - 1, 0, rest) /\ E[k] = K + rest
            /\ k <= middle + 1 \/ k = middle + 2
        BY <2>9
      <4> HIDE DEF K
      <4>2. CASE k <= middle + 1
        <5>1. cs[k].length = BufBits
          BY <4>1, <4>2 DEF Chunk
        <5> QED
          BY <1>1, <4>1, <4>2, <5>1
      <4>3. CASE k = middle + 2
        <5>1. cs[k].length = rest /\ rest \in Nat \ {0} /\ rest <= BufBits
          BY <1>1, <2>7, <4>1, <4>3 DEF Chunk
        <5> QED
          BY <4>1, <4>3, <5>1
      <4> QED
        BY <4>1, <4>2, <4>3
    <3>2. k - 1 \in Nat /\ cs[k] \in Cut
      <4>1. k - 1 \in Nat
        BY <1>2
      <4> HIDE DEF l
      <4> QED
        BY <3>1, <4>1 DEF Chunk, Cut
    <3>3. cs[k].index = k - 1 /\ cs[k].from = 0
      BY <3>1 DEF Chunk
    <3>4. (k - 1) * SectorBits = K
      BY <2>1
    <3>5. K < TableBits
      <4>1. E[k] <= length
        <5>1. CASE k = n
          BY <1>1, <2>8, <5>1
        <5>2. CASE k # n
          <6>1. k \in 1 .. (middle + 1) /\ (k = middle + 1 => rest > 0) /\ k <= middle + 1
            BY <1>2, <2>7, <5>2
          <6>2. E[k] = k * BufBits
            <7>1. k \in 0 .. n
              BY <1>2
            <7> QED
              BY <5>2, <7>1 DEF E
          <6>3. k * BufBits <= (middle + 1) * BufBits
            <7>1. k < middle + 1 => k * BufBits + BufBits <= (middle + 1) * BufBits
              BY <1>1, <1>2, <6>1, Multiples
            <7>2. k * BufBits \in Nat /\ (middle + 1) * BufBits \in Nat
              BY <1>1, <1>2
            <7>3. k < middle + 1 \/ k = middle + 1
              BY <1>2, <6>1
            <7> DEFINE x == k * BufBits
                       y == (middle + 1) * BufBits
            <7>4. k = middle + 1 => x = y
              OBVIOUS
            <7>5. x \in Nat /\ y \in Nat /\ (k < middle + 1 => x + BufBits <= y)
              BY <7>1, <7>2
            <7> HIDE DEF x, y
            <7>6. x <= y
              BY <1>1, <7>3, <7>4, <7>5
            <7> QED
              BY <7>6 DEF x, y
          <6>4. (middle + 1) * BufBits = M + BufBits
            BY <1>1, <1>2 DEF M
          <6> QED
            BY <1>1, <2>6, <2>7, <6>2, <6>3, <6>4
        <5> QED
          BY <5>1, <5>2
      <4> HIDE DEF K, l
      <4>2. E[k] > K
        BY <3>1
      <4> QED
        BY <1>1, <1>5, <3>1, <4>1, <4>2
    <3> HIDE DEF K, l
    <3>6. k - 1 < TableSectors
      <4>1. (k - 1) * SectorBits + 0 < TableBits
        BY <3>1, <3>4, <3>5
      <4>2. 0 \in Nat
        OBVIOUS
      <4> QED
        BY <3>2, <4>1, <4>2, SectorOfPlace
    <3> QED
      BY <1>5, <3>1, <3>2, <3>3, <3>4, <3>6 DEF l
  <2>11. IsCover(E, n, cs, index, length)
    BY <2>8, <2>10 DEF IsCover
  <2> HIDE DEF n
  <2> QED
    BY <1>2, <2>11 DEF cs, index, length
<1> QED
  BY <1>1, <1>4, <1>5

\* What a call returns is not on the disk.
LEMMA OkIsNotShown ==
    ASSUME NEW v \in Window, NEW ok \in BOOLEAN
    PROVE  LET t == [v EXCEPT !.ok = ok] IN
           /\ t \in Window /\ t.ok = ok /\ View(t) = View(v)
           /\ t.buffer = v.buffer /\ t.global_index = v.global_index
           /\ \A disk : Shows(v, disk) => Shows(t, disk)
<1> DEFINE t == [v EXCEPT !.ok = ok]
<1>1. /\ t \in Window /\ t.ok = ok /\ t.disk = v.disk /\ t.buffer = v.buffer
      /\ t.global_index = v.global_index
  BY DEF Window
<1> HIDE DEF t
<1>2. View(t) = View(v)
  BY <1>1 DEF View, SaveWindow, Window
<1> QED
  BY <1>1, <1>2 DEF Shows, t

\* write_seq_global does to the table what write_seq does to a sequence of bits.
LEMMA WriteDone ==
    ASSUME Fits, NEW v \in Window, NEW r \in Requests
    PROVE  LET u == OnChunks("write", v, r[1], r[2]) IN
           u \in Window /\ u.ok /\ View(u) = WriteSeq(View(v), r[1], r[2])
<1> DEFINE index  == r[1]
           length == r[2]
           cs     == Chunks(index, length)
           n      == Len(cs)
           table  == View(v)
<1>1. /\ index \in Nat /\ length \in Nat /\ "write" \in Operations
  BY RequestType DEF Operations
<1>2. n \in Nat \ {0} /\ \E D : IsCover(D, n, cs, index, length)
  BY ChunksCover
<1>3. PICK D : IsCover(D, n, cs, index, length)
  BY <1>2
<1> HIDE DEF index, length, table
<1>4. PICK h : /\ h[0] = [v EXCEPT !.ok = TRUE]
               /\ \A k \in 1 .. n :
                    cs[k] \in Cut /\ h[k] = InItsWindow("write", h[k - 1], cs[k])
               /\ OnChunks("write", v, index, length) = h[n]
  BY <1>1, ChunkSteps, SMTT(30)
<1> HIDE DEF cs, n
<1>5. /\ D[0] = 0 /\ D[n] = length
      /\ \A k \in 1 .. n :
           /\ D[k - 1] \in Nat /\ D[k] \in Nat
           /\ cs[k] \in Cut /\ cs[k].length \in Nat /\ cs[k].index < TableSectors
           /\ cs[k].from + cs[k].length <= BufBits
           /\ D[k] = D[k - 1] + cs[k].length
           /\ cs[k].index * SectorBits + cs[k].from = index + D[k - 1]
  BY <1>3 DEF IsCover
<1> DEFINE Good(k) == h[k] \in Window /\ h[k].ok /\ View(h[k]) = WriteSeq(table, index, D[k])
           S == {k \in 0 .. n : Good(k)}
<1>6. 0 \in S
  <2>1. 0 \in 0 .. n
    BY <1>2
  <2>2. h[0] \in Window /\ h[0].ok
    BY <1>4 DEF Window
  <2>3. View(h[0]) = table
    BY <1>4, OkIsNotShown DEF table
  <2>4. WriteSeq(table, index, 0) = table
    BY <1>1 DEF WriteSeq, Run
  <2> QED
    BY <1>5, <2>1, <2>2, <2>3, <2>4
<1>7. ASSUME NEW k \in 0 .. (n - 1), k \in S PROVE k + 1 \in S
  <2> DEFINE c == cs[k + 1]
             d == D[k]
             l == c.length
             i == c.index * SectorBits + c.from
             u == h[k]
  <2>1. k + 1 \in 1 .. n /\ k + 1 \in 0 .. n /\ k + 1 - 1 = k
    BY <1>2
  <2>2. /\ d \in Nat /\ l \in Nat /\ D[k + 1] = d + l /\ i = index + d
        /\ c \in Cut /\ c.index < TableSectors /\ c.from + l <= BufBits
    BY <1>5, <2>1
  <2>3. h[k + 1] = InItsWindow("write", u, c)
    BY <1>4, <2>1
  <2>4. u \in Window /\ u.ok /\ View(u) = WriteSeq(table, index, d)
    BY <1>7
  <2> HIDE DEF u, c, d
  <2>5. /\ InItsWindow("write", u, c).ok
        /\ View(InItsWindow("write", u, c)) = WriteSeq(View(u), i, l)
    BY <2>2, <2>4, InWindowInTable
  <2>6. InItsWindow("write", u, c) \in Window
    BY <1>1, <2>2, <2>4, ChunkType
  <2> HIDE DEF i, l
  <2>7. WriteSeq(WriteSeq(table, index, d), i, l) = WriteSeq(table, index, d + l)
    <3>1. \A x : x \in Run(index, d + l) <=> x \in Run(index, d) \/ x \in Run(i, l)
      BY <1>1, <2>2 DEF Run
    <3> QED
      BY <3>1 DEF WriteSeq
  <2> QED
    BY <2>1, <2>2, <2>3, <2>4, <2>5, <2>6, <2>7
<1>8. n \in S
  <2>1. n \in 0 .. n /\ n \in Nat
    BY <1>2
  <2> HIDE DEF S
  <2> QED
    BY <1>6, <1>7, <2>1, InductionUpTo
<1> QED
  BY <1>4, <1>5, <1>8 DEF index, length, table

\* delete_seq_global does to the table what delete_seq does to a sequence of bits.
LEMMA DeleteDone ==
    ASSUME Fits, NEW v \in Window, NEW r \in Requests
    PROVE  LET u == OnChunks("delete", v, r[1], r[2]) IN
           u \in Window /\ u.ok /\ View(u) = DeleteSeq(View(v), r[1], r[2])
<1> DEFINE index  == r[1]
           length == r[2]
           cs     == Chunks(index, length)
           n      == Len(cs)
           table  == View(v)
<1>1. /\ index \in Nat /\ length \in Nat /\ "delete" \in Operations
  BY RequestType DEF Operations
<1>2. n \in Nat \ {0} /\ \E D : IsCover(D, n, cs, index, length)
  BY ChunksCover
<1>3. PICK D : IsCover(D, n, cs, index, length)
  BY <1>2
<1> HIDE DEF index, length, table
<1>4. PICK h : /\ h[0] = [v EXCEPT !.ok = TRUE]
               /\ \A k \in 1 .. n :
                    cs[k] \in Cut /\ h[k] = InItsWindow("delete", h[k - 1], cs[k])
               /\ OnChunks("delete", v, index, length) = h[n]
  BY <1>1, ChunkSteps, SMTT(30)
<1> HIDE DEF cs, n
<1>5. /\ D[0] = 0 /\ D[n] = length
      /\ \A k \in 1 .. n :
           /\ D[k - 1] \in Nat /\ D[k] \in Nat
           /\ cs[k] \in Cut /\ cs[k].length \in Nat /\ cs[k].index < TableSectors
           /\ cs[k].from + cs[k].length <= BufBits
           /\ D[k] = D[k - 1] + cs[k].length
           /\ cs[k].index * SectorBits + cs[k].from = index + D[k - 1]
  BY <1>3 DEF IsCover
<1> DEFINE Good(k) == h[k] \in Window /\ h[k].ok /\ View(h[k]) = DeleteSeq(table, index, D[k])
           S == {k \in 0 .. n : Good(k)}
<1>6. 0 \in S
  <2>1. 0 \in 0 .. n
    BY <1>2
  <2>2. h[0] \in Window /\ h[0].ok
    BY <1>4 DEF Window
  <2>3. View(h[0]) = table
    BY <1>4, OkIsNotShown DEF table
  <2>4. DeleteSeq(table, index, 0) = table
    BY <1>1 DEF DeleteSeq, Run
  <2> QED
    BY <1>5, <2>1, <2>2, <2>3, <2>4
<1>7. ASSUME NEW k \in 0 .. (n - 1), k \in S PROVE k + 1 \in S
  <2> DEFINE c == cs[k + 1]
             d == D[k]
             l == c.length
             i == c.index * SectorBits + c.from
             u == h[k]
  <2>1. k + 1 \in 1 .. n /\ k + 1 \in 0 .. n /\ k + 1 - 1 = k
    BY <1>2
  <2>2. /\ d \in Nat /\ l \in Nat /\ D[k + 1] = d + l /\ i = index + d
        /\ c \in Cut /\ c.index < TableSectors /\ c.from + l <= BufBits
    BY <1>5, <2>1
  <2>3. h[k + 1] = InItsWindow("delete", u, c)
    BY <1>4, <2>1
  <2>4. u \in Window /\ u.ok /\ View(u) = DeleteSeq(table, index, d)
    BY <1>7
  <2> HIDE DEF u, c, d
  <2>5. /\ InItsWindow("delete", u, c).ok
        /\ View(InItsWindow("delete", u, c)) = DeleteSeq(View(u), i, l)
    BY <2>2, <2>4, InWindowInTable
  <2>6. InItsWindow("delete", u, c) \in Window
    BY <1>1, <2>2, <2>4, ChunkType
  <2> HIDE DEF i, l
  <2>7. DeleteSeq(DeleteSeq(table, index, d), i, l) = DeleteSeq(table, index, d + l)
    <3>1. \A x : x \in Run(index, d + l) <=> x \in Run(index, d) \/ x \in Run(i, l)
      BY <1>1, <2>2 DEF Run
    <3> QED
      BY <3>1 DEF DeleteSeq
  <2> QED
    BY <2>1, <2>2, <2>3, <2>4, <2>5, <2>6, <2>7
<1>8. n \in S
  <2>1. n \in 0 .. n /\ n \in Nat
    BY <1>2
  <2> HIDE DEF S
  <2> QED
    BY <1>6, <1>7, <2>1, InductionUpTo
<1> QED
  BY <1>4, <1>5, <1>8 DEF index, length, table

\* check_seq_global is true exactly if the bits of the table are zero, and
\* leaves the table as it is.
LEMMA CheckDone ==
    ASSUME Fits, NEW v \in Window, NEW r \in Requests, NEW disk, Shows(v, disk)
    PROVE  LET u == OnChunks("check", v, r[1], r[2]) IN
           Shows(u, disk) /\ (u.ok <=> CheckSeq(disk, r[1], r[2]))
<1> DEFINE index  == r[1]
           length == r[2]
           cs     == Chunks(index, length)
           n      == Len(cs)
<1>1. /\ index \in Nat /\ length \in Nat /\ "check" \in Operations
  BY RequestType DEF Operations
<1>2. n \in Nat \ {0} /\ \E D : IsCover(D, n, cs, index, length)
  BY ChunksCover
<1>3. PICK D : IsCover(D, n, cs, index, length)
  BY <1>2
<1> HIDE DEF index, length
<1>4. PICK h : /\ h[0] = [v EXCEPT !.ok = TRUE]
               /\ \A k \in 1 .. n :
                    cs[k] \in Cut /\ h[k] = InItsWindow("check", h[k - 1], cs[k])
               /\ OnChunks("check", v, index, length) = h[n]
  BY <1>1, ChunkSteps, SMTT(30)
<1> HIDE DEF cs, n
<1>5. /\ D[0] = 0 /\ D[n] = length
      /\ \A k \in 1 .. n :
           /\ D[k - 1] \in Nat /\ D[k] \in Nat
           /\ cs[k] \in Cut /\ cs[k].length \in Nat /\ cs[k].index < TableSectors
           /\ cs[k].from + cs[k].length <= BufBits
           /\ D[k] = D[k - 1] + cs[k].length
           /\ cs[k].index * SectorBits + cs[k].from = index + D[k - 1]
  BY <1>3 DEF IsCover
<1> DEFINE Good(k) == Shows(h[k], disk) /\ (h[k].ok <=> CheckSeq(disk, index, D[k]))
           S == {k \in 0 .. n : Good(k)}
<1>6. 0 \in S
  <2>1. 0 \in 0 .. n
    BY <1>2
  <2>2. Shows(h[0], disk) /\ h[0].ok = TRUE
    BY <1>4, OkIsNotShown
  <2>3. CheckSeq(disk, index, 0)
    BY <1>1 DEF CheckSeq, Run
  <2> QED
    BY <1>5, <2>1, <2>2, <2>3
<1>7. ASSUME NEW k \in 0 .. (n - 1), k \in S PROVE k + 1 \in S
  <2> DEFINE c == cs[k + 1]
             d == D[k]
             l == c.length
             i == c.index * SectorBits + c.from
             u == h[k]
             t == InItsWindow("check", u, c)
  <2>1. k + 1 \in 1 .. n /\ k + 1 \in 0 .. n /\ k + 1 - 1 = k
    BY <1>2
  <2>2. /\ d \in Nat /\ l \in Nat /\ D[k + 1] = d + l /\ i = index + d
        /\ c \in Cut /\ c.index < TableSectors /\ c.from + l <= BufBits
    BY <1>5, <2>1
  <2>3. h[k + 1] = t
    BY <1>4, <2>1
  <2>4. Shows(u, disk) /\ (u.ok <=> CheckSeq(disk, index, d))
    BY <1>7
  <2> HIDE DEF u, c, d
  <2>5. u \in Window /\ View(u) = disk
    BY <2>4, LoadedView DEF Shows
  <2>6. CheckSeq(disk, index, d + l) <=> CheckSeq(disk, index, d) /\ CheckSeq(disk, i, l)
    <3> HIDE DEF i, l
    <3>1. index \in Int /\ d \in Nat /\ l \in Nat
      BY <1>1, <2>2
    <3>2. CheckSeq(disk, index, d + l)
            <=> CheckSeq(disk, index, d) /\ CheckSeq(disk, index + d, l)
      BY <3>1, Parts
    <3> QED
      BY <2>2, <3>2
  <2>7. CASE u.ok
    <3>1. (t.ok <=> CheckSeq(disk, i, l)) /\ Shows(t, disk)
      <4>1. /\ t.ok <=> CheckSeq(View(u), i, l)
            /\ \A a : Shows(u, a) => Shows(t, a)
        BY <2>2, <2>5, <2>7, InWindowInTable
      <4> HIDE DEF t, i, l
      <4> QED
        BY <2>4, <2>5, <4>1
    <3> HIDE DEF t, i, l
    <3> QED
      BY <2>1, <2>2, <2>3, <2>4, <2>6, <2>7, <3>1
  <2>8. CASE ~u.ok
    <3>1. t = [u EXCEPT !.ok = FALSE]
      BY <2>8 DEF InItsWindow
    <3>2. Shows(t, disk) /\ t.ok = FALSE
      BY <2>4, <2>5, <3>1, OkIsNotShown
    <3> HIDE DEF t, i, l
    <3> QED
      BY <2>1, <2>2, <2>3, <2>4, <2>6, <2>8, <3>2
  <2> QED
    BY <2>7, <2>8
<1>8. n \in S
  <2>1. n \in 0 .. n /\ n \in Nat
    BY <1>2
  <2> HIDE DEF S
  <2> QED
    BY <1>6, <1>7, <2>1, InductionUpTo
<1> QED
  BY <1>4, <1>5, <1>8 DEF index, length

-----------------------------------------------------------------------------
(* Calls that only read keep what the window shows.                        *)

\* A turn of find_seq_global_small leaves a window that shows the disk.
LEMMA SmallShowsOne ==
    ASSUME NEW s \in SmallStates, NEW k \in Nat, NEW length \in Int, NEW disk,
           Shows(s.window, disk)
    PROVE  Shows(SearchWindow(s, k, length).window, disk)
<1> DEFINE m == MoveWindow(s.window, k)
           t == SearchWindow(s, k, length)
<1>1. Shows(m, disk)
  BY MoveKeeps DEF Shows
<1>2. t.window = s.window \/ t.window = m
  <2> DEFINE base  == k * SectorBits
             inner == base - s.tail
             found == base + FindSeq(m.buffer, BufBits, length)
             tail  == TailLength(m.buffer)
  <2>1. \/ t = s
        \/ t = [s EXCEPT !.window = m, !.index = inner]
        \/ t = [s EXCEPT !.window = m, !.index = found]
        \/ t = [[s EXCEPT !.window = m, !.index = NotFound] EXCEPT !.tail = tail]
    BY Zenon DEF SearchWindow
  <2> HIDE DEF m, inner, found, tail, t
  <2>2. \A i, j : /\ [s EXCEPT !.window = m, !.index = i].window = m
                  /\ [[s EXCEPT !.window = m, !.index = i] EXCEPT !.tail = j].window = m
    BY DEF SmallStates
  <2>3. /\ [s EXCEPT !.window = m, !.index = inner].window = m
        /\ [s EXCEPT !.window = m, !.index = found].window = m
        /\ [[s EXCEPT !.window = m, !.index = NotFound] EXCEPT !.tail = tail].window = m
    BY <2>2, Zenon
  <2> QED
    BY <2>1, <2>3, Zenon
<1> QED
  BY <1>1, <1>2

\* A search for a sequence that fits in the buffer changes nothing.
LEMMA SmallShows ==
    ASSUME NEW v, NEW length \in Int, NEW disk, Shows(v, disk)
    PROVE  Shows(FindSeqGlobalSmall(v, length).window, disk)
<1> DEFINE n == TableSectors + 1
<1>1. PICK h : /\ h[0] = [window |-> [v EXCEPT !.ok = TRUE], index |-> NotFound, tail |-> 0]
               /\ \A i \in 1 .. n : h[i] = SearchWindow(h[i - 1], i - 1, length)
               /\ FindSeqGlobalSmall(v, length) = h[n]
  BY SmallSteps, Zenon DEF Shows
<1>2. n \in Nat
  BY Sizes
<1> DEFINE S == {i \in 0 .. n : h[i] \in SmallStates /\ Shows(h[i].window, disk)}
<1>3. 0 \in S
  <2>1. Shows([v EXCEPT !.ok = TRUE], disk)
    BY OkIsNotShown DEF Shows
  <2>2. 0 \in 0 .. n
    BY <1>2
  <2>3. h[0] \in SmallStates /\ Shows(h[0].window, disk)
    <3>1. [v EXCEPT !.ok = TRUE] \in Window
      BY <2>1 DEF Shows
    <3> QED
      BY <1>1, <2>1, <3>1 DEF SmallStates, NotFound
  <2> QED
    BY <2>2, <2>3
<1>4. ASSUME NEW i \in 0 .. (n - 1), i \in S PROVE i + 1 \in S
  <2>1. i + 1 \in 1 .. n /\ i + 1 \in 0 .. n /\ i + 1 - 1 = i /\ i \in Nat
    BY <1>2
  <2>2. h[i + 1] = SearchWindow(h[i], i, length)
    BY <1>1, <2>1
  <2>3. Shows(SearchWindow(h[i], i, length).window, disk)
    BY <1>4, <2>1, SmallShowsOne
  <2> QED
    BY <1>4, <2>1, <2>2, <2>3, SmallType
<1>5. \A i \in 0 .. n : i \in S
  <2> HIDE DEF S, n
  <2> QED
    BY <1>2, <1>3, <1>4, InductionUpTo
<1>6. n \in 0 .. n
  BY <1>2
<1> QED
  BY <1>1, <1>5, <1>6

\* So does a turn of the search for a long sequence.
LEMMA LongShowsOne ==
    ASSUME NEW s \in LongStates, NEW k \in Nat, NEW length \in Int, NEW disk,
           Shows(s.window, disk)
    PROVE  Shows(SearchLongWindow(s, k, length).window, disk)
<1> DEFINE m == MoveWindow(s.window, k)
           t == SearchLongWindow(s, k, length)
           u == [s EXCEPT !.window = m]
<1>1. Shows(m, disk)
  BY MoveKeeps DEF Shows
<1>2. t.window = s.window \/ t.window = m
  <2> DEFINE tail      == TailLength(m.buffer)
             begin     == BufBits - tail
             firstUsed == Least(m.buffer) \div ByteBits
             found     == s.place * (SectorBits \div ByteBits) + s.begin
             bytes     == BufBits \div ByteBits
             fewer     == u.missing - tail
             next      == u.missing - BufBits
             i         == s.i
  <2>1. \/ t = s
        \/ t = [u EXCEPT !.begin = begin, !.missing = fewer, !.place = i]
        \/ t = [u EXCEPT !.missing = next, !.i = bytes]
        \/ t = [u EXCEPT !.missing = length, !.begin = begin,
                         !.i = firstUsed, !.place = firstUsed]
        \/ t = [u EXCEPT !.index = found]
        \/ t = [u EXCEPT !.missing = length, !.begin = begin, !.place = i]
    BY Zenon DEF SearchLongWindow
  <2> HIDE DEF tail, begin, firstUsed, found, bytes, fewer, next, i, t, m
  <2>2. [u EXCEPT !.begin = begin, !.missing = fewer, !.place = i].window = m
    BY DEF LongStates
  <2>3. [u EXCEPT !.missing = next, !.i = bytes].window = m
    BY DEF LongStates
  <2>4. [u EXCEPT !.missing = length, !.begin = begin,
                  !.i = firstUsed, !.place = firstUsed].window = m
    BY DEF LongStates
  <2>5. [u EXCEPT !.index = found].window = m
    BY DEF LongStates
  <2>6. [u EXCEPT !.missing = length, !.begin = begin, !.place = i].window = m
    BY DEF LongStates
  <2> HIDE DEF u
  <2> QED
    BY <2>1, <2>2, <2>3, <2>4, <2>5, <2>6, Zenon
<1> QED
  BY <1>1, <1>2

\* Nor does a search for a longer one.
LEMMA LongShows ==
    ASSUME NEW v, NEW length \in Int, NEW garbage \in Int, NEW disk, Shows(v, disk)
    PROVE  Shows(FindLongSeqGlobal(v, length, garbage).window, disk)
<1> DEFINE n == TableSectors + 1
<1>1. PICK h : /\ h[0] = [window |-> [v EXCEPT !.ok = TRUE], index |-> NotFound, missing |-> length,
                         begin |-> 0, place |-> garbage, i |-> garbage]
               /\ \A i \in 1 .. n : h[i] = SearchLongWindow(h[i - 1], i - 1, length)
               /\ FindLongSeqGlobal(v, length, garbage) = h[n]
  BY LongSteps, Zenon DEF Shows
<1>2. n \in Nat
  BY Sizes
<1> DEFINE S == {i \in 0 .. n : h[i] \in LongStates /\ Shows(h[i].window, disk)}
<1>3. 0 \in S
  <2>1. Shows([v EXCEPT !.ok = TRUE], disk)
    BY OkIsNotShown DEF Shows
  <2>2. 0 \in 0 .. n
    BY <1>2
  <2>3. h[0] \in LongStates /\ Shows(h[0].window, disk)
    <3>1. [v EXCEPT !.ok = TRUE] \in Window
      BY <2>1 DEF Shows
    <3> QED
      BY <1>1, <2>1, <3>1 DEF LongStates, NotFound
  <2> QED
    BY <2>2, <2>3
<1>4. ASSUME NEW i \in 0 .. (n - 1), i \in S PROVE i + 1 \in S
  <2>1. i + 1 \in 1 .. n /\ i + 1 \in 0 .. n /\ i + 1 - 1 = i /\ i \in Nat
    BY <1>2
  <2>2. h[i + 1] = SearchLongWindow(h[i], i, length)
    BY <1>1, <2>1
  <2>3. Shows(SearchLongWindow(h[i], i, length).window, disk)
    BY <1>4, <2>1, LongShowsOne
  <2> QED
    BY <1>4, <2>1, <2>2, <2>3, LongType
<1>5. \A i \in 0 .. n : i \in S
  <2> HIDE DEF S, n
  <2> QED
    BY <1>2, <1>3, <1>4, InductionUpTo
<1>6. n \in 0 .. n
  BY <1>2
<1> QED
  BY <1>1, <1>5, <1>6

\* Each window that inodes_used looks at shows the next sector.
LEMMA VisitsShow ==
    ASSUME NEW v, NEW disk, Shows(v, disk)
    PROVE  /\ \A k \in 1 .. (TableSectors + 1) : Shows(Visits(v)[k], disk)
           /\ \A k \in 1 .. TableSectors :
                /\ Visits(v)[k + 1].buffer = Loaded(disk, k - 1)
                /\ Visits(v)[k + 1].global_index = k - 1
<1> DEFINE n == TableSectors
           s == Visits(v)
           S == {k \in 0 .. n : Shows(s[k + 1], disk)}
<1>1. n \in Nat \ {0} /\ s[1] = v /\ \A k \in 1 .. n : s[k + 1] = MoveWindow(s[k], k - 1)
  BY Sizes, VisitsType DEF Shows
<1> HIDE DEF n, s
<1>2. ASSUME NEW k \in 1 .. n, Shows(s[k], disk)
      PROVE  /\ Shows(s[k + 1], disk) /\ s[k + 1].buffer = Loaded(disk, k - 1)
             /\ s[k + 1].global_index = k - 1
  <2>1. k - 1 \in Nat /\ k - 1 < n /\ s[k] \in Window /\ s[k + 1] = MoveWindow(s[k], k - 1)
    BY <1>1, <1>2 DEF Shows
  <2>2. View(s[k]) = disk
    BY <1>2, LoadedView DEF Shows
  <2> QED
    BY <1>2, <2>1, <2>2, MoveKeeps DEF n
<1>3. 0 \in S
  <2>1. 0 \in 0 .. n /\ 0 + 1 = 1
    BY <1>1
  <2> QED
    BY <1>1, <2>1
<1>4. ASSUME NEW i \in 0 .. (n - 1), i \in S PROVE i + 1 \in S
  <2>1. i + 1 \in 1 .. n /\ i + 1 \in 0 .. n
    BY <1>1
  <2> QED
    BY <1>2, <1>4, <2>1
<1>5. \A i \in 0 .. n : i \in S
  <2> HIDE DEF S
  <2> QED
    BY <1>1, <1>3, <1>4, InductionUpTo
<1>6. \A k \in 1 .. (n + 1) : Shows(s[k], disk)
  <2> TAKE k \in 1 .. (n + 1)
  <2>1. k - 1 \in 0 .. n /\ k - 1 + 1 = k
    BY <1>1
  <2> QED
    BY <1>5, <2>1
<1>7. \A k \in 1 .. n : s[k + 1].buffer = Loaded(disk, k - 1) /\ s[k + 1].global_index = k - 1
  <2> TAKE k \in 1 .. n
  <2>1. k \in 1 .. (n + 1)
    BY <1>1
  <2> QED
    BY <1>2, <1>6, <2>1
<1> QED
  BY <1>6, <1>7 DEF n, s

-----------------------------------------------------------------------------
(* The table on disk and in the window is the table of the callers.        *)

WInv == Shows(w, used) /\ used \in SUBSET (0 .. (TableBits - 1))

\* A call that ends with save_window leaves the window showing what is on disk.
LEMMA GlobalShows ==
    ASSUME Fits, NEW v \in Window, NEW r \in Requests
    PROVE  /\ Shows(WriteSeqGlobal(v, r[1], r[2]), WriteSeq(View(v), r[1], r[2]))
           /\ Shows(DeleteSeqGlobal(v, r[1], r[2]), DeleteSeq(View(v), r[1], r[2]))
<1> DEFINE u1 == OnChunks("write", v, r[1], r[2])
           u2 == OnChunks("delete", v, r[1], r[2])
<1>1. u1 \in Window /\ u1.ok /\ View(u1) = WriteSeq(View(v), r[1], r[2])
  BY WriteDone
<1>2. u2 \in Window /\ u2.ok /\ View(u2) = DeleteSeq(View(v), r[1], r[2])
  BY DeleteDone
<1>3. /\ WriteSeqGlobal(v, r[1], r[2]) = SaveIfOk(u1)
      /\ DeleteSeqGlobal(v, r[1], r[2]) = SaveIfOk(u2)
  BY Zenon DEF WriteSeqGlobal, DeleteSeqGlobal
<1> HIDE DEF u1, u2
<1>4. SaveIfOk(u1) = SaveWindow(u1) /\ SaveIfOk(u2) = SaveWindow(u2)
  BY <1>1, <1>2 DEF SaveIfOk
<1> QED
  BY <1>1, <1>2, <1>3, <1>4, SavedShows

\* The invariant holds after fs_mkfs.
LEMMA InitShows == Init => WInv
<1> SUFFICES ASSUME Init PROVE WInv
  OBVIOUS
<1>1. TypeOK
  BY InitType
<1>2. w.disk = used /\ w.buffer = Loaded(used, 0) /\ w.global_index = 0
  BY DEF Init
<1> QED
  BY <1>1, <1>2 DEF WInv, Shows, TypeOK

\* restore_fs on a table of one sector clears the buffer and marks the bits.
LEMMA RestoreShows ==
    ASSUME Fits, TableSectors = 1, NEW v \in Window,
           NEW bits \in SUBSET (0 .. (TableBits - 1))
    PROVE  Shows(RestoreTable(v, bits), bits)
<1>1. /\ TableBits \in Nat /\ BufBits = SectorBits /\ TableBits = SectorBits
      /\ DiskBits = SectorBits /\ SectorBits \in Nat /\ BufferSectors \in Nat
  BY Sizes, WindowAssumption DEF TableBits, Fits, BufBits
<1>2. bits \in SUBSET Nat /\ IsFiniteSet(bits)
  <2>1. IsFiniteSet(0 .. (TableBits - 1))
    <3>1. 0 \in Int /\ TableBits - 1 \in Int
      BY <1>1
    <3> QED
      BY <3>1, FS_Interval
  <2>2. bits \in SUBSET Nat
    BY <1>1
  <2> QED
    BY <2>1, <2>2, FS_Subset
<1>3. PICK g \in [SUBSET bits -> Window] :
        /\ g[{}] = Wiped(v)
        /\ \A s \in SUBSET bits : s # {} =>
             \E x \in s : g[s] = WriteSeqGlobal(g[s \ {x}], x, 1)
        /\ RestoreTable(v, bits) = SaveWindow(g[bits])
  BY <1>2, RestoreSteps
<1>4. View(Wiped(v)) = {}
  <2>1. Wiped(v) \in Window /\ Wiped(v).buffer = {} /\ Wiped(v).global_index = 0
    <3> DEFINE m == (TableSectors - 1) * BufferSectors * SectorBits
               S == {b \in 0 .. (BufBits - 1) : m + b >= TableBits}
    <3>1. m = 0
      BY <1>1
    <3>2. S = {}
      BY <1>1, <3>1
    <3>3. Wiped(v) = [v EXCEPT !.buffer = S]
      BY DEF Wiped
    <3>4. v.global_index = 0
      BY DEF Window
    <3> HIDE DEF S
    <3> QED
      BY <3>2, <3>3, <3>4, WipedType DEF Window
  <2> DEFINE u == Wiped(v)
  <2> HIDE DEF u
  <2>2. ASSUME NEW x \in View(u) PROVE FALSE
    <3>1. x \in 0 .. (DiskBits - 1)
      BY <2>1, ViewType DEF u
    <3>2. x \in Int /\ x \in Run(0, BufBits) /\ 0 * SectorBits = 0 /\ x - 0 = x
      BY <1>1, <3>1 DEF Run
    <3>3. u \in Window /\ u.buffer = {} /\ u.global_index = 0
      BY <2>1 DEF u
    <3> QED
      BY <2>2, <3>2, <3>3, ViewBits
  <2> QED
    BY <2>2 DEF u
<1> DEFINE T == {s \in SUBSET bits : View(g[s]) = s}
<1>5. ASSUME NEW s \in SUBSET bits, \A x \in s : s \ {x} \in T PROVE s \in T
  <2>1. CASE s = {}
    BY <1>3, <1>4, <2>1
  <2>2. CASE s # {}
    <3>1. PICK x \in s : g[s] = WriteSeqGlobal(g[s \ {x}], x, 1)
      BY <1>3, <2>2
    <3> DEFINE u == g[s \ {x}]
               r == <<x, 1>>
    <3>2. u \in Window /\ View(u) = s \ {x}
      BY <1>5
    <3>3. r \in Requests /\ r[1] = x /\ r[2] = 1
      <4>1. x \in 0 .. (TableBits - 1)
        OBVIOUS
      <4>2. x + 1 <= TableBits /\ 1 \in 1 .. TableBits /\ 1 <= BufBits
        BY <1>1, <4>1, Sizes
      <4> QED
        BY <4>1, <4>2 DEF Requests
    <3> HIDE DEF u, r
    <3>4. Shows(WriteSeqGlobal(u, x, 1), WriteSeq(View(u), x, 1))
      BY <3>2, <3>3, GlobalShows
    <3>5. WriteSeq(s \ {x}, x, 1) = s
      <4>1. Run(x, 1) = {x}
        BY <1>2 DEF Run
      <4> QED
        BY <4>1 DEF WriteSeq
    <3>6. View(g[s]) = s
      BY <3>1, <3>2, <3>4, <3>5, LoadedView DEF Shows, u
    <3> QED
      BY <3>6
  <2> QED
    BY <2>1, <2>2
<1>6. bits \in T
  <2> HIDE DEF T
  <2>1. \A s \in SUBSET bits : s \in T
    BY <1>2, <1>5, SetInduction
  <2> QED
    BY <2>1
<1>7. g[bits] \in Window
  OBVIOUS
<1> QED
  BY <1>3, <1>6, <1>7, SavedShows

\* Every call keeps it.
LEMMA NextShows ==
    ASSUME Fits
    PROVE  WInv /\ [Next]_vars => WInv'
<1> SUFFICES ASSUME WInv, [Next]_vars PROVE WInv'
  OBVIOUS
<1>1. /\ w \in Window /\ View(w) = used /\ Shows(w, used)
      /\ used \in SUBSET (0 .. (TableBits - 1))
  BY LoadedView DEF WInv, Shows
<1>2. TypeOK'
  BY <1>1, NextType DEF TypeOK
<1>3. used' \in SUBSET (0 .. (TableBits - 1))
  BY <1>2 DEF TypeOK
<1> SUFFICES Shows(w', used')
  BY <1>3 DEF WInv
<1>4. CASE \E r \in Requests : Write(r[1], r[2])
  BY <1>1, <1>4, GlobalShows DEF Write
<1>5. CASE \E r \in Requests : Delete(r[1], r[2])
  BY <1>1, <1>5, GlobalShows DEF Delete
<1>6. CASE \E r \in Requests : Check(r[1], r[2])
  <2>1. PICK r \in Requests : Check(r[1], r[2])
    BY <1>6
  <2>2. Shows(OnChunks("check", w, r[1], r[2]), used)
    BY <1>1, CheckDone
  <2> QED
    BY <2>1, <2>2 DEF Check, CheckSeqGlobal
<1>7. CASE \E length \in 1 .. TableBits, garbage \in 0 .. 1 : Find(length, garbage)
  <2>1. PICK length \in 1 .. TableBits, garbage \in 0 .. 1 : Find(length, garbage)
    BY <1>7
  <2>2. length \in Int /\ garbage \in Int
    BY Sizes
  <2>3. Shows(FindSeqGlobal(w, length, garbage).window, used)
    BY <1>1, <2>2, SmallShows, LongShows DEF FindSeqGlobal
  <2>4. Shows([FindSeqGlobal(w, length, garbage).window EXCEPT !.ok = TRUE], used)
    BY <2>3, OkIsNotShown DEF Shows
  <2> QED
    BY <2>1, <2>4 DEF Find
<1>8. CASE CountInodes
  <2>1. Shows(Visits(w)[TableSectors + 1], used)
    <3>1. TableSectors + 1 \in 1 .. (TableSectors + 1)
      BY Sizes
    <3> QED
      BY <1>1, <3>1, VisitsShow
  <2>2. Shows([Visits(w)[TableSectors + 1] EXCEPT !.ok = TRUE], used)
    BY <2>1, OkIsNotShown DEF Shows
  <2> QED
    BY <1>8, <2>2 DEF CountInodes
<1>9. CASE \E byte \in 0 .. (TableBits \div ByteBits - 1) : LoadInodes(byte)
  <2>1. PICK byte \in 0 .. (TableBits \div ByteBits - 1) : LoadInodes(byte)
    BY <1>9
  <2>2. byte \div (BufBits \div ByteBits) \in Nat
    <3> DEFINE b == BufBits \div ByteBits
               m == TableBits \div ByteBits
    <3>1. b \in Nat \ {0} /\ byte \in Nat
      BY Sizes
    <3> HIDE DEF b
    <3>2. byte \div b \in Nat
      BY <3>1, Digits
    <3> QED
      BY <3>2 DEF b
  <2>3. Shows(AccessTable(w, byte).window, used)
    BY <1>1, <2>2, MoveKeeps DEF AccessTable
  <2>4. Shows([AccessTable(w, byte).window EXCEPT !.ok = TRUE], used)
    BY <2>3, OkIsNotShown DEF Shows
  <2> QED
    BY <2>1, <2>4 DEF LoadInodes
<1>10. CASE Reload \/ Mount \/ GetFree
  <2>1. w'.disk = used /\ used' = used /\ w'.buffer = Loaded(used, w'.global_index)
    <3>1. w.disk = used
      BY <1>1 DEF Shows
    <3>2. CASE Reload
      BY <1>1, <3>1, <3>2 DEF Reload, ReloadWindow, Window
    <3>3. CASE Mount
      BY <1>1, <3>1, <3>3 DEF Mount, Window
    <3>4. CASE GetFree
      <4>1. TableSectors = 1
        BY <3>4 DEF GetFree, Fits
      <4>2. w.global_index = 0
        BY <1>1, <4>1 DEF Window
      <4> QED
        BY <1>1, <3>1, <3>4, <4>2 DEF GetFree, Window
    <3> QED
      BY <1>10, <3>2, <3>3, <3>4
  <2> QED
    BY <1>2, <2>1 DEF Shows, TypeOK
<1>11. CASE CallsOnWhole /\ \E bits \in SUBSET used : Restore(bits)
  <2>1. PICK bits \in SUBSET used : Restore(bits)
    BY <1>11
  <2>2. TableSectors = 1 /\ bits \in SUBSET (0 .. (TableBits - 1))
    BY <1>1, <1>11 DEF Fits
  <2>3. Shows(RestoreTable(w, bits), bits)
    BY <1>1, <2>2, RestoreShows
  <2> QED
    BY <2>1, <2>3 DEF Restore
<1>12. CASE UNCHANGED vars
  BY <1>1, <1>12 DEF vars
<1> QED
  BY <1>4, <1>5, <1>6, <1>7, <1>8, <1>9, <1>10, <1>11, <1>12 DEF Next

\* The window shows the disk, and the disk is what was asked for, after every
\* call.
LEMMA WindowIsKept ==
    ASSUME Fits
    PROVE  Spec => []WInv
<1>1. Init => WInv
  BY InitShows
<1>2. WInv /\ [Next]_vars => WInv'
  BY NextShows
<1> QED
  BY <1>1, <1>2, PTL DEF Spec

\* With one sector in the buffer, or the whole table, the table on disk is what
\* the callers have asked for, after every sequence of calls: no sector is lost
\* or written over another one when the window moves, and the sectors behind
\* the table are untouched.
THEOREM TableIsKept ==
    ASSUME Fits
    PROVE  Spec => []TableIsWhatWasAsked
<1>1. WInv => TableIsWhatWasAsked
  BY DEF WInv, Shows, TableIsWhatWasAsked
<1>2. Spec => []WInv
  BY WindowIsKept
<1> QED
  BY <1>1, <1>2, PTL

\* global_index always is the index of the first sector in the buffer.
THEOREM WindowIsRight ==
    ASSUME Fits
    PROVE  Spec => []WindowShowsItsSectors
<1>1. WInv => WindowShowsItsSectors
  BY DEF WInv, Shows, WindowShowsItsSectors
<1>2. Spec => []WInv
  BY WindowIsKept
<1> QED
  BY <1>1, <1>2, PTL

\* check_seq_global answers for the whole sequence, whichever windows it
\* crosses and wherever the window is.
THEOREM CheckAnswers ==
    ASSUME Fits
    PROVE  Spec => []CheckIsExact
<1>1. WInv => CheckIsExact
  BY CheckDone DEF WInv, Shows, CheckIsExact, CheckSeqGlobal
<1>2. Spec => []WInv
  BY WindowIsKept
<1> QED
  BY <1>1, <1>2, PTL

-----------------------------------------------------------------------------
(* The inode allocation table.                                             *)

\* The buffer consists of whole bytes.
LEMMA BytesOfBuffer ==
    LET B == BufBits \div ByteBits IN
    B \in Nat \ {0} /\ BufBits = B * ByteBits
<1> DEFINE q == SectorBits \div ByteBits
<1>1. /\ SectorBits \in Nat \ {0} /\ ByteBits \in Nat \ {0} /\ Sectors \in Nat \ {0}
      /\ SectorBits % ByteBits = 0
  BY Sizes, WindowAssumption
<1>2. q \in Nat /\ SectorBits = q * ByteBits
  <2>1. q \in Nat /\ SectorBits = q * ByteBits + (SectorBits % ByteBits)
    BY <1>1, Digits
  <2> HIDE DEF q
  <2> QED
    BY <1>1, <2>1
<1> HIDE DEF q
<1>3. Sectors * q \in Nat /\ BufBits = (Sectors * q) * ByteBits + 0
  BY <1>1, <1>2 DEF BufBits
<1> DEFINE Q == Sectors * q
<1> HIDE DEF Q
<1>4. Q \in Nat /\ BufBits = Q * ByteBits + 0
  BY <1>3 DEF Q
<1>5. 0 \in 0 .. (ByteBits - 1)
  BY <1>1
<1>6. BufBits \div ByteBits = Q
  BY <1>1, <1>4, <1>5, DigitsOf
<1> QED
  BY <1>1, <1>4, <1>6, Sizes

\* get_ino_pos finds the bit of a slot in the window of its byte.
LEMMA SlotPlace ==
    ASSUME Fits, NEW n \in 0 .. (TableBits - 1)
    PROVE  LET B     == BufBits \div ByteBits
               byte  == n \div ByteBits
               index == byte \div B
               q     == byte % B
               c     == n % ByteBits IN
           /\ index \in Nat /\ index < TableSectors /\ q \in Nat /\ c \in 0 .. (ByteBits - 1)
           /\ q * ByteBits + c \in 0 .. (BufBits - 1)
           /\ index * SectorBits + (q * ByteBits + c) = n
<1> DEFINE B     == BufBits \div ByteBits
           byte  == n \div ByteBits
           index == byte \div B
           q     == byte % B
           c     == n % ByteBits
<1>1. /\ n \in Nat /\ n < TableBits /\ ByteBits \in Nat \ {0} /\ BufBits \in Nat \ {0}
      /\ B \in Nat \ {0} /\ BufBits = B * ByteBits /\ TableBits \in Nat
      /\ SectorBits \in Nat /\ TableSectors \in Nat \ {0}
  BY Sizes, BytesOfBuffer
<1> HIDE DEF B
<1>2. byte \in Nat /\ c \in 0 .. (ByteBits - 1) /\ n = byte * ByteBits + c
  BY <1>1, Digits
<1> HIDE DEF byte
<1>3. index \in Nat /\ q \in 0 .. (B - 1) /\ byte = index * B + q
  BY <1>1, <1>2, Digits
<1> HIDE DEF index, q, c
<1> DEFINE P == q * ByteBits + c
           I == index * BufBits
<1>4. P \in Nat /\ P < BufBits
  <2>1. q * ByteBits + ByteBits <= B * ByteBits /\ q * ByteBits \in Nat
    <3>1. q \in Int /\ B \in Int /\ q < B /\ ByteBits \in Nat /\ q \in Nat
      BY <1>1, <1>3
    <3> QED
      BY <3>1, Multiples
  <2> DEFINE Q == q * ByteBits
  <2>2. Q \in Nat /\ Q + ByteBits <= BufBits
    BY <1>1, <2>1
  <2> HIDE DEF Q
  <2>3. Q + c \in Nat /\ Q + c < BufBits
    BY <1>1, <1>2, <2>2
  <2> QED
    BY <2>3 DEF Q
<1>5. I \in Nat /\ n = I + P
  <2>1. byte * ByteBits = index * (B * ByteBits) + q * ByteBits
    BY <1>1, <1>3
  <2>2. I \in Nat /\ byte * ByteBits = I + q * ByteBits
    BY <1>1, <1>3, <2>1
  <2>3. q * ByteBits \in Nat
    BY <1>1, <1>3
  <2> HIDE DEF I
  <2> DEFINE Q == q * ByteBits
             Y == byte * ByteBits
  <2>4. n = Y + c /\ Y = I + Q /\ Q \in Nat /\ I \in Nat
    BY <1>2, <2>2, <2>3
  <2> HIDE DEF Q, Y
  <2>5. n = I + (Q + c)
    BY <1>2, <2>4
  <2> QED
    BY <2>2, <2>5 DEF Q
<1> HIDE DEF P
<1>6. I = index * SectorBits
  <2>1. CASE Sectors = 1
    BY <1>1, <2>1 DEF BufBits
  <2>2. CASE Sectors # 1
    <3>1. BufBits = TableBits
      BY <2>2 DEF Fits, BufBits, TableBits
    <3>2. 0 < index => 0 * BufBits + BufBits <= index * BufBits
      BY <1>1, <1>3, Multiples
    <3>3. 0 < index => BufBits <= I
      BY <1>1, <3>2
    <3>4. index = 0
      <4> HIDE DEF I
      <4> QED
        BY <1>1, <1>3, <1>4, <1>5, <3>1, <3>3
    <3> QED
      BY <1>1, <3>4
  <2> QED
    BY <2>1, <2>2
<1>7. index < TableSectors
  <2>1. index * SectorBits + P < TableBits
    BY <1>1, <1>5, <1>6
  <2> QED
    BY <1>3, <1>4, <2>1, SectorOfPlace
<1>8. q \in Nat /\ P \in 0 .. (BufBits - 1) /\ index * SectorBits + P = n
  BY <1>1, <1>3, <1>4, <1>5, <1>6
<1> QED
  BY <1>2, <1>3, <1>7, <1>8 DEF P, index, q, c, byte, B

\* get_ino_pos, from any window that shows the disk.
LEMMA SlotFound ==
    ASSUME Fits, NEW v, NEW disk, Shows(v, disk), NEW n \in 0 .. (TableBits - 1)
    PROVE  SlotUsed(v, n) <=> n \in disk
<1> DEFINE B     == BufBits \div ByteBits
           byte  == n \div ByteBits
           index == byte \div B
           q     == byte % B
           c     == n % ByteBits
           m     == MoveWindow(v, index)
           p     == q * ByteBits + c
<1>1. /\ index \in Nat /\ index < TableSectors /\ q \in Nat /\ c \in 0 .. (ByteBits - 1)
      /\ p \in 0 .. (BufBits - 1) /\ index * SectorBits + p = n
  BY SlotPlace
<1>2. SlotUsed(v, n) <=> \E x \in {b \in m.buffer : b \div ByteBits = q} : x % ByteBits = c
  BY Zenon DEF SlotUsed, AccessTable
<1> HIDE DEF c, q, index
<1>3. m.buffer = Loaded(disk, index)
  <2>1. View(v) = disk /\ v \in Window
    BY LoadedView DEF Shows
  <2> QED
    BY <1>1, <2>1, MoveKeeps
<1> HIDE DEF m
<1>4. p \div ByteBits = q /\ p % ByteBits = c
  BY <1>1, Sizes, DigitsOf
<1>5. ASSUME NEW x \in m.buffer, x \div ByteBits = q, x % ByteBits = c PROVE x = p
  <2>1. x \in Nat
    BY <1>3, Sizes DEF Loaded
  <2>2. x = (x \div ByteBits) * ByteBits + (x % ByteBits)
    BY <2>1, Sizes, Digits
  <2> QED
    BY <1>5, <2>2
<1>6. SlotUsed(v, n) <=> p \in m.buffer
  BY <1>2, <1>4, <1>5
<1> HIDE DEF p
<1> QED
  BY <1>1, <1>3, <1>6 DEF Loaded

\* Whichever window another call has left, the slots in use are found and no
\* others, in tables of every size.
THEOREM SlotsFound ==
    ASSUME Fits
    PROVE  Spec => []SlotsAreFound
<1>1. WInv => SlotsAreFound
  BY SlotFound DEF WInv, SlotsAreFound
<1>2. Spec => []WInv
  BY WindowIsKept
<1> QED
  BY <1>1, <1>2, PTL

\* The sum over the sectors is none less than one of its terms.
LEMMA CountedSum ==
    ASSUME NEW seen, NEW whole, NEW S, IsFiniteSet(S),
           \A k \in S : Cardinality({b \in seen[k].buffer : b < whole}) \in Nat
    PROVE  LET total == MapThenSumSet(
                          LAMBDA k : Cardinality({b \in seen[k].buffer : b < whole}), S) IN
           /\ total \in Nat
           /\ \A k \in S : /\ Cardinality({b \in seen[k].buffer : b < whole}) <= total
                           /\ S = {k} =>
                                total = Cardinality({b \in seen[k].buffer : b < whole})
<1> DEFINE F(k)   == Cardinality({b \in seen[k].buffer : b < whole})
           total  == MapThenSumSet(
                       LAMBDA k : Cardinality({b \in seen[k].buffer : b < whole}), S)
           choose == [s \in SUBSET S |-> CHOOSE x \in s : TRUE]
           f      == [p \in S \X Nat |-> F(p[1]) + p[2]]
           IsIter(g) ==
             g = [s \in SUBSET S |->
                    IF s = {} THEN 0
                    ELSE F(CHOOSE x \in s : TRUE) + g[s \ {CHOOSE x \in s : TRUE}]]
           c      == CHOOSE g : IsIter(g)
<1>1. total = c[S]
  BY DEF MapThenSumSet, MapThenFoldSet
<1> HIDE DEF total
<1>2. \A k \in S : F(k) \in Nat
  OBVIOUS
<1> HIDE DEF F
<1>3. \A x \in S, u \in Nat : f[<<x, u>>] = F(x) + u /\ f[<<x, u>>] \in Nat
  BY <1>2
<1>4. \A s \in SUBSET S : s # {} =>
        choose[s] = (CHOOSE x \in s : TRUE) /\ choose[s] \in s
  OBVIOUS
<1> HIDE DEF f, choose
<1>5. PICK g : IsFold(g, S, choose, Nat, 0, f)
  <2>1. FoldData(S, choose, Nat, 0, f)
    <3>1. 0 \in Nat
      OBVIOUS
    <3> QED
      BY <1>3, <1>4, <3>1, Zenon DEF FoldData, Bytes!FoldData, IsFiniteSet, Bytes!IsFiniteSet
  <2> QED
    BY <2>1, FoldExists
<1>6. /\ g \in [SUBSET S -> Nat]
      /\ g = [s \in SUBSET S |->
                IF s = {} THEN 0 ELSE f[<<choose[s], g[s \ {choose[s]}]>>]]
  BY <1>5, Zenon DEF IsFold, Bytes!IsFold
<1>7. \A s \in SUBSET S : s # {} =>
        f[<<choose[s], g[s \ {choose[s]}]>>]
          = F(CHOOSE x \in s : TRUE) + g[s \ {CHOOSE x \in s : TRUE}]
  <2> TAKE s \in SUBSET S
  <2> HAVE s # {}
  <2> DEFINE x == choose[s]
             u == g[s \ {x}]
  <2>1. x = (CHOOSE y \in s : TRUE) /\ x \in s /\ x \in S
    BY <1>4
  <2> HIDE DEF x
  <2>2. u \in Nat
    BY <1>6
  <2> HIDE DEF u
  <2>3. f[<<x, u>>] = F(x) + u
    BY <1>3, <2>1, <2>2
  <2> QED
    BY <2>1, <2>3, Zenon DEF x, u
<1>8. IsIter(g)
  BY <1>6, <1>7
<1>9. IsIter(c)
  <2> HIDE DEF IsIter
  <2> QED
    BY <1>8
<1> HIDE DEF c
<1>10. c[{}] = 0
  BY <1>9
<1>11. \A s \in SUBSET S : s # {} => \E x \in s : c[s] = F(x) + c[s \ {x}]
  <2> TAKE s \in SUBSET S
  <2> HAVE s # {}
  <2> DEFINE x == CHOOSE y \in s : TRUE
  <2>1. x \in s
    OBVIOUS
  <2>2. c[s] = F(x) + c[s \ {x}]
    BY <1>9
  <2> HIDE DEF x
  <2> QED
    BY <2>1, <2>2
<1> DEFINE T == {s \in SUBSET S : c[s] \in Nat /\ \A k \in s : F(k) <= c[s]}
<1>12. ASSUME NEW s \in SUBSET S, \A x \in s : s \ {x} \in T PROVE s \in T
  <2>1. CASE s = {}
    BY <1>10, <2>1
  <2>2. CASE s # {}
    <3>1. PICK x \in s : c[s] = F(x) + c[s \ {x}]
      BY <1>11, <2>2
    <3>2. c[s \ {x}] \in Nat /\ \A k \in s \ {x} : F(k) <= c[s \ {x}]
      BY <1>12
    <3>3. c[s] \in Nat /\ \A k \in s : F(k) <= c[s]
      <4>1. F(x) \in Nat /\ \A k \in s : F(k) \in Nat
        BY <1>2
      <4>2. \A k \in s : k = x \/ k \in s \ {x}
        OBVIOUS
      <4> DEFINE d == c[s \ {x}]
      <4>3. d \in Nat /\ c[s] = F(x) + d /\ \A k \in s \ {x} : F(k) <= d
        BY <3>1, <3>2
      <4> HIDE DEF d
      <4>4. c[s] \in Nat /\ F(x) <= c[s] /\ d <= c[s]
        BY <4>1, <4>3
      <4>5. ASSUME NEW k \in s PROVE F(k) <= c[s]
        <5>1. CASE k = x
          BY <4>4, <5>1
        <5>2. CASE k \in s \ {x}
          <6>1. F(k) \in Nat /\ F(k) <= d
            BY <4>1, <4>3, <5>2
          <6> QED
            BY <4>3, <4>4, <6>1
        <5> QED
          BY <4>2, <5>1, <5>2
      <4> QED
        BY <4>4, <4>5
    <3> QED
      BY <3>3
  <2> QED
    BY <2>1, <2>2
<1>13. S \in T
  <2> HIDE DEF T
  <2>1. \A s \in SUBSET S : s \in T
    BY <1>12, SetInduction
  <2> QED
    BY <2>1
<1>14. ASSUME NEW k \in S, S = {k} PROVE c[S] = F(k)
  <2>1. PICK x \in S : c[S] = F(x) + c[S \ {x}]
    BY <1>11
  <2>2. x = k /\ S \ {x} = {}
    BY <1>14
  <2> QED
    BY <1>2, <1>10, <2>1, <2>2
<1> QED
  BY <1>1, <1>13, <1>14 DEF F, total

\* The number of bits of a set below a border, and from there on.
BitsBelow(u, b)   == Cardinality(u \cap (0 .. (b - 1)))
BitsFrom(u, a, b) == Cardinality(u \cap (a .. (b - 1)))

\* What lies below a number, counted in two parts.
LEMMA CountInParts ==
    ASSUME NEW u, NEW a \in Nat, NEW b \in Nat, a <= b
    PROVE  /\ BitsBelow(u, b) \in Nat /\ BitsBelow(u, a) \in Nat /\ BitsFrom(u, a, b) \in Nat
           /\ BitsBelow(u, b) = BitsBelow(u, a) + BitsFrom(u, a, b)
           /\ IsFiniteSet(a .. (b - 1))
           /\ BitsFrom(u, a, b) <= Cardinality(a .. (b - 1))
<1> DEFINE X == u \cap (0 .. (a - 1))
           Y == u \cap (a .. (b - 1))
<1>1. IsFiniteSet(0 .. (a - 1)) /\ IsFiniteSet(a .. (b - 1))
  <2>1. 0 \in Int /\ a - 1 \in Int /\ a \in Int /\ b - 1 \in Int
    OBVIOUS
  <2> QED
    BY <2>1, FS_Interval
<1>2. IsFiniteSet(X) /\ IsFiniteSet(Y)
  BY <1>1, FS_Subset
<1>3. Y \subseteq a .. (b - 1)
  OBVIOUS
<1>4. X \cap Y = {} /\ X \cup Y = u \cap (0 .. (b - 1))
  OBVIOUS
<1>5. Cardinality(Y) <= Cardinality(a .. (b - 1))
  BY <1>1, <1>3, FS_Subset
<1> HIDE DEF X, Y
<1>6. Cardinality(X) \in Nat /\ Cardinality(Y) \in Nat
  BY <1>2, FS_CardinalityType
<1>7. Cardinality(X \cup Y) = Cardinality(X) + Cardinality(Y)
  <2>1. Cardinality(X \cup Y) = Cardinality(X) + Cardinality(Y) - Cardinality(X \cap Y)
    BY <1>2, FS_Union
  <2>2. Cardinality(X \cap Y) = 0
    BY <1>4, FS_EmptySet
  <2> QED
    BY <1>6, <2>1, <2>2
<1>8. /\ Cardinality(u \cap (0 .. (b - 1))) = Cardinality(X) + Cardinality(Y)
      /\ Cardinality(X) + Cardinality(Y) \in Nat
  <2>1. Cardinality(u \cap (0 .. (b - 1))) = Cardinality(X \cup Y)
    BY <1>4, Zenon
  <2> QED
    BY <1>6, <1>7, <2>1
<1>9. Cardinality(u \cap (0 .. (b - 1))) \in Nat
  BY <1>8
<1> QED
  BY <1>1, <1>5, <1>6, <1>8, <1>9, Zenon DEF X, Y, BitsBelow, BitsFrom

\* inodes_used counts no fewer inodes than there are: the whole bytes are
\* counted in the first sector, the rest in the last one, where all is used.
LEMMA RoomForInodes ==
    ASSUME NEW v, NEW disk, Shows(v, disk), NEW inodeMax \in 1 .. SectorBits,
           inodeMax .. (TableBits - 1) \subseteq disk
    PROVE  LET loaded  == Cardinality(disk \cap (0 .. (inodeMax - 1)))
               counted == InodesUsed(v, inodeMax)
           IN  /\ counted >= loaded
               /\ TableSectors = 1 => counted = loaded
<1> DEFINE n     == TableSectors
           seen  == Tail(Visits(v))
           whole == ByteBits * (inodeMax \div ByteBits)
           S     == 1 .. n
           F(k)  == Cardinality({b \in seen[k].buffer : b < whole})
           last  == {b \in seen[n].buffer : b \in whole .. (inodeMax - 1)}
           total == MapThenSumSet(
                      LAMBDA k : Cardinality({b \in seen[k].buffer : b < whole}), DOMAIN seen)
<1>1. /\ n \in Nat \ {0} /\ SectorBits \in Nat \ {0} /\ BufBits \in Nat \ {0}
      /\ SectorBits <= BufBits /\ ByteBits \in Nat \ {0} /\ TableBits \in Nat
      /\ inodeMax \in Nat \ {0} /\ inodeMax <= SectorBits
  BY Sizes
<1>2. InodesUsed(v, inodeMax) = total + Cardinality(last)
  BY Zenon DEF InodesUsed
<1>3. DOMAIN seen = S /\ \A k \in S : seen[k].buffer = Loaded(disk, k - 1)
  <2> DEFINE s == Visits(v)
  <2>1. s \in Seq(Window) /\ Len(s) = n + 1
    BY VisitsType DEF Shows
  <2>2. \A k \in S : s[k + 1].buffer = Loaded(disk, k - 1)
    BY VisitsShow
  <2> HIDE DEF s, n
  <2>3. /\ Tail(s) \in Seq(Window) /\ Len(Tail(s)) = Len(s) - 1
        /\ \A i \in 1 .. Len(Tail(s)) : Tail(s)[i] = s[i + 1]
    <3>1. s # << >>
      BY <1>1, <2>1
    <3> QED
      BY <2>1, <3>1, HeadTailProperties
  <2>4. Len(Tail(s)) = n /\ DOMAIN Tail(s) = 1 .. n
    BY <1>1, <2>1, <2>3, LenProperties
  <2>5. \A k \in S : Tail(s)[k].buffer = Loaded(disk, k - 1)
    BY <2>2, <2>3, <2>4
  <2> QED
    BY <2>4, <2>5 DEF s
<1>4. whole \in Nat /\ whole <= inodeMax
  <2> DEFINE d == inodeMax \div ByteBits
  <2>1. d \in Nat /\ inodeMax % ByteBits \in 0 .. (ByteBits - 1)
        /\ inodeMax = d * ByteBits + (inodeMax % ByteBits)
    BY <1>1, Digits
  <2> DEFINE r == inodeMax % ByteBits
             D == ByteBits * d
  <2>2. D \in Nat /\ inodeMax = D + r /\ r \in Nat
    <3> HIDE DEF d, r
    <3>1. d * ByteBits = ByteBits * d /\ ByteBits * d \in Nat
      BY <1>1, <2>1
    <3> QED
      BY <1>1, <2>1, <3>1 DEF r
  <2> HIDE DEF D, r
  <2>3. D \in Nat /\ D <= inodeMax
    BY <1>1, <2>2
  <2> QED
    BY <2>3 DEF D
<1> HIDE DEF whole, seen, n
<1>5. \A k \in S : F(k) \in Nat
  <2> TAKE k \in S
  <2>1. {b \in seen[k].buffer : b < whole} \subseteq 0 .. (BufBits - 1)
    BY <1>3, LoadedType
  <2>2. IsFiniteSet(0 .. (BufBits - 1))
    <3>1. 0 \in Int /\ BufBits - 1 \in Int
      BY <1>1
    <3> QED
      BY <3>1, FS_Interval
  <2> QED
    BY <2>1, <2>2, FS_Subset, FS_CardinalityType
<1>6. /\ total \in Nat /\ \A k \in S : F(k) <= total /\ (S = {k} => total = F(k))
  <2>1. IsFiniteSet(S)
    <3>1. 1 \in Int /\ n \in Int
      BY <1>1
    <3> QED
      BY <3>1, FS_Interval
  <2>2. LET t == MapThenSumSet(
                   LAMBDA k : Cardinality({b \in seen[k].buffer : b < whole}), S) IN
        t \in Nat /\ \A k \in S : F(k) <= t /\ (S = {k} => t = F(k))
    BY <1>5, <2>1, CountedSum
  <2>3. DOMAIN seen = S
    BY <1>3
  <2> QED
    BY <2>2, <2>3
<1>7. F(1) = Cardinality(disk \cap (0 .. (whole - 1)))
  <2>1. 1 \in S /\ 1 - 1 = 0 /\ 0 * SectorBits = 0
    BY <1>1
  <2>2. seen[1].buffer = {b \in 0 .. (BufBits - 1) : 0 + b \in disk}
    BY <1>3, <2>1 DEF Loaded
  <2>3. {b \in seen[1].buffer : b < whole} = disk \cap (0 .. (whole - 1))
    BY <1>1, <1>4, <2>2
  <2> QED
    BY <2>3
<1> DEFINE rest == disk \cap (whole .. (inodeMax - 1))
<1>8. /\ Cardinality(last) \in Nat /\ Cardinality(rest) \in Nat
      /\ Cardinality(rest) <= Cardinality(last)
      /\ n = 1 => Cardinality(last) = Cardinality(rest)
  <2>1. n \in S /\ seen[n].buffer = {b \in 0 .. (BufBits - 1) :
                                       (n - 1) * SectorBits + b \in disk}
    BY <1>1, <1>3 DEF Loaded
  <2>2. CASE n = 1
    <3>1. (n - 1) * SectorBits = 0
      BY <1>1, <2>2
    <3>2. last = rest
      <4>1. seen[n].buffer = {b \in 0 .. (BufBits - 1) : 0 + b \in disk}
        BY <2>1, <3>1
      <4> QED
        BY <1>1, <1>4, <4>1
    <3>3. Cardinality(rest) \in Nat
      BY <1>1, <1>4, CountInParts DEF BitsFrom
    <3> QED
      BY <3>2, <3>3
  <2>3. CASE n # 1
    <3> DEFINE N == (n - 1) * SectorBits
    <3>1. N \in Nat /\ SectorBits <= N /\ N + SectorBits = TableBits
      <4>1. n - 1 \in Nat /\ 0 < n - 1
        BY <1>1, <2>3
      <4>2. 0 * SectorBits + SectorBits <= (n - 1) * SectorBits /\ 0 * SectorBits = 0
        BY <1>1, <4>1, Multiples
      <4>3. n * SectorBits = (n - 1) * SectorBits + SectorBits /\ N \in Nat
        BY <1>1, <4>1
      <4> HIDE DEF N
      <4>4. TableBits = N + SectorBits /\ SectorBits <= N
        <5>1. TableBits = n * SectorBits
          BY DEF TableBits, n
        <5> QED
          BY <1>1, <4>2, <4>3, <5>1 DEF N
      <4> QED
        BY <4>3, <4>4
    <3>2. last = whole .. (inodeMax - 1)
      <4>1. seen[n].buffer = {b \in 0 .. (BufBits - 1) : N + b \in disk}
        BY <2>1
      <4> HIDE DEF N
      <4>2. ASSUME NEW b \in whole .. (inodeMax - 1) PROVE b \in seen[n].buffer
        <5>1. b \in 0 .. (BufBits - 1) /\ N + b \in inodeMax .. (TableBits - 1)
          BY <1>1, <1>4, <3>1
        <5>2. N + b \in disk
          BY <5>1
        <5> QED
          BY <4>1, <5>1, <5>2
      <4> QED
        BY <4>2
    <3>3. /\ Cardinality(rest) \in Nat /\ IsFiniteSet(whole .. (inodeMax - 1))
          /\ Cardinality(rest) <= Cardinality(whole .. (inodeMax - 1))
      BY <1>1, <1>4, CountInParts DEF BitsFrom
    <3>4. Cardinality(whole .. (inodeMax - 1)) \in Nat
      BY <3>3, FS_CardinalityType
    <3> HIDE DEF last, rest
    <3> QED
      BY <2>3, <3>2, <3>3, <3>4
  <2> QED
    BY <2>2, <2>3
<1>9. /\ Cardinality(disk \cap (0 .. (inodeMax - 1)))
           = Cardinality(disk \cap (0 .. (whole - 1))) + Cardinality(rest)
      /\ Cardinality(disk \cap (0 .. (whole - 1))) \in Nat
  <2>1. whole \in Nat /\ inodeMax \in Nat /\ whole <= inodeMax
    BY <1>1, <1>4
  <2>2. /\ BitsBelow(disk, inodeMax) = BitsBelow(disk, whole) + BitsFrom(disk, whole, inodeMax)
        /\ BitsBelow(disk, whole) \in Nat
    BY <2>1, CountInParts
  <2> QED
    BY <2>2, Zenon DEF BitsBelow, BitsFrom
<1> DEFINE x == Cardinality(disk \cap (0 .. (whole - 1)))
           y == Cardinality(rest)
           z == Cardinality(last)
           t == total
<1>10. /\ t \in Nat /\ x \in Nat /\ y \in Nat /\ z \in Nat /\ x <= t /\ y <= z
       /\ n = 1 => t = x /\ y = z
  <2>1. 1 \in S /\ (n = 1 => S = {1})
    BY <1>1
  <2>2. F(1) <= total /\ (n = 1 => total = F(1))
    <3> HIDE DEF S, F, total
    <3> QED
      BY <1>6, <2>1
  <2> HIDE DEF rest, last, total, F
  <2> QED
    BY <1>6, <1>7, <1>8, <1>9, <2>2
<1> HIDE DEF x, y, z, t
<1>11. t + z >= x + y /\ (n = 1 => t + z = x + y)
  BY <1>10
<1>12. /\ InodesUsed(v, inodeMax) = t + z
       /\ Cardinality(disk \cap (0 .. (inodeMax - 1))) = x + y
  BY <1>2, <1>9 DEF t, z, x, y
<1> QED
  BY <1>11, <1>12 DEF n

\* defragment, which makes room for as many inodes as inodes_used counts, has
\* room for those that it loads, however many sectors the table has.
THEOREM RoomIsEnough ==
    ASSUME Fits
    PROVE  Spec => []InodesHaveRoom
<1>1. WInv => InodesHaveRoom
  BY RoomForInodes DEF WInv, InodesHaveRoom
<1>2. Spec => []WInv
  BY WindowIsKept
<1> QED
  BY <1>1, <1>2, PTL

-----------------------------------------------------------------------------
(* find_seq_global_small, with one sector in the buffer.                   *)

\* Zeroes in the buffer are zeroes of the table.
LEMMA ZeroesInWindow ==
    ASSUME NEW disk, NEW sector \in Nat, NEW x \in Nat, NEW n \in Int, x + n <= BufBits
    PROVE  CheckSeq(Loaded(disk, sector), x, n)
             <=> CheckSeq(disk, sector * SectorBits + x, n)
<1> DEFINE G == sector * SectorBits
<1>1. G \in Nat /\ BufBits \in Nat
  BY Sizes
<1>2. Loaded(disk, sector) = {b \in 0 .. (BufBits - 1) : G + b \in disk}
  BY DEF Loaded
<1> HIDE DEF G
<1>3. ASSUME NEW y \in Run(x, n), y \in Loaded(disk, sector)
      PROVE  G + y \in Run(G + x, n) /\ G + y \in disk
  <2>1. y \in Int /\ x <= y /\ y <= x + n - 1
    BY DEF Run
  <2>2. G + y \in Run(G + x, n)
    BY <1>1, <2>1 DEF Run
  <2> QED
    BY <1>2, <1>3, <2>2
<1>4. ASSUME NEW z \in Run(G + x, n), z \in disk
      PROVE  z - G \in Run(x, n) /\ z - G \in Loaded(disk, sector)
  <2>1. z \in Int /\ G + x <= z /\ z <= G + x + n - 1
    BY <1>1 DEF Run
  <2>2. z - G \in Run(x, n) /\ z - G \in 0 .. (BufBits - 1) /\ G + (z - G) = z
    BY <1>1, <2>1 DEF Run
  <2> QED
    BY <1>2, <1>4, <2>2
<1> QED
  BY <1>3, <1>4, Zenon DEF CheckSeq, G

\* Until a sequence has been found, none ends within the first i sectors, and
\* `tail' is the number of zeroes before the next one, fewer than are needed.
\* Then it is the first one.
SearchInv(s, i, disk, length) ==
    LET free == FreeStarts(disk, TableBits, length)
        base == i * SectorBits
    IN /\ s \in SmallStates /\ Shows(s.window, disk) /\ s.window.ok
       /\ s.index # NotFound => s.index \in free /\ \A p \in free : s.index <= p
       /\ s.index = NotFound =>
            /\ \A p \in free : p + length > base
            /\ s.tail \in 0 .. (length - 1)
            /\ i > 0 => CheckSeq(disk, base - s.tail, s.tail) /\ base - s.tail - 1 \in disk

\* What is known when the search comes to a window: where sequences that begin
\* before it can be.
LEMMA BeforeWindow ==
    ASSUME Sectors = 1, NEW s, NEW i \in 0 .. (TableSectors - 1), NEW disk,
           NEW length \in 1 .. BufBits,
           SearchInv(s, i, disk, length), s.index = NotFound
    PROVE  LET free   == FreeStarts(disk, TableBits, length)
               base   == i * SectorBits
               buffer == Loaded(disk, i)
               inner  == i > 0 /\ CheckSeq(buffer, 0, length - s.tail)
           IN /\ base \in Nat /\ base + BufBits <= TableBits
              /\ \A p \in free : p < base => inner /\ p >= base - s.tail
              /\ inner => base - s.tail \in free
<1> DEFINE free   == FreeStarts(disk, TableBits, length)
           base   == i * SectorBits
           buffer == Loaded(disk, i)
           tail   == s.tail
           need   == length - tail
           inner  == i > 0 /\ CheckSeq(buffer, 0, need)
           N      == TableBits
<1>1. /\ SectorBits \in Nat \ {0} /\ BufBits = SectorBits /\ TableSectors \in Nat
      /\ i \in Nat /\ length \in Nat \ {0} /\ length <= SectorBits /\ N \in Nat
  BY Sizes DEF BufBits
<1>2. /\ base \in Nat /\ base + SectorBits <= N /\ (i > 0 => SectorBits <= base)
  <2>1. base \in Nat
    BY <1>1
  <2>2. i * SectorBits + SectorBits <= TableSectors * SectorBits
    BY <1>1, Multiples
  <2>3. i > 0 => 0 * SectorBits + SectorBits <= i * SectorBits
    BY <1>1, Multiples
  <2>4. 0 * SectorBits = 0
    BY <1>1
  <2> HIDE DEF base
  <2>5. base + SectorBits <= N
    BY <2>2 DEF TableBits, base
  <2>6. i > 0 => SectorBits <= base
    BY <1>1, <2>3, <2>4 DEF base
  <2> QED
    BY <2>1, <2>5, <2>6
<1>3. /\ \A p \in free : p + length > base
      /\ tail \in 0 .. (length - 1)
      /\ i > 0 => CheckSeq(disk, base - tail, tail) /\ base - tail - 1 \in disk
  BY DEF SearchInv
<1>4. \A p : p \in free <=> p \in 0 .. (N - length) /\ CheckSeq(disk, p, length)
  BY DEF FreeStarts
<1>5. tail \in Nat /\ need \in Nat \ {0} /\ need <= length /\ 0 + need <= BufBits
      /\ length = tail + need
  BY <1>1, <1>3
<1>6. CheckSeq(buffer, 0, need) <=> CheckSeq(disk, base, need)
  <2>1. CheckSeq(buffer, 0, need) <=> CheckSeq(disk, base + 0, need)
    <3>1. 0 \in Nat /\ need \in Int
      BY <1>5
    <3> QED
      BY <1>1, <1>5, <3>1, ZeroesInWindow
  <2>2. base + 0 = base
    BY <1>2
  <2> QED
    BY <2>1, <2>2
<1> HIDE DEF free, base, buffer, tail, need, N
<1>7. ASSUME NEW p \in free, p < base PROVE inner /\ p >= base - tail
  <2>1. p \in Nat /\ p + length > base /\ CheckSeq(disk, p, length)
    BY <1>1, <1>3, <1>4
  <2>2. i > 0
    <3>1. i = 0 => base = 0
      BY <1>1 DEF base
    <3> QED
      BY <1>1, <1>2, <1>7, <2>1, <3>1
  <2>3. p >= base - tail
    <3>1. base - tail - 1 \in disk
      BY <1>3, <2>2
    <3>2. CASE ~(p >= base - tail)
      <4>1. base - tail - 1 \in Run(p, length)
        BY <1>1, <1>2, <1>5, <2>1, <3>2 DEF Run
      <4> QED
        BY <2>1, <3>1, <4>1 DEF CheckSeq
    <3> QED
      BY <3>2
  <2>4. CheckSeq(disk, base, need)
    <3>1. \A x : x \in Run(base, need) => x \in Run(p, length)
      BY <1>1, <1>2, <1>5, <1>7, <2>1, <2>3 DEF Run
    <3> QED
      BY <2>1, <3>1 DEF CheckSeq
  <2> QED
    BY <1>6, <2>2, <2>3, <2>4
<1>8. ASSUME inner PROVE base - tail \in free
  <2>1. CheckSeq(disk, base - tail, tail) /\ CheckSeq(disk, base, need) /\ SectorBits <= base
    BY <1>2, <1>3, <1>6, <1>8
  <2>2. base - tail \in 0 .. (N - length) /\ base - tail + tail = base /\ base - tail \in Int
    BY <1>1, <1>2, <1>5, <2>1
  <2>3. CheckSeq(disk, base - tail, tail + need)
    BY <1>5, <2>1, <2>2, Parts
  <2> QED
    BY <1>4, <1>5, <2>2, <2>3
<1>9. base \in Nat /\ base + BufBits <= N
  BY <1>1, <1>2
<1> QED
  BY <1>7, <1>8, <1>9 DEF free, base, buffer, tail, need, N

\* One window of the search.
LEMMA SearchStep ==
    ASSUME Sectors = 1, NEW s, NEW i \in 0 .. (TableSectors - 1), NEW disk,
           NEW length \in 1 .. BufBits,
           SearchInv(s, i, disk, length)
    PROVE  SearchInv(SearchWindow(s, i, length), i + 1, disk, length)
<1> DEFINE free   == FreeStarts(disk, TableBits, length)
           base   == i * SectorBits
           next   == (i + 1) * SectorBits
           buffer == Loaded(disk, i)
           m      == MoveWindow(s.window, i)
           t      == SearchWindow(s, i, length)
           inside == FreeStarts(buffer, BufBits, length)
           first  == Least(inside)
           tail   == TailLength(buffer)
           inner  == i > 0 /\ CheckSeq(buffer, 0, length - s.tail)
           x1     == base - s.tail
           x2     == base + first
           N      == TableBits
<1>1. /\ BufBits \in Nat \ {0} /\ BufBits = SectorBits /\ i \in Nat /\ i < TableSectors
      /\ length \in Nat \ {0} /\ length <= BufBits /\ length \in Int
      /\ next = base + BufBits /\ N \in Nat
  BY Sizes DEF BufBits
<1>2. s \in SmallStates /\ Shows(s.window, disk) /\ s.window.ok /\ s.window \in Window
  BY DEF SearchInv, Shows
<1>3. /\ t \in SmallStates /\ Shows(t.window, disk)
  BY <1>1, <1>2, SmallType, SmallShowsOne
<1>4. CASE s.index # NotFound
  <2>1. t = s
    BY <1>4 DEF SearchWindow
  <2> QED
    BY <1>4, <2>1 DEF SearchInv
<1>5. CASE s.index = NotFound
  <2>1. /\ base \in Nat /\ base + BufBits <= N
        /\ \A p \in free : p < base => inner /\ p >= x1
        /\ inner => x1 \in free
    BY <1>5, BeforeWindow
  <2>2. m \in Window /\ m.buffer = buffer /\ m.ok
    <3>1. View(s.window) = disk
      BY <1>2, LoadedView DEF Shows
    <3> QED
      BY <1>1, <1>2, <3>1, MoveKeeps
  <2> DEFINE At(j) == [s EXCEPT !.window = m, !.index = j]
  <2>3. t = IF inner THEN At(x1) ELSE IF inside # {} THEN At(x2)
            ELSE [At(NotFound) EXCEPT !.tail = tail]
    <3>1. t = IF i > 0 /\ CheckSeq(m.buffer, 0, length - s.tail) THEN At(x1)
              ELSE IF HasSeq(m.buffer, BufBits, length)
                   THEN At(base + FindSeq(m.buffer, BufBits, length))
              ELSE [At(NotFound) EXCEPT !.tail = TailLength(m.buffer)]
      BY <1>5, <2>2, Zenon DEF SearchWindow
    <3> HIDE DEF m, t
    <3> QED
      BY <2>2, <3>1, Zenon DEF HasSeq, FindSeq
  <2>4. \A p : p \in inside <=> p \in 0 .. (BufBits - length) /\ CheckSeq(disk, base + p, length)
    <3> TAKE p
    <3>1. ASSUME p \in 0 .. (BufBits - length)
          PROVE  CheckSeq(buffer, p, length) <=> CheckSeq(disk, base + p, length)
      <4>1. p \in Nat /\ p + length <= BufBits
        BY <1>1, <3>1
      <4> QED
        BY <1>1, <4>1, ZeroesInWindow
    <3> QED
      BY <3>1 DEF FreeStarts
  <2>5. \A p : p \in free <=> p \in 0 .. (N - length) /\ CheckSeq(disk, p, length)
    BY DEF FreeStarts
  <2>6. \A p \in free : p \in Nat
    BY <1>1, <2>5
  <2>7. inside # {} => first \in inside /\ \A p \in inside : first <= p
    <3>1. inside \in SUBSET Nat
      BY <1>1, <2>4
    <3> QED
      BY <3>1, LeastInSet
  <2>8. ASSUME NEW j PROVE At(j).window = m /\ At(j).index = j
    BY <1>2 DEF SmallStates
  <2>9. /\ [At(NotFound) EXCEPT !.tail = tail].window = m
        /\ [At(NotFound) EXCEPT !.tail = tail].index = NotFound
        /\ [At(NotFound) EXCEPT !.tail = tail].tail = tail
    BY <1>2 DEF SmallStates
  <2> HIDE DEF t, m, free, inside, first, tail, base, next, buffer, At, N
  <2> SUFFICES SearchInv(t, i + 1, disk, length)
    BY DEF t
  <2>10. ASSUME t.window.ok,
                t.index # NotFound => t.index \in free /\ \A p \in free : t.index <= p,
                t.index = NotFound =>
                  /\ \A p \in free : p + length > next
                  /\ t.tail \in 0 .. (length - 1)
                  /\ CheckSeq(disk, next - t.tail, t.tail) /\ next - t.tail - 1 \in disk
         PROVE  SearchInv(t, i + 1, disk, length)
    BY <1>3, <2>10 DEF SearchInv, free, next
  <2>11. CASE inner
    <3>1. t.window = m /\ t.index = x1
      BY <2>3, <2>8, <2>11
    <3>2. x1 \in free /\ x1 \in Nat
      BY <2>1, <2>6, <2>11
    <3>3. \A p \in free : x1 <= p
      <4> TAKE p \in free
      <4>1. CASE p < base
        <5>1. p >= x1 /\ p \in Nat
          BY <2>1, <2>6, <4>1
        <5> HIDE DEF x1
        <5> QED
          BY <3>2, <5>1
      <4>2. CASE ~(p < base)
        <5>1. p \in Nat /\ s.tail \in Nat
          BY <1>1, <1>5, <2>6 DEF SearchInv
        <5> QED
          BY <2>1, <4>2, <5>1
      <4> QED
        BY <4>1, <4>2
    <3>4. x1 # NotFound
      <4> HIDE DEF x1
      <4> QED
        BY <3>2 DEF NotFound
    <3> HIDE DEF x1
    <3>5. t.window.ok
      BY <2>2, <3>1
    <3>6. t.index # NotFound /\ t.index \in free /\ \A p \in free : t.index <= p
      BY <3>1, <3>2, <3>3, <3>4, Zenon
    <3> QED
      BY <2>10, <3>5, <3>6
  <2>12. CASE ~inner /\ inside # {}
    <3>1. t.window = m /\ t.index = x2
      BY <2>3, <2>8, <2>12
    <3>2. first \in 0 .. (BufBits - length) /\ CheckSeq(disk, x2, length)
          /\ \A p \in inside : first <= p
      BY <2>4, <2>7, <2>12
    <3>3. x2 \in Nat /\ x2 \in 0 .. (N - length)
      BY <1>1, <2>1, <3>2
    <3>4. x2 \in free
      <4> HIDE DEF x2
      <4> QED
        BY <2>5, <3>2, <3>3
    <3>5. \A p \in free : x2 <= p
      <4> TAKE p \in free
      <4>1. p \in Nat /\ ~(p < base) /\ CheckSeq(disk, p, length)
        BY <2>1, <2>5, <2>6, <2>12
      <4> DEFINE q == p - base
      <4>2. q \in Nat /\ base + q = p
        BY <2>1, <4>1
      <4> HIDE DEF q
      <4>3. CASE q <= BufBits - length
        <5>1. q \in 0 .. (BufBits - length)
          BY <1>1, <4>2, <4>3
        <5>2. q \in inside
          BY <2>4, <4>1, <4>2, <5>1
        <5>3. first <= q /\ first \in Nat
          BY <1>1, <3>2, <5>2
        <5> QED
          BY <2>1, <4>2, <5>3
      <4>4. CASE ~(q <= BufBits - length)
        BY <1>1, <2>1, <3>2, <4>2, <4>4
      <4> QED
        BY <4>3, <4>4
    <3>6. x2 # NotFound
      <4> HIDE DEF x2
      <4> QED
        BY <3>3 DEF NotFound
    <3> HIDE DEF x2
    <3>7. t.window.ok
      BY <2>2, <3>1
    <3>8. t.index # NotFound /\ t.index \in free /\ \A p \in free : t.index <= p
      BY <3>1, <3>4, <3>5, <3>6, Zenon
    <3> QED
      BY <2>10, <3>7, <3>8
  <2>13. CASE ~inner /\ inside = {}
    <3>1. t.window = m /\ t.index = NotFound /\ t.tail = tail
      BY <2>3, <2>9, <2>13
    <3>2. ASSUME NEW p \in free PROVE p + length > next
      <4>1. p \in Nat /\ ~(p < base) /\ CheckSeq(disk, p, length)
        BY <2>1, <2>5, <2>6, <2>13
      <4> DEFINE q == p - base
      <4>2. q \in Nat /\ base + q = p
        BY <2>1, <4>1
      <4> HIDE DEF q
      <4>3. q \notin 0 .. (BufBits - length)
        BY <2>4, <2>13, <4>1, <4>2
      <4> QED
        BY <1>1, <2>1, <4>2, <4>3
    <3>3. /\ tail \in 0 .. BufBits /\ CheckSeq(buffer, BufBits - tail, tail)
          /\ tail < BufBits => BufBits - tail - 1 \in buffer
      BY Tails DEF tail
    <3>4. CheckSeq(disk, next - tail, tail)
      <4>1. BufBits - tail \in Nat /\ tail \in Int /\ BufBits - tail + tail <= BufBits
        BY <1>1, <3>3
      <4>2. CheckSeq(buffer, BufBits - tail, tail) <=> CheckSeq(disk, base + (BufBits - tail), tail)
        BY <1>1, <4>1, ZeroesInWindow DEF buffer, base
      <4>3. base + (BufBits - tail) = next - tail
        BY <1>1, <2>1, <3>3
      <4> QED
        BY <3>3, <4>2, <4>3
    <3>5. tail < length
      <4>1. CASE ~(tail < length)
        <5> DEFINE q == BufBits - length
        <5>1. q \in 0 .. (BufBits - length) /\ base + q = next - length
          BY <1>1, <2>1
        <5>2. CheckSeq(disk, next - length, length)
          <6>1. \A x : x \in Run(next - length, length) => x \in Run(next - tail, tail)
            BY <1>1, <2>1, <3>3, <4>1 DEF Run
          <6> QED
            BY <3>4, <6>1 DEF CheckSeq
        <5>3. q \in inside
          <6> HIDE DEF q
          <6> QED
            BY <2>4, <5>1, <5>2
        <5> QED
          BY <2>13, <5>3
      <4> QED
        BY <4>1
    <3>6. next - tail - 1 \in disk
      <4>1. BufBits - tail - 1 \in buffer
        BY <1>1, <3>3, <3>5
      <4>2. base + (BufBits - tail - 1) \in disk
        BY <4>1 DEF buffer, Loaded, base
      <4>3. base + (BufBits - tail - 1) = next - tail - 1
        BY <1>1, <2>1, <3>3
      <4> QED
        BY <4>2, <4>3
    <3>7. tail \in 0 .. (length - 1)
      BY <1>1, <3>3, <3>5
    <3>8. t.window.ok
      BY <2>2, <3>1
    <3>9. /\ t.index = NotFound /\ t.tail \in 0 .. (length - 1)
          /\ CheckSeq(disk, next - t.tail, t.tail) /\ next - t.tail - 1 \in disk
      BY <3>1, <3>4, <3>6, <3>7, Zenon
    <3>10. \A p \in free : p + length > next
      BY <3>2
    <3> QED
      BY <2>10, <3>8, <3>9, <3>10
  <2> QED
    BY <2>11, <2>12, <2>13
<1> QED
  BY <1>4, <1>5

\* The whole search: the loop goes one window too far, where nothing happens.
LEMMA SearchIsRight ==
    ASSUME Sectors = 1, NEW v, NEW disk, Shows(v, disk), NEW length \in 1 .. BufBits
    PROVE  FindSeqGlobalSmall(v, length).index =
             IF HasSeq(disk, TableBits, length)
             THEN FindSeq(disk, TableBits, length) ELSE NotFound
<1> DEFINE n    == TableSectors
           free == FreeStarts(disk, TableBits, length)
<1>1. /\ n \in Nat \ {0} /\ length \in Nat \ {0} /\ length \in Int
      /\ TableBits \in Nat /\ v \in Window
  BY Sizes DEF Shows
<1>2. PICK h : /\ h[0] = [window |-> [v EXCEPT !.ok = TRUE], index |-> NotFound, tail |-> 0]
               /\ \A i \in 1 .. (n + 1) : h[i] = SearchWindow(h[i - 1], i - 1, length)
               /\ FindSeqGlobalSmall(v, length) = h[n + 1]
  BY <1>1, SmallSteps, Zenon
<1>3. free \in SUBSET Nat /\ \A p \in free : p + length <= TableBits
  BY <1>1 DEF FreeStarts
<1> HIDE DEF n, free
<1> DEFINE S == {i \in 0 .. n : SearchInv(h[i], i, disk, length)}
<1>4. 0 \in S
  <2>1. 0 \in 0 .. n
    BY <1>1
  <2> DEFINE u == [v EXCEPT !.ok = TRUE]
             s == h[0]
  <2>2. Shows(u, disk) /\ u.ok = TRUE /\ u \in Window
    BY <1>1, OkIsNotShown
  <2> HIDE DEF u
  <2>3. /\ s \in SmallStates /\ s.window = u /\ s.index = NotFound /\ s.tail = 0
    BY <1>2, <2>2 DEF SmallStates, NotFound, u
  <2> HIDE DEF s
  <2>4. 0 * SectorBits = 0 /\ \A p \in free : p + length > 0
    BY <1>1, <1>3, Sizes
  <2>5. 0 \in 0 .. (length - 1) /\ ~(0 > 0)
    BY <1>1
  <2>6. SearchInv(s, 0, disk, length)
    BY <2>2, <2>3, <2>4, <2>5 DEF SearchInv, free
  <2> QED
    BY <2>1, <2>6 DEF s
<1>5. ASSUME NEW i \in 0 .. (n - 1), i \in S PROVE i + 1 \in S
  <2>1. i + 1 \in 1 .. (n + 1) /\ i + 1 \in 0 .. n /\ i + 1 - 1 = i
    BY <1>1
  <2>2. h[i + 1] = SearchWindow(h[i], i, length)
    BY <1>2, <2>1
  <2>3. SearchInv(SearchWindow(h[i], i, length), i + 1, disk, length)
    BY <1>5, SearchStep DEF n
  <2> QED
    BY <2>1, <2>2, <2>3
<1>6. n \in S
  <2>1. n \in 0 .. n /\ n \in Nat
    BY <1>1
  <2> HIDE DEF S
  <2> QED
    BY <1>4, <1>5, <2>1, InductionUpTo
<1> DEFINE s == h[n]
<1>7. h[n + 1] = s
  <2>1. h[n + 1] = SearchWindow(s, n, length)
    <3>1. n + 1 \in 1 .. (n + 1) /\ n + 1 - 1 = n
      BY <1>1
    <3>2. \A i \in 1 .. (n + 1) : h[i] = SearchWindow(h[i - 1], i - 1, length)
      BY <1>2
    <3> DEFINE i == n + 1
    <3>3. i \in 1 .. (n + 1) /\ i - 1 = n
      BY <1>1, <3>1
    <3> HIDE DEF i
    <3>4. h[i] = SearchWindow(h[n], n, length)
      BY <3>2, <3>3
    <3> QED
      BY <3>4 DEF i
  <2>2. CASE s.index # NotFound
    BY <2>1, <2>2 DEF SearchWindow
  <2>3. CASE s.index = NotFound
    <3>1. s.window \in Window /\ n \in Nat /\ n >= TableSectors
      BY <1>1, <1>6 DEF SearchInv, Shows, n
    <3>2. ~MoveWindow(s.window, n).ok
      <4>1. MoveWindow(s.window, n) = [s.window EXCEPT !.ok = FALSE]
        BY <3>1, MoveKeeps
      <4> QED
        BY <3>1, <4>1 DEF Window
    <3> QED
      BY <2>1, <3>2, Zenon DEF SearchWindow
  <2> QED
    BY <2>2, <2>3
<1>8. /\ s.index # NotFound => s.index \in free /\ \A p \in free : s.index <= p
      /\ s.index = NotFound => \A p \in free : p + length > TableBits
  BY <1>6 DEF SearchInv, free, n, TableBits
<1>9. /\ HasSeq(disk, TableBits, length) <=> free # {}
      /\ FindSeq(disk, TableBits, length) = Least(free)
  BY Zenon DEF HasSeq, FindSeq, free
<1> DEFINE x == s.index
           y == Least(free)
<1>10. free # {} => y \in free /\ \A p \in free : y <= p
  BY <1>3, LeastInSet
<1> HIDE DEF s
<1>11. CASE x = NotFound
  <2>1. free = {}
    <3>1. ASSUME NEW p \in free PROVE FALSE
      <4>1. p + length > TableBits /\ p + length <= TableBits /\ p \in Nat
        BY <1>3, <1>8, <1>11, <3>1
      <4> QED
        BY <1>1, <4>1
    <3> QED
      BY <3>1
  <2> QED
    BY <1>2, <1>7, <1>9, <1>11, <2>1
<1>12. CASE x # NotFound
  <2>1. x \in free /\ y \in free /\ x <= y /\ y <= x
    BY <1>8, <1>10, <1>12
  <2>2. x \in Nat /\ y \in Nat
    BY <1>3, <2>1
  <2> HIDE DEF x, y
  <2>3. x = y
    BY <2>1, <2>2
  <2>4. HasSeq(disk, TableBits, length) /\ FindSeq(disk, TableBits, length) = y
    BY <1>9, <2>1 DEF y
  <2> QED
    BY <1>2, <1>7, <2>3, <2>4 DEF x
<1> QED
  BY <1>11, <1>12

\* With one sector in the buffer, find_seq_global returns the first sequence of
\* zeroes in the table, also one that crosses from one window to the next, and
\* none only if there is none, from wherever the window is.
THEOREM FirstFitIsFound ==
    ASSUME Fits, Sectors = 1
    PROVE  Spec => []FindIsFirstFit
<1>1. WInv => FindIsFirstFit
  BY SearchIsRight DEF WInv, FindIsFirstFit
<1>2. Spec => []WInv
  BY WindowIsKept
<1> QED
  BY <1>1, <1>2, PTL

-----------------------------------------------------------------------------
(* The bytes of the buffer.                                                *)

\* A buffer as bit_functions.c sees it, with any byte behind it.
BytesWith(buffer, behind) ==
    [k \in 0 .. (BufBits \div ByteBits) |->
       IF k = BufBits \div ByteBits THEN behind
       ELSE {c \in 0 .. (ByteBits - 1) : k * ByteBits + c \in buffer}]

\* The bits of these bytes.
LEMMA BitsOfBuffer ==
    ASSUME NEW buffer \in SUBSET (0 .. (BufBits - 1)), NEW behind \in SUBSET (0 .. (ByteBits - 1))
    PROVE  LET t == BytesWith(buffer, behind) IN
           /\ t \in Bytes!Table /\ Bytes!TableBits = BufBits
           /\ Bytes!BitsOf(t) = buffer \cup {BufBits + c : c \in behind}
<1> DEFINE B == BufBits \div ByteBits
           t == BytesWith(buffer, behind)
           u == buffer \cup {BufBits + c : c \in behind}
<1>1. /\ B \in Nat \ {0} /\ ByteBits \in Nat \ {0} /\ BufBits \in Nat
      /\ BufBits = B * ByteBits
  BY Sizes, BytesOfBuffer
<1>2. Bytes!TableBits = BufBits
  BY <1>1 DEF Bytes!TableBits
<1> HIDE DEF B
<1>3. /\ DOMAIN t = 0 .. B /\ t \in [0 .. B -> SUBSET (0 .. (ByteBits - 1))]
      /\ \A k \in 0 .. B : t[k] = IF k = B THEN behind
                                  ELSE {c \in 0 .. (ByteBits - 1) : k * ByteBits + c \in buffer}
  BY DEF BytesWith, B
<1>4. t \in Bytes!Table
  BY <1>3 DEF Bytes!Table, Bytes!Byte, B
<1>5. ASSUME NEW k \in 0 .. B, NEW c \in 0 .. (ByteBits - 1)
      PROVE  k * ByteBits + c \in u <=> c \in t[k]
  <2>1. CASE k = B
    <3>1. k * ByteBits + c = BufBits + c
      BY <1>1, <2>1
    <3> QED
      BY <1>1, <1>3, <2>1, <3>1
  <2>2. CASE k # B
    <3>1. k * ByteBits + ByteBits <= B * ByteBits
      BY <1>1, <2>2, Multiples
    <3> DEFINE K == k * ByteBits
    <3>2. K \in Nat
      BY <1>1
    <3> HIDE DEF K
    <3>3. K + ByteBits <= BufBits
      BY <1>1, <3>1 DEF K
    <3>4. K + c \in u <=> K + c \in buffer
      BY <1>1, <3>2, <3>3
    <3>5. c \in t[k] <=> K + c \in buffer
      BY <1>3, <2>2 DEF K
    <3> QED
      BY <3>4, <3>5 DEF K
  <2> QED
    BY <2>1, <2>2
<1>6. u \in SUBSET (0 .. (BufBits + ByteBits - 1))
  <2> HIDE DEF t
  <2> HIDE DEF BufBits
  <2>1. \A i \in 0 .. (BufBits - 1) : i \in 0 .. (BufBits + ByteBits - 1)
    BY <1>1
  <2>2. \A c \in 0 .. (ByteBits - 1) : BufBits + c \in 0 .. (BufBits + ByteBits - 1)
    BY <1>1
  <2>3. \A i \in u : i \in 0 .. (BufBits + ByteBits - 1)
    BY <2>1, <2>2
  <2> QED
    BY <2>3
<1>7. Bytes!BitsOf(t) = u
  <2> HIDE DEF t, u
  <2>1. u \in SUBSET (0 .. (Bytes!TableBits + ByteBits - 1))
    BY <1>2, <1>6
  <2>2. \A k \in 0 .. B, c \in Bytes!FullByte : k * ByteBits + c \in u <=> c \in t[k]
    BY <1>5 DEF Bytes!FullByte
  <2> QED
    BY <2>1, <2>2, Sizes, Bytes!BitsByByte DEF B
<1> QED
  BY <1>2, <1>4, <1>7

\* No part of a request is empty.
LEMMA PartNotEmpty ==
    ASSUME NEW index \in Nat, NEW length \in Nat \ {0},
           NEW k \in 1 .. Len(Chunks(index, length))
    PROVE  LET c == Chunks(index, length)[k] IN
           c.from \in 0 .. (BufBits - 1) /\ c.length > 0
<1> DEFINE first  == index \div BufBits
           from   == index % BufBits
           start  == IF length < BufBits - from THEN length ELSE BufBits - from
           full   == length \div BufBits
           middle == IF full > 1 THEN full - 1 ELSE 0
           rest   == length - start - middle * BufBits
           n      == middle + 1 + IF rest > 0 THEN 1 ELSE 0
           cs     == Chunks(index, length)
<1>1. /\ first \in Nat /\ from \in 0 .. (BufBits - 1) /\ start \in Nat
      /\ full \in Nat /\ middle \in Nat /\ rest \in Int /\ n \in Nat \ {0}
      /\ cs \in Seq(Cut) /\ Len(cs) = n
      /\ cs[1] = Chunk(first, from, start)
      /\ \A j \in 2 .. (middle + 1) : cs[j] = Chunk(first + (j - 1), 0, BufBits)
      /\ rest > 0 => cs[n] = Chunk(first + middle + 1, 0, rest)
  BY ChunksExist, Zenon
<1>2. BufBits \in Nat \ {0} /\ length \in Nat \ {0}
  BY Sizes
<1> HIDE DEF cs, first, from, full
<1>3. start > 0 /\ 0 \in 0 .. (BufBits - 1)
  BY <1>1, <1>2
<1>4. k = 1 \/ k \in 2 .. (middle + 1) \/ (rest > 0 /\ k = n)
  <2>1. k \in 1 .. n
    BY <1>1 DEF cs
  <2> HIDE DEF middle, rest
  <2> QED
    BY <1>1, <2>1
<1> HIDE DEF start, middle, rest, n
<1>5. cs[k].from \in 0 .. (BufBits - 1) /\ cs[k].length > 0
  <2>1. CASE k = 1
    <3>1. cs[k] = Chunk(first, from, start)
      BY <1>1, <2>1
    <3>2. cs[k].from = from /\ cs[k].length = start
      BY <3>1 DEF Chunk
    <3> QED
      BY <1>1, <1>3, <3>2
  <2>2. CASE k \in 2 .. (middle + 1)
    <3>1. cs[k] = Chunk(first + (k - 1), 0, BufBits)
      BY <1>1, <2>2
    <3>2. cs[k].from = 0 /\ cs[k].length = BufBits
      BY <3>1 DEF Chunk
    <3> QED
      BY <1>2, <1>3, <3>2
  <2>3. CASE rest > 0 /\ k = n
    <3>1. cs[k] = Chunk(first + middle + 1, 0, rest)
      BY <1>1, <2>3
    <3>2. cs[k].from = 0 /\ cs[k].length = rest
      BY <3>1 DEF Chunk
    <3> QED
      BY <1>3, <2>3, <3>2
  <2> QED
    BY <1>4, <2>1, <2>2, <2>3
<1> QED
  BY <1>5 DEF cs

\* Every part of a request is one that write_seq, delete_seq and check_seq may be
\* asked for.
LEMMA PartIsRequest ==
    ASSUME Fits, NEW r \in Requests, NEW k \in 1 .. Len(Chunks(r[1], r[2]))
    PROVE  LET c == Chunks(r[1], r[2])[k] IN
           /\ c \in Cut /\ c.from \in 0 .. (BufBits - 1) /\ c.length \in Nat \ {0}
           /\ c.from + c.length <= BufBits
           /\ <<c.from, c.length>> \in Bytes!Requests
<1> DEFINE cs == Chunks(r[1], r[2])
           c  == cs[k]
<1>1. Len(cs) \in Nat \ {0} /\ \E D : IsCover(D, Len(cs), cs, r[1], r[2])
  BY ChunksCover
<1>2. PICK D : IsCover(D, Len(cs), cs, r[1], r[2])
  BY <1>1
<1>3. c.from \in 0 .. (BufBits - 1) /\ c.length > 0
  <2>1. r[1] \in Nat /\ r[2] \in Nat \ {0}
    BY RequestType
  <2> QED
    BY <2>1, PartNotEmpty
<1> HIDE DEF cs
<1>4. c \in Cut /\ c.length \in Nat /\ c.from + c.length <= BufBits
  BY <1>2 DEF IsCover, cs
<1>5. Bytes!TableBits = BufBits /\ BufBits \in Nat
  BY BytesOfBuffer, Sizes DEF Bytes!TableBits
<1>6. c.from \in Nat /\ c.length \in Nat \ {0} /\ c.length \in 1 .. BufBits
  BY <1>3, <1>4, <1>5
<1>7. <<c.from, c.length>> \in Bytes!Requests
  <2> DEFINE f == c.from
             l == c.length
  <2> HIDE DEF f, l, c
  <2>1. f \in 0 .. (BufBits - 1) /\ l \in 1 .. BufBits /\ f + l <= BufBits
    BY <1>3, <1>4, <1>6 DEF f, l
  <2>2. <<f, l>> \in Bytes!Requests
    BY <1>5, <2>1 DEF Bytes!Requests
  <2> QED
    BY <2>2 DEF f, l
<1> QED
  BY <1>3, <1>4, <1>6, <1>7 DEF cs

\* What *_global does in the buffer for each part of a request is what
\* bit_functions.c does with the bytes of the buffer: the masks change and read
\* the bits of the part and no others, and nothing behind the buffer.
THEOREM PartsByteByByte ==
    ASSUME Fits, NEW r \in Requests, NEW k \in 1 .. Len(Chunks(r[1], r[2])),
           NEW u \in Window, NEW behind \in SUBSET (0 .. (ByteBits - 1))
    PROVE  LET c == Chunks(r[1], r[2])[k]
               t == BytesWith(u.buffer, behind)
               Of(buffer) == Bytes!BitsOf(BytesWith(buffer, behind)) IN
           /\ Bytes!BitsOf(Bytes!WriteSeqBytes(t, c.from, c.length))
                = Of(OnChunk("write", u, c).buffer)
           /\ Bytes!BitsOf(Bytes!DeleteSeqBytes(t, c.from, c.length))
                = Of(OnChunk("delete", u, c).buffer)
           /\ Bytes!CheckSeqBytes(t, c.from, c.length)
                <=> OnChunk("check", u, c).ok
<1> DEFINE c == Chunks(r[1], r[2])[k]
           f == c.from
           l == c.length
           t == BytesWith(u.buffer, behind)
           rest == {BufBits + b : b \in behind}
           Of(buffer) == Bytes!BitsOf(BytesWith(buffer, behind))
<1>1. /\ f \in 0 .. (BufBits - 1) /\ l \in Nat \ {0} /\ f + l <= BufBits
      /\ <<f, l>> \in Bytes!Requests /\ BufBits \in Nat /\ ByteBits \in Nat \ {0}
  BY PartIsRequest, Sizes
<1>2. u.buffer \in SUBSET (0 .. (BufBits - 1))
  BY DEF Window
<1>3. t \in Bytes!Table /\ Bytes!BitsOf(t) = u.buffer \cup rest
  BY <1>2, BitsOfBuffer
<1> HIDE DEF c, t
<1>4. /\ OnChunk("write", u, c).buffer = InBuffer(WriteSeq(u.buffer, f, l))
      /\ OnChunk("delete", u, c).buffer = DeleteSeq(u.buffer, f, l)
      /\ OnChunk("check", u, c).ok = CheckSeq(u.buffer, f, l)
  BY DEF OnChunk, Window
<1> HIDE DEF f, l
<1>5. Run(f, l) \subseteq 0 .. (BufBits - 1) /\ Run(f, l) \cap rest = {}
  BY <1>1 DEF Run
<1>6. /\ Bytes!BitsOf(Bytes!WriteSeqBytes(t, f, l)) = Bytes!BitsOf(t) \cup Run(f, l)
      /\ Bytes!BitsOf(Bytes!DeleteSeqBytes(t, f, l)) = Bytes!BitsOf(t) \ Run(f, l)
      /\ Bytes!CheckSeqBytes(t, f, l) <=> Run(f, l) \cap Bytes!BitsOf(t) = {}
  <2> DEFINE q == <<f, l>>
  <2>1. q \in Bytes!Requests /\ q[1] = f /\ q[2] = l
    BY <1>1
  <2> HIDE DEF q
  <2>2. Bytes!BitsOf(Bytes!WriteSeqBytes(t, q[1], q[2])) = Bytes!WriteSeq(Bytes!BitsOf(t), q[1], q[2])
    BY <1>3, <2>1, Sizes, Bytes!WriteSeqBits
  <2>3. Bytes!BitsOf(Bytes!DeleteSeqBytes(t, q[1], q[2])) = Bytes!DeleteSeq(Bytes!BitsOf(t), q[1], q[2])
    BY <1>3, <2>1, Sizes, Bytes!DeleteSeqBits
  <2>4. Bytes!CheckSeqBytes(t, q[1], q[2]) <=> Bytes!CheckSeq(Bytes!BitsOf(t), q[1], q[2])
    BY <1>3, <2>1, Sizes, Bytes!CheckSeqBits
  <2> QED
    BY <2>1, <2>2, <2>3, <2>4, Zenon
       DEF Bytes!WriteSeq, Bytes!DeleteSeq, Bytes!CheckSeq, Bytes!Run, Run
<1>7. Bytes!BitsOf(Bytes!WriteSeqBytes(t, f, l)) = Of(OnChunk("write", u, c).buffer)
  <2> DEFINE new == u.buffer \cup Run(f, l)
  <2>1. new \in SUBSET (0 .. (BufBits - 1)) /\ OnChunk("write", u, c).buffer = new
    BY <1>2, <1>4, <1>5 DEF InBuffer, WriteSeq
  <2>2. Of(new) = new \cup rest
    BY <2>1, BitsOfBuffer
  <2> QED
    BY <1>3, <1>6, <2>1, <2>2
<1>8. Bytes!BitsOf(Bytes!DeleteSeqBytes(t, f, l)) = Of(OnChunk("delete", u, c).buffer)
  <2> DEFINE new == u.buffer \ Run(f, l)
  <2>1. new \in SUBSET (0 .. (BufBits - 1)) /\ OnChunk("delete", u, c).buffer = new
    BY <1>2, <1>4 DEF DeleteSeq
  <2>2. Of(new) = new \cup rest
    BY <2>1, BitsOfBuffer
  <2> QED
    BY <1>3, <1>5, <1>6, <2>1, <2>2
<1>9. Bytes!CheckSeqBytes(t, f, l) <=> OnChunk("check", u, c).ok
  <2>1. OnChunk("check", u, c).ok <=> Run(f, l) \cap u.buffer = {}
    BY <1>4 DEF CheckSeq
  <2> QED
    BY <1>3, <1>5, <1>6, <2>1
<1> QED
  BY <1>7, <1>8, <1>9 DEF c, f, l, t

\* What find_seq_global_small gets from find_seq_new for each window is the
\* first sequence in the buffer, or else the number of zeroes at its end.
THEOREM SearchByteByByte ==
    ASSUME NEW buffer \in SUBSET (0 .. (BufBits - 1)), NEW length \in 1 .. BufBits,
           NEW behind \in SUBSET (0 .. (ByteBits - 1))
    PROVE  LET t == BytesWith(buffer, behind) IN
           /\ Bytes!FindSeqBytes(t, length) =
                IF HasSeq(buffer, BufBits, length)
                THEN FindSeq(buffer, BufBits, length) ELSE NotFound
           /\ ~HasSeq(buffer, BufBits, length) =>
                Bytes!EndLength(t, length) = TailLength(buffer)
<1> DEFINE t    == BytesWith(buffer, behind)
           rest == {BufBits + b : b \in behind}
<1>1. BufBits \in Nat \ {0} /\ ByteBits \in Nat \ {0} /\ length \in Nat
  BY Sizes
<1>2. /\ t \in Bytes!Table /\ Bytes!TableBits = BufBits
      /\ Bytes!BitsOf(t) = buffer \cup rest
  BY BitsOfBuffer
<1> HIDE DEF t
<1>3. \A i \in Int, n \in Nat : i + n <= BufBits =>
        (Bytes!CheckSeq(Bytes!BitsOf(t), i, n) <=> CheckSeq(buffer, i, n))
  <2>1. \A b \in rest : b \in Int /\ b >= BufBits
    BY <1>1
  <2> HIDE DEF rest
  <2> QED
    BY <1>1, <1>2, <2>1 DEF CheckSeq, Run, Bytes!CheckSeq, Bytes!Run
<1>4. Bytes!FreeStarts(Bytes!BitsOf(t), BufBits, length) = FreeStarts(buffer, BufBits, length)
  <2>1. \A i \in 0 .. (BufBits - length) : i \in Int /\ i + length <= BufBits
    BY <1>1
  <2>2. \A i \in 0 .. (BufBits - length) :
          Bytes!CheckSeq(Bytes!BitsOf(t), i, length) <=> CheckSeq(buffer, i, length)
    BY <1>1, <1>3, <2>1
  <2> QED
    BY <2>2, Zenon DEF FreeStarts, Bytes!FreeStarts
<1>5. /\ Bytes!HasSeq(Bytes!BitsOf(t), BufBits, length) <=> HasSeq(buffer, BufBits, length)
      /\ Bytes!FindSeq(Bytes!BitsOf(t), BufBits, length) = FindSeq(buffer, BufBits, length)
  BY <1>4, Zenon DEF HasSeq, FindSeq, Least, Bytes!HasSeq, Bytes!FindSeq, Bytes!Least
<1>6. Bytes!FindSeqBytes(t, length) =
        IF HasSeq(buffer, BufBits, length)
        THEN FindSeq(buffer, BufBits, length) ELSE NotFound
  <2>1. Bytes!FindSeqBytes(t, length) =
          IF Bytes!HasSeq(Bytes!BitsOf(t), Bytes!TableBits, length)
          THEN Bytes!FindSeq(Bytes!BitsOf(t), Bytes!TableBits, length) ELSE Bytes!NotFound
    BY <1>2, Sizes, Bytes!FindSeqFirstFit
  <2> QED
    BY <1>2, <1>5, <2>1, Zenon DEF NotFound, Bytes!NotFound
<1>7. ASSUME ~HasSeq(buffer, BufBits, length)
      PROVE  Bytes!EndLength(t, length) = TailLength(buffer)
  <2> DEFINE n == Bytes!EndLength(t, length)
             m == TailLength(buffer)
  <2>1. /\ n \in 0 .. BufBits /\ Bytes!CheckSeq(Bytes!BitsOf(t), BufBits - n, n)
        /\ n < BufBits => BufBits - n - 1 \in Bytes!BitsOf(t)
    <3>1. ~Bytes!HasSeq(Bytes!BitsOf(t), Bytes!TableBits, length)
      BY <1>2, <1>5, <1>7
    <3> QED
      BY <1>2, <3>1, Sizes, Bytes!TailOfTable
  <2>2. n \in 0 .. BufBits
    BY <2>1
  <2>3. /\ m \in 0 .. BufBits /\ CheckSeq(buffer, BufBits - m, m)
        /\ m < BufBits => BufBits - m - 1 \in buffer
    BY Tails
  <2> HIDE DEF n, m
  <2>4. CheckSeq(buffer, BufBits - n, n)
    <3>1. BufBits - n \in Int /\ n \in Nat /\ BufBits - n + n <= BufBits
      BY <1>1, <2>2
    <3> QED
      BY <1>3, <2>1, <3>1
  <2>5. n < BufBits => BufBits - n - 1 \in buffer
    <3>1. ASSUME n < BufBits PROVE BufBits - n - 1 \notin rest
      BY <1>1, <2>2
    <3> QED
      BY <1>2, <2>1, <3>1
  <2>6. ~(n < m)
    <3>1. n < m => BufBits - n - 1 \in Run(BufBits - m, m)
      BY <1>1, <2>2, <2>3 DEF Run
    <3> QED
      BY <1>1, <2>2, <2>3, <2>5, <3>1 DEF CheckSeq
  <2>7. ~(m < n)
    <3>1. m < n => BufBits - m - 1 \in Run(BufBits - n, n)
      BY <1>1, <2>2, <2>3 DEF Run
    <3> QED
      BY <1>1, <2>2, <2>3, <2>4, <3>1 DEF CheckSeq
  <2> QED
    BY <1>1, <2>2, <2>3, <2>6, <2>7 DEF n, m
<1> QED
  BY <1>6, <1>7 DEF t
=============================================================================
