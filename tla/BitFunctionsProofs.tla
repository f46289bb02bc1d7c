------------------------- MODULE BitFunctionsProofs -------------------------
(***************************************************************************)
(* Proofs about BitFunctions for bytes and tables of every size.  The      *)
(* first part is about induction and folds, and is used for WindowBuffer   *)
(* too: the provers cannot instantiate a theorem that takes an operator,   *)
(* so induction is stated with a set, and a fold with a function.          *)
(***************************************************************************)
EXTENDS BitFunctions, FiniteSetTheorems, WellFoundedInduction, TLAPS

-----------------------------------------------------------------------------
(* Induction and folds.                                                    *)

\* A nonempty set of natural numbers has a least element: the initial segments
\* 0 .. x of its elements are finite sets, and strict inclusion of finite sets
\* is well-founded.
LEMMA LeastInSet ==
    ASSUME NEW S \in SUBSET Nat, S # {}
    PROVE  Least(S) \in S /\ \A j \in S : Least(S) <= j
<1> DEFINE Segments == {0 .. x : x \in S}
<1>1. Segments \subseteq FiniteSubsetsOf(Nat) /\ Segments # {}
  <2>1. \A x \in S : 0 .. x \in SUBSET Nat
    OBVIOUS
  <2>2. \A x \in S : 0 .. x \in FiniteSubsetsOf(Nat)
    <3>1. \A x \in S : IsFiniteSet(0 .. x)
      BY FS_Interval
    <3> QED
      BY <2>1, <3>1, Zenon DEF FiniteSubsetsOf
  <2>3. Segments \subseteq FiniteSubsetsOf(Nat)
    BY <2>2, Zenon
  <2>4. Segments # {}
    BY Zenon
  <2> QED
    BY <2>3, <2>4
<1>2. PICK s \in Segments :
        \A t \in Segments : <<t, s>> \notin StrictSubsetOrdering(Nat)
  <2> HIDE DEF Segments
  <2> QED
    BY <1>1, FS_StrictSubsetOrderingWellFounded, WFMin
<1>3. PICK x \in S : s = 0 .. x
  BY <1>2
<1>4. ASSUME NEW y \in S PROVE x <= y
  <2>1. <<0 .. y, 0 .. x>> \notin StrictSubsetOrdering(Nat)
    BY <1>2, <1>3, Zenon
  <2>2. 0 .. y \in SUBSET Nat /\ 0 .. x \in SUBSET Nat
    OBVIOUS
  <2>3. ~ (0 .. y \subseteq 0 .. x /\ 0 .. y # 0 .. x)
    BY <2>1, <2>2 DEF StrictSubsetOrdering
  <2>4. y < x => 0 .. y \subseteq 0 .. x /\ 0 .. y # 0 .. x
    OBVIOUS
  <2> QED
    BY <2>3, <2>4
<1> QED
  BY <1>4 DEF Least

\* So has a nonempty bounded one a largest.
LEMMA LargestInSet ==
    ASSUME NEW n \in Int, NEW S, S # {}, \A x \in S : x \in Int /\ x <= n
    PROVE  Max(S) \in S /\ \A y \in S : Max(S) >= y
<1> DEFINE T == {n - x : x \in S}
<1>1. T \in SUBSET Nat /\ T # {}
  <2>1. \A x \in S : n - x \in Nat
    OBVIOUS
  <2> QED
    BY <2>1
<1>2. PICK m \in T : \A j \in T : m <= j
  <2> HIDE DEF T
  <2> QED
    BY <1>1, LeastInSet
<1>3. PICK x \in S : m = n - x
  BY <1>2
<1>4. \A y \in S : x >= y
  <2> TAKE y \in S
  <2>1. n - y \in T /\ m = n - x /\ x \in Int /\ y \in Int
    BY <1>3
  <2>2. m <= n - y
    BY <1>2, <2>1
  <2> QED
    BY <2>1, <2>2
<1> QED
  BY <1>4 DEF Max

\* What holds of 0 and of the successor of each number below n that it holds of
\* holds up to n.
LEMMA InductionUpTo ==
    ASSUME NEW n \in Nat, NEW S, 0 \in S,
           \A i \in 0 .. (n - 1) : i \in S => i + 1 \in S
    PROVE  \A i \in 0 .. n : i \in S
<1> DEFINE Others == {i \in 0 .. n : i \notin S}
<1> SUFFICES ASSUME Others # {} PROVE FALSE
  OBVIOUS
<1>1. Others \in SUBSET Nat
  OBVIOUS
<1>2. Least(Others) \in Others /\ \A j \in Others : Least(Others) <= j
  <2> HIDE DEF Others
  <2> QED
    BY <1>1, LeastInSet
<1> DEFINE m == Least(Others)
<1> HIDE DEF m
<1>3. m \in 0 .. n /\ m \notin S /\ m # 0 /\ \A j \in Others : m <= j
  BY <1>2 DEF m
<1>4. m - 1 \in 0 .. (n - 1) /\ m - 1 \notin Others /\ m - 1 + 1 = m
  BY <1>3
<1> QED
  BY <1>3, <1>4

\* A fold of op over the finite set S that takes one element after the other, as
\* choose says, and stays within States.
FoldData(S, choose, States, base, op) ==
    /\ IsFiniteSet(S)
    /\ \A s \in SUBSET S : s # {} => choose[s] \in s
    /\ base \in States
    /\ \A x \in S, v \in States : op[<<x, v>>] \in States

IsFold(iter, S, choose, States, base, op) ==
    /\ iter \in [SUBSET S -> States]
    /\ iter = [s \in SUBSET S |->
                 IF s = {} THEN base
                 ELSE op[<<choose[s], iter[s \ {choose[s]}]>>]]

\* Such a fold is well defined.
LEMMA FoldExists ==
    ASSUME NEW S, NEW choose, NEW States, NEW base, NEW op,
           FoldData(S, choose, States, base, op)
    PROVE  \E iter : IsFold(iter, S, choose, States, base, op)
<1> USE DEF FoldData
<1> DEFINE Small(n) == {s \in SUBSET S : Cardinality(s) <= n}
           Step(g, s) == IF s = {} THEN base
                         ELSE op[<<choose[s], g[s \ {choose[s]}]>>]
           Good(n, g) == /\ g \in [Small(n) -> States]
                         /\ \A s \in Small(n) : g[s] = Step(g, s)
           Reached == {n \in Nat : \E g : Good(n, g)}
           N == Cardinality(S)
<1>1. N \in Nat /\ \A s \in SUBSET S : /\ IsFiniteSet(s) /\ Cardinality(s) \in Nat
                                       /\ Cardinality(s) <= N
  BY FS_CardinalityType, FS_Subset
<1>2. \A s \in SUBSET S : Cardinality(s) = 0 <=> s = {}
  BY <1>1, FS_EmptySet
<1>3. \A s \in SUBSET S : s # {} => /\ s \ {choose[s]} \in SUBSET S
                                    /\ Cardinality(s \ {choose[s]}) = Cardinality(s) - 1
  <2> TAKE s \in SUBSET S
  <2> QED
    BY <1>1, FS_RemoveElement
<1>4. 0 \in Reached
  <2> DEFINE g == [s \in Small(0) |-> base]
  <2>1. \A s \in Small(0) : s = {}
    BY <1>1, <1>2
  <2>2. Good(0, g)
    BY <2>1
  <2> QED
    BY <2>2
<1>5. ASSUME NEW n \in 0 .. (N - 1), n \in Reached PROVE n + 1 \in Reached
  <2>1. PICK g : Good(n, g)
    BY <1>5
  <2> DEFINE h == [s \in Small(n + 1) |-> Step(g, s)]
  <2>2. n \in Nat /\ n + 1 \in Nat
    BY <1>1
  <2>3. Small(n) \subseteq Small(n + 1)
    BY <1>1, <2>2
  <2>4. \A s \in Small(n + 1) : s # {} => s \ {choose[s]} \in Small(n) /\ choose[s] \in S
    BY <1>1, <1>3, <2>2
  <2> HIDE DEF Small
  <2>5. \A s \in Small(n) : h[s] = g[s]
    BY <2>1, <2>3
  <2>6. \A s \in Small(n + 1) : Step(h, s) = Step(g, s)
    <3> TAKE s \in Small(n + 1)
    <3>1. CASE s = {}
      BY <3>1
    <3>2. CASE s # {}
      <4>1. h[s \ {choose[s]}] = g[s \ {choose[s]}]
        BY <2>4, <2>5, <3>2
      <4> HIDE DEF h
      <4> QED
        BY <3>2, <4>1
    <3> QED
      BY <3>1, <3>2
  <2>7. \A s \in Small(n + 1) : Step(g, s) \in States
    BY <2>1, <2>4
  <2>8. h \in [Small(n + 1) -> States]
    BY <2>7
  <2>9. \A s \in Small(n + 1) : h[s] = Step(h, s)
    BY <2>6
  <2>10. Good(n + 1, h)
    BY <2>8, <2>9
  <2> QED
    BY <2>2, <2>10
<1>6. N \in Reached
  <2> HIDE DEF Reached
  <2>1. N \in 0 .. N
    BY <1>1
  <2> QED
    BY <1>1, <1>4, <1>5, <2>1, InductionUpTo
<1>7. PICK g : Good(N, g)
  BY <1>6
<1>8. Small(N) = SUBSET S
  BY <1>1
<1>9. g \in [SUBSET S -> States] /\ \A s \in SUBSET S : g[s] = Step(g, s)
  BY <1>7, <1>8
<1>10. g = [s \in SUBSET S |-> Step(g, s)]
  BY <1>9
<1> QED
  BY <1>9, <1>10 DEF IsFold

\* FoldLeft takes the largest index first.  A fold of op over n elements that
\* stays within States, in that order.
StaysIn(op, n, States) == \A i \in 1 .. n, v \in States : op[<<i, v>>] \in States

IsFoldLeft(iter, n, States, base, op) ==
    /\ iter \in [SUBSET (1 .. n) -> States]
    /\ iter = [s \in SUBSET (1 .. n) |->
                 IF s = {} THEN base
                 ELSE op[<<Max(s), iter[s \ {Max(s)}]>>]]

\* So is one over the indices of a sequence.
LEMMA FoldLeftExists ==
    ASSUME NEW n \in Nat, NEW States, NEW base \in States, NEW op,
           StaysIn(op, n, States)
    PROVE  \E iter : IsFoldLeft(iter, n, States, base, op)
<1> DEFINE choose == [s \in SUBSET (1 .. n) |-> Max(s)]
<1>1. IsFiniteSet(1 .. n)
  BY FS_Interval
<1>2. \A s \in SUBSET (1 .. n) : s # {} => choose[s] \in s
  <2> TAKE s \in SUBSET (1 .. n)
  <2> HAVE s # {}
  <2>1. n \in Int /\ \A x \in s : x \in Int /\ x <= n
    OBVIOUS
  <2>2. Max(s) \in s
    BY <2>1, LargestInSet
  <2> QED
    BY <2>2
<1>3. FoldData(1 .. n, choose, States, base, op)
  <2> HIDE DEF choose
  <2> QED
    BY <1>1, <1>2 DEF FoldData, StaysIn
<1>4. PICK iter : IsFold(iter, 1 .. n, choose, States, base, op)
  <2> HIDE DEF choose
  <2> QED
    BY <1>3, FoldExists
<1> QED
  BY <1>4 DEF IsFold, IsFoldLeft

\* What the choice of the largest element does to the first i indices.
LEMMA FirstIndices ==
    ASSUME NEW i \in Nat \ {0}
    PROVE  /\ 1 .. i # {} /\ Max(1 .. i) = i
           /\ (1 .. i) \ {i} = 1 .. (i - 1)
<1>1. 1 .. i # {}
  <2>1. i \in 1 .. i
    OBVIOUS
  <2> QED
    BY <2>1
<1>2. Max(1 .. i) = i
  <2>1. i \in 1 .. i /\ \A y \in 1 .. i : i >= y
    OBVIOUS
  <2>2. \A x \in 1 .. i : (\A y \in 1 .. i : x >= y) => x = i
    OBVIOUS
  <2> QED
    BY <2>1, <2>2 DEF Max
<1>3. (1 .. i) \ {i} = 1 .. (i - 1)
  OBVIOUS
<1> QED
  BY <1>1, <1>2, <1>3

-----------------------------------------------------------------------------
(* Bytes and bits.                                                         *)

\* Multiples of b are b apart.
LEMMA Multiples ==
    ASSUME NEW b \in Nat, NEW i \in Int, NEW j \in Int, i < j
    PROVE  i * b + b <= j * b
<1>1. PICK c \in Nat : j = i + 1 + c
  <2>1. j - i - 1 \in Nat /\ j = i + 1 + (j - i - 1)
    OBVIOUS
  <2> QED
    BY <2>1
<1>2. j * b = i * b + b + c * b
  BY <1>1
<1>3. c * b \in Nat
  OBVIOUS
<1> QED
  BY <1>2, <1>3

\* Quotient and remainder.
LEMMA Digits ==
    ASSUME NEW b \in Nat \ {0}, NEW i \in Nat
    PROVE  /\ i \div b \in Nat /\ i % b \in 0 .. (b - 1)
           /\ i = (i \div b) * b + (i % b)
  OBVIOUS

\* The digits of what is put together from two.
LEMMA DigitsOf ==
    ASSUME NEW b \in Nat \ {0}, NEW q \in Nat, NEW c \in 0 .. (b - 1)
    PROVE  (q * b + c) \div b = q /\ (q * b + c) % b = c
<1> DEFINE i == q * b + c
<1>1. i \in Nat /\ q * b \in Nat
  OBVIOUS
<1>2. /\ i \div b \in Nat /\ i % b \in 0 .. (b - 1)
      /\ i = (i \div b) * b + (i % b)
  BY <1>1, Digits
<1>3. ~(i \div b < q)
  <2>1. i \div b < q => (i \div b) * b + b <= q * b
    BY <1>2, Multiples
  <2> QED
    BY <1>1, <1>2, <2>1
<1>4. ~(q < i \div b)
  <2>1. q < i \div b => q * b + b <= (i \div b) * b
    BY <1>2, Multiples
  <2> QED
    BY <1>1, <1>2, <2>1
<1>5. i \div b = q
  BY <1>2, <1>3, <1>4
<1> QED
  BY <1>1, <1>2, <1>5

\* The bytes of a table, and the one behind it.
Table == [0 .. TableBytes -> Byte]

\* The sizes that the definitions are built from.
LEMMA Positions ==
    /\ ByteBits \in Nat \ {0} /\ TableBytes \in Nat \ {0}
    /\ TableBits \in Nat
    /\ FullByte = 0 .. (ByteBits - 1)
  BY TableAssumption DEF TableBits, FullByte

\* Bit c of byte k is the bit k * ByteBits + c of the table.
LEMMA BitOfByte ==
    ASSUME NEW t, NEW k \in 0 .. TableBytes, NEW c \in FullByte
    PROVE  /\ k * ByteBits + c \in BitsOf(t) <=> c \in t[k]
           /\ k * ByteBits + c \in 0 .. (TableBits + ByteBits - 1)
           /\ k < TableBytes <=> k * ByteBits + c < TableBits
<1>1. /\ (k * ByteBits + c) \div ByteBits = k
      /\ (k * ByteBits + c) % ByteBits = c
  BY DigitsOf, Positions
<1>2. /\ k < TableBytes => k * ByteBits + ByteBits <= TableBits
      /\ k * ByteBits \in Nat
  BY Multiples, Positions DEF TableBits
<1>3. k = TableBytes \/ k < TableBytes
  BY Positions
<1>4. k * ByteBits + c \in 0 .. (TableBits + ByteBits - 1)
      /\ (k < TableBytes <=> k * ByteBits + c < TableBits)
  BY <1>2, <1>3, Positions DEF TableBits
<1> QED
  BY <1>1, <1>4 DEF BitsOf

\* Every bit lies in a byte.
LEMMA ByteOfBit ==
    ASSUME NEW i \in 0 .. (TableBits + ByteBits - 1)
    PROVE  /\ i \div ByteBits \in 0 .. TableBytes /\ i % ByteBits \in FullByte
           /\ i = (i \div ByteBits) * ByteBits + (i % ByteBits)
           /\ i < TableBits <=> i \div ByteBits < TableBytes
<1>1. /\ i \div ByteBits \in Nat /\ i % ByteBits \in FullByte
      /\ i = (i \div ByteBits) * ByteBits + (i % ByteBits)
  <2>1. i \in Nat
    BY Positions
  <2> QED
    BY <2>1, Digits, Positions
<1> DEFINE q == i \div ByteBits
<1>2. /\ TableBytes < q => TableBytes * ByteBits + ByteBits <= q * ByteBits
      /\ q < TableBytes => q * ByteBits + ByteBits <= TableBytes * ByteBits
      /\ q * ByteBits \in Nat
  BY <1>1, Multiples, Positions
<1> HIDE DEF q
<1> QED
  BY <1>1, <1>2, Positions DEF TableBits, q

-----------------------------------------------------------------------------
(* Masks.                                                                  *)

\* What the masks compute: the sequence begins at bit index % ByteBits of its
\* first byte and ends before bit EndBits of byte ByteLength.
LEMMA EndOfRequest ==
    ASSUME NEW r \in Requests
    PROVE  LET p    == r[1] % ByteBits
               last == ByteLength(r[1], r[2]) IN
           /\ r[1] \in Nat /\ r[2] \in Nat \ {0} /\ p \in FullByte
           /\ FirstByte(r[1]) \in Nat /\ last \in Nat
           /\ r[1] = FirstByte(r[1]) * ByteBits + p
           /\ EndBits(r[1], r[2]) \in Nat
           /\ p + r[2] < ByteBits => last = 0
           /\ p + r[2] >= ByteBits =>
                /\ last > 0 /\ EndBits(r[1], r[2]) \in 0 .. (ByteBits - 1)
                /\ p + r[2] = last * ByteBits + EndBits(r[1], r[2])
           /\ FirstByte(r[1]) + last <= TableBytes
<1> DEFINE p     == r[1] % ByteBits
           first == FirstByte(r[1])
           last  == ByteLength(r[1], r[2])
           e     == (r[2] + p) % ByteBits
           F     == first * ByteBits
           L     == last * ByteBits
<1>1. r[1] \in Nat /\ r[2] \in Nat \ {0} /\ r[1] + r[2] <= TableBits
  BY Positions DEF Requests
<1>2. p \in 0 .. (ByteBits - 1) /\ first \in Nat /\ r[1] = F + p
  BY <1>1, Digits, Positions DEF FirstByte
<1>3. last \in Nat /\ e \in 0 .. (ByteBits - 1) /\ r[2] + p = L + e
  <2> HIDE DEF p
  <2>1. r[2] + p \in Nat
    <3> HIDE DEF F
    <3> QED
      BY <1>1, <1>2, Positions
  <2>2. last = (r[2] + p) \div ByteBits
    BY DEF ByteLength, p
  <2> HIDE DEF last
  <2> QED
    BY <2>1, <2>2, Digits, Positions
<1>4. /\ EndBits(r[1], r[2]) = IF last = 0 THEN 0
                               ELSE Remaining(r[1], r[2]) - (last - 1) * ByteBits
      /\ Remaining(r[1], r[2]) = IF r[2] > ByteBits - p THEN r[2] - (ByteBits - p)
                                 ELSE 0
  BY DEF EndBits, Remaining
<1> HIDE DEF p, first, last, e
<1>5. /\ F \in Nat /\ L \in Nat /\ (first + last) * ByteBits = F + L
      /\ (last - 1) * ByteBits = L - ByteBits
      /\ last > 0 => L >= ByteBits
      /\ last = 0 => L = 0
  <2>1. 0 < last => 0 * ByteBits + ByteBits <= last * ByteBits
    BY <1>3, Multiples, Positions
  <2> QED
    BY <1>2, <1>3, <2>1, Positions
<1>6. TableBytes < first + last => TableBits + ByteBits <= (first + last) * ByteBits
  BY <1>2, <1>3, Multiples, Positions DEF TableBits
<1> HIDE DEF F, L
<1>7. first + last <= TableBytes
  BY <1>1, <1>2, <1>3, <1>5, <1>6, Positions
<1>8. last = 0 <=> p + r[2] < ByteBits
  BY <1>1, <1>2, <1>3, <1>5, Positions
<1>9. EndBits(r[1], r[2]) = IF last = 0 THEN 0 ELSE e
  BY <1>1, <1>2, <1>3, <1>4, <1>5, <1>8, Positions
<1>10. /\ r[1] \in Nat /\ r[2] \in Nat \ {0} /\ p \in FullByte
       /\ first \in Nat /\ last \in Nat
       /\ r[1] = F + p
       /\ EndBits(r[1], r[2]) \in Nat
       /\ p + r[2] < ByteBits => last = 0
       /\ p + r[2] >= ByteBits =>
            /\ last > 0 /\ EndBits(r[1], r[2]) \in 0 .. (ByteBits - 1)
            /\ p + r[2] = L + EndBits(r[1], r[2])
       /\ first + last <= TableBytes
  BY <1>1, <1>2, <1>3, <1>7, <1>8, <1>9, Positions
<1> QED
  BY <1>10, Zenon DEF p, first, last, F, L

\* The masks of write_seq and check_seq have the bits of the sequence, those of
\* delete_seq the others.
LEMMA MaskBits ==
    ASSUME NEW r \in Requests, NEW k \in 0 .. ByteLength(r[1], r[2]),
           NEW c \in FullByte
    PROVE  LET p      == r[1] % ByteBits
               within == p <= k * ByteBits + c /\ k * ByteBits + c < p + r[2] IN
           /\ c \in SeqMask(r[1], r[2])[k] <=> within
           /\ c \in KeepMask(r[1], r[2])[k] <=> ~within
<1> DEFINE p    == r[1] % ByteBits
           last == ByteLength(r[1], r[2])
           e    == EndBits(r[1], r[2])
           L    == last * ByteBits
           K    == k * ByteBits
           len  == r[2]
<1>1. /\ len \in Nat \ {0} /\ p \in 0 .. (ByteBits - 1) /\ last \in Nat /\ e \in Nat
      /\ p + len < ByteBits => last = 0
      /\ p + len >= ByteBits =>
           /\ last > 0 /\ e \in 0 .. (ByteBits - 1) /\ p + len = L + e
  <2> HIDE DEF p, last, e, L, len
  <2> QED
    BY EndOfRequest, Positions DEF p, last, e, L, len
<1>2. /\ SeqMask(r[1], len)[k] =
           IF k = 0
           THEN IF len > ByteBits - p THEN ShiftedRight(ByteBits - (ByteBits - p))
                ELSE {b + ByteBits - (ByteBits - p) : b \in ShiftedLeft(ByteBits - len)}
           ELSE IF k = last THEN ShiftedLeft(ByteBits - e) ELSE FullByte
      /\ KeepMask(r[1], len)[k] =
           IF k = 0
           THEN ShiftedLeft(ByteBits - p)
                  \cup IF len > ByteBits - p THEN {}
                       ELSE ShiftedRight(ByteBits - (ByteBits - p - len))
           ELSE IF k = last THEN ShiftedRight(e) ELSE {}
  BY Zenon DEF SeqMask, KeepMask
<1> HIDE DEF p, last, e
<1>3. /\ K \in Nat /\ L \in Nat
      /\ k = 0 => K = 0
      /\ 0 < k => ByteBits <= K
      /\ k = last => K = L
      /\ k < last => K + ByteBits <= L
      /\ last = 0 => L = 0
  <2>1. k \in Nat /\ (0 < k => 0 * ByteBits + ByteBits <= k * ByteBits)
        /\ (k < last => K + ByteBits <= L)
    BY <1>1, Multiples, Positions DEF last
  <2> QED
    BY <1>1, <2>1, Positions
<1>4. k \in 0 .. last /\ c \in 0 .. (ByteBits - 1)
  BY Positions DEF last
<1> HIDE DEF K, L, len
<1>5. CASE k = 0
  <2>1. c \in SeqMask(r[1], len)[k] <=> p <= K + c /\ K + c < p + len
    <3>1. CASE len > ByteBits - p
      BY <1>1, <1>2, <1>3, <1>4, <1>5, <3>1, Positions DEF ShiftedRight
    <3>2. CASE ~(len > ByteBits - p)
      <4>1. c \in SeqMask(r[1], len)[k] <=>
              \E b \in 0 .. (len - 1) : c = b + p
        <5>1. ByteBits - 1 - (ByteBits - len) = len - 1
          BY <1>1, Positions
        <5>2. \A b \in 0 .. (len - 1) : b + ByteBits - (ByteBits - p) = b + p
          BY <1>1, Positions
        <5> QED
          BY <1>2, <1>5, <3>2, <5>1, <5>2 DEF ShiftedLeft
      <4>2. (\E b \in 0 .. (len - 1) : c = b + p) <=> c - p \in 0 .. (len - 1)
        BY <1>1, <1>4, Positions
      <4> QED
        BY <1>1, <1>3, <1>4, <1>5, <4>1, <4>2, Positions
    <3> QED
      BY <3>1, <3>2
  <2>2. c \in KeepMask(r[1], len)[k] <=> ~(p <= K + c /\ K + c < p + len)
    BY <1>1, <1>2, <1>3, <1>4, <1>5, Positions DEF ShiftedLeft, ShiftedRight
  <2> QED
    BY <2>1, <2>2 DEF p, K, len
<1>6. CASE k # 0
  <2>1. last # 0 /\ (k = last \/ k < last)
    BY <1>1, <1>4, <1>6
  <2>2. /\ c \in SeqMask(r[1], len)[k] <=> p <= K + c /\ K + c < p + len
        /\ c \in KeepMask(r[1], len)[k] <=> ~(p <= K + c /\ K + c < p + len)
    <3>1. CASE k = last
      BY <1>1, <1>2, <1>3, <1>4, <1>6, <2>1, <3>1, Positions
         DEF ShiftedLeft, ShiftedRight
    <3>2. CASE k < last
      BY <1>1, <1>2, <1>3, <1>4, <1>6, <2>1, <3>2, Positions
    <3> QED
      BY <2>1, <3>1, <3>2
  <2> QED
    BY <2>2 DEF p, K, len
<1> QED
  BY <1>5, <1>6

\* The bits of a request, byte by byte.
LEMMA RequestBits ==
    ASSUME NEW r \in Requests, NEW b \in 0 .. TableBytes, NEW c \in FullByte
    PROVE  LET k    == b - FirstByte(r[1])
               last == ByteLength(r[1], r[2]) IN
           /\ b * ByteBits + c \in Run(r[1], r[2])
                <=> k \in 0 .. last /\ c \in SeqMask(r[1], r[2])[k]
           /\ k \in 0 .. last => (c \in KeepMask(r[1], r[2])[k]
                                   <=> c \notin SeqMask(r[1], r[2])[k])
<1> DEFINE p     == r[1] % ByteBits
           first == FirstByte(r[1])
           last  == ByteLength(r[1], r[2])
           e     == EndBits(r[1], r[2])
           k     == b - first
           F     == first * ByteBits
           K     == k * ByteBits
           L     == last * ByteBits
           len   == r[2]
<1>1. /\ r[1] \in Nat /\ len \in Nat \ {0} /\ p \in 0 .. (ByteBits - 1)
      /\ first \in Nat /\ last \in Nat /\ r[1] = F + p
      /\ p + len < ByteBits => last = 0
      /\ p + len >= ByteBits =>
           /\ last > 0 /\ e \in 0 .. (ByteBits - 1) /\ p + len = L + e
  <2> HIDE DEF p, first, last, e, F, L, len
  <2> QED
    BY EndOfRequest, Positions DEF p, first, last, e, F, L, len
<1>2. k \in 0 .. last =>
        /\ c \in SeqMask(r[1], len)[k] <=> p <= K + c /\ K + c < p + len
        /\ c \in KeepMask(r[1], len)[k] <=> ~(p <= K + c /\ K + c < p + len)
  <2> HIDE DEF k
  <2> SUFFICES ASSUME k \in 0 .. last
               PROVE  /\ c \in SeqMask(r[1], len)[k]
                           <=> p <= K + c /\ K + c < p + len
                      /\ c \in KeepMask(r[1], len)[k]
                           <=> ~(p <= K + c /\ K + c < p + len)
    OBVIOUS
  <2> QED
    BY MaskBits, Zenon
<1> HIDE DEF p, first, last, e
<1>3. /\ k \in Int /\ F \in Nat /\ K \in Int /\ L \in Nat
      /\ b * ByteBits = F + K
      /\ k < 0 => K + ByteBits <= 0
      /\ last < k => L + ByteBits <= K
      /\ last = 0 => L = 0
  <2>1. k \in Int /\ b = first + k
    BY <1>1, Positions
  <2> HIDE DEF k
  <2>2. /\ k < 0 => k * ByteBits + ByteBits <= 0 * ByteBits
        /\ last < k => last * ByteBits + ByteBits <= k * ByteBits
    BY <1>1, <2>1, Multiples, Positions
  <2> QED
    BY <1>1, <2>1, <2>2, Positions
<1> HIDE DEF k, F, K, L, len
<1>4. c \in 0 .. (ByteBits - 1)
  BY Positions
<1>5. b * ByteBits + c \in Run(r[1], len)
        <=> p <= K + c /\ K + c < p + len
  BY <1>1, <1>3, <1>4, Positions DEF Run
<1>6. k \notin 0 .. last => ~(p <= K + c /\ K + c < p + len)
  <2>1. k \notin 0 .. last => k < 0 \/ last < k
    BY <1>1, <1>3
  <2> QED
    BY <1>1, <1>3, <1>4, <2>1, Positions
<1> QED
  BY <1>2, <1>5, <1>6, Zenon DEF k, first, last, len

-----------------------------------------------------------------------------
(* The table and its bits.                                                 *)

\* A table has the bits of u if its bytes have.
LEMMA BitsByByte ==
    ASSUME NEW t, NEW u \in SUBSET (0 .. (TableBits + ByteBits - 1)),
           \A b \in 0 .. TableBytes, c \in FullByte :
             b * ByteBits + c \in u <=> c \in t[b]
    PROVE  BitsOf(t) = u
<1>1. ASSUME NEW i \in 0 .. (TableBits + ByteBits - 1)
      PROVE  i \in u <=> (i % ByteBits) \in t[i \div ByteBits]
  <2> DEFINE b == i \div ByteBits
             c == i % ByteBits
  <2>1. b \in 0 .. TableBytes /\ c \in FullByte /\ i = b * ByteBits + c
    BY ByteOfBit, Zenon
  <2> HIDE DEF b, c
  <2>2. i \in u <=> c \in t[b]
    BY <2>1
  <2> QED
    BY <2>2 DEF b, c
<1> QED
  BY <1>1 DEF BitsOf

\* write_seq sets the bits of the sequence and no others.
LEMMA WriteSeqBits ==
    ASSUME NEW t \in Table, NEW r \in Requests
    PROVE  /\ WriteSeqBytes(t, r[1], r[2]) \in Table
           /\ BitsOf(WriteSeqBytes(t, r[1], r[2])) = WriteSeq(BitsOf(t), r[1], r[2])
<1> DEFINE n == WriteSeqBytes(t, r[1], r[2])
           first == FirstByte(r[1])
           last  == ByteLength(r[1], r[2])
           mask  == SeqMask(r[1], r[2])
<1>1. DOMAIN mask = 0 .. last /\ DOMAIN t = 0 .. TableBytes
  BY DEF SeqMask, Table
<1>2. n = [b \in DOMAIN t |-> IF b - first \in DOMAIN mask
                              THEN t[b] \cup mask[b - first] ELSE t[b]]
  BY DEF WriteSeqBytes, Masked
<1>3. \A b \in 0 .. TableBytes, c \in FullByte :
        c \in n[b] <=> c \in t[b] \/ b * ByteBits + c \in Run(r[1], r[2])
  <2> TAKE b \in 0 .. TableBytes, c \in FullByte
  <2>1. b * ByteBits + c \in Run(r[1], r[2])
          <=> b - first \in 0 .. last /\ c \in mask[b - first]
    <3> HIDE DEF n
    <3> QED
      BY RequestBits, Zenon
  <2> HIDE DEF n, mask, first, last
  <2> QED
    BY <1>1, <1>2, <2>1
<1>4. n \in Table
  <2>1. \A k \in 0 .. last : mask[k] \subseteq FullByte
    <3> TAKE k \in 0 .. last
    <3> DEFINE p == r[1] % ByteBits
               e == EndBits(r[1], r[2])
               len == r[2]
    <3>1. /\ len \in Nat \ {0} /\ p \in 0 .. (ByteBits - 1)
          /\ k # 0 => e \in 0 .. (ByteBits - 1)
      <4>1. /\ len \in Nat \ {0} /\ p \in 0 .. (ByteBits - 1)
            /\ p + len < ByteBits => last = 0
            /\ p + len >= ByteBits => e \in 0 .. (ByteBits - 1)
        <5> HIDE DEF n, mask, first, last, p, e, len
        <5> QED
          BY EndOfRequest, Positions DEF first, last, p, e, len
      <4> HIDE DEF n, mask, first, last, p, e, len
      <4> QED
        BY <4>1, Positions
    <3>2. mask[k] =
           IF k = 0
           THEN IF len > ByteBits - p THEN ShiftedRight(ByteBits - (ByteBits - p))
                ELSE {b + ByteBits - (ByteBits - p) : b \in ShiftedLeft(ByteBits - len)}
           ELSE IF k = last THEN ShiftedLeft(ByteBits - e) ELSE FullByte
      BY Zenon DEF SeqMask
    <3> HIDE DEF n, mask, first, last, p, e, len
    <3> SUFFICES ASSUME NEW c \in mask[k] PROVE c \in 0 .. (ByteBits - 1)
      BY Positions
    <3>3. CASE k = 0 /\ len > ByteBits - p
      BY <3>1, <3>2, <3>3, Positions DEF ShiftedRight
    <3>4. CASE k = 0 /\ ~(len > ByteBits - p)
      BY <3>1, <3>2, <3>4, Positions DEF ShiftedLeft
    <3>5. CASE k # 0
      BY <3>1, <3>2, <3>5, Positions DEF ShiftedLeft
    <3> QED
      BY <3>3, <3>4, <3>5
  <2> HIDE DEF n, mask, first, last
  <2>2. \A b \in 0 .. TableBytes : t[b] \in Byte
    BY DEF Table
  <2>3. \A b \in 0 .. TableBytes : n[b] \in Byte
    BY <1>1, <1>2, <2>1, <2>2 DEF Byte, FullByte
  <2> QED
    BY <1>1, <1>2, <2>3 DEF Table
<1>5. /\ Run(r[1], r[2]) \subseteq 0 .. (TableBits - 1)
      /\ BitsOf(t) \in SUBSET (0 .. (TableBits + ByteBits - 1))
      /\ TableBits \in Nat /\ ByteBits \in Nat
  BY Positions DEF Requests, Run, BitsOf
<1> HIDE DEF n, first, last, mask
<1>6. WriteSeq(BitsOf(t), r[1], r[2]) \in SUBSET (0 .. (TableBits + ByteBits - 1))
  BY <1>5 DEF WriteSeq
<1>7. \A b \in 0 .. TableBytes, c \in FullByte :
        b * ByteBits + c \in WriteSeq(BitsOf(t), r[1], r[2]) <=> c \in n[b]
  BY <1>3, BitOfByte DEF WriteSeq
<1>8. BitsOf(n) = WriteSeq(BitsOf(t), r[1], r[2])
  BY <1>6, <1>7, BitsByByte
<1> QED
  BY <1>4, <1>8 DEF n

\* delete_seq clears the bits of the sequence and no others.
LEMMA DeleteSeqBits ==
    ASSUME NEW t \in Table, NEW r \in Requests
    PROVE  /\ DeleteSeqBytes(t, r[1], r[2]) \in Table
           /\ BitsOf(DeleteSeqBytes(t, r[1], r[2])) = DeleteSeq(BitsOf(t), r[1], r[2])
<1> DEFINE n == DeleteSeqBytes(t, r[1], r[2])
           first == FirstByte(r[1])
           last  == ByteLength(r[1], r[2])
           mask  == KeepMask(r[1], r[2])
<1>1. DOMAIN mask = 0 .. last /\ DOMAIN t = 0 .. TableBytes
  BY DEF KeepMask, Table
<1>2. n = [b \in DOMAIN t |-> IF b - first \in DOMAIN mask
                              THEN t[b] \cap mask[b - first] ELSE t[b]]
  BY DEF DeleteSeqBytes, Masked
<1>3. \A b \in 0 .. TableBytes, c \in FullByte :
        c \in n[b] <=> c \in t[b] /\ b * ByteBits + c \notin Run(r[1], r[2])
  <2> TAKE b \in 0 .. TableBytes, c \in FullByte
  <2>1. /\ b - first \in 0 .. last =>
             (c \in mask[b - first] <=> c \notin SeqMask(r[1], r[2])[b - first])
        /\ b * ByteBits + c \in Run(r[1], r[2])
             <=> b - first \in 0 .. last /\ c \in SeqMask(r[1], r[2])[b - first]
    <3> HIDE DEF n
    <3> QED
      BY RequestBits, Zenon
  <2> HIDE DEF n, mask, first, last
  <2> QED
    BY <1>1, <1>2, <2>1
<1> HIDE DEF n, first, last, mask
<1>4. n \in Table
  <2>1. \A b \in 0 .. TableBytes : t[b] \in Byte
    BY DEF Table
  <2>2. \A b \in 0 .. TableBytes : n[b] \in Byte
    BY <1>1, <1>2, <2>1 DEF Byte
  <2> QED
    BY <1>1, <1>2, <2>2 DEF Table
<1>5. DeleteSeq(BitsOf(t), r[1], r[2]) \in SUBSET (0 .. (TableBits + ByteBits - 1))
  BY DEF DeleteSeq, BitsOf
<1>6. \A b \in 0 .. TableBytes, c \in FullByte :
        b * ByteBits + c \in DeleteSeq(BitsOf(t), r[1], r[2]) <=> c \in n[b]
  BY <1>3, BitOfByte DEF DeleteSeq
<1>7. BitsOf(n) = DeleteSeq(BitsOf(t), r[1], r[2])
  BY <1>5, <1>6, BitsByByte
<1> QED
  BY <1>4, <1>7 DEF n

\* write_bit sets or clears the bit.
LEMMA WriteBitBits ==
    ASSUME NEW t \in Table, NEW index \in 0 .. (TableBits - 1), NEW bit_value \in BOOLEAN
    PROVE  LET n == [t EXCEPT ![index \div ByteBits] =
                       IF bit_value THEN @ \cup {index % ByteBits}
                       ELSE @ \ {index % ByteBits}] IN
           /\ n \in Table
           /\ BitsOf(n) = IF bit_value THEN WriteSeq(BitsOf(t), index, 1)
                          ELSE DeleteSeq(BitsOf(t), index, 1)
<1> DEFINE q == index \div ByteBits
           p == index % ByteBits
           v == IF bit_value THEN t[q] \cup {p} ELSE t[q] \ {p}
           n == [t EXCEPT ![q] = v]
           u == IF bit_value THEN WriteSeq(BitsOf(t), index, 1)
                ELSE DeleteSeq(BitsOf(t), index, 1)
<1>1. index \in 0 .. (TableBits + ByteBits - 1) /\ index \in Int
  BY Positions
<1>2. q \in 0 .. TableBytes /\ p \in FullByte /\ index = q * ByteBits + p
  BY <1>1, ByteOfBit, Zenon
<1>3. Run(index, 1) = {index}
  BY <1>1 DEF Run
<1> HIDE DEF q, p
<1>4. n \in Table /\ \A b \in 0 .. TableBytes : n[b] = IF b = q THEN v ELSE t[b]
  BY <1>2 DEF Table, Byte, FullByte
<1>5. ASSUME NEW b \in 0 .. TableBytes, NEW c \in FullByte
      PROVE  b * ByteBits + c = index <=> b = q /\ c = p
  <2>1. /\ (b * ByteBits + c) \div ByteBits = b
        /\ (b * ByteBits + c) % ByteBits = c
        /\ (q * ByteBits + p) \div ByteBits = q
        /\ (q * ByteBits + p) % ByteBits = p
    BY <1>2, DigitsOf, Positions
  <2> QED
    BY <1>2, <2>1
<1>6. u \in SUBSET (0 .. (TableBits + ByteBits - 1))
  <2> HIDE DEF n, v
  <2> QED
    BY <1>1, <1>3 DEF WriteSeq, DeleteSeq, BitsOf
<1>7. ASSUME NEW b \in 0 .. TableBytes, NEW c \in FullByte
      PROVE  b * ByteBits + c \in u <=> c \in n[b]
  <2>1. b * ByteBits + c \in u <=>
          IF bit_value THEN b * ByteBits + c \in BitsOf(t) \/ b * ByteBits + c = index
          ELSE b * ByteBits + c \in BitsOf(t) /\ b * ByteBits + c # index
    BY <1>3, Zenon DEF WriteSeq, DeleteSeq
  <2>2. b * ByteBits + c \in BitsOf(t) <=> c \in t[b]
    BY BitOfByte
  <2>3. n[b] = IF b = q THEN v ELSE t[b]
    BY <1>4
  <2> HIDE DEF u, n
  <2> QED
    BY <1>5, <2>1, <2>2, <2>3
<1> HIDE DEF u, n
<1>8. BitsOf(n) = u
  BY <1>6, <1>7, BitsByByte
<1> QED
  BY <1>4, <1>8, Zenon DEF u, n, v, q, p

-----------------------------------------------------------------------------
(* The requests.                                                           *)

\* The bytes are a table, and the callers know its bits.
Inv == table \in Table /\ used = BitsOf(table)

\* Behind the full table that fs_mkfs makes is whatever there is.
LEMMA InitInv == Init => Inv
<1> SUFFICES ASSUME NEW behind \in Byte
             PROVE  [b \in Bytes \cup {TableBytes} |->
                       IF b \in Bytes THEN FullByte ELSE behind] \in Table
  BY DEF Init, Inv
<1>1. Bytes \cup {TableBytes} = 0 .. TableBytes
  BY Positions DEF Bytes
<1>2. FullByte \in Byte
  BY DEF FullByte, Byte
<1> QED
  BY <1>1, <1>2 DEF Table

\* Every call keeps the two in step.
LEMMA StepInv == Inv /\ [Next]_vars => Inv'
<1> SUFFICES ASSUME Inv, [Next]_vars PROVE Inv'
  OBVIOUS
<1> USE DEF Inv
<1>1. CASE \E r \in Requests : Write(r[1], r[2])
  BY <1>1, WriteSeqBits DEF Write
<1>2. CASE \E r \in Requests : Delete(r[1], r[2])
  BY <1>2, DeleteSeqBits DEF Delete
<1>3. CASE \E index \in 0 .. (TableBits - 1), bit_value \in BOOLEAN :
             WriteBit(index, bit_value)
  <2>1. PICK index \in 0 .. (TableBits - 1), bit_value \in BOOLEAN :
          WriteBit(index, bit_value)
    BY <1>3
  <2>2. LET n == [table EXCEPT ![index \div ByteBits] =
                    IF bit_value THEN @ \cup {index % ByteBits}
                    ELSE @ \ {index % ByteBits}] IN
        /\ n \in Table
        /\ BitsOf(n) = IF bit_value THEN WriteSeq(BitsOf(table), index, 1)
                       ELSE DeleteSeq(BitsOf(table), index, 1)
    BY WriteBitBits
  <2> QED
    BY <2>1, <2>2, Zenon DEF WriteBit
<1>4. CASE UNCHANGED vars
  BY <1>4 DEF vars
<1> QED
  BY <1>1, <1>2, <1>3, <1>4 DEF Next

\* The two stay in step.
LEMMA BitsInvariant == Spec => []Inv
  BY InitInv, StepInv, PTL DEF Spec

\* write_seq, delete_seq and write_bit touch the bits that they are asked to
\* touch, in bytes of every size and whatever borders a request crosses.
THEOREM TableHasTheBits == Spec => []BytesAreTheTable
<1>1. Inv => BytesAreTheTable
  BY DEF Inv, BytesAreTheTable
<1> QED
  BY <1>1, BitsInvariant, PTL

\* check_seq looks at the bits of the request and at no others.
LEMMA CheckSeqBits ==
    ASSUME NEW t \in Table, NEW r \in Requests
    PROVE  CheckSeqBytes(t, r[1], r[2]) <=> CheckSeq(BitsOf(t), r[1], r[2])
<1> DEFINE first == FirstByte(r[1])
           last  == ByteLength(r[1], r[2])
           mask  == SeqMask(r[1], r[2])
           run   == Run(r[1], r[2])
<1>1. first \in Nat /\ last \in Nat /\ first + last <= TableBytes
  <2> HIDE DEF first, last
  <2> QED
    BY EndOfRequest DEF first, last
<1>2. \A b \in 0 .. TableBytes, c \in FullByte :
        b * ByteBits + c \in run <=> b - first \in 0 .. last /\ c \in mask[b - first]
  <2> TAKE b \in 0 .. TableBytes, c \in FullByte
  <2> QED
    BY RequestBits, Zenon
<1>3. CheckSeqBytes(t, r[1], r[2]) <=> \A k \in 0 .. last : mask[k] \cap t[first + k] = {}
  BY Zenon DEF CheckSeqBytes
<1>4. CheckSeq(BitsOf(t), r[1], r[2]) <=> run \cap BitsOf(t) = {}
  BY Zenon DEF CheckSeq
<1> HIDE DEF first, last, mask, run
<1>5. ASSUME NEW k \in 0 .. last, NEW c \in mask[k], c \in t[first + k]
      PROVE  \E i \in run : i \in BitsOf(t)
  <2> DEFINE b == first + k
  <2>1. b \in 0 .. TableBytes /\ b - first = k
    BY <1>1, Positions
  <2> HIDE DEF b
  <2>2. c \in t[b]
    BY <1>5 DEF b
  <2>3. c \in FullByte
    BY <2>1, <2>2 DEF Table, Byte, FullByte
  <2>4. b * ByteBits + c \in BitsOf(t)
    BY <2>1, <2>2, <2>3, BitOfByte
  <2>5. b * ByteBits + c \in run
    BY <1>2, <1>5, <2>1, <2>3
  <2> QED
    BY <2>4, <2>5
<1>6. ASSUME NEW i \in run, i \in BitsOf(t)
      PROVE  \E k \in 0 .. last : mask[k] \cap t[first + k] # {}
  <2> DEFINE b == i \div ByteBits
             c == i % ByteBits
  <2>1. i \in 0 .. (TableBits + ByteBits - 1)
    BY <1>6 DEF BitsOf
  <2>2. b \in 0 .. TableBytes /\ c \in FullByte /\ i = b * ByteBits + c
    BY <2>1, ByteOfBit, Zenon
  <2> HIDE DEF b, c
  <2>3. c \in t[b]
    BY <1>6, <2>2, BitOfByte
  <2>4. b - first \in 0 .. last /\ c \in mask[b - first]
    BY <1>2, <2>2
  <2>5. first + (b - first) = b
    BY <1>1, <2>2
  <2> QED
    BY <2>3, <2>4, <2>5
<1> QED
  BY <1>3, <1>4, <1>5, <1>6

\* check_seq answers for the bits of the request, whatever it reads of the byte
\* behind the table.
THEOREM CheckSeqAnswers == Spec => []CheckSeqIsExact
<1>1. Inv => CheckSeqIsExact
  BY CheckSeqBits DEF Inv, CheckSeqIsExact
<1> QED
  BY <1>1, BitsInvariant, PTL

-----------------------------------------------------------------------------
(* Zeroes.                                                                 *)

\* A sequence of zeroes is one in each of its parts.
LEMMA Parts ==
    ASSUME NEW u, NEW i \in Int, NEW m \in Nat, NEW n \in Nat
    PROVE  CheckSeq(u, i, m + n) <=> CheckSeq(u, i, m) /\ CheckSeq(u, i + m, n)
  BY DEF CheckSeq, Run

\* The zeroes at the end of n bits, counted.
LEMMA ZeroesAtEnd ==
    ASSUME NEW n \in Nat, NEW u
    PROVE  LET l == Cardinality({b \in 0 .. (n - 1) : b .. (n - 1) \cap u = {}}) IN
           /\ l \in 0 .. n /\ CheckSeq(u, n - l, l)
           /\ l < n => n - l - 1 \in u
<1> DEFINE zeroes == {b \in 0 .. (n - 1) : b .. (n - 1) \cap u = {}}
           ones   == u \cap 0 .. (n - 1)
<1> SUFFICES \E l \in 0 .. n : /\ Cardinality(zeroes) = l /\ CheckSeq(u, n - l, l)
                               /\ l < n => n - l - 1 \in u
  OBVIOUS
<1>1. CASE ones = {}
  <2>1. zeroes = 0 .. (n - 1)
    BY <1>1
  <2>2. Cardinality(0 .. (n - 1)) = n
    BY FS_Interval
  <2>3. CheckSeq(u, n - n, n)
    BY <1>1 DEF CheckSeq, Run
  <2> HIDE DEF zeroes
  <2> QED
    BY <2>1, <2>2, <2>3
<1>2. CASE ones # {}
  <2> DEFINE m == Max(ones)
  <2>1. m \in ones /\ \A y \in ones : m >= y
    <3>1. \A x \in ones : x \in Int /\ x <= n
      OBVIOUS
    <3> HIDE DEF ones
    <3> QED
      BY <1>2, <3>1, LargestInSet
  <2> HIDE DEF m
  <2>2. zeroes = (m + 1) .. (n - 1)
    BY <2>1
  <2>3. Cardinality((m + 1) .. (n - 1)) = n - 1 - m
    BY <2>1, FS_Interval
  <2> DEFINE l == n - 1 - m
  <2>4. l \in 0 .. n /\ n - l = m + 1 /\ n - l - 1 = m /\ m + 1 + l - 1 = n - 1
    BY <2>1
  <2> HIDE DEF l
  <2>5. CheckSeq(u, n - l, l) /\ n - l - 1 \in u
    BY <2>1, <2>4 DEF CheckSeq, Run
  <2>6. Cardinality(zeroes) = l
    BY <2>2, <2>3 DEF l
  <2> HIDE DEF zeroes
  <2> QED
    BY <2>4, <2>5, <2>6
<1> QED
  BY <1>1, <1>2

\* The zeroes at the beginning of n bits, counted.
LEMMA ZeroesAtBegin ==
    ASSUME NEW n \in Nat, NEW u
    PROVE  LET f == Cardinality({b \in 0 .. (n - 1) : 0 .. b \cap u = {}}) IN
           /\ f \in 0 .. n /\ CheckSeq(u, 0, f)
           /\ f < n => f \in u
<1> DEFINE zeroes == {b \in 0 .. (n - 1) : 0 .. b \cap u = {}}
           ones   == u \cap 0 .. (n - 1)
<1> SUFFICES \E f \in 0 .. n : /\ Cardinality(zeroes) = f /\ CheckSeq(u, 0, f)
                               /\ f < n => f \in u
  OBVIOUS
<1>1. CASE ones = {}
  <2>1. zeroes = 0 .. (n - 1)
    BY <1>1
  <2>2. Cardinality(0 .. (n - 1)) = n
    BY FS_Interval
  <2>3. CheckSeq(u, 0, n)
    BY <1>1 DEF CheckSeq, Run
  <2> HIDE DEF zeroes
  <2> QED
    BY <2>1, <2>2, <2>3
<1>2. CASE ones # {}
  <2> DEFINE m == Least(ones)
  <2>1. m \in ones /\ \A y \in ones : m <= y
    <3>1. ones \in SUBSET Nat
      OBVIOUS
    <3> HIDE DEF ones
    <3> QED
      BY <1>2, <3>1, LeastInSet
  <2> HIDE DEF m
  <2>2. zeroes = 0 .. (m - 1)
    BY <2>1
  <2>3. Cardinality(0 .. (m - 1)) = m
    BY <2>1, FS_Interval
  <2>4. m \in 0 .. n /\ CheckSeq(u, 0, m) /\ m \in u
    BY <2>1 DEF CheckSeq, Run
  <2> HIDE DEF zeroes
  <2> QED
    BY <2>2, <2>3, <2>4
<1> QED
  BY <1>1, <1>2

\* What first_free_bits and last_free_bits return.
LEMMA FirstZeroes ==
    ASSUME NEW byte
    PROVE  /\ FirstFreeBits(byte) \in 0 .. ByteBits
           /\ CheckSeq(byte, 0, FirstFreeBits(byte))
           /\ FirstFreeBits(byte) < ByteBits => FirstFreeBits(byte) \in byte
<1>1. ByteBits \in Nat
  BY Positions
<1> QED
  BY <1>1, ZeroesAtBegin, Zenon DEF FirstFreeBits, FullByte

\* What last_free_bits returns.
LEMMA LastZeroes ==
    ASSUME NEW byte
    PROVE  /\ LastFreeBits(byte) \in 0 .. ByteBits
           /\ CheckSeq(byte, ByteBits - LastFreeBits(byte), LastFreeBits(byte))
           /\ LastFreeBits(byte) < ByteBits => ByteBits - LastFreeBits(byte) - 1 \in byte
<1>1. ByteBits \in Nat
  BY Positions
<1> QED
  BY <1>1, ZeroesAtEnd, Zenon DEF LastFreeBits, FullByte

\* A part of a byte is zero in the table if it is zero in the byte.
LEMMA RunInByte ==
    ASSUME NEW t, NEW b \in 0 .. TableBytes, NEW c \in Nat, NEW n \in Nat,
           c + n <= ByteBits
    PROVE  CheckSeq(BitsOf(t), b * ByteBits + c, n) <=> CheckSeq(t[b], c, n)
<1>1. \A i \in c .. (c + n - 1) :
        i \in FullByte /\ (b * ByteBits + i \in BitsOf(t) <=> i \in t[b])
  <2> TAKE i \in c .. (c + n - 1)
  <2>1. i \in FullByte
    BY Positions
  <2> QED
    BY <2>1, BitOfByte
<1> DEFINE F == b * ByteBits
<1>2. F \in Int
  BY Positions
<1> HIDE DEF F
<1>3. \A i \in (F + c) .. (F + c + n - 1) : i - F \in c .. (c + n - 1) /\ F + (i - F) = i
  BY <1>2
<1>4. \A i \in c .. (c + n - 1) : F + i \in (F + c) .. (F + c + n - 1)
  BY <1>2
<1>5. (F + c) .. (F + c + n - 1) \cap BitsOf(t) = {} <=> c .. (c + n - 1) \cap t[b] = {}
  <2>1. ASSUME NEW i \in c .. (c + n - 1), i \in t[b]
        PROVE  (F + c) .. (F + c + n - 1) \cap BitsOf(t) # {}
    BY <1>1, <1>4, <2>1 DEF F
  <2>2. ASSUME NEW i \in (F + c) .. (F + c + n - 1), i \in BitsOf(t)
        PROVE  c .. (c + n - 1) \cap t[b] # {}
    BY <1>1, <1>3, <2>2 DEF F
  <2> QED
    BY <2>1, <2>2
<1> QED
  BY <1>5 DEF F, CheckSeq, Run

-----------------------------------------------------------------------------
(* First fit.                                                              *)

\* The places in the table at which `length' zeroes begin.
Places(t, length) == FreeStarts(BitsOf(t), TableBits, length)

\* A place is where that many zeroes begin within the table.
LEMMA PlacesAreFree ==
    ASSUME NEW t, NEW length \in Nat, NEW i
    PROVE  i \in Places(t, length) <=>
             /\ i \in Nat /\ i + length <= TableBits
             /\ CheckSeq(BitsOf(t), i, length)
<1>1. i \in 0 .. (TableBits - length) <=> i \in Nat /\ i + length <= TableBits
  BY Positions
<1> QED
  BY <1>1 DEF Places, FreeStarts

\* What is at hand about two neighbouring bytes.
LEMMA Neighbours ==
    ASSUME NEW t, NEW i \in Bytes
    PROVE  /\ i * ByteBits \in Nat /\ i * ByteBits + ByteBits <= TableBits
           /\ CheckSeq(BitsOf(t), i * ByteBits, FirstFreeBits(t[i]))
           /\ FirstFreeBits(t[i]) < ByteBits =>
                i * ByteBits + FirstFreeBits(t[i]) \in BitsOf(t)
           /\ CheckSeq(BitsOf(t), i * ByteBits + ByteBits - LastFreeBits(t[i]),
                       LastFreeBits(t[i]))
           /\ LastFreeBits(t[i]) < ByteBits =>
                i * ByteBits + ByteBits - LastFreeBits(t[i]) - 1 \in BitsOf(t)
           /\ i > 0 => i - 1 \in Bytes /\ (i - 1) * ByteBits + ByteBits = i * ByteBits
<1> DEFINE f == FirstFreeBits(t[i])
           l == LastFreeBits(t[i])
           F == i * ByteBits
<1>1. /\ i \in 0 .. TableBytes /\ i < TableBytes
      /\ f \in 0 .. ByteBits /\ CheckSeq(t[i], 0, f) /\ (f < ByteBits => f \in t[i])
      /\ l \in 0 .. ByteBits /\ CheckSeq(t[i], ByteBits - l, l)
      /\ l < ByteBits => ByteBits - l - 1 \in t[i]
  BY Positions, FirstZeroes, LastZeroes DEF Bytes
<1> HIDE DEF f, l
<1>2. F \in Nat /\ F + ByteBits <= TableBits
      /\ (i > 0 => i - 1 \in Bytes /\ (i - 1) * ByteBits + ByteBits = F)
  BY <1>1, Multiples, Positions DEF TableBits, Bytes
<1>3. CheckSeq(BitsOf(t), F + 0, f) /\ CheckSeq(BitsOf(t), F + (ByteBits - l), l)
  <2>1. f \in Nat /\ l \in Nat /\ ByteBits - l \in Nat
        /\ 0 + f <= ByteBits /\ ByteBits - l + l <= ByteBits
    BY <1>1, Positions
  <2> HIDE DEF F
  <2> QED
    BY <1>1, <2>1, RunInByte DEF F
<1>4. f < ByteBits => F + f \in BitsOf(t)
  <2>1. f < ByteBits => f \in FullByte
    BY <1>1, Positions
  <2> QED
    BY <1>1, <2>1, BitOfByte
<1>5. l < ByteBits => F + (ByteBits - l - 1) \in BitsOf(t)
  <2>1. l < ByteBits => ByteBits - l - 1 \in FullByte
    BY <1>1, Positions
  <2> QED
    BY <1>1, <2>1, BitOfByte
<1> HIDE DEF F
<1>6. /\ F + 0 = F /\ F + (ByteBits - l) = F + ByteBits - l
      /\ F + (ByteBits - l - 1) = F + ByteBits - l - 1
  BY <1>1, <1>2, Positions
<1> QED
  BY <1>2, <1>3, <1>4, <1>5, <1>6 DEF F, f, l

\* A hit is a place, and its zeroes end in this byte at the latest.
LEMMA HitIsPlace ==
    ASSUME NEW t, NEW i \in Bytes, NEW length \in 1 .. ByteBits,
           HitAt(t, i, length) # {}
    PROVE  \E x \in Places(t, length) :
             HitAt(t, i, length) = {x} /\ x + length <= i * ByteBits + ByteBits
<1> DEFINE F == i * ByteBits
           f == FirstFreeBits(t[i])
           l == LastFreeBits(t[i - 1])
           c == FindSeqByte(t[i], length)
<1>1. ByteBits \in Nat /\ length \in Nat /\ i \in Nat /\ i \in 0 .. TableBytes
      /\ length \in 1 .. ByteBits
  BY Positions DEF Bytes
<1>2. /\ F \in Nat /\ F + ByteBits <= TableBits
      /\ f \in 0 .. ByteBits /\ CheckSeq(BitsOf(t), F, f)
  BY Neighbours, FirstZeroes
<1>3. CASE i > 0 /\ t[i] # FullByte /\ l + f >= length
  <2>1. HitAt(t, i, length) = {F - l}
    BY <1>3, Zenon DEF HitAt
  <2> DEFINE G == (i - 1) * ByteBits
  <2>2. /\ G \in Nat /\ G + ByteBits = F
        /\ l \in 0 .. ByteBits /\ CheckSeq(BitsOf(t), G + ByteBits - l, l)
    BY <1>3, Neighbours, LastZeroes
  <2> HIDE DEF F, f, l, G
  <2> DEFINE x == F - l
             d == l + f - length
  <2>3. /\ x \in Nat /\ l \in Nat /\ f \in Nat /\ x + l = F
        /\ d \in Nat /\ length + d = l + f /\ G + ByteBits - l = x
    BY <1>1, <1>2, <1>3, <2>2
  <2> HIDE DEF x, d
  <2>4. CheckSeq(BitsOf(t), x, l + f)
    <3>1. CheckSeq(BitsOf(t), x, l) /\ CheckSeq(BitsOf(t), x + l, f)
      BY <1>2, <2>2, <2>3
    <3>2. x \in Int
      BY <2>3
    <3> QED
      BY <2>3, <3>1, <3>2, Parts, Zenon
  <2>5. CheckSeq(BitsOf(t), x, length)
    <3>1. CheckSeq(BitsOf(t), x, length + d) /\ x \in Int
      BY <2>3, <2>4
    <3> QED
      BY <1>1, <2>3, <3>1, Parts, Zenon
  <2>6. x + length <= F + ByteBits /\ x + length <= TableBits
    BY <1>1, <1>2, <1>3, <2>2, <2>3, Positions
  <2>7. x \in Places(t, length)
    BY <1>1, <2>3, <2>5, <2>6, PlacesAreFree
  <2> QED
    BY <2>1, <2>6, <2>7 DEF F, x
<1>4. CASE ~(i > 0 /\ t[i] # FullByte /\ l + f >= length)
  <2>1. HitAt(t, i, length) = IF c # NotFound THEN {F + c} ELSE {}
    BY <1>4, Zenon DEF HitAt
  <2>2. c # NotFound /\ HitAt(t, i, length) = {F + c}
    BY <2>1
  <2> DEFINE free == FreeStarts(t[i], ByteBits, length)
  <2>3. free # {} /\ c = Least(free)
    BY <2>2, Zenon DEF FindSeqByte, HasSeq, FindSeq
  <2>4. free \in SUBSET Nat /\ \A x \in free : x + length <= ByteBits /\ CheckSeq(t[i], x, length)
    BY <1>1 DEF FreeStarts
  <2> HIDE DEF free
  <2>5. c \in free
    BY <2>3, <2>4, LeastInSet
  <2> HIDE DEF c, f, l
  <2>6. CheckSeq(BitsOf(t), F + c, length)
    BY <1>1, <2>4, <2>5, RunInByte
  <2> HIDE DEF F
  <2>7. c \in Nat /\ c + length <= ByteBits
    BY <2>4, <2>5
  <2>8. F + c + length <= F + ByteBits /\ F + c + length <= TableBits /\ F + c \in Nat
    BY <1>1, <1>2, <2>7, Positions
  <2>9. F + c \in Places(t, length)
    BY <1>1, <2>6, <2>8, PlacesAreFree
  <2> QED
    BY <2>2, <2>8, <2>9 DEF F
<1> QED
  BY <1>3, <1>4

\* Where the zeroes of a place end there is a hit, which is not behind it.
LEMMA PlaceIsHit ==
    ASSUME NEW t, NEW length \in 1 .. ByteBits, NEW s \in Places(t, length)
    PROVE  \E i \in Bytes, y \in Nat :
             /\ i * ByteBits < s + length
             /\ HitAt(t, i, length) = {y} /\ y <= s
<1>1. /\ ByteBits \in Nat \ {0} /\ length \in Nat \ {0} /\ length <= ByteBits
      /\ s \in Nat /\ s + length <= TableBits /\ CheckSeq(BitsOf(t), s, length)
  BY Positions, PlacesAreFree
<1> DEFINE e == s + length - 1
           i == e \div ByteBits
           F == i * ByteBits
           c == e % ByteBits
           f == FirstFreeBits(t[i])
           l == LastFreeBits(t[i - 1])
           byteHit == FindSeqByte(t[i], length)
<1>2. i \in Bytes /\ c \in 0 .. (ByteBits - 1) /\ e = F + c
  <2>1. e \in 0 .. (TableBits + ByteBits - 1) /\ e < TableBits
    BY <1>1, Positions
  <2> HIDE DEF e
  <2>2. /\ i \in 0 .. TableBytes /\ c \in FullByte /\ e = F + c
        /\ e < TableBits <=> i < TableBytes
    BY <2>1, ByteOfBit, Zenon
  <2> HIDE DEF i, c, F
  <2> QED
    BY <2>1, <2>2, Positions DEF Bytes
<1> HIDE DEF i, c
<1>3. /\ F \in Nat /\ F + ByteBits <= TableBits
      /\ f \in 0 .. ByteBits /\ CheckSeq(BitsOf(t), F, f)
      /\ f < ByteBits => F + f \in BitsOf(t)
      /\ i > 0 => i - 1 \in Bytes /\ (i - 1) * ByteBits + ByteBits = F
      /\ i \in Nat /\ i \in 0 .. TableBytes
  <2>1. i \in Nat /\ i \in 0 .. TableBytes
    BY <1>2, Positions DEF Bytes
  <2>2. f \in 0 .. ByteBits
    BY FirstZeroes
  <2> QED
    BY <1>2, <2>1, <2>2, Neighbours, Zenon
<1>4. i > 0 =>
        /\ l \in 0 .. ByteBits
        /\ l < ByteBits => F - l - 1 \in BitsOf(t)
  <2> SUFFICES ASSUME i > 0
               PROVE  /\ l \in 0 .. ByteBits
                      /\ l < ByteBits => F - l - 1 \in BitsOf(t)
    OBVIOUS
  <2> DEFINE G == (i - 1) * ByteBits
  <2>1. /\ l \in 0 .. ByteBits /\ G \in Nat /\ G + ByteBits = F
        /\ l < ByteBits => G + ByteBits - l - 1 \in BitsOf(t)
    BY <1>3, Neighbours, LastZeroes
  <2> HIDE DEF G, F, l
  <2> QED
    BY <1>1, <2>1
<1>5. F < s + length
  BY <1>1, <1>2, <1>3
<1> SUFFICES \E y \in Nat : HitAt(t, i, length) = {y} /\ y <= s
  BY <1>2, <1>5
<1>6. \A x \in BitsOf(t) : x \in Int => ~(s <= x /\ x < s + length)
  BY <1>1 DEF CheckSeq, Run
<1>7. HitAt(t, i, length) =
        IF i > 0 /\ t[i] # FullByte /\ l + f >= length THEN {F - l}
        ELSE IF byteHit # NotFound THEN {F + byteHit}
        ELSE {}
  BY Zenon DEF HitAt
<1>8. CASE s < F
  <2>1. i > 0
    BY <1>1, <1>3, <1>8, Positions DEF F
  <2>2. F - l <= s
    <3> HIDE DEF F, f, l, e
    <3>1. l < ByteBits => ~(s <= F - l - 1 /\ F - l - 1 < s + length)
      BY <1>3, <1>4, <1>6, <2>1
    <3>2. l < ByteBits => F - l - 1 < s + length
      BY <1>1, <1>3, <1>4, <1>5, <2>1
    <3>3. l = ByteBits => F - l <= s
      BY <1>1, <1>3, <1>5, <1>8, <2>1, Positions
    <3> QED
      BY <1>1, <1>3, <1>4, <2>1, <3>1, <3>2, <3>3
  <2>3. s + length <= F + f
    <3> HIDE DEF F, f, l, e
    <3>1. f < ByteBits => ~(s <= F + f /\ F + f < s + length)
      BY <1>3, <1>6
    <3>2. f = ByteBits => s + length <= F + f
      BY <1>1, <1>3, <1>8
    <3> QED
      BY <1>1, <1>3, <1>8, <3>1, <3>2
  <2>4. t[i] # FullByte
    <3>1. f # 0
      <4> HIDE DEF F, f, l
      <4> QED
        BY <1>1, <1>3, <1>5, <2>3
    <3>2. CheckSeq(t[i], 0, f) /\ 0 \in FullByte
      BY FirstZeroes, Positions
    <3> HIDE DEF F, l, f
    <3>3. 0 \in Run(0, f)
      BY <1>3, <3>1, Positions DEF Run
    <3> QED
      BY <3>2, <3>3 DEF CheckSeq
  <2> HIDE DEF F, f, l, e, byteHit
  <2>5. l + f >= length /\ F - l \in Nat
    <3>1. l + f >= length
      BY <1>1, <1>3, <1>4, <2>1, <2>2, <2>3
    <3>2. ByteBits <= F
      BY <1>1, <1>3, <2>1, Multiples DEF F
    <3> QED
      BY <1>1, <1>3, <1>4, <2>1, <3>1, <3>2
  <2> QED
    BY <1>7, <2>1, <2>2, <2>4, <2>5
<1>9. CASE ~(s < F)
  <2> DEFINE b == s - F
             free == FreeStarts(t[i], ByteBits, length)
  <2>1. b \in Nat /\ b + length <= ByteBits /\ s = F + b
    <3> HIDE DEF F
    <3> QED
      BY <1>1, <1>2, <1>3, <1>9
  <2> HIDE DEF b
  <2>2. CheckSeq(t[i], b, length)
    BY <1>1, <1>3, <2>1, RunInByte
  <2> HIDE DEF F, f, l, e
  <2>3. b \in free /\ free \in SUBSET Nat
    BY <1>1, <2>1, <2>2 DEF FreeStarts
  <2>4. byteHit = Least(free)
    BY <2>3, Zenon DEF FindSeqByte, HasSeq, FindSeq
  <2> HIDE DEF free, byteHit
  <2>5. byteHit \in Nat /\ byteHit <= b
    BY <2>3, <2>4, LeastInSet
  <2>6. byteHit # NotFound /\ F + byteHit \in Nat /\ F + byteHit <= s
    BY <1>3, <2>1, <2>5 DEF NotFound
  <2>7. CASE i > 0 /\ t[i] # FullByte /\ l + f >= length
    <3>1. ByteBits <= F
      BY <1>1, <1>3, <2>7, Multiples DEF F
    <3>2. F - l \in Nat /\ F - l <= s
      BY <1>1, <1>3, <1>4, <1>9, <2>7, <3>1
    <3> QED
      BY <1>7, <2>7, <3>2
  <2> QED
    BY <1>7, <2>6, <2>7
<1> QED
  BY <1>8, <1>9, <1>1, <1>3

\* find_seq_small finds the first place: the first byte with a hit is not behind
\* the one where the zeroes of the first place end, and where it is before that
\* byte its hit ends before it.
LEMMA SmallIsFirstFit ==
    ASSUME NEW t, NEW length \in 1 .. ByteBits
    PROVE  FindSeqSmall(t, length) =
             IF HasSeq(BitsOf(t), TableBits, length)
             THEN FindSeq(BitsOf(t), TableBits, length) ELSE NotFound
<1> DEFINE hits   == {i \in Bytes : HitAt(t, i, length) # {}}
           places == Places(t, length)
           first  == Least(hits)
<1>1. /\ FindSeqSmall(t, length) =
           IF hits = {} THEN NotFound ELSE Least(HitAt(t, first, length))
      /\ HasSeq(BitsOf(t), TableBits, length) <=> places # {}
      /\ FindSeq(BitsOf(t), TableBits, length) = Least(places)
  BY Zenon DEF FindSeqSmall, HasSeq, FindSeq, Places
<1>2. /\ hits \in SUBSET Nat /\ places \in SUBSET Nat
      /\ length \in Nat /\ ByteBits \in Nat
  BY PlacesAreFree, Positions DEF Bytes
<1>3. \A s \in places : \E i \in hits, y \in Nat :
        i * ByteBits < s + length /\ HitAt(t, i, length) = {y} /\ y <= s
  <2> TAKE s \in places
  <2>1. PICK i \in Bytes, y \in Nat :
           i * ByteBits < s + length /\ HitAt(t, i, length) = {y} /\ y <= s
    BY PlaceIsHit
  <2>2. i \in hits
    BY <2>1
  <2> QED
    BY <2>1, <2>2
<1>4. \A i \in hits : \E x \in places :
        HitAt(t, i, length) = {x} /\ x + length <= i * ByteBits + ByteBits
  BY HitIsPlace
<1> HIDE DEF hits, places
<1>5. CASE hits = {}
  BY <1>1, <1>3, <1>5
<1>6. CASE hits # {}
  <2>1. first \in hits /\ \A j \in hits : first <= j
    BY <1>2, <1>6, LeastInSet
  <2> HIDE DEF first
  <2>2. PICK x \in places : HitAt(t, first, length) = {x}
                            /\ x + length <= first * ByteBits + ByteBits
    BY <1>4, <2>1
  <2>3. ASSUME NEW s \in places PROVE x <= s
    <3>1. PICK i \in hits, y \in Nat :
            i * ByteBits < s + length /\ HitAt(t, i, length) = {y} /\ y <= s
      BY <1>3
    <3>2. CASE i = first
      BY <2>2, <3>1, <3>2
    <3>3. CASE i # first
      <4>1. first < i /\ first \in Nat /\ i \in Nat
        BY <1>2, <2>1, <3>3
      <4>2. first * ByteBits + ByteBits <= i * ByteBits
        BY <1>2, <4>1, Multiples
      <4>3. first * ByteBits \in Nat /\ i * ByteBits \in Nat /\ x \in Nat /\ s \in Nat
        BY <1>2, <4>1
      <4> QED
        BY <1>2, <2>2, <3>1, <4>2, <4>3
    <3> QED
      BY <3>2, <3>3
  <2>4. Least(places) = x
    <3> DEFINE m == Least(places)
    <3>1. m \in places /\ \A j \in places : m <= j
      BY <1>2, <2>2, LeastInSet
    <3> HIDE DEF m
    <3>2. x <= m /\ m <= x /\ x \in Nat /\ m \in Nat
      BY <1>2, <2>2, <2>3, <3>1
    <3>3. m = x
      BY <3>2
    <3> QED
      BY <3>3 DEF m
  <2>5. Least({x}) = x
    BY <1>2 DEF Least
  <2> QED
    BY <1>1, <1>6, <2>2, <2>4, <2>5
<1> QED
  BY <1>5, <1>6

\* The states that the search for more than a byte goes through.
SearchStates == [index : Int, zeroes : Int, start : Bytes]

\* find_seq as a sequence of states, one per byte.
LEMMA SearchSteps ==
    ASSUME NEW t, NEW length \in Nat
    PROVE  \E h : /\ h[0] = [index |-> NotFound, zeroes |-> 0, start |-> 0]
                  /\ \A i \in 1 .. TableBytes :
                       h[i] = SearchByte(t, h[i - 1], i - 1, length)
                  /\ SearchBytes(t, length) = h[TableBytes]
<1> DEFINE n    == TableBytes
           base == [index |-> NotFound, zeroes |-> 0, start |-> 0]
           seq  == [i \in 1 .. n |-> i - 1]
           op   == [p \in (1 .. n) \X SearchStates |->
                      SearchByte(t, p[2], seq[p[1]], length)]
           IsIter(g, D) ==
             g = [s \in SUBSET D |->
                    IF s = {} THEN base
                    ELSE SearchByte(t, g[s \ {Max(s)}], seq[Max(s)], length)]
           c    == CHOOSE g : IsIter(g, DOMAIN seq)
           h    == [i \in 0 .. n |-> c[1 .. i]]
<1>1. n \in Nat \ {0}
  BY Positions
<1>2. base \in SearchStates
  BY <1>1 DEF SearchStates, NotFound, Bytes
<1>3. \A i \in 1 .. n, v \in SearchStates :
        op[<<i, v>>] = SearchByte(t, v, seq[i], length) /\ op[<<i, v>>] \in SearchStates
  <2> TAKE i \in 1 .. n, v \in SearchStates
  <2>1. seq[i] \in Bytes
    BY <1>1 DEF Bytes
  <2> HIDE DEF seq
  <2>2. op[<<i, v>>] = SearchByte(t, v, seq[i], length)
    OBVIOUS
  <2> HIDE DEF op
  <2> DEFINE f == FirstFreeBits(t[seq[i]])
             l == LastFreeBits(t[seq[i]])
             d == LastFreeBits(t[v.start])
  <2>3. f \in Int /\ l \in Int /\ d \in Int /\ ByteBits \in Nat
    BY FirstZeroes, LastZeroes, Positions
  <2> HIDE DEF f, l, d
  <2>4. SearchByte(t, v, seq[i], length) =
          IF v.index # NotFound THEN v
          ELSE IF v.zeroes + f >= length
               THEN [v EXCEPT !.index = (v.start + 1) * ByteBits - d]
          ELSE IF t[seq[i]] = {} THEN [v EXCEPT !.zeroes = v.zeroes + f]
          ELSE [v EXCEPT !.zeroes = l, !.start = seq[i]]
    BY Zenon DEF SearchByte, f, l, d
  <2>5. (v.start + 1) * ByteBits - d \in Int /\ v.zeroes + f \in Int
    BY <2>3, Positions DEF SearchStates, Bytes
  <2>6. SearchByte(t, v, seq[i], length) \in SearchStates
    BY <2>1, <2>3, <2>4, <2>5 DEF SearchStates
  <2> QED
    BY <2>2, <2>6
<1>4. \A s \in SUBSET (1 .. n) : s # {} =>
        Max(s) \in 1 .. n /\ s \ {Max(s)} \in SUBSET (1 .. n)
  <2> TAKE s \in SUBSET (1 .. n)
  <2>1. n \in Int /\ \A x \in s : x \in Int /\ x <= n
    BY <1>1
  <2> QED
    BY <2>1, LargestInSet
<1>5. \E g : IsIter(g, 1 .. n)
  <2> HIDE DEF base, op, seq
  <2>1. PICK g : IsFoldLeft(g, n, SearchStates, base, op)
    <3>1. StaysIn(op, n, SearchStates)
      BY <1>3 DEF StaysIn
    <3> QED
      BY <1>1, <1>2, <3>1, FoldLeftExists
  <2>2. \A s \in SUBSET (1 .. n) : s # {} =>
          op[<<Max(s), g[s \ {Max(s)}]>>]
            = SearchByte(t, g[s \ {Max(s)}], seq[Max(s)], length)
    BY <1>3, <1>4, <2>1 DEF IsFoldLeft
  <2>3. IsIter(g, 1 .. n)
    BY <2>1, <2>2 DEF IsFoldLeft
  <2> QED
    BY <2>3
<1>6. SearchBytes(t, length) = c[DOMAIN seq]
  BY DEF SearchBytes, FoldLeft, MapThenFoldSet
<1>7. DOMAIN seq = 1 .. n
  OBVIOUS
<1>8. IsIter(c, 1 .. n)
  <2> HIDE DEF IsIter, seq
  <2> QED
    BY <1>5, <1>7
<1> HIDE DEF c
<1>9. h[0] = base
  BY <1>8, <1>1
<1>10. ASSUME NEW i \in 1 .. n PROVE h[i] = SearchByte(t, h[i - 1], i - 1, length)
  <2>1. /\ 1 .. i # {} /\ Max(1 .. i) = i /\ (1 .. i) \ {i} = 1 .. (i - 1)
        /\ i - 1 \in 0 .. n /\ i \in 0 .. n
    BY <1>1, FirstIndices
  <2>2. 1 .. i \in SUBSET (1 .. n)
    BY <1>1
  <2>3. h[i] = c[1 .. i] /\ h[i - 1] = c[1 .. (i - 1)] /\ seq[i] = i - 1
    BY <2>1
  <2> HIDE DEF h, base, seq
  <2> DEFINE s == 1 .. i
  <2>4. c[s] = IF s = {} THEN base
               ELSE SearchByte(t, c[s \ {Max(s)}], seq[Max(s)], length)
    <3> HIDE DEF s
    <3> QED
      BY <1>8, <2>2 DEF s
  <2>5. h[i] = SearchByte(t, c[1 .. (i - 1)], seq[i], length)
    BY <2>1, <2>3, <2>4
  <2> QED
    BY <2>3, <2>5
<1>11. h[n] = c[1 .. n]
  BY <1>1
<1> HIDE DEF h, base
<1> QED
  BY <1>6, <1>7, <1>9, <1>10, <1>11 DEF base

\* What find_seq knows of the first i bytes: as long as nothing is found, no
\* place ends in them, and the zeroes that end them are counted in `zeroes' and
\* begin in byte `start'.
Searched(t, length, i, s) ==
    /\ s \in SearchStates
    /\ s.index = NotFound =>
         /\ s.zeroes \in 0 .. (length - 1) /\ s.zeroes <= i * ByteBits
         /\ CheckSeq(BitsOf(t), i * ByteBits - s.zeroes, s.zeroes)
         /\ s.zeroes < i * ByteBits => i * ByteBits - s.zeroes - 1 \in BitsOf(t)
         /\ i = 0 => s.start = 0
         /\ i > 0 => (s.start + 1) * ByteBits - LastFreeBits(t[s.start])
                       = i * ByteBits - s.zeroes
         /\ \A p \in Places(t, length) : p + length > i * ByteBits
    /\ s.index # NotFound =>
         /\ s.index \in Places(t, length)
         /\ \A p \in Places(t, length) : s.index <= p

\* Before the first byte.
LEMMA SearchStarts ==
    ASSUME NEW t, NEW length \in Nat, length > ByteBits
    PROVE  Searched(t, length, 0, [index |-> NotFound, zeroes |-> 0, start |-> 0])
<1>1. 0 * ByteBits = 0 /\ ByteBits \in Nat \ {0} /\ 0 \in Bytes
  BY Positions DEF Bytes
<1>2. CheckSeq(BitsOf(t), 0 - 0, 0)
  BY DEF CheckSeq, Run
<1>3. \A p \in Places(t, length) : p + length > 0
  BY <1>1, PlacesAreFree
<1> QED
  BY <1>1, <1>2, <1>3 DEF Searched, SearchStates, NotFound

\* From one byte to the next.
LEMMA SearchGoesOn ==
    ASSUME NEW t \in Table, NEW length \in Nat, length > ByteBits, NEW i \in Bytes,
           NEW s, Searched(t, length, i, s)
    PROVE  Searched(t, length, i + 1, SearchByte(t, s, i, length))
<1> DEFINE u == BitsOf(t)
           F == i * ByteBits
           f == FirstFreeBits(t[i])
           l == LastFreeBits(t[i])
           z == s.zeroes
           x == F - z
           n == SearchByte(t, s, i, length)
<1>1. /\ ByteBits \in Nat \ {0} /\ length \in Nat /\ length > ByteBits
      /\ i \in Nat /\ F \in Nat /\ F + ByteBits <= TableBits
      /\ (i + 1) * ByteBits = F + ByteBits /\ TableBits \in Nat
  BY Neighbours, Positions DEF Bytes
<1>2. /\ f \in 0 .. ByteBits /\ CheckSeq(u, F, f) /\ (f < ByteBits => F + f \in u)
      /\ l \in 0 .. ByteBits /\ CheckSeq(u, F + ByteBits - l, l)
      /\ l < ByteBits => F + ByteBits - l - 1 \in u
  BY Neighbours, FirstZeroes, LastZeroes
<1>3. s \in SearchStates
  BY DEF Searched
<1>4. n = IF s.index # NotFound THEN s
          ELSE IF z + f >= length
               THEN [s EXCEPT !.index = (s.start + 1) * ByteBits - LastFreeBits(t[s.start])]
          ELSE IF t[i] = {} THEN [s EXCEPT !.zeroes = z + f]
          ELSE [s EXCEPT !.zeroes = l, !.start = i]
  BY Zenon DEF SearchByte
<1>5. CASE s.index # NotFound
  <2> HIDE DEF n
  <2>1. n = s
    BY <1>4, <1>5
  <2> QED
    BY <1>5, <2>1 DEF Searched, n
<1>6. CASE s.index = NotFound
  <2>1. /\ z \in 0 .. (length - 1) /\ z <= F /\ CheckSeq(u, x, z)
        /\ z < F => x - 1 \in u
        /\ i = 0 => s.start = 0
        /\ i > 0 => (s.start + 1) * ByteBits - LastFreeBits(t[s.start]) = x
        /\ \A p \in Places(t, length) : p + length > F
    BY <1>6 DEF Searched
  <2> DEFINE begin == (s.start + 1) * ByteBits - LastFreeBits(t[s.start])
  <2> HIDE DEF n, F, f, l, z, u, begin
  <2>2. x \in Nat /\ x + z = F
    BY <1>1, <2>1
  <2>3. ASSUME NEW p \in Places(t, length)
        PROVE  /\ p \in Nat /\ p + length <= TableBits /\ CheckSeq(u, p, length)
               /\ x <= p
    <3>1. /\ p \in Nat /\ p + length <= TableBits /\ CheckSeq(u, p, length)
          /\ p + length > F
      BY <2>1, PlacesAreFree DEF u
    <3>2. x - 1 \in u => ~(p <= x - 1 /\ x - 1 < p + length)
      BY <1>1, <2>2, <3>1 DEF CheckSeq, Run
    <3> QED
      BY <1>1, <2>1, <2>2, <3>1, <3>2
  <2> HIDE DEF x
  <2>4. CheckSeq(u, x, z + f)
    <3>1. CheckSeq(u, x + z, f) /\ x \in Int /\ z \in Nat /\ f \in Nat
      BY <1>1, <1>2, <2>1, <2>2
    <3> QED
      BY <2>1, <3>1, Parts, Zenon
  <2>5. CASE z + f >= length
    <3>1. n = [s EXCEPT !.index = begin]
      BY <1>4, <1>6, <2>5 DEF begin
    <3>2. i > 0
      <4>1. i = 0 => F = 0
        BY <1>1 DEF F
      <4> QED
        BY <1>1, <1>2, <2>1, <2>5, <4>1
    <3>3. begin = x
      BY <2>1, <3>2 DEF begin
    <3>4. n \in SearchStates /\ n.index = x
      BY <1>3, <2>2, <3>1, <3>3 DEF SearchStates
    <3>5. x \in Places(t, length)
      <4> DEFINE d == z + f - length
      <4>1. d \in Nat /\ length + d = z + f
        BY <1>1, <1>2, <2>1, <2>5
      <4> HIDE DEF d
      <4>2. CheckSeq(u, x, length)
        <5>1. CheckSeq(u, x, length + d) /\ x \in Int
          BY <2>2, <2>4, <4>1
        <5> QED
          BY <1>1, <4>1, <5>1, Parts, Zenon
      <4>3. x + length <= TableBits
        BY <1>1, <1>2, <2>1, <2>2, <2>5
      <4> QED
        BY <1>1, <2>2, <4>2, <4>3, PlacesAreFree DEF u
    <3>6. x # NotFound
      BY <2>2 DEF NotFound
    <3> QED
      BY <2>3, <3>4, <3>5, <3>6 DEF Searched, n
  <2>6. CASE ~(z + f >= length)
    <3>1. ASSUME NEW p \in Places(t, length) PROVE p + length > F + ByteBits
      <4>1. F + f \in u => ~(p <= F + f /\ F + f < p + length)
        BY <1>1, <1>2, <2>3 DEF CheckSeq, Run
      <4>2. p + length <= F + ByteBits => p <= F
        BY <1>1, <2>3
      <4> QED
        BY <1>1, <1>2, <2>1, <2>2, <2>3, <2>6, <4>1, <4>2
    <3>2. CASE t[i] = {}
      <4>1. n = [s EXCEPT !.zeroes = z + f]
        BY <1>4, <1>6, <2>6, <3>2
      <4>2. f = ByteBits
        <5>1. f < ByteBits => f \in t[i]
          BY FirstZeroes DEF f
        <5> QED
          BY <1>1, <1>2, <3>2, <5>1
      <4>3. n \in SearchStates /\ n.index = NotFound /\ n.zeroes = z + f /\ n.start = s.start
        BY <1>1, <1>3, <1>6, <2>1, <4>1, <4>2 DEF SearchStates
      <4>4. /\ z + f \in 0 .. (length - 1) /\ z + f <= F + ByteBits
            /\ F + ByteBits - (z + f) = x
            /\ z + f < F + ByteBits => z < F
        BY <1>1, <2>1, <2>2, <2>6, <4>2
      <4>5. begin = x
        <5>1. CASE i > 0
          BY <2>1, <5>1 DEF begin
        <5>2. CASE i = 0
          <6>1. F = 0 /\ x = 0
            BY <1>1, <2>1, <2>2, <5>2 DEF F
          <6>2. s.start = i /\ (s.start + 1) * ByteBits = ByteBits
            BY <1>1, <2>1, <5>2, <6>1
          <6>3. LastFreeBits(t[s.start]) = l
            BY <6>2 DEF l
          <6>4. l = ByteBits
            <7>1. l < ByteBits => ByteBits - l - 1 \in t[i]
              BY LastZeroes DEF l
            <7> QED
              BY <1>1, <1>2, <3>2, <7>1
          <6> QED
            BY <1>1, <6>1, <6>2, <6>3, <6>4 DEF begin
        <5> QED
          BY <1>1, <5>1, <5>2
      <4>6. CheckSeq(u, F + ByteBits - (z + f), z + f)
        BY <2>4, <4>4
      <4>7. z + f < F + ByteBits => F + ByteBits - (z + f) - 1 \in u
        BY <1>1, <1>2, <2>1, <2>2, <4>4
      <4> QED
        BY <1>1, <3>1, <4>3, <4>4, <4>5, <4>6, <4>7 DEF Searched, u, begin, F, n
    <3>3. CASE t[i] # {}
      <4>1. n = [s EXCEPT !.zeroes = l, !.start = i]
        BY <1>4, <1>6, <2>6, <3>3
      <4>2. n \in SearchStates /\ n.index = NotFound /\ n.zeroes = l /\ n.start = i
        <5>1. n = [index |-> s.index, zeroes |-> l, start |-> i]
          BY <1>3, <4>1 DEF SearchStates
        <5>2. l \in Int /\ s.index \in Int
          BY <1>1, <1>2, <1>3 DEF SearchStates
        <5> QED
          BY <1>6, <5>1, <5>2 DEF SearchStates
      <4>3. l \in 0 .. (length - 1) /\ l <= F + ByteBits
        BY <1>1, <1>2
      <4>4. l < F + ByteBits => F + ByteBits - l - 1 \in u
        <5>1. l < ByteBits
          <6>1. l = ByteBits => CheckSeq(t[i], ByteBits - ByteBits, ByteBits)
            BY LastZeroes DEF l
          <6>2. ByteBits - ByteBits = 0 /\ 0 + ByteBits - 1 = ByteBits - 1
            BY <1>1
          <6>3. l = ByteBits => t[i] \cap (0 .. (ByteBits - 1)) = {}
            BY <6>1, <6>2 DEF CheckSeq, Run
          <6>4. t[i] \in Byte
            BY Positions DEF Table, Bytes
          <6> QED
            BY <1>1, <1>2, <3>3, <6>3, <6>4 DEF Byte
        <5> QED
          BY <1>2, <5>1
      <4>5. (n.start + 1) * ByteBits - LastFreeBits(t[n.start]) = F + ByteBits - l
        <5>1. LastFreeBits(t[n.start]) = l /\ (n.start + 1) * ByteBits = F + ByteBits
          BY <1>1, <4>2 DEF l
        <5> DEFINE end  == (n.start + 1) * ByteBits
                   tail == LastFreeBits(t[n.start])
        <5>2. end = F + ByteBits /\ tail = l
          BY <5>1
        <5> HIDE DEF end, tail
        <5>3. end - tail = F + ByteBits - l
          BY <1>1, <1>2, <5>2
        <5> QED
          BY <5>3 DEF end, tail
      <4> QED
        BY <1>1, <1>2, <3>1, <4>2, <4>3, <4>4, <4>5 DEF Searched, u, n
    <3> QED
      BY <3>2, <3>3
  <2> QED
    BY <1>1, <1>2, <2>1, <2>5, <2>6
<1> QED
  BY <1>5, <1>6

\* find_seq finds the first place for more than a byte, or else knows the
\* zeroes that end the table.
LEMMA SearchIsFirstFit ==
    ASSUME NEW t \in Table, NEW length \in Nat, length > ByteBits
    PROVE  Searched(t, length, TableBytes, SearchBytes(t, length))
<1>1. PICK h : /\ h[0] = [index |-> NotFound, zeroes |-> 0, start |-> 0]
               /\ \A i \in 1 .. TableBytes : h[i] = SearchByte(t, h[i - 1], i - 1, length)
               /\ SearchBytes(t, length) = h[TableBytes]
  BY SearchSteps
<1> DEFINE S == {i \in 0 .. TableBytes : Searched(t, length, i, h[i])}
<1>2. TableBytes \in Nat
  BY Positions
<1>3. 0 \in S
  BY <1>1, <1>2, SearchStarts
<1>4. ASSUME NEW i \in 0 .. (TableBytes - 1), i \in S PROVE i + 1 \in S
  <2>1. i \in Bytes /\ i + 1 \in 1 .. TableBytes /\ i + 1 \in 0 .. TableBytes /\ i + 1 - 1 = i
    BY <1>2 DEF Bytes
  <2>2. h[i + 1] = SearchByte(t, h[i], i, length)
    BY <1>1, <2>1
  <2>3. Searched(t, length, i, h[i])
    BY <1>4
  <2>4. Searched(t, length, i + 1, h[i + 1])
    BY <2>1, <2>2, <2>3, SearchGoesOn
  <2> QED
    BY <2>1, <2>4
<1>5. TableBytes \in S
  <2>1. TableBytes \in 0 .. TableBytes
    BY <1>2
  <2> HIDE DEF S
  <2> QED
    BY <1>2, <1>3, <1>4, <2>1, InductionUpTo
<1> QED
  BY <1>1, <1>5

\* The end of a full search.
LEMMA SearchEnd ==
    ASSUME NEW t \in Table, NEW length \in 1 .. TableBits, length > ByteBits
    PROVE  LET s == SearchBytes(t, length) IN
           /\ Places(t, length) = {} => s.index = NotFound
           /\ Places(t, length) # {} => s.index = Least(Places(t, length))
           /\ s.index = NotFound =>
                /\ s.zeroes \in Nat /\ s.zeroes <= TableBits
                /\ CheckSeq(BitsOf(t), TableBits - s.zeroes, s.zeroes)
                /\ s.zeroes < TableBits => TableBits - s.zeroes - 1 \in BitsOf(t)
<1> DEFINE s == SearchBytes(t, length)
           places == Places(t, length)
<1>1. /\ length \in Nat /\ TableBits \in Nat /\ TableBits = TableBytes * ByteBits
      /\ places \in SUBSET Nat
  BY Positions, PlacesAreFree DEF TableBits
<1>2. Searched(t, length, TableBytes, s)
  BY <1>1, SearchIsFirstFit
<1> HIDE DEF s, places
<1>3. CASE s.index = NotFound
  <2>1. \A p \in places : p + length > TableBits /\ p + length <= TableBits
    BY <1>1, <1>2, <1>3, PlacesAreFree DEF Searched, places
  <2>2. places = {}
    BY <1>1, <2>1
  <2>3. /\ s.zeroes \in Nat /\ s.zeroes <= TableBits
        /\ CheckSeq(BitsOf(t), TableBits - s.zeroes, s.zeroes)
        /\ s.zeroes < TableBits => TableBits - s.zeroes - 1 \in BitsOf(t)
    BY <1>1, <1>2, <1>3 DEF Searched
  <2> QED
    BY <1>3, <2>2, <2>3 DEF s, places
<1>4. CASE s.index # NotFound
  <2>1. s.index \in places /\ \A p \in places : s.index <= p
    BY <1>2, <1>4 DEF Searched, places
  <2> DEFINE m == Least(places)
  <2>2. m \in places /\ \A p \in places : m <= p
    BY <1>1, <2>1, LeastInSet
  <2> HIDE DEF m
  <2>3. s.index = m
    <3>1. s.index <= m /\ m <= s.index /\ s.index \in Nat /\ m \in Nat
      BY <1>1, <2>1, <2>2
    <3> QED
      BY <3>1
  <2> QED
    BY <1>4, <2>1, <2>3 DEF s, places, m
<1> QED
  BY <1>3, <1>4

\* Which of the two searches find_seq makes: the one for more than a byte, or
\* the one that looks at two neighbouring bytes only.
LEMMA FindSeqFirstFit ==
    ASSUME NEW t \in Table, NEW length \in 1 .. TableBits
    PROVE  FindSeqBytes(t, length) =
             IF HasSeq(BitsOf(t), TableBits, length)
             THEN FindSeq(BitsOf(t), TableBits, length) ELSE NotFound
<1>1. ByteBits \in Nat /\ length \in Nat
  BY Positions
<1>2. CASE length < ByteBits + 1
  BY <1>1, <1>2, SmallIsFirstFit DEF FindSeqBytes
<1>3. CASE ~(length < ByteBits + 1)
  <2>1. length > ByteBits /\ FindSeqBytes(t, length) = SearchBytes(t, length).index
    BY <1>1, <1>3 DEF FindSeqBytes
  <2>2. /\ HasSeq(BitsOf(t), TableBits, length) <=> Places(t, length) # {}
        /\ FindSeq(BitsOf(t), TableBits, length) = Least(Places(t, length))
    BY Zenon DEF HasSeq, FindSeq, Places
  <2>3. /\ Places(t, length) = {} => SearchBytes(t, length).index = NotFound
        /\ Places(t, length) # {} =>
             SearchBytes(t, length).index = Least(Places(t, length))
    BY <2>1, SearchEnd
  <2> QED
    BY <2>1, <2>2, <2>3
<1> QED
  BY <1>2, <1>3

\* find_seq is first fit in tables of every size: it finds a sequence of zeroes
\* if there is one, whatever borders of bytes it crosses, and the first one.
THEOREM FindSeqFindsTheFirst == Spec => []FindSeqIsFirstFit
<1>1. Inv => FindSeqIsFirstFit
  BY FindSeqFirstFit DEF Inv, FindSeqIsFirstFit
<1> QED
  BY <1>1, BitsInvariant, PTL

\* What is left at the end of a table without a place.
LEMMA TailOfTable ==
    ASSUME NEW t \in Table, NEW length \in 1 .. TableBits,
           ~HasSeq(BitsOf(t), TableBits, length)
    PROVE  LET n == EndLength(t, length) IN
           /\ n \in 0 .. TableBits /\ CheckSeq(BitsOf(t), TableBits - n, n)
           /\ n < TableBits => TableBits - n - 1 \in BitsOf(t)
<1>1. Places(t, length) = {}
  BY Zenon DEF HasSeq, Places
<1>2. /\ ByteBits \in Nat \ {0} /\ length \in Nat \ {0} /\ TableBits \in Nat
      /\ TableBytes - 1 \in Bytes
  BY Positions DEF Bytes
<1>3. CASE length < ByteBits + 1
  <2> DEFINE last == TableBytes - 1
             F == last * ByteBits
             l == LastFreeBits(t[last])
  <2>1. F \in Nat /\ F + ByteBits = TableBits
    BY <1>2, Positions DEF TableBits, Bytes
  <2>2. /\ EndLength(t, length) = l /\ l \in 0 .. ByteBits
        /\ CheckSeq(BitsOf(t), F + ByteBits - l, l)
        /\ l < ByteBits => F + ByteBits - l - 1 \in BitsOf(t)
    BY <1>2, <1>3, LastZeroes, Neighbours DEF EndLength
  <2> HIDE DEF l, F, last
  <2>3. l # ByteBits
    <3> SUFFICES ASSUME l = ByteBits PROVE FALSE
      OBVIOUS
    <3> DEFINE d == ByteBits - length
    <3>1. d \in Nat /\ length + d = ByteBits /\ F + ByteBits - ByteBits = F /\ F \in Int
      BY <1>2, <1>3, <2>1
    <3> HIDE DEF d
    <3>2. CheckSeq(BitsOf(t), F, length + d)
      BY <2>2, <3>1
    <3>3. CheckSeq(BitsOf(t), F, length)
      BY <1>2, <3>1, <3>2, Parts, Zenon
    <3>4. F \in Places(t, length)
      BY <1>2, <1>3, <2>1, <3>3, PlacesAreFree
    <3> QED
      BY <1>1, <3>4
  <2> QED
    BY <1>2, <2>1, <2>2, <2>3
<1>4. CASE ~(length < ByteBits + 1)
  <2>1. length > ByteBits /\ EndLength(t, length) = SearchBytes(t, length).zeroes
    BY <1>2, <1>4 DEF EndLength
  <2>2. LET s == SearchBytes(t, length) IN
        /\ s.zeroes \in Nat /\ s.zeroes <= TableBits
        /\ CheckSeq(BitsOf(t), TableBits - s.zeroes, s.zeroes)
        /\ s.zeroes < TableBits => TableBits - s.zeroes - 1 \in BitsOf(t)
    BY <1>1, <2>1, SearchEnd
  <2> QED
    BY <2>1, <2>2
<1> QED
  BY <1>3, <1>4

\* *end_length counts the zeroes that end the table: the next window may go on
\* with them.
THEOREM EndLengthIsTheTail == Spec => []EndLengthIsTail
<1>1. Inv => EndLengthIsTail
  BY TailOfTable DEF Inv, EndLengthIsTail
<1> QED
  BY <1>1, BitsInvariant, PTL

-----------------------------------------------------------------------------
(* The longest sequence of zero bytes.                                     *)

\* Whole bytes are the multiples of ByteBits.
LEMMA WholeBytes ==
    ASSUME NEW x \in Nat
    PROVE  x % ByteBits = 0 <=> \E k \in Nat : x = k * ByteBits
<1>1. ByteBits \in Nat \ {0}
  BY Positions
<1>2. x % ByteBits = 0 => x \div ByteBits \in Nat /\ x = (x \div ByteBits) * ByteBits
  BY <1>1, Digits
<1>3. ASSUME NEW k \in Nat, x = k * ByteBits PROVE x % ByteBits = 0
  <2>1. 0 \in 0 .. (ByteBits - 1) /\ k * ByteBits + 0 = x
    BY <1>1, <1>3
  <2> QED
    BY <1>1, <2>1, DigitsOf
<1> QED
  BY <1>2, <1>3

\* Sums and differences of whole bytes are whole bytes; others are a byte apart.
LEMMA WholeSums ==
    ASSUME NEW x \in Nat, NEW y \in Nat, x % ByteBits = 0, y % ByteBits = 0
    PROVE  /\ (x + y) % ByteBits = 0
           /\ y <= x => (x - y) % ByteBits = 0
           /\ x < y => x + ByteBits <= y
           /\ ByteBits % ByteBits = 0
<1>1. PICK k \in Nat, m \in Nat : x = k * ByteBits /\ y = m * ByteBits
  BY WholeBytes
<1>2. ByteBits \in Nat \ {0}
  BY Positions
<1>3. (x + y) % ByteBits = 0
  <2>1. k + m \in Nat /\ x + y = (k + m) * ByteBits /\ x + y \in Nat
    BY <1>1, <1>2
  <2> QED
    BY <2>1, WholeBytes
<1>4. x < y => x + ByteBits <= y
  <2>1. ~(k < m) => m <= k
    OBVIOUS
  <2>2. k < m => k * ByteBits + ByteBits <= m * ByteBits
    BY <1>2, Multiples
  <2>3. m < k => m * ByteBits + ByteBits <= k * ByteBits
    BY <1>2, Multiples
  <2> QED
    BY <1>1, <1>2, <2>1, <2>2, <2>3
<1>5. y <= x => (x - y) % ByteBits = 0
  <2> SUFFICES ASSUME y <= x PROVE (x - y) % ByteBits = 0
    OBVIOUS
  <2>1. k < m => k * ByteBits + ByteBits <= m * ByteBits
    BY <1>2, Multiples
  <2>2. k - m \in Nat
    BY <1>1, <1>2, <2>1
  <2>3. x - y = (k - m) * ByteBits /\ x - y \in Nat
    BY <1>1, <1>2
  <2> QED
    BY <2>2, <2>3, WholeBytes
<1>6. ByteBits % ByteBits = 0
  <2>1. ByteBits = 1 * ByteBits /\ 1 \in Nat
    BY <1>2
  <2> QED
    BY <1>2, <2>1, WholeBytes
<1> QED
  BY <1>3, <1>4, <1>5, <1>6

\* The sequences of zero bytes within the first i bytes.
ZeroUpTo(t, i) ==
    {r \in Requests : /\ r[1] % ByteBits = 0 /\ r[2] % ByteBits = 0
                      /\ CheckSeq(BitsOf(t), r[1], r[2])
                      /\ r[1] + r[2] <= i * ByteBits}

\* What it means to be one of the sequences of zero bytes up to byte i.
LEMMA ZeroPairs ==
    ASSUME NEW t, NEW i \in 0 .. TableBytes
    PROVE  /\ \A r \in ZeroUpTo(t, i) :
                /\ r = <<r[1], r[2]>> /\ r[1] \in Nat /\ r[2] \in Nat \ {0}
                /\ r[1] % ByteBits = 0 /\ r[2] % ByteBits = 0
                /\ CheckSeq(BitsOf(t), r[1], r[2]) /\ r[1] + r[2] <= i * ByteBits
           /\ \A a \in Nat, b \in Nat \ {0} :
                /\ a % ByteBits = 0 /\ b % ByteBits = 0
                /\ CheckSeq(BitsOf(t), a, b) /\ a + b <= i * ByteBits
                => <<a, b>> \in ZeroUpTo(t, i)
<1>1. TableBits \in Nat /\ i * ByteBits \in Nat /\ i * ByteBits <= TableBits
  <2>1. i = TableBytes \/ i < TableBytes
    BY Positions
  <2>2. i < TableBytes => i * ByteBits + ByteBits <= TableBytes * ByteBits
    BY Multiples, Positions
  <2> QED
    BY <2>1, <2>2, Positions DEF TableBits
<1> DEFINE F == i * ByteBits
<1> HIDE DEF F
<1>2. ASSUME NEW r \in Requests
      PROVE  r = <<r[1], r[2]>> /\ r[1] \in Nat /\ r[2] \in Nat \ {0}
  BY <1>1 DEF Requests
<1>3. ASSUME NEW a \in Nat, NEW b \in Nat \ {0}, a + b <= F
      PROVE  <<a, b>> \in Requests
  BY <1>1, <1>3 DEF Requests, F
<1> QED
  BY <1>2, <1>3 DEF ZeroUpTo, F

\* What find_max_sequence knows of the first i bytes: the zero bytes that end
\* them, and the first of the longest sequences within them.
MaxStates == [max_start : Nat, max_length : Nat, end_start : Nat, end_length : Nat]

MaxKnown(t, i, s) ==
    /\ s \in MaxStates
    /\ s.end_start % ByteBits = 0 /\ s.end_start + s.end_length = i * ByteBits
    /\ CheckSeq(BitsOf(t), s.end_start, s.end_length)
    /\ \A r \in ZeroUpTo(t, i) :
         /\ r[1] + r[2] = i * ByteBits => s.end_start <= r[1]
         /\ r[2] <= s.max_length
         /\ r[2] = s.max_length => s.max_start <= r[1]
    /\ s.max_length > 0 => <<s.max_start, s.max_length>> \in ZeroUpTo(t, i)

\* Before the first byte.
LEMMA MaxStarts ==
    ASSUME NEW t
    PROVE  MaxKnown(t, 0, [max_start |-> 0, max_length |-> 0, end_start |-> 0,
                           end_length |-> 0])
<1>1. 0 * ByteBits = 0 /\ ByteBits \in Nat \ {0} /\ 0 \in 0 .. TableBytes
  BY Positions
<1>2. 0 % ByteBits = 0
  <2>1. 0 \in Nat
    OBVIOUS
  <2> QED
    BY <1>1, <2>1, WholeBytes
<1>3. CheckSeq(BitsOf(t), 0, 0)
  BY DEF CheckSeq, Run
<1>4. ZeroUpTo(t, 0) = {}
  BY <1>1, ZeroPairs
<1> QED
  BY <1>1, <1>2, <1>3, <1>4 DEF MaxKnown, MaxStates

\* A sequence of zero bytes that was not there before ends with byte i, and goes
\* on from one that ends before it.
LEMMA NewZeroes ==
    ASSUME NEW t \in Table, NEW i \in Bytes, NEW r \in ZeroUpTo(t, i + 1),
           r \notin ZeroUpTo(t, i)
    PROVE  /\ r[1] + r[2] = i * ByteBits + ByteBits /\ t[i] = {}
           /\ \/ r[1] = i * ByteBits
              \/ \E p \in ZeroUpTo(t, i) : p[1] = r[1] /\ p[1] + p[2] = i * ByteBits
<1> DEFINE F == i * ByteBits
           u == BitsOf(t)
<1>1. /\ i \in 0 .. TableBytes /\ i + 1 \in 0 .. TableBytes
      /\ ByteBits \in Nat \ {0} /\ F \in Nat /\ (i + 1) * ByteBits = F + ByteBits
  BY Neighbours, Positions DEF Bytes
<1>2. F % ByteBits = 0
  BY <1>1, WholeBytes DEF Bytes
<1> DEFINE a == r[1]
           b == r[2]
<1>3. /\ r = <<a, b>> /\ a \in Nat /\ b \in Nat \ {0}
      /\ a % ByteBits = 0 /\ b % ByteBits = 0
      /\ CheckSeq(u, a, b) /\ a + b <= F + ByteBits
  BY <1>1, ZeroPairs
<1>4. ~(a + b <= F)
  <2> HIDE DEF a, b, F
  <2> QED
    BY <1>1, <1>3, ZeroPairs DEF F
<1> HIDE DEF a, b, F, u
<1>5. a + b = F + ByteBits
  <2>1. a + b \in Nat /\ (a + b) % ByteBits = 0
    BY <1>3, WholeSums
  <2>2. F < a + b
    BY <1>1, <1>3, <1>4
  <2>3. F + ByteBits <= a + b
    BY <1>1, <1>2, <2>1, <2>2, WholeSums
  <2> QED
    BY <1>1, <1>3, <2>3
<1>6. a <= F
  <2>1. F < a => F + ByteBits <= a
    BY <1>1, <1>2, <1>3, WholeSums
  <2> QED
    BY <1>1, <1>3, <1>5, <2>1
<1> DEFINE d == F - a
<1>7. d \in Nat /\ d + ByteBits = b /\ a + d = F /\ d = b - ByteBits /\ ByteBits <= b
  BY <1>1, <1>3, <1>5, <1>6
<1> HIDE DEF d
<1>8. CheckSeq(u, a, d) /\ CheckSeq(u, F, ByteBits)
  <2>1. CheckSeq(u, a, d + ByteBits) /\ a \in Int /\ ByteBits \in Nat
    BY <1>1, <1>3, <1>7
  <2>2. CheckSeq(u, a, d) /\ CheckSeq(u, a + d, ByteBits)
    BY <1>7, <2>1, Parts, Zenon
  <2> QED
    BY <1>7, <2>2
<1>9. t[i] = {}
  <2>1. 0 \in Nat /\ ByteBits \in Nat /\ 0 + ByteBits <= ByteBits
        /\ CheckSeq(u, F + 0, ByteBits)
    BY <1>1, <1>8
  <2>2. CheckSeq(t[i], 0, ByteBits)
    BY <1>1, <2>1, RunInByte DEF F, u
  <2>3. t[i] \in Byte
    BY <1>1 DEF Table
  <2>4. 0 + ByteBits - 1 = ByteBits - 1
    BY <1>1
  <2> QED
    BY <2>2, <2>3, <2>4 DEF CheckSeq, Run, Byte
<1>10. a = F \/ \E p \in ZeroUpTo(t, i) : p[1] = a /\ p[1] + p[2] = F
  <2>1. CASE d = 0
    BY <1>1, <1>3, <1>7, <2>1
  <2>2. CASE d # 0
    <3>1. d % ByteBits = 0
      <4>1. ByteBits % ByteBits = 0 /\ ByteBits \in Nat /\ b \in Nat
        BY <1>1, <1>3, WholeSums
      <4> QED
        BY <1>3, <1>7, <4>1, WholeSums
    <3>2. <<a, d>> \in ZeroUpTo(t, i)
      <4>1. a \in Nat /\ d \in Nat \ {0} /\ a + d <= F
        BY <1>1, <1>3, <1>7, <2>2
      <4> QED
        BY <1>1, <1>3, <1>8, <3>1, <4>1, ZeroPairs DEF u, F
    <3>3. <<a, d>>[1] = a /\ <<a, d>>[1] + <<a, d>>[2] = F
      BY <1>7
    <3> QED
      BY <3>2, <3>3
  <2> QED
    BY <2>1, <2>2
<1> QED
  BY <1>5, <1>9, <1>10 DEF a, b, F

\* From one byte to the next.
LEMMA MaxGoesOn ==
    ASSUME NEW t \in Table, NEW i \in Bytes, NEW s, MaxKnown(t, i, s)
    PROVE  MaxKnown(t, i + 1, MaxByte(t, s, i))
<1> DEFINE F   == i * ByteBits
           u   == BitsOf(t)
           n   == MaxByte(t, s, i)
           len == s.end_length + ByteBits
<1>1. /\ i \in 0 .. TableBytes /\ i + 1 \in 0 .. TableBytes /\ i + 1 \in Nat
      /\ ByteBits \in Nat \ {0} /\ F \in Nat /\ (i + 1) * ByteBits = F + ByteBits
  BY Neighbours, Positions DEF Bytes
<1>2. (F + ByteBits) % ByteBits = 0
  <2>1. F + ByteBits \in Nat
    BY <1>1
  <2> HIDE DEF F
  <2> QED
    BY <1>1, <2>1, WholeBytes
<1>3. /\ s \in MaxStates
      /\ s.end_start % ByteBits = 0 /\ s.end_start + s.end_length = F
      /\ CheckSeq(u, s.end_start, s.end_length)
      /\ \A r \in ZeroUpTo(t, i) :
           /\ r[1] + r[2] = F => s.end_start <= r[1]
           /\ r[2] <= s.max_length
           /\ r[2] = s.max_length => s.max_start <= r[1]
      /\ s.max_length > 0 => <<s.max_start, s.max_length>> \in ZeroUpTo(t, i)
  BY DEF MaxKnown
<1>4. /\ s.end_start \in Nat /\ s.end_length \in Nat /\ s.max_start \in Nat
      /\ s.max_length \in Nat /\ len \in Nat
  BY <1>1, <1>3 DEF MaxStates
<1>5. n = IF t[i] # {}
          THEN [s EXCEPT !.end_start = (i + 1) * ByteBits, !.end_length = 0]
          ELSE IF len > s.max_length
               THEN [s EXCEPT !.end_length = len, !.max_length = len,
                              !.max_start = s.end_start]
          ELSE [s EXCEPT !.end_length = len]
  BY Zenon DEF MaxByte
<1>6. \A r \in ZeroUpTo(t, i) :
        /\ r \in ZeroUpTo(t, i + 1)
        /\ r[1] \in Nat /\ r[2] \in Nat \ {0} /\ r[1] + r[2] <= F
  <2> TAKE r \in ZeroUpTo(t, i)
  <2>1. /\ r = <<r[1], r[2]>> /\ r[1] \in Nat /\ r[2] \in Nat \ {0}
        /\ r[1] % ByteBits = 0 /\ r[2] % ByteBits = 0
        /\ CheckSeq(BitsOf(t), r[1], r[2]) /\ r[1] + r[2] <= F
    BY <1>1, ZeroPairs
  <2> HIDE DEF F
  <2>2. r[1] + r[2] <= (i + 1) * ByteBits
    BY <1>1, <2>1
  <2> QED
    BY <1>1, <2>1, <2>2, ZeroPairs
<1>7. \A r \in ZeroUpTo(t, i + 1) : r \notin ZeroUpTo(t, i) =>
        /\ r[1] \in Nat /\ r[2] \in Nat \ {0}
        /\ r[1] + r[2] = F + ByteBits /\ t[i] = {}
        /\ \/ r[1] = F
           \/ \E p \in ZeroUpTo(t, i) : p[1] = r[1] /\ p[1] + p[2] = F
  <2> TAKE r \in ZeroUpTo(t, i + 1)
  <2> QED
    BY <1>1, NewZeroes, ZeroPairs
<1> HIDE DEF n, u, F
<1>8. CASE t[i] # {}
  <2>1. n = [max_start |-> s.max_start, max_length |-> s.max_length,
             end_start |-> F + ByteBits, end_length |-> 0]
    BY <1>1, <1>3, <1>5, <1>8 DEF MaxStates
  <2>2. ZeroUpTo(t, i + 1) = ZeroUpTo(t, i)
    BY <1>6, <1>7, <1>8
  <2>3. CheckSeq(u, F + ByteBits, 0)
    BY <1>1 DEF CheckSeq, Run
  <2>4. \A r \in ZeroUpTo(t, i) : r[1] + r[2] # F + ByteBits
    BY <1>1, <1>6
  <2>5. n \in MaxStates
    BY <1>1, <1>4, <2>1 DEF MaxStates
  <2> QED
    BY <1>1, <1>2, <1>3, <2>1, <2>2, <2>3, <2>4, <2>5 DEF MaxKnown, n, u
<1>9. CASE t[i] = {}
  <2> DEFINE a == s.end_start
             z == s.end_length
  <2>1. CheckSeq(u, a, len)
    <3>1. CheckSeq(t[i], 0, ByteBits)
      BY <1>9 DEF CheckSeq
    <3>2. CheckSeq(u, F + 0, ByteBits)
      <4>1. 0 \in Nat /\ ByteBits \in Nat /\ 0 + ByteBits <= ByteBits
        BY <1>1
      <4> QED
        BY <1>1, <3>1, <4>1, RunInByte DEF F, u
    <3>3. CheckSeq(u, a + z, ByteBits) /\ CheckSeq(u, a, z)
      BY <1>1, <1>3, <3>2
    <3>4. a \in Int /\ z \in Nat /\ ByteBits \in Nat
      BY <1>1, <1>4
    <3>5. CheckSeq(u, a, z + ByteBits)
      BY <3>3, <3>4, Parts, Zenon
    <3> QED
      BY <3>5
  <2> HIDE DEF len
  <2>2. a + len = F + ByteBits /\ a + z = F /\ len \in Nat \ {0} /\ a <= F
    <3>1. a \in Nat /\ z \in Nat /\ a + z = F /\ len = z + ByteBits
      BY <1>3, <1>4 DEF len
    <3>2. F \in Nat /\ ByteBits \in Nat \ {0}
      BY <1>1
    <3> HIDE DEF a, z
    <3> QED
      BY <3>1, <3>2
  <2>3. len % ByteBits = 0
    <3> DEFINE e == F + ByteBits
    <3>1. e \in Nat /\ e % ByteBits = 0 /\ a \in Nat /\ a % ByteBits = 0 /\ a + len = e
      BY <1>1, <1>2, <1>3, <1>4, <2>2
    <3> HIDE DEF e, a
    <3>2. len = e - a /\ a <= e
      BY <2>2, <3>1
    <3> QED
      BY <3>1, <3>2, WholeSums
  <2>4. <<a, len>> \in ZeroUpTo(t, i + 1)
    <3>1. a + len <= (i + 1) * ByteBits
      BY <1>1, <2>2
    <3> QED
      BY <1>1, <1>3, <1>4, <2>1, <2>2, <2>3, <3>1, ZeroPairs DEF u
  <2>5. ASSUME NEW r \in ZeroUpTo(t, i + 1), r \notin ZeroUpTo(t, i)
        PROVE  a <= r[1] /\ r[2] <= len /\ (r[2] = len => r[1] = a)
    <3>1. a <= r[1]
      BY <1>3, <1>7, <2>2, <2>5
    <3>2. r[1] \in Nat /\ r[2] \in Nat /\ r[1] + r[2] = F + ByteBits
      BY <1>7, <2>5
    <3>3. F + ByteBits \in Nat /\ a \in Nat /\ len \in Nat /\ a + len = F + ByteBits
      BY <1>1, <1>4, <2>2
    <3> HIDE DEF a, z
    <3> QED
      BY <3>1, <3>2, <3>3
  <2>6. \A r \in ZeroUpTo(t, i + 1) : r[1] + r[2] = F + ByteBits => a <= r[1]
    BY <1>1, <1>6, <2>5
  <2>7. CASE len > s.max_length
    <3>1. n = [max_start |-> a, max_length |-> len, end_start |-> a, end_length |-> len]
      BY <1>3, <1>5, <1>9, <2>7 DEF MaxStates
    <3>2. n \in MaxStates
      BY <1>4, <2>2, <3>1 DEF MaxStates
    <3>3. \A r \in ZeroUpTo(t, i + 1) : r[2] <= len /\ (r[2] = len => a <= r[1])
      BY <1>3, <1>4, <1>6, <2>2, <2>5, <2>7
    <3> QED
      BY <1>1, <1>3, <2>1, <2>2, <2>4, <2>6, <3>1, <3>2, <3>3 DEF MaxKnown, n, u
  <2>8. CASE ~(len > s.max_length)
    <3>1. n = [max_start |-> s.max_start, max_length |-> s.max_length,
               end_start |-> a, end_length |-> len]
      BY <1>3, <1>5, <1>9, <2>8 DEF MaxStates
    <3>2. n \in MaxStates
      BY <1>4, <2>2, <3>1 DEF MaxStates
    <3>3. /\ <<s.max_start, s.max_length>> \in ZeroUpTo(t, i)
          /\ <<s.max_start, s.max_length>> \in ZeroUpTo(t, i + 1)
          /\ s.max_start + s.max_length <= F
      <4>1. <<s.max_start, s.max_length>> \in ZeroUpTo(t, i)
        BY <1>3, <1>4, <2>2, <2>8
      <4> QED
        BY <1>6, <4>1
    <3>4. \A r \in ZeroUpTo(t, i + 1) :
            r[2] <= s.max_length /\ (r[2] = s.max_length => s.max_start <= r[1])
      <4> TAKE r \in ZeroUpTo(t, i + 1)
      <4>1. CASE r \in ZeroUpTo(t, i)
        BY <1>3, <4>1
      <4>2. CASE r \notin ZeroUpTo(t, i)
        <5>1. r[2] <= len /\ (r[2] = len => r[1] = a) /\ r[2] \in Nat
          BY <1>7, <2>5, <4>2
        <5>2. r[2] <= s.max_length
          BY <1>4, <2>2, <2>8, <5>1
        <5>3. r[2] = s.max_length => s.max_start <= r[1]
          BY <1>1, <1>4, <2>2, <2>8, <3>3, <5>1
        <5> QED
          BY <5>2, <5>3
      <4> QED
        BY <4>1, <4>2
    <3> QED
      BY <1>1, <1>3, <2>1, <2>2, <2>6, <3>1, <3>2, <3>3, <3>4 DEF MaxKnown, n, u
  <2> QED
    BY <2>7, <2>8
<1> QED
  BY <1>8, <1>9

\* The states that find_max_sequence goes through.
LEMMA MaxSteps ==
    ASSUME NEW t
    PROVE  \E h : /\ h[0] = [max_start |-> 0, max_length |-> 0, end_start |-> 0,
                             end_length |-> 0]
                  /\ \A i \in 1 .. TableBytes : h[i] = MaxByte(t, h[i - 1], i - 1)
                  /\ FindMaxSequence(t) = h[TableBytes]
<1> DEFINE n    == TableBytes
           base == [max_start |-> 0, max_length |-> 0, end_start |-> 0,
                    end_length |-> 0]
           seq  == [i \in 1 .. n |-> i - 1]
           op   == [p \in (1 .. n) \X MaxStates |-> MaxByte(t, p[2], seq[p[1]])]
           IsIter(g, D) ==
             g = [s \in SUBSET D |->
                    IF s = {} THEN base
                    ELSE MaxByte(t, g[s \ {Max(s)}], seq[Max(s)])]
           c    == CHOOSE g : IsIter(g, DOMAIN seq)
           h    == [i \in 0 .. n |-> c[1 .. i]]
<1>1. n \in Nat \ {0}
  BY Positions
<1>2. base \in MaxStates
  BY DEF MaxStates
<1>3. \A i \in 1 .. n, v \in MaxStates :
        op[<<i, v>>] = MaxByte(t, v, seq[i]) /\ op[<<i, v>>] \in MaxStates
  <2> TAKE i \in 1 .. n, v \in MaxStates
  <2>1. seq[i] \in Nat
    BY <1>1
  <2> HIDE DEF seq
  <2>2. op[<<i, v>>] = MaxByte(t, v, seq[i])
    OBVIOUS
  <2> HIDE DEF op
  <2> DEFINE len == v.end_length + ByteBits
             e   == (seq[i] + 1) * ByteBits
  <2>3. e \in Nat /\ len \in Nat
    BY <2>1, Positions DEF MaxStates
  <2>4. MaxByte(t, v, seq[i]) =
          IF t[seq[i]] # {} THEN [v EXCEPT !.end_start = e, !.end_length = 0]
          ELSE IF len > v.max_length
               THEN [v EXCEPT !.end_length = len, !.max_length = len,
                              !.max_start = v.end_start]
          ELSE [v EXCEPT !.end_length = len]
    BY Zenon DEF MaxByte
  <2> HIDE DEF e, len
  <2>5. MaxByte(t, v, seq[i]) \in MaxStates
    <3>1. ASSUME NEW w, w = [v EXCEPT !.end_start = e, !.end_length = 0]
          PROVE  w = [max_start |-> v.max_start, max_length |-> v.max_length,
                      end_start |-> e, end_length |-> 0]
      BY <3>1 DEF MaxStates
    <3>2. ASSUME NEW w, w = [v EXCEPT !.end_length = len, !.max_length = len,
                                      !.max_start = v.end_start]
          PROVE  w = [max_start |-> v.end_start, max_length |-> len,
                      end_start |-> v.end_start, end_length |-> len]
      BY <3>2 DEF MaxStates
    <3>3. [v EXCEPT !.end_length = len]
            = [max_start |-> v.max_start, max_length |-> v.max_length,
               end_start |-> v.end_start, end_length |-> len]
      BY DEF MaxStates
    <3>4. /\ v.max_start \in Nat /\ v.max_length \in Nat
          /\ v.end_start \in Nat /\ v.end_length \in Nat
      BY DEF MaxStates
    <3> QED
      BY <2>3, <2>4, <3>1, <3>2, <3>3, <3>4 DEF MaxStates
  <2> QED
    BY <2>2, <2>5
<1>4. \A s \in SUBSET (1 .. n) : s # {} =>
        Max(s) \in 1 .. n /\ s \ {Max(s)} \in SUBSET (1 .. n)
  <2> TAKE s \in SUBSET (1 .. n)
  <2>1. n \in Int /\ \A x \in s : x \in Int /\ x <= n
    BY <1>1
  <2> QED
    BY <2>1, LargestInSet
<1>5. \E g : IsIter(g, 1 .. n)
  <2> HIDE DEF base, op, seq
  <2>1. PICK g : IsFoldLeft(g, n, MaxStates, base, op)
    <3>1. StaysIn(op, n, MaxStates)
      BY <1>3 DEF StaysIn
    <3> QED
      BY <1>1, <1>2, <3>1, FoldLeftExists
  <2>2. \A s \in SUBSET (1 .. n) : s # {} =>
          op[<<Max(s), g[s \ {Max(s)}]>>] = MaxByte(t, g[s \ {Max(s)}], seq[Max(s)])
    BY <1>3, <1>4, <2>1 DEF IsFoldLeft
  <2>3. IsIter(g, 1 .. n)
    BY <2>1, <2>2 DEF IsFoldLeft
  <2> QED
    BY <2>3
<1>6. FindMaxSequence(t) = c[DOMAIN seq]
  BY DEF FindMaxSequence, FoldLeft, MapThenFoldSet
<1>7. DOMAIN seq = 1 .. n
  OBVIOUS
<1>8. IsIter(c, 1 .. n)
  <2> HIDE DEF IsIter, seq
  <2> QED
    BY <1>5, <1>7
<1> HIDE DEF c
<1>9. h[0] = base
  BY <1>8, <1>1
<1>10. ASSUME NEW i \in 1 .. n PROVE h[i] = MaxByte(t, h[i - 1], i - 1)
  <2>1. /\ 1 .. i # {} /\ Max(1 .. i) = i /\ (1 .. i) \ {i} = 1 .. (i - 1)
        /\ i - 1 \in 0 .. n /\ i \in 0 .. n
    BY <1>1, FirstIndices
  <2>2. 1 .. i \in SUBSET (1 .. n)
    BY <1>1
  <2>3. h[i] = c[1 .. i] /\ h[i - 1] = c[1 .. (i - 1)] /\ seq[i] = i - 1
    BY <2>1
  <2> HIDE DEF h, base, seq
  <2> DEFINE s == 1 .. i
  <2>4. c[s] = IF s = {} THEN base
               ELSE MaxByte(t, c[s \ {Max(s)}], seq[Max(s)])
    <3> HIDE DEF s
    <3> QED
      BY <1>8, <2>2 DEF s
  <2>5. h[i] = MaxByte(t, c[1 .. (i - 1)], seq[i])
    BY <2>1, <2>3, <2>4
  <2> QED
    BY <2>3, <2>5
<1>11. h[n] = c[1 .. n]
  BY <1>1
<1> HIDE DEF h, base
<1> QED
  BY <1>6, <1>7, <1>9, <1>10, <1>11 DEF base

\* After the last byte.
LEMMA MaxIsKnown ==
    ASSUME NEW t \in Table
    PROVE  MaxKnown(t, TableBytes, FindMaxSequence(t))
<1>1. PICK h : /\ h[0] = [max_start |-> 0, max_length |-> 0, end_start |-> 0,
                          end_length |-> 0]
               /\ \A i \in 1 .. TableBytes : h[i] = MaxByte(t, h[i - 1], i - 1)
               /\ FindMaxSequence(t) = h[TableBytes]
  BY MaxSteps
<1> DEFINE S == {i \in 0 .. TableBytes : MaxKnown(t, i, h[i])}
<1>2. TableBytes \in Nat
  BY Positions
<1>3. 0 \in S
  BY <1>1, <1>2, MaxStarts
<1>4. ASSUME NEW i \in 0 .. (TableBytes - 1), i \in S PROVE i + 1 \in S
  <2>1. i \in Bytes /\ i + 1 \in 1 .. TableBytes /\ i + 1 \in 0 .. TableBytes /\ i + 1 - 1 = i
    BY <1>2 DEF Bytes
  <2>2. h[i + 1] = MaxByte(t, h[i], i) /\ MaxKnown(t, i, h[i])
    BY <1>1, <1>4, <2>1
  <2>3. MaxKnown(t, i + 1, h[i + 1])
    BY <2>1, <2>2, MaxGoesOn
  <2> QED
    BY <2>1, <2>3
<1>5. TableBytes \in S
  <2>1. TableBytes \in 0 .. TableBytes
    BY <1>2
  <2> HIDE DEF S
  <2> QED
    BY <1>2, <1>3, <1>4, <2>1, InductionUpTo
<1> QED
  BY <1>1, <1>5

\* find_max_sequence returns the first of the longest sequences of zero bytes.
THEOREM MaxSequenceIsTheLongest == Spec => []MaxSequenceIsLongest
<1>1. ASSUME Inv PROVE MaxSequenceIsLongest
  <2> DEFINE s == FindMaxSequence(table)
  <2>1. MaxKnown(table, TableBytes, s) /\ used = BitsOf(table)
    BY <1>1, MaxIsKnown DEF Inv
  <2>2. ZeroBytes = ZeroUpTo(table, TableBytes)
    <3>1. \A r \in Requests : r[1] + r[2] <= TableBytes * ByteBits
      BY DEF Requests, TableBits
    <3> QED
      BY <2>1, <3>1 DEF ZeroBytes, ZeroUpTo
  <2> HIDE DEF s
  <2> QED
    BY <2>1, <2>2 DEF MaxSequenceIsLongest, MaxKnown, s
<1> QED
  BY <1>1, BitsInvariant, PTL
=============================================================================
