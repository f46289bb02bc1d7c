-------------------------- MODULE PowerLossProofs --------------------------
(***************************************************************************)
(* Proofs about PowerLoss for every disk, every set of bundles and every   *)
(* number of failures, also of failures while restore_fs repairs the disk. *)
(* The argument follows a call from its begin: Safe(d, ws, k) says of the  *)
(* writes ws that are still to be done on the disk d that the bundles k    *)
(* stay where they are after each of them, and that restore_fs can repair  *)
(* what a failure before any of them would leave.  Every call begins with  *)
(* such writes, and they stay so from one write to the next.               *)
(***************************************************************************)
EXTENDS PowerLoss, FileSystemProofs, SequenceTheorems

\* The power does not fail right before an inode or a grown superblock is
\* written.  Without this a bundle may be lost, see the README.
InodesUncut == {"inodes", "inode_block_size"} \subseteq Uncut

\* What a write may put to each part of the disk.
Writes ==
    [part : {"at"}, value : SUBSET (0 .. (SectorCount - 1))]
      \cup [part : {"it"}, value : SUBSET InodeNumbers]
      \cup [part : {"inodes"}, value : [InodeNumbers -> Inode \cup {NoInode}]]
      \cup [part : {"inode_block_size"}, value : Nat]

\* Consistent but for the allocation table, which restore_fs does not read.
Recoverable(d) ==
    /\ d \in FileSystem
    /\ LiveInodesNamed(d)
    /\ BundlesApart(d)
    /\ InodeBlockClosed(d)
    /\ MetadataInside(d)

\* The bundles of k are on the disk.
Held(d, k) ==
    \A n \in DOMAIN k : /\ n \in Live(d)
                        /\ d.inodes[n].location = k[n].location
                        /\ d.inodes[n].size = k[n].size

\* The disk after i of the writes.
After(d, ws, i) == Apply(d, SubSeq(ws, 1, i))

\* The power may fail after i of the writes, or the call is over.
MayStop(ws, i) == i < Len(ws) => ws[i + 1].part \notin Uncut

Safe(d, ws, k) ==
    \A i \in 0 .. Len(ws) : /\ Held(After(d, ws, i), k)
                            /\ MayStop(ws, i) => Recoverable(After(d, ws, i))

\* What the current call is going to leave.
Final == Apply(fs, writes)

PowerInv ==
    /\ fs \in FileSystem
    /\ writes \in Seq(Writes)
    /\ power \in {"up", "down", "restoring"}
    /\ power = "down" => writes = <<>>
    /\ Safe(fs, writes, kept)
    /\ power # "down" => Consistent(Final)
    /\ created # NoInode => /\ power = "up" /\ writes # <<>>
                            /\ created.inode_offset \in Live(Final)
                            /\ Final.inodes[created.inode_offset] = created

-----------------------------------------------------------------------------
(* The last write to a part is what it holds.                              *)

\* A nonempty set of places in a sequence has a last one.
LEMMA LastPlace ==
    ASSUME NEW n \in Nat, NEW W \in SUBSET (1 .. n), W # {}
    PROVE  \E i \in W : \A j \in W : j <= i
<1> DEFINE S == {n - i : i \in W}
<1>1. S \in SUBSET Nat /\ S # {}
  <2>1. \A i \in W : n - i \in Nat
    OBVIOUS
  <2> QED
    BY <2>1, Zenon
<1>2. Least(S) \in S /\ \A j \in S : Least(S) <= j
  BY <1>1, LeastInSet
<1>3. PICK i \in W : Least(S) = n - i
  BY <1>2
<1>4. \A j \in W : n - i <= n - j
  BY <1>2, <1>3
<1> QED
  BY <1>4

\* Place i is the last at which something is written to part p.
LastTo(ws, p, i) ==
    /\ i \in 1 .. Len(ws)
    /\ ws[i].part = p
    /\ \A j \in 1 .. Len(ws) : j > i => ws[j].part # p

NoneTo(ws, p) == \A j \in 1 .. Len(ws) : ws[j].part # p

\* One of the two holds.
LEMMA LatestCases ==
    ASSUME NEW ws \in Seq(Writes), NEW p
    PROVE  NoneTo(ws, p) \/ \E i \in 1 .. Len(ws) : LastTo(ws, p, i)
<1> DEFINE W == {j \in 1 .. Len(ws) : ws[j].part = p}
<1>1. Len(ws) \in Nat
  OBVIOUS
<1>2. CASE W = {}
  BY <1>2 DEF NoneTo
<1>3. CASE W # {}
  <2>1. PICK i \in W : \A j \in W : j <= i
    BY <1>1, <1>3, LastPlace
  <2> QED
    BY <1>1, <2>1 DEF LastTo
<1> QED
  BY <1>2, <1>3

\* The last write to a part is what it holds.
LEMMA LatestIs ==
    ASSUME NEW ws \in Seq(Writes), NEW p, NEW old, NEW i, LastTo(ws, p, i)
    PROVE  Latest(ws, p, old) = ws[i].value
<1> DEFINE W == {j \in 1 .. Len(ws) : ws[j].part = p}
<1>1. Len(ws) \in Nat
  OBVIOUS
<1>2. i \in W /\ \A j \in W : j <= i
  BY <1>1 DEF LastTo
<1>3. i = CHOOSE m \in W : \A j \in W : j <= m
  <2>1. \A m \in W : (\A j \in W : j <= m) => m = i
    BY <1>1, <1>2
  <2> QED
    BY <1>2, <2>1
<1> QED
  BY <1>2, <1>3 DEF Latest

\* Without a write to it, a part holds what it held.
LEMMA LatestIsNot ==
    ASSUME NEW ws \in Seq(Writes), NEW p, NEW old, NoneTo(ws, p)
    PROVE  Latest(ws, p, old) = old
  BY DEF Latest, NoneTo

\* Writes one after the other.
LEMMA LatestConcat ==
    ASSUME NEW s \in Seq(Writes), NEW t \in Seq(Writes), NEW p, NEW old
    PROVE  Latest(s \o t, p, old) = Latest(t, p, Latest(s, p, old))
<1> DEFINE u == s \o t
<1>1. /\ u \in Seq(Writes) /\ Len(u) = Len(s) + Len(t)
      /\ Len(s) \in Nat /\ Len(t) \in Nat
      /\ \A i \in 1 .. Len(s) : u[i] = s[i]
      /\ \A i \in (Len(s) + 1) .. Len(u) : u[i] = t[i - Len(s)]
  BY ConcatProperties
<1> HIDE DEF u
<1>2. CASE NoneTo(t, p)
  <2>1. Latest(t, p, Latest(s, p, old)) = Latest(s, p, old)
    BY <1>2, LatestIsNot
  <2>2. \A j \in (Len(s) + 1) .. Len(u) : u[j].part # p
    BY <1>1, <1>2 DEF NoneTo
  <2>3. CASE NoneTo(s, p)
    <3>1. NoneTo(u, p)
      BY <1>1, <2>2, <2>3 DEF NoneTo
    <3>2. Latest(u, p, old) = old
      BY <1>1, <3>1, LatestIsNot
    <3>3. Latest(s, p, old) = old
      BY <2>3, LatestIsNot
    <3> QED
      BY <2>1, <3>2, <3>3 DEF u
  <2>4. ASSUME NEW i \in 1 .. Len(s), LastTo(s, p, i)
        PROVE  Latest(u, p, old) = Latest(s, p, old)
    <3>1. LastTo(u, p, i) /\ u[i] = s[i]
      BY <1>1, <2>2, <2>4 DEF LastTo
    <3> QED
      BY <1>1, <2>4, <3>1, LatestIs
  <2> QED
    BY <2>1, <2>3, <2>4, LatestCases DEF u
<1>3. ASSUME NEW i \in 1 .. Len(t), LastTo(t, p, i)
      PROVE  Latest(u, p, old) = Latest(t, p, Latest(s, p, old))
  <2>1. LastTo(u, p, Len(s) + i) /\ u[Len(s) + i] = t[i]
    <3>1. Len(s) + i \in (Len(s) + 1) .. Len(u) /\ Len(s) + i - Len(s) = i
      BY <1>1
    <3>2. u[Len(s) + i] = t[i] /\ t[i].part = p
      BY <1>1, <1>3, <3>1 DEF LastTo
    <3>3. ASSUME NEW j \in 1 .. Len(u), j > Len(s) + i
          PROVE  u[j].part # p
      <4>1. /\ j \in (Len(s) + 1) .. Len(u)
            /\ j - Len(s) \in 1 .. Len(t) /\ j - Len(s) > i
        BY <1>1, <3>3
      <4> QED
        BY <1>1, <1>3, <4>1 DEF LastTo
    <3> QED
      BY <1>1, <3>1, <3>2, <3>3 DEF LastTo
  <2> QED
    BY <1>1, <1>3, <2>1, LatestIs
<1> QED
  BY <1>2, <1>3, LatestCases DEF u

\* A part holds what it held or what one of the writes has put there.
LEMMA LatestValue ==
    ASSUME NEW ws \in Seq(Writes), NEW p, NEW old
    PROVE  \/ Latest(ws, p, old) = old
           \/ \E i \in 1 .. Len(ws) :
                ws[i].part = p /\ Latest(ws, p, old) = ws[i].value
<1>1. CASE NoneTo(ws, p)
  BY <1>1, LatestIsNot
<1>2. ASSUME NEW i \in 1 .. Len(ws), LastTo(ws, p, i)
      PROVE  ws[i].part = p /\ Latest(ws, p, old) = ws[i].value
  <2>1. Latest(ws, p, old) = ws[i].value
    BY <1>2, LatestIs
  <2> QED
    BY <1>2, <2>1 DEF LastTo
<1> QED
  BY <1>1, <1>2, LatestCases

\* A single write.
LEMMA LatestOfOne ==
    ASSUME NEW a \in Writes
    PROVE  \A p, old : Latest(<<a>>, p, old) = IF a.part = p THEN a.value ELSE old
<1> TAKE p, old
<1> DEFINE ws == <<a>>
<1>1. ws \in Seq(Writes) /\ Len(ws) = 1 /\ ws[1] = a
  OBVIOUS
<1> HIDE DEF ws
<1>2. IF a.part = p THEN LastTo(ws, p, 1) ELSE NoneTo(ws, p)
  BY <1>1 DEF LastTo, NoneTo
<1> QED
  BY <1>1, <1>2, LatestIs, LatestIsNot DEF ws

\* Two of them.
LEMMA LatestOfTwo ==
    ASSUME NEW a \in Writes, NEW b \in Writes, a.part # b.part
    PROVE  \A p, old : Latest(<<a, b>>, p, old)
                         = IF a.part = p THEN a.value
                           ELSE IF b.part = p THEN b.value ELSE old
<1> TAKE p, old
<1> DEFINE ws == <<a, b>>
<1>1. ws \in Seq(Writes) /\ Len(ws) = 2 /\ ws[1] = a /\ ws[2] = b
  OBVIOUS
<1> HIDE DEF ws
<1>2. IF a.part = p THEN LastTo(ws, p, 1)
      ELSE IF b.part = p THEN LastTo(ws, p, 2) ELSE NoneTo(ws, p)
  BY <1>1 DEF LastTo, NoneTo
<1> QED
  BY <1>1, <1>2, LatestIs, LatestIsNot DEF ws

\* Three of them.
LEMMA LatestOfThree ==
    ASSUME NEW a \in Writes, NEW b \in Writes, NEW c \in Writes,
           a.part # b.part, a.part # c.part, b.part # c.part
    PROVE  \A p, old : Latest(<<a, b, c>>, p, old)
                         = IF a.part = p THEN a.value
                           ELSE IF b.part = p THEN b.value
                           ELSE IF c.part = p THEN c.value ELSE old
<1> TAKE p, old
<1> DEFINE ws == <<a, b, c>>
<1>1. /\ ws \in Seq(Writes) /\ Len(ws) = 3
      /\ ws[1] = a /\ ws[2] = b /\ ws[3] = c
  OBVIOUS
<1> HIDE DEF ws
<1>2. IF a.part = p THEN LastTo(ws, p, 1)
      ELSE IF b.part = p THEN LastTo(ws, p, 2)
      ELSE IF c.part = p THEN LastTo(ws, p, 3) ELSE NoneTo(ws, p)
  BY <1>1 DEF LastTo, NoneTo
<1> QED
  BY <1>1, <1>2, LatestIs, LatestIsNot DEF ws

\* Without writes nothing changes.
LEMMA ApplyNone ==
    ASSUME NEW d \in FileSystem
    PROVE  Apply(d, <<>>) = d
<1>1. <<>> \in Seq(Writes) /\ \A p : NoneTo(<<>>, p)
  BY DEF NoneTo
<1>2. \A p, old : Latest(<<>>, p, old) = old
  BY <1>1, LatestIsNot
<1> QED
  BY <1>2 DEF Apply, FileSystem

\* Writes keep the types of the parts.
LEMMA ApplyTyped ==
    ASSUME NEW d \in FileSystem, NEW ws \in Seq(Writes)
    PROVE  Apply(d, ws) \in FileSystem
<1>1. \A i \in 1 .. Len(ws) : ws[i] \in Writes
  OBVIOUS
<1>2. Latest(ws, "at", d.at) \in SUBSET (0 .. (SectorCount - 1))
  BY <1>1, LatestValue DEF FileSystem, Writes
<1>3. Latest(ws, "it", d.it) \in SUBSET InodeNumbers
  BY <1>1, LatestValue DEF FileSystem, Writes
<1>4. Latest(ws, "inodes", d.inodes) \in [InodeNumbers -> Inode \cup {NoInode}]
  <2>1. \A w \in Writes :
          w.part = "inodes" => w.value \in [InodeNumbers -> Inode \cup {NoInode}]
    BY DEF Writes
  <2>2. d.inodes \in [InodeNumbers -> Inode \cup {NoInode}]
    BY DEF FileSystem
  <2>3. CASE Latest(ws, "inodes", d.inodes) = d.inodes
    BY <2>2, <2>3
  <2>4. ASSUME NEW i \in 1 .. Len(ws), ws[i].part = "inodes",
               Latest(ws, "inodes", d.inodes) = ws[i].value
        PROVE  Latest(ws, "inodes", d.inodes) \in
                 [InodeNumbers -> Inode \cup {NoInode}]
    BY <1>1, <2>1, <2>4
  <2> QED
    BY <2>3, <2>4, LatestValue
<1>5. Latest(ws, "inode_block_size", d.inode_block_size) \in Nat
  BY <1>1, LatestValue DEF FileSystem, Writes
<1> QED
  BY <1>2, <1>3, <1>4, <1>5 DEF Apply, FileSystem

\* Writes one after the other.
LEMMA ApplyConcat ==
    ASSUME NEW d, NEW s \in Seq(Writes), NEW t \in Seq(Writes)
    PROVE  Apply(d, s \o t) = Apply(Apply(d, s), t)
  BY LatestConcat DEF Apply

\* The same from within the sequence.
LEMMA AfterConcat ==
    ASSUME NEW d, NEW s \in Seq(Writes), NEW t \in Seq(Writes),
           NEW i \in 0 .. Len(t)
    PROVE  After(d, s \o t, Len(s) + i) = After(Apply(d, s), t, i)
<1>1. SubSeq(s \o t, 1, Len(s) + i) = s \o SubSeq(t, 1, i)
  <2> DEFINE u == s \o t
             v == SubSeq(u, 1, Len(s) + i)
             w == SubSeq(t, 1, i)
             x == s \o w
  <2>1. /\ u \in Seq(Writes) /\ Len(u) = Len(s) + Len(t)
        /\ Len(s) \in Nat /\ Len(t) \in Nat
        /\ \A j \in 1 .. Len(s) + Len(t) :
             u[j] = IF j <= Len(s) THEN s[j] ELSE t[j - Len(s)]
    BY ConcatProperties
  <2>2. /\ w \in Seq(Writes) /\ Len(w) = i
        /\ \A j \in 1 .. i : w[j] = t[j]
    BY <2>1, SubSeqProperties
  <2>3. /\ x \in Seq(Writes) /\ Len(x) = Len(s) + i
        /\ \A j \in 1 .. Len(s) + i :
             x[j] = IF j <= Len(s) THEN s[j] ELSE w[j - Len(s)]
    BY <2>1, <2>2, ConcatProperties
  <2> HIDE DEF u, w, x
  <2>4. /\ v \in Seq(Writes) /\ Len(v) = Len(s) + i
        /\ \A j \in 1 .. Len(s) + i : v[j] = u[j]
    BY <2>1, SubSeqProperties
  <2> HIDE DEF v
  <2>5. \A j \in 1 .. Len(v) : v[j] = x[j]
    <3> TAKE j \in 1 .. Len(v)
    <3>1. CASE j <= Len(s)
      BY <2>1, <2>3, <2>4, <3>1
    <3>2. CASE j > Len(s)
      <4>1. j - Len(s) \in 1 .. i
        BY <2>1, <2>4, <3>2
      <4>2. x[j] = w[j - Len(s)] /\ w[j - Len(s)] = t[j - Len(s)]
        BY <2>1, <2>2, <2>3, <2>4, <3>2, <4>1
      <4>3. v[j] = u[j] /\ u[j] = t[j - Len(s)]
        BY <2>1, <2>4, <3>2
      <4> QED
        BY <4>2, <4>3
    <3> QED
      BY <2>1, <2>4, <3>1, <3>2
  <2> QED
    BY <2>3, <2>4, <2>5, SeqEqual DEF u, v, w, x
<1>2. SubSeq(t, 1, i) \in Seq(Writes)
  BY SubSeqProperties
<1> QED
  <2> DEFINE w == SubSeq(t, 1, i)
  <2>1. Apply(d, s \o w) = Apply(Apply(d, s), w)
    BY <1>2, ApplyConcat
  <2> QED
    BY <1>1, <2>1, Zenon DEF After

\* The first writes of a sequence do not depend on those behind.
LEMMA AfterFirst ==
    ASSUME NEW d, NEW s \in Seq(Writes), NEW t \in Seq(Writes),
           NEW i \in 0 .. Len(s)
    PROVE  After(d, s \o t, i) = After(d, s, i)
<1>1. SubSeq(s \o t, 1, i) = SubSeq(s, 1, i)
  BY ConcatProperties, SubSeqProperties, SubSeqOfConcat1, SubSeqEmpty
<1> QED
  BY <1>1 DEF After

\* After all of the writes.
LEMMA AfterAll ==
    ASSUME NEW d, NEW ws \in Seq(Writes)
    PROVE  After(d, ws, Len(ws)) = Apply(d, ws)
  BY SubSeqFull DEF After

\* Each prefix of the writes keeps the types.
LEMMA AfterTyped ==
    ASSUME NEW d \in FileSystem, NEW ws \in Seq(Writes), NEW i \in 0 .. Len(ws)
    PROVE  After(d, ws, i) \in FileSystem
<1>1. SubSeq(ws, 1, i) \in Seq(Writes)
  BY SubSeqProperties
<1> QED
  BY <1>1, ApplyTyped DEF After

-----------------------------------------------------------------------------
(* Safe sequences of writes.                                               *)

\* The table is all that a repaired disk has more.
LEMMA ConsistentIsRecoverable ==
    ASSUME NEW d
    PROVE  Consistent(d) <=> Recoverable(d) /\ TableExact(d)
  BY DEF Consistent, Recoverable

\* No writes at all.
LEMMA SafeNone ==
    ASSUME NEW d \in FileSystem, NEW k, Held(d, k), Recoverable(d)
    PROVE  Safe(d, <<>>, k)
<1>1. SubSeq(<<>>, 1, 0) = <<>> /\ Len(<<>>) = 0
  BY SubSeqEmpty
<1>2. After(d, <<>>, 0) = d
  BY <1>1, ApplyNone DEF After
<1>3. \A i \in 0 .. Len(<<>>) : i = 0
  BY <1>1
<1> QED
  BY <1>2, <1>3 DEF Safe

\* What is left of safe writes when the first of them is done is safe.
LEMMA SafeTail ==
    ASSUME NEW d, NEW ws \in Seq(Writes), ws # <<>>, NEW k, Safe(d, ws, k)
    PROVE  LET e == Apply(d, <<Head(ws)>>) IN
           /\ Tail(ws) \in Seq(Writes)
           /\ Safe(e, Tail(ws), k)
           /\ Apply(e, Tail(ws)) = Apply(d, ws)
<1> DEFINE s == <<Head(ws)>>
           t == Tail(ws)
           e == Apply(d, s)
<1>1. /\ s \in Seq(Writes) /\ Len(s) = 1
      /\ t \in Seq(Writes) /\ Len(t) = Len(ws) - 1 /\ Len(t) \in Nat
      /\ \A i \in 1 .. Len(t) : t[i] = ws[i + 1]
      /\ ws = s \o t
  BY HeadTailProperties
<1> HIDE DEF s, t
<1>2. ASSUME NEW i \in 0 .. Len(t)
      PROVE  /\ After(e, t, i) = After(d, ws, i + 1)
             /\ i + 1 \in 0 .. Len(ws)
             /\ MayStop(t, i) => MayStop(ws, i + 1)
  <2>1. After(d, s \o t, Len(s) + i) = After(Apply(d, s), t, i)
    BY <1>1, AfterConcat
  <2>2. Len(s) + i = i + 1 /\ i + 1 \in 0 .. Len(ws)
    BY <1>1
  <2>3. MayStop(t, i) => MayStop(ws, i + 1)
    <3> SUFFICES ASSUME MayStop(t, i), i + 1 < Len(ws)
                 PROVE  ws[(i + 1) + 1].part \notin Uncut
      BY DEF MayStop
    <3>1. i < Len(t) /\ i + 1 \in 1 .. Len(t)
      BY <1>1
    <3>2. t[i + 1].part \notin Uncut /\ t[i + 1] = ws[(i + 1) + 1]
      BY <1>1, <3>1 DEF MayStop
    <3> QED
      BY <3>2
  <2> QED
    BY <1>1, <2>1, <2>2, <2>3
<1>3. Safe(e, t, k)
  BY <1>2 DEF Safe
<1>4. Apply(e, t) = Apply(d, ws)
  BY <1>1, ApplyConcat
<1> QED
  BY <1>1, <1>3, <1>4 DEF s, t

\* Safe writes, and others that are safe on what they leave.
LEMMA SafeConcat ==
    ASSUME NEW d, NEW s \in Seq(Writes), NEW t \in Seq(Writes), NEW k,
           Safe(d, s, k), Safe(Apply(d, s), t, k)
    PROVE  Safe(d, s \o t, k)
<1> DEFINE u == s \o t
<1>1. /\ u \in Seq(Writes) /\ Len(u) = Len(s) + Len(t)
      /\ Len(s) \in Nat /\ Len(t) \in Nat
      /\ \A j \in 1 .. Len(s) : u[j] = s[j]
      /\ \A j \in (Len(s) + 1) .. Len(u) : u[j] = t[j - Len(s)]
  BY ConcatProperties
<1>2. ASSUME NEW i \in 0 .. Len(u), i < Len(s)
      PROVE  /\ Held(After(d, u, i), k)
             /\ MayStop(u, i) => Recoverable(After(d, u, i))
  <2>1. i \in 0 .. Len(s) /\ After(d, u, i) = After(d, s, i)
    BY <1>1, <1>2, AfterFirst
  <2>2. MayStop(u, i) => MayStop(s, i)
    <3>1. i < Len(u) /\ i + 1 \in 1 .. Len(s)
      BY <1>1, <1>2
    <3>2. u[i + 1] = s[i + 1]
      BY <1>1, <3>1
    <3> QED
      BY <3>1, <3>2 DEF MayStop
  <2> QED
    BY <2>1, <2>2 DEF Safe
<1>3. ASSUME NEW i \in 0 .. Len(u), i >= Len(s)
      PROVE  /\ Held(After(d, u, i), k)
             /\ MayStop(u, i) => Recoverable(After(d, u, i))
  <2> DEFINE j == i - Len(s)
  <2>1. j \in 0 .. Len(t) /\ i = Len(s) + j
    BY <1>1, <1>3
  <2>2. After(d, u, i) = After(Apply(d, s), t, j)
    BY <2>1, AfterConcat
  <2>3. MayStop(u, i) => MayStop(t, j)
    <3> SUFFICES ASSUME MayStop(u, i), j < Len(t)
                 PROVE  t[j + 1].part \notin Uncut
      BY DEF MayStop
    <3>1. i < Len(u) /\ i + 1 \in (Len(s) + 1) .. Len(u)
          /\ i + 1 - Len(s) = j + 1
      BY <1>1, <2>1
    <3>2. u[i + 1] = t[j + 1]
      BY <1>1, <3>1
    <3> QED
      BY <3>1, <3>2 DEF MayStop
  <2> HIDE DEF j
  <2> QED
    BY <2>1, <2>2, <2>3 DEF Safe
<1> HIDE DEF u
<1> QED
  BY <1>1, <1>2, <1>3 DEF Safe, u

-----------------------------------------------------------------------------
(* The writes of the calls are safe.                                       *)

\* A disk whose tables have changed, but not what the inode allocation table
\* says of the bundles that stay.
LEMMA FewerBundles ==
    ASSUME NEW d, Recoverable(d), NEW e \in FileSystem, NEW X \in SUBSET Live(d),
           e.it = d.it \ X, e.inodes = d.inodes,
           e.inode_block_size = d.inode_block_size
    PROVE  /\ Recoverable(e)
           /\ Live(e) = Live(d) \ X
<1>1. InodeMax(e) = InodeMax(d) /\ MetadataSize(e) = MetadataSize(d)
  BY DEF InodeMax, MetadataSize
<1>2. Live(e) = Live(d) \ X
  BY <1>1 DEF Live
<1>3. LiveInodesNamed(e) /\ BundlesApart(e)
  BY <1>1, <1>2 DEF Recoverable, LiveInodesNamed, BundlesApart, DataBits
<1>4. InodeBlockClosed(e)
  <2>1. X \cap (InodeMax(d) .. (InodeTableBits - 1)) = {}
    <3>1. InodeMax(d) \in Nat /\ X \subseteq InodeNumbers
      BY LayoutAssumption DEF InodeMax, Recoverable, FileSystem, Live
    <3>2. \A n \in X : n < InodeMax(d) /\ n \in Nat
      BY <3>1 DEF Live, InodeNumbers
    <3> QED
      BY <3>1, <3>2
  <2> QED
    BY <1>1, <2>1 DEF Recoverable, InodeBlockClosed
<1>5. MetadataInside(e)
  BY <1>1 DEF Recoverable, MetadataInside
<1> QED
  BY <1>2, <1>3, <1>4, <1>5 DEF Recoverable

\* A disk of which only the allocation table has changed.
LEMMA OtherTable ==
    ASSUME NEW d, Recoverable(d), NEW e \in FileSystem, e.it = d.it,
           e.inodes = d.inodes, e.inode_block_size = d.inode_block_size
    PROVE  Recoverable(e) /\ Live(e) = Live(d)
<1>1. {} \in SUBSET Live(d) /\ e.it = d.it \ {} /\ Live(d) \ {} = Live(d)
  OBVIOUS
<1> QED
  BY <1>1, FewerBundles

\* The writes are to the tables and take away nothing but the bundles of `gone'.
Takes(ws, d, gone) ==
    \A i \in 1 .. Len(ws) :
      \/ ws[i].part = "at"
      \/ ws[i].part = "it" /\ \E X \in SUBSET gone : ws[i].value = d.it \ X

\* The writes of fs_delete, delete_invalid_inodes and restore_fs may be cut off
\* anywhere.
LEMMA SafeTakes ==
    ASSUME NEW d, Recoverable(d), NEW gone \in SUBSET Live(d),
           NEW ws \in Seq(Writes), Takes(ws, d, gone),
           NEW k, Held(d, k), DOMAIN k \cap gone = {}
    PROVE  Safe(d, ws, k)
<1> SUFFICES ASSUME NEW i \in 0 .. Len(ws)
             PROVE  /\ Held(After(d, ws, i), k)
                    /\ Recoverable(After(d, ws, i))
  BY DEF Safe
<1> DEFINE v == SubSeq(ws, 1, i)
           e == After(d, ws, i)
<1>1. /\ v \in Seq(Writes) /\ Len(v) = i
      /\ \A j \in 1 .. Len(v) : j \in 1 .. Len(ws) /\ v[j] = ws[j]
  BY SubSeqProperties
<1>2. e \in FileSystem
  BY AfterTyped DEF Recoverable
<1> HIDE DEF v
<1>3. /\ e.it = Latest(v, "it", d.it)
      /\ e.inodes = Latest(v, "inodes", d.inodes)
      /\ e.inode_block_size = Latest(v, "inode_block_size", d.inode_block_size)
  BY DEF After, Apply, v
<1>4. e.inodes = d.inodes /\ e.inode_block_size = d.inode_block_size
  <2>1. NoneTo(v, "inodes") /\ NoneTo(v, "inode_block_size")
    BY <1>1 DEF NoneTo, Takes
  <2> QED
    BY <1>1, <1>3, <2>1, LatestIsNot
<1>5. \E X \in SUBSET gone : e.it = d.it \ X
  <2>1. CASE Latest(v, "it", d.it) = d.it
    <3>1. {} \in SUBSET gone /\ d.it \ {} = d.it
      OBVIOUS
    <3> QED
      BY <1>3, <2>1, <3>1
  <2>2. ASSUME NEW j \in 1 .. Len(v), v[j].part = "it",
               Latest(v, "it", d.it) = v[j].value
        PROVE  \E X \in SUBSET gone : e.it = d.it \ X
    <3>1. \E X \in SUBSET gone : ws[j].value = d.it \ X
      BY <1>1, <2>2 DEF Takes
    <3> QED
      BY <1>1, <1>3, <2>2, <3>1
  <2>3. \/ Latest(v, "it", d.it) = d.it
        \/ \E j \in 1 .. Len(v) :
             v[j].part = "it" /\ Latest(v, "it", d.it) = v[j].value
    BY <1>1, LatestValue
  <2> QED
    BY <2>1, <2>2, <2>3
<1> HIDE DEF e
<1>6. PICK X \in SUBSET gone : e.it = d.it \ X
  BY <1>5
<1>7. Recoverable(e) /\ Live(e) = Live(d) \ X
  <2>1. X \in SUBSET Live(d)
    BY <1>6
  <2> QED
    BY <1>2, <1>4, <1>6, <2>1, FewerBundles
<1>8. Held(e, k)
  BY <1>4, <1>6, <1>7 DEF Held
<1> QED
  BY <1>7, <1>8 DEF e

\* Consistent says nothing of the inodes in slots that are not live.
LEMMA SameLiveConsistent ==
    ASSUME NEW d, Consistent(d), NEW e \in FileSystem,
           e.at = d.at, e.it = d.it, e.inode_block_size = d.inode_block_size,
           \A n \in Live(d) : e.inodes[n] = d.inodes[n]
    PROVE  Consistent(e) /\ Live(e) = Live(d)
<1>1. InodeMax(e) = InodeMax(d) /\ MetadataSize(e) = MetadataSize(d)
  BY DEF InodeMax, MetadataSize
<1>2. Live(e) = Live(d)
  BY <1>1 DEF Live
<1>3. LiveInodesNamed(e) /\ BundlesApart(e)
  BY <1>1, <1>2 DEF Consistent, LiveInodesNamed, BundlesApart, DataBits
<1>4. TableExact(e)
  <2>1. LiveBits(e) = LiveBits(d) /\ Metadata(e) = Metadata(d)
    BY <1>1, <1>2 DEF LiveBits, Metadata
  <2> QED
    BY <2>1 DEF Consistent, TableExact
<1>5. InodeBlockClosed(e) /\ MetadataInside(e)
  BY <1>1 DEF Consistent, InodeBlockClosed, MetadataInside
<1> QED
  BY <1>2, <1>3, <1>4, <1>5 DEF Consistent

\* Safe writes leave the bundles of k.
LEMMA SafeEnds ==
    ASSUME NEW d, NEW ws \in Seq(Writes), NEW k, Safe(d, ws, k)
    PROVE  Held(Apply(d, ws), k)
<1>1. Len(ws) \in 0 .. Len(ws)
  OBVIOUS
<1> QED
  BY <1>1, AfterAll DEF Safe

\* The writes of fs_delete leave what FileSystem's step does, but for the inode
\* in the slot that is free now.
LEMMA DeleteSafe ==
    ASSUME NEW d, Consistent(d), NEW n \in Live(d),
           NEW k, Held(d, k), n \notin DOMAIN k
    PROVE  LET ws == DeleteWrites(d, d.inodes[n])
               e  == Apply(d, ws)
               x  == Deleted(d, d.inodes[n])
           IN /\ ws \in Seq(Writes)
              /\ Safe(d, ws, k)
              /\ Consistent(e)
              /\ Live(e) = Live(x)
              /\ e = [x EXCEPT !.inodes = d.inodes]
<1> DEFINE f == d.inodes[n]
           a == Write("at", d.at \ Bits(f))
           b == Write("it", d.it \ {f.inode_offset})
           ws == <<a, b>>
           e == Apply(d, ws)
           x == Deleted(d, f)
<1>1. /\ d \in FileSystem /\ f \in Inode /\ f.inode_offset = n
      /\ n \in InodeNumbers
  BY DEF Consistent, FileSystem, LiveInodesNamed, Live
<1>2. /\ a \in Writes /\ b \in Writes /\ a.part = "at" /\ b.part = "it"
      /\ a.value = d.at \ Bits(f) /\ b.value = d.it \ {n}
  BY <1>1 DEF Write, Writes, FileSystem
<1> HIDE DEF a, b
<1>3. /\ ws \in Seq(Writes) /\ Len(ws) = 2 /\ ws[1] = a /\ ws[2] = b
  BY <1>2
<1>4. e = [at |-> a.value, it |-> b.value, inodes |-> d.inodes,
           inode_block_size |-> d.inode_block_size]
  <2>1. a \in Writes /\ b \in Writes /\ a.part = "at" /\ b.part = "it"
    BY <1>2
  <2> QED
    BY <2>1, LatestOfTwo DEF Apply
<1> HIDE DEF ws, e
<1>5. Safe(d, ws, k)
  <2>1. Takes(ws, d, {n})
    <3>1. \E X \in SUBSET {n} : b.value = d.it \ X
      BY <1>2
    <3> QED
      <4>1. \A i \in 1 .. Len(ws) : i = 1 \/ i = 2
        BY <1>3
      <4>2. ws[1].part = "at" /\ ws[2].part = "it" /\ ws[2].value = b.value
        BY <1>2, <1>3
      <4> QED
        BY <3>1, <4>1, <4>2 DEF Takes
  <2>2. {n} \in SUBSET Live(d) /\ DOMAIN k \cap {n} = {}
    OBVIOUS
  <2> QED
    BY <1>3, <2>1, <2>2, SafeTakes, ConsistentIsRecoverable
<1>6. e = [x EXCEPT !.inodes = d.inodes]
  <2>1. Run(n, 1) = {n}
    BY <1>1 DEF Run, InodeNumbers
  <2> QED
    <3>1. /\ x.at = d.at \ Bits(f) /\ x.it = d.it \ {n}
          /\ x.inode_block_size = d.inode_block_size
          /\ x = [at |-> x.at, it |-> x.it, inodes |-> x.inodes,
                  inode_block_size |-> x.inode_block_size]
      <4>1. x \in FileSystem
        BY DeletedConsistent DEF Consistent
      <4>2. /\ x.at = d.at \ Bits(f) /\ x.it = d.it \ {n}
            /\ x.inode_block_size = d.inode_block_size
        BY <1>1, <2>1 DEF Deleted, DeleteSeq, Bits, FileSystem
      <4> HIDE DEF x
      <4> QED
        BY <4>1, <4>2 DEF FileSystem
    <3> HIDE DEF x
    <3>2. [x EXCEPT !.inodes = d.inodes]
            = [at |-> x.at, it |-> x.it, inodes |-> d.inodes,
               inode_block_size |-> x.inode_block_size]
      BY <3>1
    <3> QED
      BY <1>2, <1>4, <3>1, <3>2
<1>7. Consistent(e) /\ Live(e) = Live(x)
  <2>1. /\ Consistent(x) /\ Live(x) = Live(d) \ {n}
        /\ \A m \in Live(d) \ {n} : x.inodes[m] = d.inodes[m]
    BY DeletedConsistent
  <2>2. e \in FileSystem
    BY <1>1, <1>3, ApplyTyped DEF e
  <2>3. e.at = x.at /\ e.it = x.it /\ e.inode_block_size = x.inode_block_size
        /\ e.inodes = d.inodes
    BY <1>6, <2>1 DEF Consistent, FileSystem
  <2> HIDE DEF x
  <2> QED
    BY <2>1, <2>2, <2>3, SameLiveConsistent
<1> QED
  BY <1>3, <1>5, <1>6, <1>7 DEF e, ws, a, b, DeleteWrites

\* The prefixes of three writes.
LEMMA ThreeWrites ==
    ASSUME NEW d \in FileSystem,
           NEW a \in Writes, NEW b \in Writes, NEW c \in Writes
    PROVE  LET ws == <<a, b, c>> IN
           /\ ws \in Seq(Writes) /\ Len(ws) = 3
           /\ ws[1] = a /\ ws[2] = b /\ ws[3] = c
           /\ After(d, ws, 0) = d
           /\ After(d, ws, 1) = Apply(d, <<a>>)
           /\ After(d, ws, 2) = Apply(d, <<a, b>>)
           /\ After(d, ws, 3) = Apply(d, ws)
<1> DEFINE ws == <<a, b, c>>
<1>1. /\ ws \in Seq(Writes) /\ Len(ws) = 3
      /\ ws[1] = a /\ ws[2] = b /\ ws[3] = c
  OBVIOUS
<1> HIDE DEF ws
<1>2. SubSeq(ws, 1, 0) = <<>>
  BY SubSeqEmpty
<1>3. SubSeq(ws, 1, 1) = <<a>>
  <2>1. /\ SubSeq(ws, 1, 1) \in Seq(Writes) /\ Len(SubSeq(ws, 1, 1)) = 1
        /\ SubSeq(ws, 1, 1)[1] = a
    BY <1>1, SubSeqProperties
  <2>2. <<a>> \in Seq(Writes) /\ Len(<<a>>) = 1 /\ <<a>>[1] = a
    OBVIOUS
  <2>3. \A i \in 1 .. 1 : i = 1
    OBVIOUS
  <2> HIDE DEF ws
  <2> QED
    BY <2>1, <2>2, <2>3, SeqEqual
<1>4. SubSeq(ws, 1, 2) = <<a, b>>
  <2>1. /\ SubSeq(ws, 1, 2) \in Seq(Writes) /\ Len(SubSeq(ws, 1, 2)) = 2
        /\ SubSeq(ws, 1, 2)[1] = a /\ SubSeq(ws, 1, 2)[2] = b
    BY <1>1, SubSeqProperties
  <2>2. /\ <<a, b>> \in Seq(Writes) /\ Len(<<a, b>>) = 2
        /\ <<a, b>>[1] = a /\ <<a, b>>[2] = b
    OBVIOUS
  <2>3. \A i \in 1 .. 2 : i = 1 \/ i = 2
    OBVIOUS
  <2> HIDE DEF ws
  <2> QED
    BY <2>1, <2>2, <2>3, SeqEqual
<1>5. After(d, ws, 3) = Apply(d, ws)
  BY <1>1, AfterAll
<1>6. After(d, ws, 0) = d
  BY <1>2, ApplyNone DEF After
<1>7. After(d, ws, 1) = Apply(d, <<a>>) /\ After(d, ws, 2) = Apply(d, <<a, b>>)
  BY <1>3, <1>4 DEF After
<1> QED
  BY <1>1, <1>5, <1>6, <1>7 DEF ws

\* The writes of resize_inode_block: the bits of new inodes are cleared before
\* the superblock has them, so that only the last write must not be cut off.
LEMMA GrowSafe ==
    ASSUME InodesUncut, NEW d, Consistent(d), CanGrow(d), NEW k, Held(d, k)
    PROVE  LET ws == GrowWrites(d) IN
           /\ ws \in Seq(Writes)
           /\ Safe(d, ws, k)
           /\ Apply(d, ws) = Grown(d)
<1> DEFINE g == Grown(d)
           a == Write("at", g.at)
           b == Write("it", g.it)
           c == Write("inode_block_size", g.inode_block_size)
           ws == <<a, b, c>>
<1>1. /\ d \in FileSystem /\ Consistent(g) /\ g \in FileSystem
      /\ Live(g) = Live(d) /\ g.inodes = d.inodes
  BY GrownConsistent DEF Consistent
<1>2. /\ g.it = d.it \ Run(InodeMax(d), InodeSec)
  BY <1>1 DEF Grown, DeleteSeq, FileSystem
<1> HIDE DEF g
<1>3. /\ a \in Writes /\ b \in Writes /\ c \in Writes
      /\ a.part = "at" /\ b.part = "it" /\ c.part = "inode_block_size"
      /\ a.value = g.at /\ b.value = g.it /\ c.value = g.inode_block_size
  BY <1>1 DEF Write, Writes, FileSystem
<1> HIDE DEF a, b, c
<1>4. /\ ws \in Seq(Writes) /\ Len(ws) = 3 /\ ws[3] = c
      /\ After(d, ws, 0) = d
      /\ After(d, ws, 1) = Apply(d, <<a>>)
      /\ After(d, ws, 2) = Apply(d, <<a, b>>)
      /\ After(d, ws, 3) = Apply(d, ws)
  BY <1>1, <1>3, ThreeWrites
<1>5. Apply(d, <<a>>) = [at |-> g.at, it |-> d.it, inodes |-> d.inodes,
                         inode_block_size |-> d.inode_block_size]
  BY <1>3, LatestOfOne DEF Apply
<1>6. Apply(d, <<a, b>>) = [at |-> g.at, it |-> g.it, inodes |-> d.inodes,
                            inode_block_size |-> d.inode_block_size]
  BY <1>3, LatestOfTwo DEF Apply
<1>7. Apply(d, ws) = g
  <2>1. Apply(d, ws) = [at |-> g.at, it |-> g.it, inodes |-> d.inodes,
                        inode_block_size |-> g.inode_block_size]
    BY <1>3, LatestOfThree DEF Apply
  <2> QED
    BY <1>1, <2>1 DEF FileSystem
<1> HIDE DEF ws
<1>8. Recoverable(After(d, ws, 1)) /\ Held(After(d, ws, 1), k)
  <2> DEFINE e == After(d, ws, 1)
  <2>1. e \in FileSystem /\ e.it = d.it /\ e.inodes = d.inodes
        /\ e.inode_block_size = d.inode_block_size
    BY <1>1, <1>4, <1>5 DEF FileSystem
  <2>2. Recoverable(d)
    BY ConsistentIsRecoverable
  <2> HIDE DEF e
  <2>3. Recoverable(e) /\ Live(e) = Live(d)
    BY <2>1, <2>2, OtherTable
  <2> QED
    BY <2>1, <2>3 DEF Held, e
<1>9. Held(After(d, ws, 2), k)
  <2> DEFINE e == After(d, ws, 2)
  <2>1. e.it = g.it /\ e.inodes = d.inodes
        /\ e.inode_block_size = d.inode_block_size
    BY <1>4, <1>6
  <2>2. Live(e) = Live(d)
    <3>1. InodeMax(e) = InodeMax(d) /\ InodeMax(d) \in Nat
      BY <1>1, <2>1, LayoutAssumption DEF InodeMax, FileSystem
    <3>2. \A n \in d.it : n \in Nat
      BY <1>1 DEF FileSystem, InodeNumbers
    <3> QED
      BY <1>2, <2>1, <3>1, <3>2 DEF Live, Run
  <2> QED
    BY <2>1, <2>2 DEF Held
<1>10. Held(g, k) /\ Recoverable(g) /\ Recoverable(d)
  BY <1>1, ConsistentIsRecoverable DEF Held
<1>11. ~MayStop(ws, 2)
  BY <1>3, <1>4 DEF MayStop, InodesUncut
<1>12. Safe(d, ws, k)
  <2>1. \A i \in 0 .. Len(ws) : i = 0 \/ i = 1 \/ i = 2 \/ i = 3
    BY <1>4
  <2> QED
    BY <1>4, <1>7, <1>8, <1>9, <1>10, <1>11, <2>1 DEF Safe
<1> QED
  BY <1>4, <1>7, <1>12 DEF ws, a, b, c, g, GrowWrites

\* The writes of write_inode at the end of fs_create: the slot of the inode is
\* written last, which must not be cut off since its bit is set already.
LEMMA PlaceSafe ==
    ASSUME InodesUncut, NEW d, Consistent(d), NEW f \in Inode,
           Bits(f) \subseteq 0 .. (SectorCount - 1), Bits(f) \cap d.at = {},
           f.inode_offset \notin d.it, NEW k, Held(d, k)
    PROVE  LET ws == PlaceWrites(d, f) IN
           /\ ws \in Seq(Writes)
           /\ Safe(d, ws, k)
           /\ Apply(d, ws) = Placed(d, f)
<1> DEFINE g == Placed(d, f)
           n == f.inode_offset
           a == Write("at", d.at \cup Bits(f))
           b == Write("it", d.it \cup {n})
           c == Write("inodes", [d.inodes EXCEPT ![n] = f])
           ws == <<a, b, c>>
<1>1. /\ d \in FileSystem /\ Consistent(g) /\ g \in FileSystem
      /\ Live(g) = Live(d) \cup {n}
      /\ \A m \in Live(d) : g.inodes[m] = d.inodes[m]
  BY PlacedConsistent DEF Consistent
<1>2. n \in InodeNumbers
  BY DEF Inode
<1>3. /\ g.at = d.at \cup Bits(f) /\ g.it = d.it \cup {n}
      /\ g.inodes = [d.inodes EXCEPT ![n] = f]
      /\ g.inode_block_size = d.inode_block_size
  <2>1. Run(n, 1) = {n}
    BY <1>2 DEF Run, InodeNumbers
  <2> QED
    BY <1>1, <2>1 DEF Placed, Written, WriteSeq, FileSystem
<1>4. n \notin Live(d)
  BY DEF Live
<1> HIDE DEF g
<1>5. /\ a = Write("at", g.at) /\ b = Write("it", g.it)
      /\ c = Write("inodes", g.inodes)
  BY <1>3
<1>6. /\ a \in Writes /\ b \in Writes /\ c \in Writes
      /\ a.part = "at" /\ b.part = "it" /\ c.part = "inodes"
      /\ a.value = g.at /\ b.value = g.it /\ c.value = g.inodes
  <2>1. /\ g.at \in SUBSET (0 .. (SectorCount - 1))
        /\ g.it \in SUBSET InodeNumbers
        /\ g.inodes \in [InodeNumbers -> Inode \cup {NoInode}]
    BY <1>1 DEF FileSystem
  <2> HIDE DEF a, b, c
  <2> QED
    BY <1>5, <2>1 DEF Write, Writes
<1> HIDE DEF a, b, c
<1>7. /\ ws \in Seq(Writes) /\ Len(ws) = 3 /\ ws[3] = c
      /\ After(d, ws, 0) = d
      /\ After(d, ws, 1) = Apply(d, <<a>>)
      /\ After(d, ws, 2) = Apply(d, <<a, b>>)
      /\ After(d, ws, 3) = Apply(d, ws)
  BY <1>1, <1>6, ThreeWrites
<1>8. Apply(d, <<a>>) = [at |-> g.at, it |-> d.it, inodes |-> d.inodes,
                         inode_block_size |-> d.inode_block_size]
  BY <1>6, LatestOfOne DEF Apply
<1>9. Apply(d, <<a, b>>) = [at |-> g.at, it |-> g.it, inodes |-> d.inodes,
                            inode_block_size |-> d.inode_block_size]
  BY <1>6, LatestOfTwo DEF Apply
<1>10. Apply(d, ws) = g
  <2>1. Apply(d, ws) = [at |-> g.at, it |-> g.it, inodes |-> g.inodes,
                        inode_block_size |-> d.inode_block_size]
    BY <1>6, LatestOfThree DEF Apply
  <2> QED
    BY <1>1, <1>3, <2>1 DEF FileSystem
<1> HIDE DEF ws
<1>11. Recoverable(After(d, ws, 1)) /\ Held(After(d, ws, 1), k)
  <2> DEFINE e == After(d, ws, 1)
  <2>1. e \in FileSystem /\ e.it = d.it /\ e.inodes = d.inodes
        /\ e.inode_block_size = d.inode_block_size
    BY <1>1, <1>7, <1>8 DEF FileSystem
  <2>2. Recoverable(d)
    BY ConsistentIsRecoverable
  <2> HIDE DEF e
  <2>3. Recoverable(e) /\ Live(e) = Live(d)
    BY <2>1, <2>2, OtherTable
  <2> QED
    BY <2>1, <2>3 DEF Held, e
<1>12. Held(After(d, ws, 2), k)
  <2> DEFINE e == After(d, ws, 2)
  <2>1. e.it = g.it /\ e.inodes = d.inodes
        /\ e.inode_block_size = d.inode_block_size
    BY <1>7, <1>9
  <2>2. Live(d) \subseteq Live(e)
    BY <1>3, <2>1 DEF Live, InodeMax
  <2> QED
    BY <2>1, <2>2 DEF Held
<1>13. Held(g, k) /\ Recoverable(g) /\ Recoverable(d)
  <2>1. Held(g, k)
    BY <1>1 DEF Held
  <2> QED
    BY <1>1, <2>1, ConsistentIsRecoverable
<1>14. ~MayStop(ws, 2)
  BY <1>6, <1>7 DEF MayStop, InodesUncut
<1>15. Safe(d, ws, k)
  <2>1. \A i \in 0 .. Len(ws) : i = 0 \/ i = 1 \/ i = 2 \/ i = 3
    BY <1>7
  <2> QED
    BY <1>7, <1>10, <1>11, <1>12, <1>13, <1>14, <2>1 DEF Safe
<1> QED
  BY <1>7, <1>10, <1>15 DEF ws, a, b, c, n, g, PlaceWrites

\* fs_close writes one inode.
LEMMA CloseSafe ==
    ASSUME NEW d, Consistent(d), NEW n \in Live(d),
           NEW f \in Inode, f.inode_offset = n,
           f.size = d.inodes[n].size, f.location = d.inodes[n].location,
           NEW k, Held(d, k)
    PROVE  LET ws == <<Write("inodes", [d.inodes EXCEPT ![n] = f])>> IN
           /\ ws \in Seq(Writes)
           /\ Safe(d, ws, k)
           /\ Apply(d, ws) = Written(d, f)
<1> DEFINE a == Write("inodes", [d.inodes EXCEPT ![n] = f])
           ws == <<a>>
           g == Written(d, f)
<1>1. /\ d \in FileSystem /\ Consistent(g) /\ g \in FileSystem
      /\ Live(g) = Live(d)
      /\ \A m \in Live(d) : g.inodes[m] = IF m = n THEN f ELSE d.inodes[m]
  BY WrittenConsistent DEF Consistent
<1>2. /\ g = [at |-> d.at, it |-> d.it, inodes |-> [d.inodes EXCEPT ![n] = f],
              inode_block_size |-> d.inode_block_size]
  BY <1>1 DEF Written, FileSystem
<1> HIDE DEF g
<1>3. /\ a \in Writes /\ a.part = "inodes" /\ a.value = g.inodes
      /\ g.inodes = [d.inodes EXCEPT ![n] = f]
  BY <1>1, <1>2 DEF Write, Writes, FileSystem
<1> HIDE DEF a
<1>4. ws \in Seq(Writes) /\ Len(ws) = 1 /\ <<>> \in Seq(Writes)
  BY <1>3
<1>5. Apply(d, ws) = g
  BY <1>2, <1>3, LatestOfOne DEF Apply
<1> HIDE DEF ws
<1>6. Held(g, k) /\ Recoverable(g) /\ Recoverable(d)
  <2>1. Held(g, k)
    BY <1>1 DEF Held
  <2> QED
    BY <1>1, <2>1, ConsistentIsRecoverable
<1>7. After(d, ws, 0) = d /\ After(d, ws, 1) = g
  <2>1. SubSeq(ws, 1, 0) = <<>>
    BY SubSeqEmpty
  <2>2. After(d, ws, 1) = g
    BY <1>4, <1>5, AfterAll
  <2> QED
    BY <1>1, <2>1, <2>2, ApplyNone DEF After
<1>8. Safe(d, ws, k)
  <2>1. \A i \in 0 .. Len(ws) : i = 0 \/ i = 1
    BY <1>4
  <2> QED
    BY <1>6, <1>7, <2>1 DEF Safe
<1> QED
  BY <1>4, <1>5, <1>8 DEF ws, a, g

\* A sequence in ascending order has all of the numbers.
LEMMA ByNumberHasAll ==
    ASSUME NEW S \in SUBSET Nat, IsFiniteSet(S), NEW s \in ByNumber(S)
    PROVE  /\ Len(s) \in Nat /\ s \in Seq(S)
           /\ {s[j] : j \in 1 .. Len(s)} = S
<1> DEFINE c == Cardinality(S)
<1>1. c \in Nat /\ IsFiniteSet(1 .. c) /\ Cardinality(1 .. c) = c
  BY FS_CardinalityType, FS_Interval
<1>2. s \in [1 .. c -> S]
  BY DEF ByNumber
<1>3. s \in Injection(1 .. c, S)
  <2>1. ASSUME NEW i \in 1 .. c, NEW j \in 1 .. c, s[i] = s[j]
        PROVE  i = j
    <3>1. /\ i < j => s[i] < s[j]
          /\ j < i => s[j] < s[i]
      BY DEF ByNumber
    <3>2. s[i] \in Nat /\ s[j] \in Nat
      BY <1>2
    <3> QED
      BY <1>1, <2>1, <3>1, <3>2
  <2> QED
    BY <1>2, <2>1, Zenon DEF Injection, IsInjective
<1>4. s \in Surjection(1 .. c, S)
  BY <1>1, <1>3, FS_Injection
<1>5. Len(s) = c /\ s \in Seq(S)
  BY <1>1, <1>2
<1> HIDE DEF c
<1>6. {s[j] : j \in 1 .. c} = S
  BY <1>2, <1>4, Zenon DEF Surjection
<1> QED
  BY <1>1, <1>5, <1>6

\* Inode numbers can be put in order.
LEMMA LiveIsFinite ==
    ASSUME NEW d \in FileSystem, NEW S \in SUBSET Live(d)
    PROVE  S \in SUBSET Nat /\ IsFiniteSet(S)
<1>1. S \subseteq InodeNumbers
  BY DEF Live, FileSystem
<1>2. IsFiniteSet(InodeNumbers)
  BY LayoutAssumption, FS_Interval DEF InodeNumbers
<1> QED
  <2>1. S \in SUBSET InodeNumbers /\ InodeNumbers \subseteq Nat
    BY <1>1 DEF InodeNumbers
  <2> QED
    BY <1>2, <2>1, FS_Subset

\* The last of a row of writes to one part.
LEMMA BitsOfAll ==
    ASSUME NEW s, NEW S, {s[j] : j \in 1 .. Len(s)} = S
    PROVE  BitsUpTo(s, Len(s)) = UNION {Bits(fs.inodes[n]) : n \in S}
<1>1. {Bits(fs.inodes[s[j]]) : j \in 1 .. Len(s)}
        = {Bits(fs.inodes[n]) : n \in S}
  OBVIOUS
<1> QED
  BY <1>1 DEF BitsUpTo

\* The writes of delete_invalid_inodes leave what FileSystem's step does, but
\* for the inodes in the slots that are free now.
LEMMA CollectSafe ==
    ASSUME Consistent(fs), NEW s \in ByNumber(Expired),
           NEW k, Held(fs, k), DOMAIN k \cap Expired = {}
    PROVE  LET ws == CollectWrites(s)
               e  == Apply(fs, ws)
           IN /\ ws \in Seq(Writes)
              /\ Safe(fs, ws, k)
              /\ Consistent(e)
              /\ Live(e) = Live(Collected(fs))
              /\ e = [Collected(fs) EXCEPT !.inodes = fs.inodes]
<1> DEFINE ws == CollectWrites(s)
           e == Apply(fs, ws)
           c == Len(s)
           x == Collected(fs)
<1>1. /\ fs \in FileSystem /\ Expired \in SUBSET Live(fs)
  BY DEF Consistent, Expired
<1>2. /\ c \in Nat /\ s \in Seq(Expired)
      /\ {s[j] : j \in 1 .. c} = Expired
  BY <1>1, LiveIsFinite, ByNumberHasAll
<1>3. ASSUME NEW i \in 1 .. 2 * c
      PROVE  /\ ws[i] \in Writes
             /\ IF i % 2 = 1
                THEN /\ ws[i].part = "at"
                     /\ ws[i].value = fs.at \ BitsUpTo(s, i \div 2 + 1)
                ELSE /\ ws[i].part = "it"
                     /\ ws[i].value = fs.it \ {s[j] : j \in 1 .. (i \div 2)}
  BY <1>1, <1>2 DEF CollectWrites, Write, Writes, FileSystem
<1>4. ws \in Seq(Writes) /\ Len(ws) = 2 * c
  <2>1. 2 * c \in Nat
    BY <1>2
  <2>2. ws = [i \in 1 .. 2 * c |-> ws[i]]
    BY DEF CollectWrites
  <2> HIDE DEF ws, c
  <2>3. ws \in [1 .. 2 * c -> Writes]
    BY <1>3, <2>2
  <2> QED
    BY <2>1, <2>3
<1> HIDE DEF ws
<1>5. Takes(ws, fs, Expired)
  <2> SUFFICES ASSUME NEW i \in 1 .. 2 * c, ws[i].part # "at"
               PROVE  /\ ws[i].part = "it"
                      /\ \E X \in SUBSET Expired : ws[i].value = fs.it \ X
    BY <1>4 DEF Takes
  <2> DEFINE X == {s[j] : j \in 1 .. (i \div 2)}
  <2>1. ws[i].part = "it" /\ ws[i].value = fs.it \ X
    BY <1>3
  <2>2. \A j \in 1 .. (i \div 2) : j \in 1 .. c
    BY <1>2
  <2>3. X \in SUBSET Expired
    BY <1>2, <2>2
  <2> QED
    BY <2>1, <2>3
<1>6. Safe(fs, ws, k)
  BY <1>1, <1>4, <1>5, SafeTakes, ConsistentIsRecoverable
<1>7. NoneTo(ws, "inodes") /\ NoneTo(ws, "inode_block_size")
  BY <1>5 DEF Takes, NoneTo
<1>8. /\ e.inodes = fs.inodes /\ e.inode_block_size = fs.inode_block_size
  BY <1>4, <1>7, LatestIsNot DEF Apply
<1>9. /\ e.at = fs.at \ UNION {Bits(fs.inodes[n]) : n \in Expired}
      /\ e.it = fs.it \ Expired
  <2>1. CASE c = 0
    <3>1. Expired = {}
      BY <1>2, <2>1
    <3>2. NoneTo(ws, "at") /\ NoneTo(ws, "it")
      BY <1>4, <2>1 DEF NoneTo
    <3>3. e.at = fs.at /\ e.it = fs.it
      BY <1>4, <3>2, LatestIsNot DEF Apply
    <3> QED
      BY <3>1, <3>3
  <2>2. CASE c # 0
    <3>1. /\ 2 * c \in 1 .. 2 * c /\ 2 * c - 1 \in 1 .. 2 * c
          /\ (2 * c) % 2 = 0 /\ (2 * c - 1) % 2 = 1
          /\ (2 * c) \div 2 = c /\ (2 * c - 1) \div 2 + 1 = c
          /\ \A j \in 1 .. 2 * c : j > 2 * c - 1 => j = 2 * c
      <4>1. c \in Nat /\ c >= 1
        BY <1>2, <2>2
      <4> HIDE DEF c
      <4>2. (2 * c) \div 2 = c /\ (2 * c) % 2 = 0
        BY <4>1
      <4>3. (2 * c - 1) \div 2 = c - 1 /\ (2 * c - 1) % 2 = 1
        BY <4>1
      <4> QED
        BY <4>1, <4>2, <4>3
    <3>2. /\ ws[2 * c].part = "it"
          /\ ws[2 * c].value = fs.it \ {s[j] : j \in 1 .. c}
      BY <1>3, <3>1
    <3>3. /\ ws[2 * c - 1].part = "at"
          /\ ws[2 * c - 1].value = fs.at \ BitsUpTo(s, c)
      BY <1>3, <3>1
    <3>4. LastTo(ws, "it", 2 * c) /\ LastTo(ws, "at", 2 * c - 1)
      BY <1>2, <1>4, <3>1, <3>2, <3>3 DEF LastTo
    <3>5. e.it = ws[2 * c].value /\ e.at = ws[2 * c - 1].value
      BY <1>4, <3>4, LatestIs DEF Apply
    <3>6. BitsUpTo(s, c) = UNION {Bits(fs.inodes[n]) : n \in Expired}
      BY <1>2, BitsOfAll
    <3> QED
      BY <1>2, <3>2, <3>3, <3>5, <3>6
  <2> QED
    BY <2>1, <2>2
<1>10. e \in FileSystem
  BY <1>1, <1>4, ApplyTyped
<1> HIDE DEF e
<1>11. /\ x.at = e.at /\ x.it = e.it /\ x.inode_block_size = e.inode_block_size
       /\ x \in FileSystem /\ Consistent(x) /\ Live(x) = Live(fs) \ Expired
       /\ \A n \in Live(x) : x.inodes[n] = fs.inodes[n]
  <2>1. /\ Consistent(x) /\ Live(x) = Live(fs) \ Expired
        /\ \A n \in Live(x) : x.inodes[n] = fs.inodes[n]
    BY CollectedConsistent DEF Expired
  <2>2. /\ x.at = e.at /\ x.it = e.it /\ x.inode_block_size = e.inode_block_size
    BY <1>1, <1>8, <1>9 DEF Collected, Expired, FileSystem
  <2> QED
    BY <2>1, <2>2 DEF Consistent
<1> HIDE DEF x
<1>12. Consistent(e) /\ Live(e) = Live(x)
  BY <1>8, <1>10, <1>11, SameLiveConsistent
<1>13. e = [x EXCEPT !.inodes = fs.inodes]
  BY <1>8, <1>10, <1>11 DEF FileSystem
<1> QED
  BY <1>4, <1>6, <1>12, <1>13 DEF ws, e, x

\* restore_fs makes a consistent disk of each recoverable one, and may itself
\* be cut off at any of its writes.
LEMMA RestoreSafe ==
    ASSUME RestoreAligned, Recoverable(fs), NEW s \in ByNumber(Live(fs)),
           NEW k, Held(fs, k)
    PROVE  LET ws == RestoreWrites(s)
               e  == Apply(fs, ws)
           IN /\ ws \in Seq(Writes) /\ ws # <<>>
              /\ Safe(fs, ws, k)
              /\ Consistent(e)
              /\ e = Restored(fs)
              /\ Live(e) = Live(fs)
<1> DEFINE ws == RestoreWrites(s)
           e == Apply(fs, ws)
           c == Len(s)
<1>1. /\ fs \in FileSystem
      /\ c \in Nat /\ s \in Seq(Live(fs))
      /\ {s[j] : j \in 1 .. c} = Live(fs)
  BY LiveIsFinite, ByNumberHasAll DEF Recoverable
<1>2. /\ PartialByte \subseteq Metadata(fs)
      /\ Metadata(fs) \subseteq 0 .. (SectorCount - 1)
  BY <1>1, LayoutAssumption
  DEF PartialByte, Metadata, Run, MetadataSize, RestoreAligned, Recoverable,
      MetadataInside, FileSystem
<1>3. \A n \in Live(fs) : Bits(fs.inodes[n]) \subseteq 0 .. (SectorCount - 1)
  <2>1. MetadataSize(fs) \in Nat
    BY <1>1, LayoutAssumption DEF MetadataSize, FileSystem
  <2>2. DataBits(fs) \subseteq 0 .. (SectorCount - 1)
    BY <2>1, LayoutAssumption DEF DataBits
  <2> QED
    BY <2>2 DEF Recoverable, BundlesApart
<1>4. ASSUME NEW i \in 1 .. (c + 1)
      PROVE  /\ ws[i].part = "at"
             /\ ws[i].value = PartialByte \cup Metadata(fs) \cup BitsUpTo(s, i - 1)
             /\ ws[i] \in Writes
  <2>1. ws[i] = Write("at", PartialByte \cup Metadata(fs) \cup BitsUpTo(s, i - 1))
    BY DEF RestoreWrites
  <2>2. \A j \in 1 .. (i - 1) : s[j] \in Live(fs)
    BY <1>1
  <2>3. BitsUpTo(s, i - 1) \subseteq 0 .. (SectorCount - 1)
    BY <1>3, <2>2 DEF BitsUpTo
  <2> QED
    BY <1>2, <2>1, <2>3 DEF Write, Writes
<1>5. ws \in Seq(Writes) /\ Len(ws) = c + 1
  <2>1. ws = [i \in 1 .. (c + 1) |-> ws[i]]
    BY DEF RestoreWrites
  <2> HIDE DEF ws, c
  <2>2. ws \in [1 .. (c + 1) -> Writes] /\ c + 1 \in Nat
    BY <1>1, <1>4, <2>1
  <2> QED
    BY <2>2
<1> HIDE DEF ws
<1>6. Safe(fs, ws, k)
  <2>1. Takes(ws, fs, {})
    BY <1>4, <1>5 DEF Takes
  <2>2. {} \in SUBSET Live(fs) /\ DOMAIN k \cap {} = {}
    OBVIOUS
  <2> QED
    BY <1>5, <2>1, <2>2, SafeTakes
<1>7. /\ NoneTo(ws, "it") /\ NoneTo(ws, "inodes")
      /\ NoneTo(ws, "inode_block_size")
  BY <1>4, <1>5 DEF NoneTo
<1>8. /\ e.it = fs.it /\ e.inodes = fs.inodes
      /\ e.inode_block_size = fs.inode_block_size
  BY <1>5, <1>7, LatestIsNot DEF Apply
<1>9. e.at = PartialByte \cup Metadata(fs) \cup LiveBits(fs)
  <2>1. c + 1 \in 1 .. (c + 1) /\ (c + 1) - 1 = c
    BY <1>1
  <2>2. LastTo(ws, "at", c + 1)
    BY <1>1, <1>4, <1>5, <2>1 DEF LastTo
  <2>3. e.at = ws[c + 1].value
    BY <1>5, <2>2, LatestIs DEF Apply
  <2>4. ws[c + 1].value = PartialByte \cup Metadata(fs) \cup BitsUpTo(s, c)
    BY <1>4, <2>1
  <2>5. BitsUpTo(s, c) = LiveBits(fs)
    BY <1>1, BitsOfAll DEF LiveBits
  <2> QED
    BY <2>3, <2>4, <2>5
<1>10. e \in FileSystem
  BY <1>1, <1>5, ApplyTyped
<1> HIDE DEF e
<1>11. Recoverable(e) /\ Live(e) = Live(fs)
  BY <1>8, <1>10, OtherTable
<1>12. TableExact(e)
  <2>1. Metadata(e) = Metadata(fs) /\ LiveBits(e) = LiveBits(fs)
    BY <1>8, <1>11 DEF Metadata, MetadataSize, LiveBits
  <2> QED
    BY <1>2, <1>9, <2>1 DEF TableExact
<1>13. e = Restored(fs)
  BY <1>1, <1>8, <1>9, <1>10 DEF Restored, FileSystem
<1>14. ws # <<>>
  BY <1>1, <1>5
<1> QED
  BY <1>5, <1>6, <1>11, <1>12, <1>13, <1>14, ConsistentIsRecoverable DEF ws, e

\* The growth that fs_create may begin with.
LEMMA GrowthSafe ==
    ASSUME InodesUncut, Consistent(fs), NEW k, Held(fs, k)
    PROVE  /\ GrowthWrites \in Seq(Writes)
           /\ Safe(fs, GrowthWrites, k)
           /\ Apply(fs, GrowthWrites) = ResizeInodeBlock(fs)
<1>1. CASE ~HasFreeInode(fs) /\ CanGrow(fs)
  BY <1>1, GrowSafe DEF GrowthWrites, ResizeInodeBlock
<1>2. CASE ~(~HasFreeInode(fs) /\ CanGrow(fs))
  <2>1. GrowthWrites = <<>> /\ ResizeInodeBlock(fs) = fs
    BY <1>2, Zenon DEF GrowthWrites, ResizeInodeBlock
  <2>2. fs \in FileSystem /\ Recoverable(fs) /\ <<>> \in Seq(Writes)
    BY ConsistentIsRecoverable DEF Consistent
  <2> QED
    BY <2>1, <2>2, SafeNone, ApplyNone
<1> QED
  BY <1>1, <1>2

\* The eviction that may follow it.
LEMMA EvictionSafe ==
    ASSUME NEW d, Consistent(d), NEW size,
           NEW k, Held(d, k), DOMAIN k \cap Victims(d, size) = {}
    PROVE  LET ws == EvictionWrites(d, size)
               e  == Apply(d, ws)
           IN /\ ws \in Seq(Writes)
              /\ Safe(d, ws, k)
              /\ Consistent(e)
              /\ HasFreeInode(d) => HasFreeInode(e)
<1>1. CASE Victims(d, size) = {}
  <2>1. EvictionWrites(d, size) = <<>>
    BY <1>1 DEF EvictionWrites
  <2>2. d \in FileSystem /\ Recoverable(d) /\ <<>> \in Seq(Writes)
    BY ConsistentIsRecoverable DEF Consistent
  <2> QED
    BY <2>1, <2>2, SafeNone, ApplyNone
<1>2. CASE Victims(d, size) # {}
  <2> DEFINE n == Least(Expendable(d, size))
             ws == DeleteWrites(d, d.inodes[n])
             e == Apply(d, ws)
             x == Deleted(d, d.inodes[n])
  <2>1. Victims(d, size) = {n} /\ Expendable(d, size) # {}
    BY <1>2 DEF Victims
  <2>2. n \in Live(d) /\ n \in Nat
    BY <2>1, FirstExpendable DEF Live, Consistent, FileSystem, InodeNumbers
  <2> HIDE DEF n
  <2>3. Least({n}) = n
    BY <2>2, LeastInSet
  <2>4. EvictionWrites(d, size) = ws
    BY <1>2, <2>1, <2>3 DEF EvictionWrites
  <2>5. /\ ws \in Seq(Writes) /\ Safe(d, ws, k) /\ Consistent(e)
        /\ e = [x EXCEPT !.inodes = d.inodes]
    BY <2>1, <2>2, DeleteSafe
  <2>6. HasFreeInode(x) /\ x \in FileSystem
    BY <2>2, DeletedHasFreeInode, DeletedConsistent DEF Consistent
  <2>7. e.it = x.it
    <3> HIDE DEF x, e
    <3> QED
      BY <2>5, <2>6 DEF FileSystem
  <2>8. HasFreeInode(e)
    BY <2>6, <2>7 DEF HasFreeInode
  <2> QED
    BY <2>4, <2>5, <2>8
<1> QED
  BY <1>1, <1>2

-----------------------------------------------------------------------------
(* The invariant.                                                          *)

\* A call that begins with safe writes keeps the invariant.
LEMMA BeginInv ==
    ASSUME PowerInv, Ready, NEW call, NEW ws \in Seq(Writes), NEW f, NEW gone,
           NEW code,
           Begin(call, ws, f, gone, code),
           Safe(fs, ws, [n \in DOMAIN kept \ gone |-> kept[n]]),
           Consistent(Apply(fs, ws)),
           f # NoInode => /\ ws # <<>>
                          /\ f.inode_offset \in Live(Apply(fs, ws))
                          /\ Apply(fs, ws).inodes[f.inode_offset] = f
    PROVE  PowerInv'
<1>1. /\ fs' = fs /\ writes' = ws /\ power' = "up" /\ created' = f
      /\ kept' = [n \in DOMAIN kept \ gone |-> kept[n]]
  BY DEF Begin, Ready
<1>2. Safe(fs', writes', kept') /\ Final' = Apply(fs, ws)
  BY <1>1 DEF Final
<1> QED
  BY <1>1, <1>2 DEF PowerInv

\* When calls are accepted the disk is consistent and has what the agent
\* relies on.
LEMMA ReadyIsConsistent ==
    ASSUME PowerInv, Ready
    PROVE  /\ Consistent(fs) /\ Held(fs, kept)
           /\ \A gone : Held(fs, [n \in DOMAIN kept \ gone |-> kept[n]])
<1>1. /\ Consistent(fs) /\ Safe(fs, <<>>, kept) /\ <<>> \in Seq(Writes)
      /\ fs \in FileSystem
  BY ApplyNone DEF PowerInv, Ready, Final
<1>2. Held(fs, kept)
  BY <1>1, SafeEnds, ApplyNone
<1> QED
  BY <1>1, <1>2 DEF Held

\* fs_create: growth, eviction and the new bundle, or a part of them.
LEMMA BeginCreateInv ==
    ASSUME InodesUncut, PowerInv, Ready,
           NEW size \in Sizes, NEW ttl \in TTLs, NEW custody \in BOOLEAN,
           BeginCreate(size, ttl, custody)
    PROVE  PowerInv'
<1> DEFINE g == GrowthWrites
           d == Apply(fs, g)
           v == EvictionWrites(d, size)
           ws == g \o v
           e == Apply(fs, ws)
           f == NewInode(e, size, ttl, custody)
           k == [n \in DOMAIN kept \ Victims(d, size) |-> kept[n]]
           p == PlaceWrites(e, f)
<1>1. Consistent(fs) /\ Held(fs, k)
  BY ReadyIsConsistent
<1>2. /\ g \in Seq(Writes) /\ Safe(fs, g, k) /\ d = ResizeInodeBlock(fs)
  BY <1>1, GrowthSafe
<1>3. Consistent(d) /\ Held(d, k)
  BY <1>1, <1>2, ResizedConsistent, SafeEnds
<1>4. DOMAIN k \cap Victims(d, size) = {}
  OBVIOUS
<1> HIDE DEF g, d, k
<1>5. /\ v \in Seq(Writes) /\ Safe(d, v, k) /\ Consistent(Apply(d, v))
      /\ HasFreeInode(d) => HasFreeInode(Apply(d, v))
  BY <1>3, <1>4, EvictionSafe
<1> HIDE DEF v
<1>6. ws \in Seq(Writes) /\ Safe(fs, ws, k) /\ e = Apply(d, v)
  BY <1>2, <1>5, SafeConcat, ApplyConcat, ConcatProperties DEF d
<1> HIDE DEF ws
<1>7. Consistent(e) /\ Held(e, k) /\ (HasFreeInode(d) => HasFreeInode(e))
  BY <1>5, <1>6, SafeEnds
<1>8. IF HasFreeInode(d) /\ Fits(e, size)
      THEN Begin("fs_create", ws \o p, f, Victims(d, size), "FS_OK")
      ELSE Begin("fs_create", ws, NoInode, Victims(d, size), "FS_FULL")
  BY DEF BeginCreate, g, d, v, ws
<1> HIDE DEF e
<1>9. CASE HasFreeInode(d) /\ Fits(e, size)
  <2>1. /\ f \in Inode /\ Bits(f) \subseteq 0 .. (SectorCount - 1)
        /\ Bits(f) \cap e.at = {} /\ f.inode_offset \notin e.it
    BY <1>7, <1>9, NewInodeFits
  <2> HIDE DEF f
  <2>2. p \in Seq(Writes) /\ Safe(e, p, k) /\ Apply(e, p) = Placed(e, f)
    BY <1>7, <2>1, PlaceSafe
  <2>3. /\ Consistent(Placed(e, f))
        /\ f.inode_offset \in Live(Placed(e, f))
        /\ Placed(e, f).inodes[f.inode_offset] = f
    BY <1>7, <2>1, PlacedConsistent
  <2>4. p # <<>>
    BY DEF PlaceWrites
  <2> HIDE DEF p
  <2> DEFINE all == ws \o p
  <2>5. /\ all \in Seq(Writes) /\ all # <<>>
    BY <1>6, <2>2, <2>4, ConcatProperties
  <2>6. Safe(fs, all, k) /\ Apply(fs, all) = Placed(e, f)
    BY <1>6, <2>2, SafeConcat, ApplyConcat DEF e
  <2>7. Begin("fs_create", all, f, Victims(d, size), "FS_OK")
    BY <1>8, <1>9
  <2> HIDE DEF all
  <2> QED
    BY <2>3, <2>5, <2>6, <2>7, BeginInv DEF k
<1>10. CASE ~(HasFreeInode(d) /\ Fits(e, size))
  <2>1. Begin("fs_create", ws, NoInode, Victims(d, size), "FS_FULL")
    BY <1>8, <1>10
  <2> QED
    BY <1>6, <1>7, <2>1, BeginInv DEF k, e
<1> QED
  BY <1>9, <1>10

\* The other calls.
LEMMA BeginOthersInv ==
    ASSUME RestoreAligned, PowerInv, Ready,
           \/ \E n \in Live(fs) : BeginDelete(n)
           \/ \E n \in Live(fs), ttl \in TTLs, custody \in BOOLEAN :
                BeginClose(n, ttl, custody)
           \/ BeginCollect
           \/ BeginRestore
    PROVE  PowerInv'
<1> DEFINE K(gone) == [n \in DOMAIN kept \ gone |-> kept[n]]
<1>1. /\ Consistent(fs) /\ Recoverable(fs)
      /\ \A gone : Held(fs, K(gone)) /\ DOMAIN K(gone) \cap gone = {}
  BY ReadyIsConsistent, ConsistentIsRecoverable
<1>2. ASSUME NEW n \in Live(fs), BeginDelete(n)
      PROVE  PowerInv'
  <2> DEFINE ws == DeleteWrites(fs, fs.inodes[n])
  <2>1. n \notin DOMAIN K({n})
    BY <1>1
  <2>2. Held(fs, K({n}))
    BY <1>1
  <2>3. Begin("fs_delete", ws, NoInode, {n}, "FS_OK")
    BY <1>2 DEF BeginDelete
  <2>4. ws \in Seq(Writes) /\ Safe(fs, ws, K({n})) /\ Consistent(Apply(fs, ws))
    <3> HIDE DEF K
    <3> QED
      BY <1>1, <2>1, <2>2, DeleteSafe
  <2> HIDE DEF ws
  <2> QED
    BY <2>3, <2>4, BeginInv
<1>3. ASSUME NEW n \in Live(fs), NEW ttl \in TTLs, NEW custody \in BOOLEAN,
             BeginClose(n, ttl, custody)
      PROVE  PowerInv'
  <2> DEFINE f == [fs.inodes[n] EXCEPT !.custody = custody,
                                       !.time_to_live = ttl]
             ws == <<Write("inodes", [fs.inodes EXCEPT ![n] = f])>>
  <2>1. /\ fs.inodes[n] \in Inode /\ fs.inodes[n].inode_offset = n
        /\ n \in InodeNumbers /\ fs \in FileSystem
    BY <1>1 DEF Consistent, LiveInodesNamed, Live, FileSystem
  <2>2. /\ f \in Inode /\ f.inode_offset = n /\ f.size = fs.inodes[n].size
        /\ f.location = fs.inodes[n].location
    BY <2>1 DEF Inode
  <2>3. [fs.inodes EXCEPT ![n].custody = custody, ![n].time_to_live = ttl]
          = [fs.inodes EXCEPT ![n] = f]
    BY <2>1 DEF FileSystem, Inode
  <2>4. Begin("fs_close", ws, NoInode, {}, "FS_OK")
    BY <1>3, <2>3 DEF BeginClose
  <2> HIDE DEF f
  <2>5. ws \in Seq(Writes) /\ Safe(fs, ws, K({})) /\ Apply(fs, ws) = Written(fs, f)
    <3>1. Held(fs, K({}))
      BY <1>1
    <3> HIDE DEF K
    <3> QED
      BY <1>1, <2>2, <3>1, CloseSafe
  <2>6. Consistent(Written(fs, f))
    BY <1>1, <2>2, WrittenConsistent
  <2> HIDE DEF ws
  <2> QED
    BY <2>4, <2>5, <2>6, BeginInv
<1>4. CASE BeginCollect
  <2>1. PICK s \in ByNumber(Expired) :
          Begin("delete_invalid_inodes", CollectWrites(s), NoInode, Expired, "FS_OK")
    BY <1>4 DEF BeginCollect
  <2> DEFINE ws == CollectWrites(s)
  <2>2. Held(fs, K(Expired)) /\ DOMAIN K(Expired) \cap Expired = {}
    BY <1>1
  <2>3. /\ ws \in Seq(Writes) /\ Safe(fs, ws, K(Expired))
        /\ Consistent(Apply(fs, ws))
    <3> HIDE DEF K
    <3> QED
      BY <1>1, <2>2, CollectSafe
  <2> HIDE DEF ws
  <2> QED
    BY <2>1, <2>3, BeginInv DEF ws
<1>5. CASE BeginRestore
  <2>1. PICK s \in ByNumber(Live(fs)) :
          Begin("restore_fs", RestoreWrites(s), NoInode, {}, "FS_OK")
    BY <1>5 DEF BeginRestore
  <2> DEFINE ws == RestoreWrites(s)
  <2>2. Held(fs, K({}))
    BY <1>1
  <2>3. /\ ws \in Seq(Writes) /\ Safe(fs, ws, K({}))
        /\ Consistent(Apply(fs, ws))
    <3> HIDE DEF K
    <3> QED
      BY <1>1, <2>2, RestoreSafe
  <2> HIDE DEF ws
  <2> QED
    BY <2>1, <2>3, BeginInv DEF ws
<1> QED
  BY <1>2, <1>3, <1>4, <1>5

\* The disk at any moment of a call.
LEMMA NowIsSafe ==
    ASSUME PowerInv
    PROVE  /\ Held(fs, kept)
           /\ MayStop(writes, 0) => Recoverable(fs)
<1>1. SubSeq(writes, 1, 0) = <<>>
  BY SubSeqEmpty
<1>2. After(fs, writes, 0) = fs
  BY <1>1, ApplyNone DEF After, PowerInv
<1>3. 0 \in 0 .. Len(writes)
  BY DEF PowerInv
<1> QED
  BY <1>2, <1>3 DEF PowerInv, Safe

\* Each write leaves the rest of the call; the last one adds what fs_create
\* has created to what the agent relies on.
LEMMA DiskWriteInv ==
    ASSUME PowerInv, DiskWrite
    PROVE  PowerInv'
<1> DEFINE e == Apply(fs, <<Head(writes)>>)
           t == Tail(writes)
<1>1. /\ writes \in Seq(Writes) /\ writes # <<>> /\ power # "down"
      /\ fs' = e /\ writes' = t
      /\ fs \in FileSystem /\ Safe(fs, writes, kept) /\ Consistent(Final)
  BY DEF DiskWrite, PowerInv
<1>2. t \in Seq(Writes) /\ Safe(e, t, kept) /\ Apply(e, t) = Final
  BY <1>1, SafeTail DEF Final
<1>3. e \in FileSystem
  <2>1. <<Head(writes)>> \in Seq(Writes)
    BY <1>1, HeadTailProperties
  <2> QED
    BY <1>1, <2>1, ApplyTyped
<1> HIDE DEF e, t
<1>4. Final' = Final
  BY <1>1, <1>2 DEF Final
<1>5. CASE t # <<>>
  <2>1. UNCHANGED <<power, created, kept>>
    BY <1>1, <1>5 DEF DiskWrite
  <2> QED
    BY <1>1, <1>2, <1>3, <1>4, <1>5, <2>1 DEF PowerInv
<1>6. CASE t = <<>>
  <2>1. /\ power' = "up" /\ created' = NoInode
        /\ kept' = IF created = NoInode THEN kept
                   ELSE [n \in DOMAIN kept \cup {created.inode_offset} |->
                           IF n = created.inode_offset THEN created ELSE kept[n]]
    BY <1>1, <1>6 DEF DiskWrite
  <2>2. e = Final /\ Held(e, kept) /\ Recoverable(e)
    <3>1. Apply(e, t) = e
      BY <1>3, <1>6, ApplyNone
    <3>2. Held(e, kept)
      BY <1>2, <3>1, SafeEnds
    <3> QED
      BY <1>1, <1>2, <3>1, <3>2, ConsistentIsRecoverable
  <2>3. Held(e, kept')
    <3>1. CASE created = NoInode
      BY <2>1, <2>2, <3>1
    <3>2. CASE created # NoInode
      <4>1. /\ created.inode_offset \in Live(e)
            /\ e.inodes[created.inode_offset] = created
        BY <2>2, <3>2 DEF PowerInv
      <4> QED
        BY <2>1, <2>2, <3>2, <4>1 DEF Held
    <3> QED
      BY <3>1, <3>2
  <2>4. Safe(e, <<>>, kept')
    BY <1>3, <2>2, <2>3, SafeNone
  <2> QED
    BY <1>1, <1>2, <1>3, <1>4, <1>6, <2>1, <2>4 DEF PowerInv
<1> QED
  BY <1>5, <1>6

\* A failure leaves what restore_fs can repair.
LEMMA PowerFailsInv ==
    ASSUME PowerInv, PowerFails
    PROVE  PowerInv'
<1>1. /\ writes \in Seq(Writes) /\ writes # <<>> /\ fs \in FileSystem
      /\ Head(writes).part \notin Uncut
      /\ fs' = fs /\ kept' = kept /\ writes' = <<>> /\ power' = "down"
      /\ created' = NoInode /\ <<>> \in Seq(Writes)
  BY DEF PowerInv, PowerFails
<1>2. MayStop(writes, 0)
  <2>1. writes[0 + 1] = Head(writes)
    BY <1>1
  <2> QED
    BY <1>1, <2>1 DEF MayStop
<1>3. Safe(fs, <<>>, kept)
  BY <1>1, <1>2, NowIsSafe, SafeNone
<1> QED
  BY <1>1, <1>3 DEF PowerInv

\* The repair begins.
LEMMA RestartInv ==
    ASSUME RestoreAligned, PowerInv, Restart
    PROVE  PowerInv'
<1>1. /\ power = "down" /\ writes = <<>> /\ fs \in FileSystem
      /\ fs' = fs /\ kept' = kept /\ created' = created
      /\ power' = "restoring" /\ created = NoInode
  BY DEF PowerInv, Restart
<1>2. PICK s \in ByNumber(Live(fs)) : writes' = RestoreWrites(s)
  BY DEF Restart
<1>3. Recoverable(fs) /\ Held(fs, kept)
  <2>1. MayStop(writes, 0)
    BY <1>1 DEF MayStop
  <2> QED
    BY <2>1, NowIsSafe
<1>4. /\ writes' \in Seq(Writes) /\ Safe(fs, writes', kept)
      /\ Consistent(Apply(fs, writes'))
  BY <1>2, <1>3, RestoreSafe
<1> QED
  BY <1>1, <1>4 DEF PowerInv, Final

\* A formatted disk, and no call.
LEMMA PowerInitInv == PowerInit => PowerInv
<1> SUFFICES ASSUME PowerInit PROVE PowerInv
  OBVIOUS
<1>1. Consistent(fs) /\ fs \in FileSystem /\ Recoverable(fs)
  BY InitInv, ConsistentIsRecoverable DEF PowerInit, Inv, Consistent
<1>2. Held(fs, kept)
  BY DEF PowerInit, Held
<1>3. Safe(fs, <<>>, kept) /\ Apply(fs, <<>>) = fs
  BY <1>1, <1>2, SafeNone, ApplyNone
<1> QED
  BY <1>1, <1>3 DEF PowerInit, PowerInv, Final

\* Every step keeps the invariant.
LEMMA PowerNextInv ==
    ASSUME RestoreAligned, InodesUncut, PowerInv, [PowerNext]_powerVars
    PROVE  PowerInv'
<1>1. CASE Calls
  BY <1>1, BeginCreateInv, BeginOthersInv DEF Calls
<1>2. CASE PowerTick
  <2>1. UNCHANGED <<fs, writes, power, created, kept>>
    BY <1>2 DEF PowerTick, Tick
  <2> QED
    BY <2>1 DEF PowerInv, Final
<1>3. CASE UNCHANGED powerVars
  BY <1>3 DEF powerVars, PowerInv, Final
<1> QED
  BY <1>1, <1>2, <1>3, DiskWriteInv, PowerFailsInv, RestartInv DEF PowerNext

\* The invariant holds at every write of every call, however often the power
\* fails, as long as it never does so right before the write of an inode or of a
\* grown superblock (InodesUncut).  The same goes for the theorems below.
THEOREM PowerInvariance ==
    ASSUME RestoreAligned, InodesUncut PROVE PowerSpec => []PowerInv
<1>1. PowerInit => PowerInv
  BY PowerInitInv
<1>2. PowerInv /\ [PowerNext]_powerVars => PowerInv'
  BY PowerNextInv
<1> QED
  BY <1>1, <1>2, PTL DEF PowerSpec

\* No failure of power that InodesUncut allows, and no recovery, takes a bundle
\* away that the agent relies on, or moves it.
THEOREM BundlesSurvivePowerLoss ==
    ASSUME RestoreAligned, InodesUncut PROVE PowerSpec => []KeptBundlesSurvive
<1>1. PowerInv => KeptBundlesSurvive
  BY NowIsSafe DEF Held, KeptBundlesSurvive
<1> QED
  BY <1>1, PowerInvariance, PTL

\* Whenever calls are accepted the tables are exact and no sector has two
\* owners, also after a repair and after the repair of a repair, if the failures
\* were those that InodesUncut allows.
THEOREM RecoveryIsComplete ==
    ASSUME RestoreAligned, InodesUncut
    PROVE  PowerSpec => []RecoveredIsConsistent
<1>1. PowerInv => RecoveredIsConsistent
  <2> SUFFICES ASSUME PowerInv, Ready
               PROVE  LiveSectorsMarked /\ NoLeakedSector /\ ExtentsDisjoint
    BY DEF RecoveredIsConsistent
  <2>1. Consistent(fs)
    BY ReadyIsConsistent
  <2> QED
    BY <2>1, MetadataAndData
    DEF Consistent, TableExact, BundlesApart, LiveSectorsMarked, NoLeakedSector,
        ExtentsDisjoint
<1> QED
  BY <1>1, PowerInvariance, PTL

-----------------------------------------------------------------------------
(* While the power is up PowerLoss implements FileSystem: a call begins    *)
(* with writes that add up to FileSystem's step (CallsAreWhole), also on a *)
(* disk that failures and repairs have left, and each write takes one of   *)
(* them off the list.  What FileSystem sees of a disk is Seen(d), which    *)
(* has no inodes in free slots; the lemmas say that the helpers of a call  *)
(* do the same to it as to the disk.                                       *)

(* The helpers of FileSystem do not depend on the inodes in free slots.    *)

\* What Seen keeps of a disk.
LEMMA SeenKeeps ==
    ASSUME NEW d \in FileSystem
    PROVE  /\ Seen(d) \in FileSystem
           /\ Seen(d).at = d.at /\ Seen(d).it = d.it
           /\ Seen(d).inode_block_size = d.inode_block_size
           /\ \A n \in InodeNumbers :
                Seen(d).inodes[n] = IF n \in Live(d) THEN d.inodes[n]
                                    ELSE NoInode
<1> DEFINE t == [n \in InodeNumbers |-> IF n \in Live(d) THEN d.inodes[n]
                                        ELSE NoInode]
<1>1. t \in [InodeNumbers -> Inode \cup {NoInode}]
  <2>1. \A n \in InodeNumbers : d.inodes[n] \in Inode \cup {NoInode}
    BY DEF FileSystem
  <2> QED
    BY <2>1
<1>2. Seen(d) = [d EXCEPT !.inodes = t]
  BY DEF Seen
<1>3. \A n \in InodeNumbers : t[n] = IF n \in Live(d) THEN d.inodes[n]
                                     ELSE NoInode
  OBVIOUS
<1> HIDE DEF t
<1> QED
  BY <1>1, <1>2, <1>3 DEF FileSystem

\* The same inodes are live.
LEMMA SeenLive ==
    ASSUME NEW d \in FileSystem
    PROVE  /\ Live(Seen(d)) = Live(d)
           /\ \A n \in Live(d) : Seen(d).inodes[n] = d.inodes[n]
           /\ Live(d) \subseteq InodeNumbers
           /\ Metadata(Seen(d)) = Metadata(d)
           /\ LiveBits(Seen(d)) = LiveBits(d)
           /\ InodeMax(Seen(d)) = InodeMax(d)
           /\ MetadataSize(Seen(d)) = MetadataSize(d)
<1>1. /\ InodeMax(Seen(d)) = InodeMax(d)
      /\ MetadataSize(Seen(d)) = MetadataSize(d)
  BY SeenKeeps DEF InodeMax, MetadataSize
<1>2. Live(Seen(d)) = Live(d) /\ Metadata(Seen(d)) = Metadata(d)
  BY <1>1, SeenKeeps DEF Live, Metadata
<1>3. Live(d) \subseteq InodeNumbers
  BY DEF Live, FileSystem
<1>4. \A n \in Live(d) : Seen(d).inodes[n] = d.inodes[n]
  BY <1>3, SeenKeeps
<1>5. LiveBits(Seen(d)) = LiveBits(d)
  BY <1>2, <1>4 DEF LiveBits
<1> QED
  BY <1>1, <1>2, <1>3, <1>4, <1>5

\* A file system without inodes in free slots is what is seen of a disk that
\* has the same tables and live inodes.
LEMMA SeenIs ==
    ASSUME NEW d \in FileSystem, NEW e \in FileSystem,
           e.at = d.at, e.it = d.it, e.inode_block_size = d.inode_block_size,
           \A n \in InodeNumbers :
             e.inodes[n] = IF n \in Live(d) THEN d.inodes[n] ELSE NoInode
    PROVE  e = Seen(d)
<1>1. e.inodes = Seen(d).inodes
  <2>1. \A n \in InodeNumbers : e.inodes[n] = Seen(d).inodes[n]
    BY SeenKeeps
  <2>2. /\ e.inodes \in [InodeNumbers -> Inode \cup {NoInode}]
        /\ Seen(d).inodes \in [InodeNumbers -> Inode \cup {NoInode}]
    BY SeenKeeps DEF FileSystem
  <2> QED
    BY <2>1, <2>2
<1> QED
  BY <1>1, SeenKeeps DEF FileSystem

\* Two disks that differ in free slots only are seen as one.
LEMMA SeenAlike ==
    ASSUME NEW d \in FileSystem, NEW e \in FileSystem,
           e.at = d.at, e.it = d.it, e.inode_block_size = d.inode_block_size,
           \A n \in Live(d) : e.inodes[n] = d.inodes[n]
    PROVE  Seen(e) = Seen(d)
<1>1. Live(e) = Live(d)
  BY DEF Live, InodeMax
<1>2. \A n \in InodeNumbers :
        Seen(e).inodes[n] = IF n \in Live(d) THEN d.inodes[n] ELSE NoInode
  BY <1>1, SeenKeeps
<1> QED
  BY <1>2, SeenKeeps, SeenIs

\* The searches of fs_create give the same.
LEMMA SeenSearches ==
    ASSUME NEW d \in FileSystem
    PROVE  /\ HasFreeInode(Seen(d)) <=> HasFreeInode(d)
           /\ CanGrow(Seen(d)) <=> CanGrow(d)
           /\ \A size : /\ Fits(Seen(d), size) <=> Fits(d, size)
                        /\ Expendable(Seen(d), size) = Expendable(d, size)
           /\ \A size, ttl, custody :
                NewInode(Seen(d), size, ttl, custody)
                  = NewInode(d, size, ttl, custody)
<1>1. CanGrow(Seen(d)) <=> CanGrow(d)
  BY SeenKeeps, SeenLive DEF CanGrow, GrowthBit
<1>2. \A size : Expendable(Seen(d), size) = Expendable(d, size)
  BY SeenLive DEF Expendable
<1> QED
  BY <1>1, <1>2, SeenKeeps DEF HasFreeInode, Fits, NewInode

\* resize_inode_block.
LEMMA SeenResized ==
    ASSUME NEW d, Consistent(d)
    PROVE  ResizeInodeBlock(Seen(d)) = Seen(ResizeInodeBlock(d))
<1>1. d \in FileSystem
  BY DEF Consistent
<1>2. CASE ~(~HasFreeInode(d) /\ CanGrow(d))
  BY <1>1, <1>2, SeenSearches DEF ResizeInodeBlock
<1>3. CASE ~HasFreeInode(d) /\ CanGrow(d)
  <2> DEFINE g == Grown(d)
             s == Seen(d)
             e == Grown(s)
  <2>1. g \in FileSystem /\ Live(g) = Live(d) /\ g.inodes = d.inodes
    BY <1>3, GrownConsistent DEF Consistent
  <2>2. /\ g.at = WriteSeq(d.at, GrowthBit(d), 1)
        /\ g.it = DeleteSeq(d.it, InodeMax(d), InodeSec)
        /\ g.inode_block_size = d.inode_block_size + 1
    BY <1>1 DEF Grown, FileSystem
  <2>3. /\ s \in FileSystem /\ s.at = d.at /\ s.it = d.it
        /\ s.inode_block_size = d.inode_block_size
        /\ GrowthBit(s) = GrowthBit(d) /\ InodeMax(s) = InodeMax(d)
        /\ \A n \in InodeNumbers :
             s.inodes[n] = IF n \in Live(d) THEN d.inodes[n] ELSE NoInode
    BY <1>1, SeenKeeps, SeenLive DEF GrowthBit
  <2> HIDE DEF g, s
  <2>4. /\ e.at = WriteSeq(d.at, GrowthBit(d), 1)
        /\ e.it = DeleteSeq(d.it, InodeMax(d), InodeSec)
        /\ e.inodes = s.inodes
        /\ e.inode_block_size = d.inode_block_size + 1
    BY <2>3 DEF Grown, FileSystem
  <2>5. e.at = g.at /\ e.it = g.it /\ e.inode_block_size = g.inode_block_size
    BY <2>2, <2>4
  <2>6. e \in FileSystem
    <3>1. /\ WriteSeq(s.at, GrowthBit(s), 1) \in SUBSET (0 .. (SectorCount - 1))
          /\ DeleteSeq(s.it, InodeMax(s), InodeSec) \in SUBSET InodeNumbers
          /\ s.inode_block_size + 1 \in Nat
      BY <2>1, <2>2, <2>3 DEF FileSystem
    <3>2. ASSUME NEW a \in SUBSET (0 .. (SectorCount - 1)),
                 NEW t \in SUBSET InodeNumbers, NEW k \in Nat
          PROVE  [s EXCEPT !.at = a, !.it = t, !.inode_block_size = k]
                   \in FileSystem
      BY <2>3 DEF FileSystem
    <3> QED
      BY <3>1, <3>2, Zenon DEF Grown
  <2> HIDE DEF e
  <2>8. e = Seen(g)
    BY <2>1, <2>3, <2>4, <2>5, <2>6, SeenIs
  <2> QED
    BY <1>1, <1>3, <2>8, SeenSearches DEF ResizeInodeBlock, e, s, g
<1> QED
  BY <1>2, <1>3

\* fs_delete, which leaves the inode in its slot.
LEMMA SeenDeleted ==
    ASSUME NEW d, Consistent(d), NEW n \in Live(d)
    PROVE  Deleted(Seen(d), d.inodes[n])
             = Seen([Deleted(d, d.inodes[n]) EXCEPT !.inodes = d.inodes])
<1> DEFINE f == d.inodes[n]
           s == Seen(d)
           x == Deleted(d, f)
           y == [x EXCEPT !.inodes = d.inodes]
           e == Deleted(s, f)
           at == DeleteSeq(d.at, SectorCount - (f.location + Sectors(f.size)),
                           Sectors(f.size))
           it == DeleteSeq(d.it, n, 1)
<1>1. /\ d \in FileSystem /\ f.inode_offset = n /\ n \in InodeNumbers
  BY DEF Consistent, LiveInodesNamed, Live, FileSystem
<1>2. /\ x \in FileSystem /\ Live(x) = Live(d) \ {n}
  BY DeletedConsistent DEF Consistent
<1>3. x.at = at /\ x.it = it /\ x.inode_block_size = d.inode_block_size
  BY <1>1 DEF Deleted, FileSystem
<1>4. /\ s \in FileSystem /\ s.at = d.at /\ s.it = d.it
      /\ s.inode_block_size = d.inode_block_size
      /\ \A m \in InodeNumbers :
           s.inodes[m] = IF m \in Live(d) THEN d.inodes[m] ELSE NoInode
  BY <1>1, SeenKeeps
<1> HIDE DEF s, x, f
<1>5. /\ e.at = at /\ e.it = it
      /\ e.inode_block_size = d.inode_block_size
      /\ e.inodes = [s.inodes EXCEPT ![n] = NoInode]
  BY <1>1, <1>4 DEF Deleted, FileSystem
<1>6. /\ e.at = x.at /\ e.it = x.it
      /\ e.inode_block_size = x.inode_block_size
      /\ e.inodes = [s.inodes EXCEPT ![n] = NoInode]
  BY <1>3, <1>5
<1>7. s.inodes \in [InodeNumbers -> Inode \cup {NoInode}]
  BY <1>4 DEF FileSystem
<1>8. e \in FileSystem
  BY <1>1, <1>4 DEF FileSystem, Deleted, DeleteSeq
<1> HIDE DEF at, it, e
<1>9. /\ y \in FileSystem /\ y.at = x.at /\ y.it = x.it
      /\ y.inode_block_size = x.inode_block_size /\ y.inodes = d.inodes
  BY <1>1, <1>2 DEF FileSystem
<1> HIDE DEF y
<1>10. Live(y) = Live(d) \ {n}
  BY <1>2, <1>9 DEF Live, InodeMax
<1>11. \A m \in InodeNumbers :
         e.inodes[m] = IF m \in Live(y) THEN y.inodes[m] ELSE NoInode
  BY <1>4, <1>6, <1>7, <1>9, <1>10
<1>12. e = Seen(y)
  BY <1>6, <1>8, <1>9, <1>11, SeenIs
<1> QED
  BY <1>12 DEF e, y, x, s, f

\* The end of fs_create.
LEMMA SeenPlaced ==
    ASSUME NEW d, Consistent(d), NEW f \in Inode,
           Bits(f) \subseteq 0 .. (SectorCount - 1), Bits(f) \cap d.at = {},
           f.inode_offset \notin d.it
    PROVE  Placed(Seen(d), f) = Seen(Placed(d, f))
<1> DEFINE s == Seen(d)
           x == Placed(d, f)
           e == Placed(s, f)
           n == f.inode_offset
<1>1. d \in FileSystem /\ n \in InodeNumbers
  BY DEF Consistent, Inode
<1>2. /\ x \in FileSystem /\ Live(x) = Live(d) \cup {n}
  BY PlacedConsistent DEF Consistent
<1>3. /\ s \in FileSystem /\ s.at = d.at /\ s.it = d.it
      /\ s.inode_block_size = d.inode_block_size
      /\ \A m \in InodeNumbers :
           s.inodes[m] = IF m \in Live(d) THEN d.inodes[m] ELSE NoInode
  BY <1>1, SeenKeeps
<1>4. /\ x.at = d.at \cup Bits(f) /\ x.it = WriteSeq(d.it, n, 1)
      /\ x.inodes = [d.inodes EXCEPT ![n] = f]
      /\ x.inode_block_size = d.inode_block_size
  BY <1>1 DEF Placed, Written, FileSystem
<1> HIDE DEF s, x
<1>5. /\ e.at = x.at /\ e.it = x.it
      /\ e.inode_block_size = x.inode_block_size
      /\ e.inodes = [s.inodes EXCEPT ![n] = f]
  BY <1>3, <1>4 DEF Placed, Written, FileSystem
<1>6. Run(n, 1) = {n}
  BY <1>1 DEF Run, InodeNumbers
<1>7. /\ s.inodes \in [InodeNumbers -> Inode \cup {NoInode}]
      /\ d.inodes \in [InodeNumbers -> Inode \cup {NoInode}]
  BY <1>1, <1>3 DEF FileSystem
<1>8. e \in FileSystem
  BY <1>1, <1>3, <1>6 DEF FileSystem, Placed, Written, WriteSeq
<1> HIDE DEF e
<1>9. \A m \in InodeNumbers :
        e.inodes[m] = IF m \in Live(x) THEN x.inodes[m] ELSE NoInode
  BY <1>2, <1>3, <1>4, <1>5, <1>7
<1>10. e = Seen(x)
  BY <1>2, <1>5, <1>8, <1>9, SeenIs
<1> QED
  BY <1>10 DEF e, x, s

\* fs_close.
LEMMA SeenWritten ==
    ASSUME NEW d, Consistent(d), NEW n \in Live(d),
           NEW f \in Inode, f.inode_offset = n,
           f.size = d.inodes[n].size, f.location = d.inodes[n].location
    PROVE  Written(Seen(d), f) = Seen(Written(d, f))
<1> DEFINE s == Seen(d)
           x == Written(d, f)
           e == Written(s, f)
<1>1. d \in FileSystem /\ n \in InodeNumbers
  BY DEF Consistent, Inode
<1>2. /\ x \in FileSystem /\ Live(x) = Live(d)
  BY WrittenConsistent DEF Consistent
<1>3. /\ s \in FileSystem /\ s.at = d.at /\ s.it = d.it
      /\ s.inode_block_size = d.inode_block_size
      /\ \A m \in InodeNumbers :
           s.inodes[m] = IF m \in Live(d) THEN d.inodes[m] ELSE NoInode
  BY <1>1, SeenKeeps
<1>4. /\ x.at = d.at /\ x.it = d.it
      /\ x.inodes = [d.inodes EXCEPT ![n] = f]
      /\ x.inode_block_size = d.inode_block_size
  BY <1>1 DEF Written, FileSystem
<1> HIDE DEF s, x
<1>5. e = [at |-> s.at, it |-> s.it, inodes |-> [s.inodes EXCEPT ![n] = f],
           inode_block_size |-> s.inode_block_size]
  BY <1>3 DEF Written, FileSystem
<1>6. /\ e.at = x.at /\ e.it = x.it
      /\ e.inode_block_size = x.inode_block_size
      /\ e.inodes = [s.inodes EXCEPT ![n] = f]
  BY <1>3, <1>4, <1>5
<1>7. /\ s.inodes \in [InodeNumbers -> Inode \cup {NoInode}]
      /\ d.inodes \in [InodeNumbers -> Inode \cup {NoInode}]
  BY <1>1, <1>3 DEF FileSystem
<1>8. e \in FileSystem
  <2>1. [s.inodes EXCEPT ![n] = f] \in [InodeNumbers -> Inode \cup {NoInode}]
    BY <1>7
  <2> QED
    BY <1>3, <1>5, <2>1 DEF FileSystem
<1> HIDE DEF e
<1>9. \A m \in InodeNumbers :
        e.inodes[m] = IF m \in Live(x) THEN x.inodes[m] ELSE NoInode
  BY <1>2, <1>3, <1>4, <1>6, <1>7
<1>10. e = Seen(x)
  BY <1>2, <1>6, <1>8, <1>9, SeenIs
<1> QED
  BY <1>10 DEF e, x, s

\* delete_invalid_inodes, which leaves the inodes in their slots.
LEMMA SeenCollected ==
    ASSUME NEW d, Consistent(d)
    PROVE  Collected(Seen(d))
             = Seen([Collected(d) EXCEPT !.inodes = d.inodes])
<1> DEFINE s == Seen(d)
           x == Collected(d)
           y == [x EXCEPT !.inodes = d.inodes]
           e == Collected(s)
           gone == {n \in Live(d) : IsNotValid(d.inodes[n])}
<1>1. d \in FileSystem
  BY DEF Consistent
<1>2. x \in FileSystem /\ Live(x) = Live(d) \ gone
  BY CollectedConsistent DEF Consistent
<1>3. /\ s \in FileSystem /\ s.at = d.at /\ s.it = d.it
      /\ s.inode_block_size = d.inode_block_size
      /\ \A m \in InodeNumbers :
           s.inodes[m] = IF m \in Live(d) THEN d.inodes[m] ELSE NoInode
      /\ Live(s) = Live(d) /\ \A m \in Live(d) : s.inodes[m] = d.inodes[m]
  BY <1>1, SeenKeeps, SeenLive
<1>4. /\ x.at = d.at \ UNION {Bits(d.inodes[n]) : n \in gone}
      /\ x.it = d.it \ gone
      /\ x.inode_block_size = d.inode_block_size
  BY <1>1 DEF Collected, FileSystem
<1> HIDE DEF s, x
<1>5. {n \in Live(s) : IsNotValid(s.inodes[n])} = gone
  BY <1>3
<1>6. {Bits(s.inodes[n]) : n \in gone} = {Bits(d.inodes[n]) : n \in gone}
  BY <1>3
<1> HIDE DEF gone
<1> DEFINE t == [n \in InodeNumbers |-> IF n \in gone THEN NoInode
                                        ELSE s.inodes[n]]
<1>7. /\ e.at = s.at \ UNION {Bits(s.inodes[n]) : n \in gone}
      /\ e.it = s.it \ gone
      /\ e.inodes = t
      /\ e.inode_block_size = s.inode_block_size
  BY <1>3, <1>5 DEF Collected, FileSystem
<1>8. /\ e.at = x.at /\ e.it = x.it
      /\ e.inode_block_size = x.inode_block_size
  BY <1>3, <1>4, <1>6, <1>7
<1>9. t \in [InodeNumbers -> Inode \cup {NoInode}]
  <2>1. \A n \in InodeNumbers : s.inodes[n] \in Inode \cup {NoInode}
    BY <1>3 DEF FileSystem
  <2> QED
    BY <2>1
<1>10. e \in FileSystem
  <2>1. e = [s EXCEPT !.at = e.at, !.it = e.it, !.inodes = t]
    BY <1>3, <1>5 DEF Collected, FileSystem
  <2>2. /\ e.at \in SUBSET (0 .. (SectorCount - 1))
        /\ e.it \in SUBSET InodeNumbers
    BY <1>3, <1>7 DEF FileSystem
  <2> HIDE DEF t, e
  <2> QED
    BY <1>3, <1>9, <2>1, <2>2 DEF FileSystem
<1> HIDE DEF e
<1>11. /\ y \in FileSystem /\ y.at = x.at /\ y.it = x.it
       /\ y.inode_block_size = x.inode_block_size /\ y.inodes = d.inodes
  BY <1>1, <1>2 DEF FileSystem
<1> HIDE DEF y
<1>12. Live(y) = Live(d) \ gone
  BY <1>2, <1>11 DEF Live, InodeMax
<1>13. \A m \in InodeNumbers :
         e.inodes[m] = IF m \in Live(y) THEN y.inodes[m] ELSE NoInode
  BY <1>3, <1>7, <1>8, <1>11, <1>12
<1>14. e = Seen(y)
  BY <1>8, <1>10, <1>11, <1>13, SeenIs
<1> QED
  BY <1>14 DEF e, y, x, s

\* restore_fs.
LEMMA SeenRestored ==
    ASSUME NEW d, Consistent(d), RestoreAligned
    PROVE  Restored(Seen(d)) = Seen(Restored(d))
<1>1. Restored(d) = d /\ d \in FileSystem
  BY RestoredConsistent DEF Consistent
<1>2. PartialByte \cup Metadata(d) \cup LiveBits(d) = d.at
  BY <1>1 DEF Restored, FileSystem
<1>3. Restored(Seen(d)) = [Seen(d) EXCEPT !.at = d.at]
  BY <1>1, <1>2, SeenLive DEF Restored
<1>4. [Seen(d) EXCEPT !.at = d.at] = Seen(d)
  BY <1>1, SeenKeeps DEF FileSystem
<1> QED
  BY <1>1, <1>3, <1>4

-----------------------------------------------------------------------------
(* The instance of FileSystem.                                             *)

\* The helpers of the instance are those of FileSystem.
LEMMA SameHelpers ==
    ASSUME NEW d
    PROVE  /\ Whole!Live(d) = Live(d)
           /\ Whole!HasFreeInode(d) <=> HasFreeInode(d)
           /\ Whole!ResizeInodeBlock(d) = ResizeInodeBlock(d)
           /\ Whole!Collected(d) = Collected(d)
           /\ Whole!Restored(d) = Restored(d)
           /\ \A size : /\ Whole!Fits(d, size) <=> Fits(d, size)
                        /\ Whole!FreeDiskSpace(d, size) = FreeDiskSpace(d, size)
           /\ \A f : /\ Whole!Deleted(d, f) = Deleted(d, f)
                     /\ Whole!Written(d, f) = Written(d, f)
                     /\ Whole!Placed(d, f) = Placed(d, f)
           /\ \A size, ttl, custody :
                Whole!NewInode(d, size, ttl, custody)
                  = NewInode(d, size, ttl, custody)
<1>1. /\ \A e : Whole!Live(e) = Live(e)
      /\ \A f : Whole!Bits(f) = Bits(f)
      /\ \A f : Whole!IsNotValid(f) <=> IsNotValid(f)
      /\ \A size : Whole!Sectors(size) = Sectors(size)
      /\ Whole!Metadata(d) = Metadata(d)
      /\ Whole!InodeNumbers = InodeNumbers
      /\ Whole!PartialByte = PartialByte
  BY DEF Whole!Live, Live, Whole!InodeMax, InodeMax, Whole!Bits, Bits,
         Whole!Sectors, Sectors, Whole!IsNotValid, IsNotValid, Whole!Metadata,
         Metadata, Whole!MetadataSize, MetadataSize, Whole!InodeNumbers,
         InodeNumbers, Whole!PartialByte, PartialByte, Whole!Run, Run
<1>2. /\ \A t, i, n : Whole!DeleteSeq(t, i, n) = DeleteSeq(t, i, n)
      /\ \A t, i, n : Whole!WriteSeq(t, i, n) = WriteSeq(t, i, n)
      /\ \A t, i, n : Whole!CheckSeq(t, i, n) <=> CheckSeq(t, i, n)
      /\ \A t, m, n : Whole!HasSeq(t, m, n) <=> HasSeq(t, m, n)
      /\ \A t, m, n : Whole!FindSeq(t, m, n) = FindSeq(t, m, n)
      /\ \A S : Whole!Least(S) = Least(S)
  BY DEF Whole!DeleteSeq, DeleteSeq, Whole!WriteSeq, WriteSeq, Whole!CheckSeq,
         CheckSeq, Whole!HasSeq, HasSeq, Whole!FindSeq, FindSeq, Whole!Least,
         Least, Whole!FreeStarts, FreeStarts, Whole!Run, Run
<1>3. /\ Whole!HasFreeInode(d) <=> HasFreeInode(d)
      /\ \A size : Whole!Fits(d, size) <=> Fits(d, size)
      /\ Whole!CanGrow(d) <=> CanGrow(d)
      /\ Whole!Grown(d) = Grown(d)
  BY <1>1, <1>2
  DEF Whole!HasFreeInode, HasFreeInode, Whole!Fits, Fits, Whole!CanGrow,
      CanGrow, Whole!GrowthBit, GrowthBit, Whole!MetadataSize, MetadataSize,
      Whole!Grown, Grown, Whole!InodeMax, InodeMax
<1>4. \A f : /\ Whole!Deleted(d, f) = Deleted(d, f)
            /\ Whole!Written(d, f) = Written(d, f)
            /\ Whole!Placed(d, f) = Placed(d, f)
  BY DEF Whole!Deleted, Deleted, Whole!Written, Written, Whole!Placed, Placed,
         Whole!Bits, Bits, Whole!Run, Run, Whole!DeleteSeq, DeleteSeq,
         Whole!WriteSeq, WriteSeq, Whole!Sectors, Sectors
<1>5. /\ Whole!Collected(d) = Collected(d)
      /\ Whole!Restored(d) = Restored(d)
  BY DEF Whole!Collected, Collected, Whole!Restored, Restored,
         Whole!LiveBits, LiveBits, Whole!Live, Live, Whole!InodeMax, InodeMax,
         Whole!Bits, Bits, Whole!Run, Run, Whole!Sectors, Sectors,
         Whole!IsNotValid, IsNotValid, Whole!Metadata, Metadata,
         Whole!MetadataSize, MetadataSize, Whole!InodeNumbers, InodeNumbers,
         Whole!PartialByte, PartialByte
<1>6. \A size : Whole!Expendable(d, size) = Expendable(d, size)
  BY <1>1 DEF Whole!Expendable, Expendable
<1>7. \A size : Whole!FreeDiskSpace(d, size) = FreeDiskSpace(d, size)
  BY <1>2, <1>4, <1>6 DEF Whole!FreeDiskSpace, FreeDiskSpace
<1>8. Whole!ResizeInodeBlock(d) = ResizeInodeBlock(d)
  BY <1>3 DEF Whole!ResizeInodeBlock, ResizeInodeBlock
<1>9. \A size, ttl, custody :
        Whole!NewInode(d, size, ttl, custody) = NewInode(d, size, ttl, custody)
  BY <1>1, <1>2 DEF Whole!NewInode, NewInode
<1> QED
  BY <1>1, <1>3, <1>4, <1>5, <1>7, <1>8, <1>9

-----------------------------------------------------------------------------
(* Each call.                                                              *)

\* When a call begins FileSystem's state is the disk, and becomes what the
\* writes of the call lead to.
LEMMA BeginReturns ==
    ASSUME PowerInv, Ready, NEW call, NEW ws, NEW f, NEW gone, NEW code,
           Begin(call, ws, f, gone, code)
    PROVE  /\ Seen(Apply(fs, writes)) = Seen(fs)
           /\ Whole!Return(Seen(Apply(fs, ws)), call, code)
<1>1. writes = <<>> /\ fs \in FileSystem
  BY DEF Ready, PowerInv
<1>2. /\ fs' = fs /\ writes' = ws /\ clock' = clock
      /\ result' = [call |-> call, code |-> code]
  BY DEF Begin
<1> QED
  BY <1>1, <1>2, ApplyNone DEF Whole!Return

\* The disk after the eviction is what fs_create's second search works on.
LEMMA EvictionIsRoom ==
    ASSUME NEW d, Consistent(d), HasFreeInode(d), NEW size
    PROVE  LET e == Apply(d, EvictionWrites(d, size)) IN
           Seen(e) = IF Fits(Seen(d), size) THEN Seen(d)
                     ELSE FreeDiskSpace(Seen(d), size)
<1> DEFINE n == Least(Expendable(d, size))
           ws == DeleteWrites(d, d.inodes[n])
<1>1. /\ d \in FileSystem
      /\ Fits(Seen(d), size) <=> Fits(d, size)
      /\ Expendable(Seen(d), size) = Expendable(d, size)
  BY SeenSearches DEF Consistent
<1>2. CASE Fits(d, size) \/ Expendable(d, size) = {}
  <2>1. EvictionWrites(d, size) = <<>>
    BY <1>2 DEF EvictionWrites, Victims
  <2> QED
    BY <1>1, <1>2, <2>1, ApplyNone DEF FreeDiskSpace
<1>3. CASE ~Fits(d, size) /\ Expendable(d, size) # {}
  <2>1. Victims(d, size) = {n}
    BY <1>3 DEF Victims
  <2>2. n \in Live(d) /\ n \in Nat
    BY <1>3, FirstExpendable DEF Live, Consistent, FileSystem, InodeNumbers
  <2>3. Seen(d).inodes[n] = d.inodes[n]
    BY <1>1, <2>2, SeenLive
  <2>4. FreeDiskSpace(Seen(d), size) = Deleted(Seen(d), d.inodes[n])
    BY <1>1, <1>3, <2>3 DEF FreeDiskSpace
  <2> HIDE DEF n
  <2>5. Least({n}) = n
    BY <2>2, LeastInSet
  <2>6. EvictionWrites(d, size) = ws
    BY <2>1, <2>5 DEF EvictionWrites
  <2>7. Apply(d, ws) = [Deleted(d, d.inodes[n]) EXCEPT !.inodes = d.inodes]
    <3> DEFINE k == [m \in {} |-> NoInode]
    <3>1. Held(d, k) /\ n \notin DOMAIN k
      BY DEF Held
    <3> HIDE DEF k
    <3> QED
      BY <2>2, <3>1, DeleteSafe
  <2> QED
    BY <1>1, <1>3, <2>2, <2>4, <2>6, <2>7, SeenDeleted
<1> QED
  BY <1>2, <1>3

\* fs_create.
LEMMA CreateIsWhole ==
    ASSUME InodesUncut, PowerInv, Ready,
           NEW size \in Sizes, NEW ttl \in TTLs, NEW custody \in BOOLEAN,
           BeginCreate(size, ttl, custody)
    PROVE  Whole!FsCreate(size, ttl, custody)
<1> DEFINE g == GrowthWrites
           d == Apply(fs, g)
           v == EvictionWrites(d, size)
           ws == g \o v
           e == Apply(fs, ws)
           f == NewInode(e, size, ttl, custody)
           k == [n \in {} |-> NoInode]
           p == PlaceWrites(e, f)
           w == Seen(Apply(fs, writes))
<1>1. Consistent(fs) /\ fs \in FileSystem
  BY ReadyIsConsistent DEF Consistent
<1>2. /\ \A x : Held(x, k)
      /\ DOMAIN k \cap Victims(d, size) = {}
  BY DEF Held
<1> HIDE DEF k
<1>3. g \in Seq(Writes) /\ d = ResizeInodeBlock(fs)
  BY <1>1, <1>2, GrowthSafe
<1>4. Consistent(d) /\ Seen(d) = ResizeInodeBlock(Seen(fs)) /\ d \in FileSystem
  BY <1>1, <1>3, ResizedConsistent, SeenResized DEF Consistent
<1> HIDE DEF g, d
<1>5. /\ v \in Seq(Writes) /\ Consistent(Apply(d, v))
      /\ HasFreeInode(d) => HasFreeInode(Apply(d, v))
  BY <1>2, <1>4, EvictionSafe
<1>6. HasFreeInode(d) =>
        Seen(Apply(d, v)) = IF Fits(Seen(d), size) THEN Seen(d)
                            ELSE FreeDiskSpace(Seen(d), size)
  BY <1>4, EvictionIsRoom
<1>7. ~HasFreeInode(d) => v = <<>>
  BY DEF EvictionWrites, Victims
<1> HIDE DEF v
<1>8. ws \in Seq(Writes) /\ e = Apply(d, v)
  BY <1>3, <1>5, ApplyConcat, ConcatProperties DEF d
<1>9. IF HasFreeInode(d) /\ Fits(e, size)
      THEN Begin("fs_create", ws \o p, f, Victims(d, size), "FS_OK")
      ELSE Begin("fs_create", ws, NoInode, Victims(d, size), "FS_FULL")
  BY DEF BeginCreate, g, d, v
<1>10. Consistent(e) /\ e \in FileSystem /\ (HasFreeInode(d) => HasFreeInode(e))
  BY <1>5, <1>8 DEF Consistent
<1>11. /\ HasFreeInode(Seen(d)) <=> HasFreeInode(d)
       /\ Fits(Seen(e), size) <=> Fits(e, size)
       /\ NewInode(Seen(e), size, ttl, custody) = f
  BY <1>4, <1>10, SeenSearches
<1>12. w = Seen(fs)
  BY <1>9, BeginReturns
<1> HIDE DEF ws
<1>13. /\ Whole!HasFreeInode(Whole!ResizeInodeBlock(w)) <=> HasFreeInode(d)
       /\ Whole!ResizeInodeBlock(w) = Seen(d)
  BY <1>4, <1>11, <1>12, SameHelpers
<1>14. HasFreeInode(d) => Whole!RoomFor(size) = Seen(e)
  BY <1>6, <1>8, <1>13, SameHelpers DEF Whole!RoomFor
<1> HIDE DEF e
<1>15. CASE HasFreeInode(d) /\ Fits(e, size)
  <2>1. /\ f \in Inode /\ Bits(f) \subseteq 0 .. (SectorCount - 1)
        /\ Bits(f) \cap e.at = {} /\ f.inode_offset \notin e.it
    BY <1>10, <1>15, NewInodeFits
  <2>2. Begin("fs_create", ws \o p, f, Victims(d, size), "FS_OK")
    BY <1>9, <1>15
  <2> HIDE DEF f
  <2>3. p \in Seq(Writes) /\ Apply(e, p) = Placed(e, f)
    BY <1>2, <1>10, <2>1, PlaceSafe
  <2> HIDE DEF p
  <2>4. Apply(fs, ws \o p) = Placed(e, f)
    BY <1>8, <2>3, ApplyConcat DEF e
  <2>5. Whole!Return(Placed(Seen(e), f), "fs_create", "FS_OK")
    BY <1>10, <2>1, <2>2, <2>4, BeginReturns, SeenPlaced
  <2>6. Whole!CreateBundle(size, ttl, custody)
    <3>1. /\ Whole!Fits(Seen(e), size)
          /\ Whole!NewInode(Seen(e), size, ttl, custody) = f
          /\ Whole!Placed(Seen(e), f) = Placed(Seen(e), f)
      BY <1>11, <1>15, SameHelpers DEF f
    <3> QED
      BY <1>13, <1>14, <1>15, <2>5, <3>1 DEF Whole!CreateBundle
  <2> QED
    BY <2>6 DEF Whole!FsCreate
<1>16. CASE ~(HasFreeInode(d) /\ Fits(e, size))
  <2>1. Whole!Return(Seen(e), "fs_create", "FS_FULL")
    BY <1>9, <1>16, BeginReturns DEF e
  <2>2. CASE HasFreeInode(d)
    <3>1. ~Whole!Fits(Seen(e), size)
      BY <1>11, <1>16, <2>2, SameHelpers
    <3> QED
      BY <1>13, <1>14, <2>1, <2>2, <3>1
      DEF Whole!FsCreate, Whole!CreateWithoutSpace
  <2>3. CASE ~HasFreeInode(d)
    <3>1. Seen(e) = Seen(d)
      BY <1>4, <1>7, <1>8, <2>3, ApplyNone
    <3> QED
      BY <1>13, <2>1, <2>3, <3>1 DEF Whole!FsCreate, Whole!CreateWithoutInode
  <2> QED
    BY <2>2, <2>3
<1> QED
  BY <1>15, <1>16

\* The other calls.
LEMMA OthersAreWhole ==
    ASSUME RestoreAligned, PowerInv, Ready,
           \/ \E n \in Live(fs) : BeginDelete(n)
           \/ \E n \in Live(fs), ttl \in TTLs, custody \in BOOLEAN :
                BeginClose(n, ttl, custody)
           \/ BeginCollect
           \/ BeginRestore
    PROVE  Whole!Next
<1> DEFINE k == [n \in {} |-> NoInode]
           w == Seen(Apply(fs, writes))
<1>1. Consistent(fs) /\ fs \in FileSystem /\ Recoverable(fs)
  BY ReadyIsConsistent, ConsistentIsRecoverable DEF Consistent
<1>2. Held(fs, k) /\ DOMAIN k = {}
  BY DEF Held
<1> HIDE DEF k
<1>3. /\ Whole!Live(Seen(fs)) = Live(fs)
      /\ \A n \in Live(fs) : Seen(fs).inodes[n] = fs.inodes[n]
  BY <1>1, SeenLive, SameHelpers
<1>4. ASSUME NEW n \in Live(fs), BeginDelete(n)
      PROVE  Whole!Next
  <2> DEFINE ws == DeleteWrites(fs, fs.inodes[n])
  <2>1. Apply(fs, ws) = [Deleted(fs, fs.inodes[n]) EXCEPT !.inodes = fs.inodes]
    BY <1>1, <1>2, DeleteSafe
  <2>2. Begin("fs_delete", ws, NoInode, {n}, "FS_OK")
    BY <1>4 DEF BeginDelete
  <2> HIDE DEF ws
  <2>3. /\ w = Seen(fs)
        /\ Whole!Return(Deleted(Seen(fs), fs.inodes[n]), "fs_delete", "FS_OK")
    BY <1>1, <2>1, <2>2, BeginReturns, SeenDeleted
  <2>4. Whole!FsDelete(Seen(fs).inodes[n])
    BY <1>3, <2>3, SameHelpers DEF Whole!FsDelete
  <2> QED
    BY <1>3, <2>3, <2>4 DEF Whole!Next
<1>5. ASSUME NEW n \in Live(fs), NEW ttl \in TTLs, NEW custody \in BOOLEAN,
             BeginClose(n, ttl, custody)
      PROVE  Whole!Next
  <2> DEFINE f == [fs.inodes[n] EXCEPT !.custody = custody,
                                       !.time_to_live = ttl]
             ws == <<Write("inodes", [fs.inodes EXCEPT ![n] = f])>>
  <2>1. /\ fs.inodes[n] \in Inode /\ fs.inodes[n].inode_offset = n
        /\ n \in InodeNumbers
    BY <1>1 DEF Consistent, LiveInodesNamed, Live, FileSystem
  <2>2. /\ f \in Inode /\ f.inode_offset = n /\ f.size = fs.inodes[n].size
        /\ f.location = fs.inodes[n].location
    BY <2>1 DEF Inode
  <2>3. [fs.inodes EXCEPT ![n].custody = custody, ![n].time_to_live = ttl]
          = [fs.inodes EXCEPT ![n] = f]
    BY <1>1, <2>1 DEF FileSystem, Inode
  <2>4. Begin("fs_close", ws, NoInode, {}, "FS_OK")
    BY <1>5, <2>3 DEF BeginClose
  <2>5. f = [Seen(fs).inodes[n] EXCEPT !.custody = custody,
                                       !.time_to_live = ttl]
    BY <1>3
  <2> HIDE DEF f
  <2>6. Apply(fs, ws) = Written(fs, f)
    BY <1>1, <1>2, <2>2, CloseSafe
  <2> HIDE DEF ws
  <2>7. w = Seen(fs) /\ Whole!Return(Written(Seen(fs), f), "fs_close", "FS_OK")
    BY <1>1, <2>2, <2>4, <2>6, BeginReturns, SeenWritten
  <2>8. Whole!FsClose(f)
    BY <2>7, SameHelpers DEF Whole!FsClose
  <2>9. Whole!FsClose([w.inodes[n] EXCEPT !.custody = custody,
                                          !.time_to_live = ttl])
    BY <2>5, <2>7, <2>8
  <2>10. n \in Whole!Live(w)
    BY <1>3, <2>7
  <2> QED
    BY <2>9, <2>10 DEF Whole!Next
<1>6. CASE BeginCollect
  <2>1. PICK s \in ByNumber(Expired) :
          Begin("delete_invalid_inodes", CollectWrites(s), NoInode, Expired, "FS_OK")
    BY <1>6 DEF BeginCollect
  <2>2. Apply(fs, CollectWrites(s))
          = [Collected(fs) EXCEPT !.inodes = fs.inodes]
    BY <1>1, <1>2, CollectSafe
  <2>3. /\ w = Seen(fs)
        /\ Whole!Return(Collected(Seen(fs)), "delete_invalid_inodes", "FS_OK")
    BY <1>1, <2>1, <2>2, BeginReturns, SeenCollected
  <2>4. Whole!DeleteInvalidInodes
    BY <2>3, SameHelpers DEF Whole!DeleteInvalidInodes
  <2> QED
    BY <2>4 DEF Whole!Next
<1>7. CASE BeginRestore
  <2>1. PICK s \in ByNumber(Live(fs)) :
          Begin("restore_fs", RestoreWrites(s), NoInode, {}, "FS_OK")
    BY <1>7 DEF BeginRestore
  <2>2. Apply(fs, RestoreWrites(s)) = Restored(fs)
    BY <1>1, <1>2, RestoreSafe
  <2>3. /\ w = Seen(fs)
        /\ Whole!Return(Restored(Seen(fs)), "restore_fs", "FS_OK")
    BY <1>1, <2>1, <2>2, BeginReturns, SeenRestored
  <2>4. Whole!RestoreFs
    BY <2>3, SameHelpers DEF Whole!RestoreFs
  <2> QED
    BY <2>4 DEF Whole!Next
<1> QED
  BY <1>4, <1>5, <1>6, <1>7

\* A disk_write takes one of the call's writes off the list, and what they add
\* up to stays the same.
LEMMA DiskWriteIsPart ==
    ASSUME PowerInv, DiskWrite
    PROVE  UNCHANGED Whole!vars
<1>1. /\ writes \in Seq(Writes) /\ writes # <<>> /\ Safe(fs, writes, kept)
      /\ fs' = Apply(fs, <<Head(writes)>>) /\ writes' = Tail(writes)
      /\ UNCHANGED <<clock, result>>
  BY DEF DiskWrite, PowerInv
<1>2. Apply(fs', writes') = Apply(fs, writes)
  BY <1>1, SafeTail
<1> QED
  BY <1>1, <1>2 DEF Whole!vars

\* A formatted disk is FileSystem's initial state.
LEMMA PowerInitIsWhole == PowerInit => Whole!Init
<1> SUFFICES ASSUME PowerInit PROVE Whole!Init
  OBVIOUS
<1>1. Init /\ writes = <<>> /\ fs \in FileSystem
  BY InitInv DEF PowerInit, Inv, Consistent
<1>2. \A n \in InodeNumbers : fs.inodes[n] = NoInode
  BY <1>1 DEF Init
<1>3. fs = Seen(fs)
  BY <1>1, <1>2, SeenIs
<1>4. Seen(Apply(fs, writes)) = fs
  BY <1>1, <1>3, ApplyNone
<1> QED
  BY <1>1, <1>4 DEF Init, Whole!Init, Whole!Run, Run, Whole!InodeNumbers,
                    InodeNumbers

\* It begins as FileSystem does, and while the power is up, each call is one
\* step of FileSystem and all else is a stutter or time, on every disk that
\* the failures that InodesUncut allows and repairs can leave.
THEOREM PowerLossImplementsFileSystem ==
    ASSUME RestoreAligned, InodesUncut
    PROVE  PowerSpec => Whole!Init /\ CallsAreWhole
<1>1. PowerInv /\ [PowerNext]_powerVars
        => (power = "up" /\ power' = "up" =>
              UNCHANGED Whole!vars \/ Whole!Next)
  <2> SUFFICES ASSUME PowerInv, [PowerNext]_powerVars,
                      power = "up", power' = "up"
               PROVE  UNCHANGED Whole!vars \/ Whole!Next
    OBVIOUS
  <2>1. CASE Calls
    <3>1. ASSUME NEW size \in Sizes, NEW ttl \in TTLs, NEW custody \in BOOLEAN,
                 BeginCreate(size, ttl, custody)
          PROVE  Whole!Next
      BY <2>1, <3>1, CreateIsWhole DEF Calls, Whole!Next
    <3> QED
      BY <2>1, <3>1, OthersAreWhole DEF Calls
  <2>2. CASE DiskWrite
    BY <2>2, DiskWriteIsPart
  <2>3. CASE PowerTick
    BY <2>3 DEF PowerTick, Tick, Whole!Tick, Whole!Next
  <2>4. CASE UNCHANGED powerVars
    BY <2>4 DEF powerVars, Whole!vars
  <2> QED
    BY <2>1, <2>2, <2>3, <2>4 DEF PowerNext, PowerFails, Restart
<1> QED
  BY <1>1, PowerInvariance, PowerInitIsWhole, PTL DEF PowerSpec, CallsAreWhole
=============================================================================
