---------------------------- MODULE BitFunctions ----------------------------
(***************************************************************************)
(* The functions of bit_functions.c that work on an allocation table byte  *)
(* by byte, here with bytes of ByteBits bits (8 in the code; where the     *)
(* code says 9, it means one more than a byte).  A byte is the set of its  *)
(* bits that are 1, counted from the left as the mask 0x80 >> b does.  The *)
(* callers see one sequence of bits, the variable `used'; the properties   *)
(* compare the two and the results with BitTable.                          *)
(*                                                                         *)
(* One byte lies behind the table: the last byte of a request may be there *)
(* (end_byte), and nothing in it may change or count.                      *)
(***************************************************************************)
EXTENDS Integers, FiniteSets, BitTable, SequencesExt

CONSTANTS
    ByteBits,    \* bits of a byte
    TableBytes   \* bytes of the table

ASSUME TableAssumption == ByteBits \in Nat \ {0} /\ TableBytes \in Nat \ {0}

VARIABLES
    table,   \* the bytes, and the one behind them
    used     \* the bits that are 1 as far as the callers know

vars == <<table, used>>

Bytes     == 0 .. (TableBytes - 1)
Byte      == SUBSET (0 .. (ByteBits - 1))
FullByte  == 0 .. (ByteBits - 1)
TableBits == TableBytes * ByteBits

\* All bits of the table, and of the byte behind it.
BitsOf(t) == {i \in 0 .. (TableBits + ByteBits - 1) :
                (i % ByteBits) \in t[i \div ByteBits]}

-----------------------------------------------------------------------------
(* Masks.  In an unsigned byte, 0xFF << n and 0xFF >> n keep these bits.   *)

ShiftedLeft(n)  == 0 .. (ByteBits - 1 - n)
ShiftedRight(n) == n .. (ByteBits - 1)

FirstByte(index) == index \div ByteBits

\* end_byte - start_byte.
ByteLength(index, length) == (length + (index % ByteBits)) \div ByteBits

\* tmp after the start byte.
Remaining(index, length) ==
    LET start_pad == ByteBits - (index % ByteBits)
    IN IF length > start_pad THEN length - start_pad ELSE 0

\* tmp at the end byte.
EndBits(index, length) ==
    IF ByteLength(index, length) = 0 THEN 0
    ELSE Remaining(index, length) - (ByteLength(index, length) - 1) * ByteBits

\* The bits of a sequence, byte by byte (write_seq and check_seq).
SeqMask(index, length) ==
    LET start_pad == ByteBits - (index % ByteBits) IN
    [k \in 0 .. ByteLength(index, length) |->
       IF k = 0
       THEN IF length > start_pad THEN ShiftedRight(ByteBits - start_pad)
            ELSE {b + ByteBits - start_pad : b \in ShiftedLeft(ByteBits - length)}
       ELSE IF k = ByteLength(index, length)
            THEN ShiftedLeft(ByteBits - EndBits(index, length))
       ELSE FullByte]

\* Mutant: the end byte is cleared as a whole.
KeepMaskNoEnd(index, length) ==
    LET start_pad == ByteBits - (index % ByteBits) IN
    [k \in 0 .. ByteLength(index, length) |->
       IF k = 0
       THEN ShiftedLeft(start_pad)
              \cup IF length > start_pad THEN {}
                   ELSE ShiftedRight(ByteBits - (start_pad - length))
       ELSE {}]

\* The bits that delete_seq keeps, which makes its masks in another way.
KeepMask(index, length) ==
    LET start_pad == ByteBits - (index % ByteBits) IN
    [k \in 0 .. ByteLength(index, length) |->
       IF k = 0
       THEN ShiftedLeft(start_pad)
              \cup IF length > start_pad THEN {}
                   ELSE ShiftedRight(ByteBits - (start_pad - length))
       ELSE IF k = ByteLength(index, length)
            THEN ShiftedRight(EndBits(index, length))
       ELSE {}]

Masked(Op(_, _), t, index, mask) ==
    [b \in DOMAIN t |->
       IF b - FirstByte(index) \in DOMAIN mask
       THEN Op(t[b], mask[b - FirstByte(index)]) ELSE t[b]]

WriteSeqBytes(t, index, length) ==
    Masked(\cup, t, index, SeqMask(index, length))

DeleteSeqBytes(t, index, length) ==
    Masked(\cap, t, index, KeepMask(index, length))

\* Mutant: the end byte is not looked at.
CheckSeqBytesNoEnd(t, index, length) ==
    \A k \in 0 .. (ByteLength(index, length) - 1) :
      SeqMask(index, length)[k] \cap t[FirstByte(index) + k] = {}

CheckSeqBytes(t, index, length) ==
    \A k \in 0 .. ByteLength(index, length) :
      SeqMask(index, length)[k] \cap t[FirstByte(index) + k] = {}

-----------------------------------------------------------------------------
(* Searching.                                                              *)

NotFound == -1

\* The number of zeroes at the beginning and at the end of a byte.
FirstFreeBits(byte) ==
    Cardinality({b \in FullByte : 0 .. b \cap byte = {}})

LastFreeBits(byte) ==
    Cardinality({b \in FullByte : b .. (ByteBits - 1) \cap byte = {}})

FindSeqByte(byte, length) ==
    IF HasSeq(byte, ByteBits, length)
    THEN FindSeq(byte, ByteBits, length) ELSE NotFound

\* Mutant: what begins in the byte before is overlooked.
HitAtAlone(t, i, length) ==
    IF FindSeqByte(t[i], length) # NotFound
    THEN {i * ByteBits + FindSeqByte(t[i], length)}
    ELSE {}

\* What the loop of find_seq_small finds at byte i: a sequence that begins in
\* the byte before, or one inside of the byte.
HitAt(t, i, length) ==
    IF i > 0 /\ t[i] # FullByte
         /\ LastFreeBits(t[i - 1]) + FirstFreeBits(t[i]) >= length
    THEN {i * ByteBits - LastFreeBits(t[i - 1])}
    ELSE IF FindSeqByte(t[i], length) # NotFound
         THEN {i * ByteBits + FindSeqByte(t[i], length)}
    ELSE {}

\* find_seq_small and find_seq_small_new: the first byte with a hit.
FindSeqSmall(t, length) ==
    LET hits == {i \in Bytes : HitAt(t, i, length) # {}}
    IN IF hits = {} THEN NotFound ELSE Least(HitAt(t, Least(hits), length))

\* One byte of find_seq: `zeroes' is tmp, `start' the byte it begins in.
SearchByte(t, s, i, length) ==
    LET zeroes == s.zeroes + FirstFreeBits(t[i]) IN
    IF s.index # NotFound THEN s
    ELSE IF zeroes >= length
         THEN [s EXCEPT !.index = (s.start + 1) * ByteBits
                                    - LastFreeBits(t[s.start])]
    ELSE IF t[i] = {} THEN [s EXCEPT !.zeroes = zeroes]
    ELSE [s EXCEPT !.zeroes = LastFreeBits(t[i]), !.start = i]

SearchBytes(t, length) ==
    FoldLeft(LAMBDA s, i : SearchByte(t, s, i, length),
             [index |-> NotFound, zeroes |-> 0, start |-> 0],
             [i \in 1 .. TableBytes |-> i - 1])

\* find_seq and find_seq_new.
FindSeqBytes(t, length) ==
    IF length < ByteBits + 1 THEN FindSeqSmall(t, length)
    ELSE SearchBytes(t, length).index

\* Mutant: only the last byte counts.
EndLengthLastByte(t, length) == LastFreeBits(t[TableBytes - 1])

\* *end_length of find_seq_new, set if nothing is found.
EndLength(t, length) ==
    IF length < ByteBits + 1 THEN LastFreeBits(t[TableBytes - 1])
    ELSE SearchBytes(t, length).zeroes

\* Mutant: an equally long sequence replaces the first one.
MaxByteLast(t, s, i) ==
    LET length == s.end_length + ByteBits IN
    IF t[i] # {}
    THEN [s EXCEPT !.end_start = (i + 1) * ByteBits, !.end_length = 0]
    ELSE IF length >= s.max_length
         THEN [s EXCEPT !.end_length = length, !.max_length = length,
                        !.max_start = s.end_start]
    ELSE [s EXCEPT !.end_length = length]

\* One byte of find_max_sequence.  Left out is *start_in_table, which only
\* find_max_sequence_global reads, to tell in which window the sequence began.
MaxByte(t, s, i) ==
    LET length == s.end_length + ByteBits IN
    IF t[i] # {}
    THEN [s EXCEPT !.end_start = (i + 1) * ByteBits, !.end_length = 0]
    ELSE IF length > s.max_length
         THEN [s EXCEPT !.end_length = length, !.max_length = length,
                        !.max_start = s.end_start]
    ELSE [s EXCEPT !.end_length = length]

\* find_max_sequence in one table, from the state that it is called with.
FindMaxSequence(t) ==
    FoldLeft(LAMBDA s, i : MaxByte(t, s, i),
             [max_start |-> 0, max_length |-> 0, end_start |-> 0,
              end_length |-> 0],
             [i \in 1 .. TableBytes |-> i - 1])

-----------------------------------------------------------------------------
(* The calls.                                                              *)

\* fs_mkfs fills the table with ones; behind it is whatever there is.
Init ==
    /\ table \in {[b \in Bytes \cup {TableBytes} |->
                     IF b \in Bytes THEN FullByte ELSE behind] : behind \in Byte}
    /\ used = BitsOf(table)

Requests ==
    {r \in (0 .. (TableBits - 1)) \X (1 .. TableBits) : r[1] + r[2] <= TableBits}

Write(index, length) ==
    /\ table' = WriteSeqBytes(table, index, length)
    /\ used' = WriteSeq(used, index, length)

Delete(index, length) ==
    /\ table' = DeleteSeqBytes(table, index, length)
    /\ used' = DeleteSeq(used, index, length)

\* write_bit: one bit, set or cleared.
WriteBit(index, bit_value) ==
    /\ table' = [table EXCEPT ![index \div ByteBits] =
                   IF bit_value THEN @ \cup {index % ByteBits}
                   ELSE @ \ {index % ByteBits}]
    /\ used' = IF bit_value THEN WriteSeq(used, index, 1)
               ELSE DeleteSeq(used, index, 1)

Next ==
    \/ \E r \in Requests : Write(r[1], r[2])
    \/ \E r \in Requests : Delete(r[1], r[2])
    \/ \E index \in 0 .. (TableBits - 1), bit_value \in BOOLEAN :
         WriteBit(index, bit_value)

Spec == Init /\ [][Next]_vars

-----------------------------------------------------------------------------
(* Properties.                                                             *)

\* The bytes are the table that the callers have asked for: no request touches
\* a bit before or behind it, whatever byte borders it crosses or ends at, and
\* nothing behind the table is changed.
BytesAreTheTable == BitsOf(table) = used

\* check_seq looks at the bits of the request and at no other, also when it
\* reads the byte behind the table.
CheckSeqIsExact ==
    \A r \in Requests :
      CheckSeqBytes(table, r[1], r[2]) <=> CheckSeq(used, r[1], r[2])

\* find_seq, in both of its ways, finds the first sequence of zeroes.
FindSeqIsFirstFit ==
    \A length \in 1 .. TableBits :
      FindSeqBytes(table, length) =
        IF HasSeq(used, TableBits, length)
        THEN FindSeq(used, TableBits, length) ELSE NotFound

\* When nothing is found, *end_length is the number of zeroes that end the
\* table: find_seq_global_small continues in the next window with it.
EndLengthIsTail ==
    \A length \in 1 .. TableBits :
      ~HasSeq(used, TableBits, length) =>
        LET n == EndLength(table, length) IN
        /\ CheckSeq(used, TableBits - n, n)
        /\ n < TableBits => TableBits - n - 1 \in used

\* The sequences of zero bytes, as pairs of a first bit and a length.
ZeroBytes ==
    {r \in Requests : /\ r[1] % ByteBits = 0 /\ r[2] % ByteBits = 0
                      /\ CheckSeq(used, r[1], r[2])}

\* find_max_sequence finds the first of the longest sequences of zero bytes.
MaxSequenceIsLongest ==
    LET s == FindMaxSequence(table) IN
    /\ \A r \in ZeroBytes : r[2] <= s.max_length
    /\ s.max_length > 0 => /\ <<s.max_start, s.max_length>> \in ZeroBytes
                           /\ \A r \in ZeroBytes :
                                r[2] = s.max_length => s.max_start <= r[1]
=============================================================================
