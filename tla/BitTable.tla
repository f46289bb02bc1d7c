------------------------------ MODULE BitTable ------------------------------
(***************************************************************************)
(* The allocation tables of BundleFS as sets.  A table is represented by   *)
(* the set of its bits that are 1 (used); `size' is its number of bits.    *)
(* These are the operations that the file system asks of a table, as they  *)
(* act on the whole table.  How the code carries them out byte by byte is  *)
(* BitFunctions, and through the window buffer WindowBuffer.               *)
(***************************************************************************)
EXTENDS Integers

\* The bits of a sequence that starts at bit i and has n bits.
Run(i, n) == i .. (i + n - 1)

WriteSeq(table, i, n) == table \cup Run(i, n)

DeleteSeq(table, i, n) == table \ Run(i, n)

\* True iff the whole sequence is zero.
CheckSeq(table, i, n) == Run(i, n) \cap table = {}

Least(S) == CHOOSE i \in S : \A j \in S : i <= j

\* The places at which n zero bits begin.
FreeStarts(table, size, n) == {i \in 0 .. (size - n) : CheckSeq(table, i, n)}

HasSeq(table, size, n) == FreeStarts(table, size, n) # {}

\* First fit.  Defined when HasSeq.
FindSeq(table, size, n) == Least(FreeStarts(table, size, n))
=============================================================================
