------------------------------ MODULE MCDisks ------------------------------
(***************************************************************************)
(* Disks for TLC: a very small one, too small for a file system with its   *)
(* own block size, and one whose table has two sectors of that size.       *)
(***************************************************************************)
EXTENDS Disks

CONSTANTS small, large

SmallAndLarge == {small, large}

Sizes == [d \in Disks |-> IF d = small THEN 256 ELSE 38400]

Blocks64 == [d \in Disks |-> 64]

\* As a zeroed struct has it, and as the last format may have left it.
ZeroOrOne == {0, 1}
=============================================================================
