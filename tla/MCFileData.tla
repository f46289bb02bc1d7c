----------------------------- MODULE MCFileData -----------------------------
(***************************************************************************)
(* Bundles for TLC: neighbours on the disk, of one sector and of two.      *)
(***************************************************************************)
EXTENDS FileData

File(location, size) == [location |-> location, size |-> size]

\* With three bytes per sector none of them fills its last sector.
PartlyFilled == {File(4, 4), File(6, 1)}

\* One does.
OneFilled == PartlyFilled \cup {File(7, 3)}
=============================================================================
