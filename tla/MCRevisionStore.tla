--------------------------- MODULE MCRevisionStore ---------------------------
(* Small instances of RevisionStore for TLC. *)
EXTENDS RevisionStore, TLC

CONSTANTS c1, c2, a
CompatSymmetry == Permutations(Compats)
=============================================================================
