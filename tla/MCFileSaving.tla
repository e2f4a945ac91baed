---------------------------- MODULE MCFileSaving ----------------------------
(* Instances of FileSaving for TLC. *)
EXTENDS FileSaving, TLC

CONSTANTS s1, s2

Symmetry == Permutations(Savers)
=============================================================================
