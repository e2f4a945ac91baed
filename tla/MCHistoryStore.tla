--------------------------- MODULE MCHistoryStore ---------------------------
(* A small instance of HistoryStore for TLC. *)
EXTENDS HistoryStore, TLC

CONSTANTS w1, w2

Instances == {w1, w2}

\* Four calls without a fault, or three with one.
CallsAndFaults == {<<4, 0>>, <<3, 1>>}
FewCalls == {<<2, 1>>}

\* Windows differ in nothing but their name.
Symmetry == Permutations(Instances)
=============================================================================
