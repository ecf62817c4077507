--------------------------- MODULE MCSearchIndex ---------------------------
(* SearchIndex for TLC: texts are interchangeable. *)
EXTENDS SearchIndex, TLC

Symmetry == Permutations(Texts)
=============================================================================
