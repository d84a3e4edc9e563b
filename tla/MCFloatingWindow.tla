--------------------------- MODULE MCFloatingWindow ---------------------------
(* FloatingWindow for TLC: the ids are interchangeable, so the invariants may  *)
(* be checked up to their permutations.                                        *)
EXTENDS FloatingWindow, TLC

Symmetry == Permutations(Sessions) \cup Permutations(Jobs) \cup Permutations(Loops)
=============================================================================
