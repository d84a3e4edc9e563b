------------------------------ MODULE MCPageHost ------------------------------
(* PageHost for TLC: the runs of detectBridge are interchangeable.             *)
EXTENDS PageHost, TLC

Symmetry == Permutations(Runs)
=============================================================================
