---------------------------- MODULE MCSessionClient ----------------------------
(* SessionClient for TLC: sessions and handlers are interchangeable.            *)
EXTENDS SessionClient, TLC

Symmetry == Permutations(Sessions) \cup Permutations(Jobs)
=============================================================================
