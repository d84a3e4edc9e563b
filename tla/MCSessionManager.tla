-------------------------- MODULE MCSessionManager --------------------------
(* Small instances of SessionManager for TLC. *)
EXTENDS SessionManager, TLC

CONSTANTS u1, u2, c1, c2, cl, s1, s2, p1, p2, p3, m1, m2

OneUser  == (c1 :> u1) @@ (c2 :> u1)
OneClient == (c1 :> u1)
TwoUsers == (c1 :> u1) @@ (c2 :> u2)

\* Process names and session names are interchangeable, and so are two users that have one
\* client each.
Swapped == (c1 :> c2) @@ (c2 :> c1) @@ (u1 :> u2) @@ (u2 :> u1)
UsersAndNames == Permutations(Sessions) \cup Permutations(Procs) \cup {Swapped}
=============================================================================
