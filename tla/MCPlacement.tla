------------------------------ MODULE MCPlacement ------------------------------
(* Placement for TLC: a low screen, the smallest one that holds the window in *)
(* both directions, and a large one.                                          *)
EXTENDS Placement

Sizes == {[w |-> 1280, h |-> 620], [w |-> 464, h |-> 716], [w |-> 1920, h |-> 960]}
Displacements ==
  {[x |-> 0, y |-> 0], [x |-> -2000, y |-> -2000], [x |-> 2000, y |-> 2000],
   [x |-> 600, y |-> 400]}
=============================================================================
