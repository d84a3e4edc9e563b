SPECIFICATION Spec
CONSTANTS
  None = None
  Sessions = {s1, s2}
  Jobs = {j1}
  Loops = {l1, l2}
  MaxEvents = 3
  Acts = {"send", "stop", "reset", "switch", "new", "delete", "open", "close"}
SYMMETRY Symmetry
INVARIANT PollingIsServed
