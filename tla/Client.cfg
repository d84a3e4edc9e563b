SPECIFICATION Spec
CONSTANTS
  None = None
  Sessions = {s1, s2}
  Jobs = {j1, j2}
  MruCap = 2
  Patient = TRUE
  OtherPrefixes = {"fp"}
  Acts = {
    {"reload", "new", "switch", "delete", "rename", "reset", "send", "close", "other"},
    {"name", "new", "switch", "delete", "rename", "reset", "send", "close", "other"},
    {"reload", "name", "new", "switch", "delete", "rename", "reset", "send", "other"},
    {"switch", "share"}}
SYMMETRY Symmetry
INVARIANT MruIsSound
INVARIANT DraftsStayApart
