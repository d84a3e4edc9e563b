SPECIFICATION Spec
CONSTANTS
  Pages = {d, x}
  Dify = {d}
  Runs = {r1, r2}
  Candidates = 2
  MaxSize = 2
  MaxLogs = 3
  MaxPushes = 1
  MaxLayers = 2
SYMMETRY Symmetry
INVARIANT OneWindow
INVARIANT PanelIsKept
INVARIANT CapturedOnce
INVARIANT OffIsOff
INVARIANT SearchIsTold
