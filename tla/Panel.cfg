SPECIFICATION Spec
CONSTANTS
  Modes = {"bypass", "plan"}
  DefaultMode = "bypass"
  MaxTasks = 3
  Parts = {"head", "body"}
INVARIANT OutsidePressCloses
INVARIANT NoEmptyWait
INVARIANT BadgeTellsMode
PROPERTY SentIsCleared
