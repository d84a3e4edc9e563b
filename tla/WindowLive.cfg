SPECIFICATION FairSpec
CONSTANTS
  None = None
  Sessions = {s1}
  Jobs = {j1, j2}
  Loops = {l1, l2}
  MaxEvents = 5
  Acts = {"send", "stop"}
PROPERTY PollingEnds
PROPERTY SendingEnds
