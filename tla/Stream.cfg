SPECIFICATION FairSpec
CONSTANTS
  Pollers = {w1}
  MaxEvents = 6
INVARIANT InOrderOnce
PROPERTY EventsArrive
