SPECIFICATION FairSpec
CONSTANTS
  Tasks = {t1, t2}
  None = None
INVARIANT Fifo
INVARIANT FinishedIsClean
PROPERTY AnswersAdvance
PROPERTY Implements
PROPERTY EveryTaskEnds
