SPECIFICATION FairSpec
CONSTANTS
  x1 = x1
  x2 = x2
  r1 = r1
  NoTask = NoTask
  Limit = 2
  Actions <- MCActions
  Pausing <- MCPausing
  Copies <- MCCopies
  MaxCopies = 1
INVARIANTS
  DoneOnceOnePerQueue
  PauseExcludesUnlessStale
  QueuesConsistent
PROPERTIES
  EveryActionDone
CHECK_DEADLOCK FALSE
