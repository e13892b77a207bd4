SPECIFICATION FairSpec
CONSTANTS
  x1 = x1
  x2 = x2
  x3 = x3
  NoTask = NoTask
  Queues <- MCQueues
  Actions <- MCActions
  Chain <- MCChain
INVARIANTS
  ExclusiveUnlessStale
  ChainOrder
  ChainConsistent
PROPERTIES
  EveryActionRuns
