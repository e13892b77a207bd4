SPECIFICATION FairSpec
CONSTANTS
  t1 = t1
  t2 = t2
  t3 = t3
  e1 = e1
  Owner = Owner
  None = None
  Tasks <- MCTasks
  HolderTasks <- MCHolderTasks
  Exceptions <- MCExceptions
  InitialSize = 1
  MaxResets = 1
INVARIANTS
  TypeOK
  ListIntact
  PresetTold
PROPERTIES
  ImplementsLatch
  EveryTaskRuns
