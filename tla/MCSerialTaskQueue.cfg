SPECIFICATION FairDestructionSpec
CONSTANTS
  c1 = c1
  c2 = c2
  t1 = t1
  t2 = t2
  t3 = t3
  last = last
  NoTask = NoTask
  Owner = c1
  Last = last
  Clients <- MCClients
  Tasks <- MCTasks
  Group <- MCGroup
  MaxPauses = 2
INVARIANTS
  GoneAfterTasks
  MutualExclusion
  IInv
PROPERTIES
  PauseIsStable
  ImplementsSerialQueue
  TasksRunAndDestructorEnds
