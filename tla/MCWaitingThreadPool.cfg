SPECIFICATION FairSpec
CONSTANTS
  k1 = k1
  k2 = k2
  k3 = k3
  j1 = j1
  j2 = j2
  NoCall = NoCall
  Calls <- MCCalls
  Tasks <- MCTasks
  TaskOf <- MCTaskOf
  MaxSpurious = 1
INVARIANTS
  ThreadsOwned
  NoneOutstanding
  FailureHandedOver
PROPERTIES
  CallsAndDestructorEnd
