SPECIFICATION FairSpec
CONSTANTS
  mf = mf
  ma = ma
  mb = mb
  mc = mc
  mo = mo
  p1 = p1
  p2 = p2
  p3 = p3
  e1 = e1
  Results = Results
  None = None
  Modules <- MCModules
  TrigPaths <- MCTrigPaths
  EndPaths <- MCEndPaths
  LaunchOrder <- MCLaunchOrder
  Module <- MCModule
  Concurrent <- MCConcurrent
  Vetoes <- MCVetoes
  Ignores <- MCIgnores
  Filters <- MCFilters
  Needs <- MCNeeds
  Throws <- MCThrows
INVARIANTS
  TypeOK
  ResultsAwaited
  QuietWhenOver
  StatusIndependentOfOrder
  RootCauseReported
PROPERTIES
  EventEnds
