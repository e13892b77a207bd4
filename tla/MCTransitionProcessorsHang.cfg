SPECIFICATION FairSpec
CONSTANTS
  sa = sa
  sb = sb
  Streams <- MCStreams
  Inputs <- MCInputs
  ConcurrentRuns = 1
  ConcurrentLumis = 2
  MaxThrows = 1
PROPERTIES
  JobEnds
CHECK_DEADLOCK FALSE
