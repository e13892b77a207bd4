SPECIFICATION FairSpec
CONSTANTS
  sa = sa
  sb = sb
  Streams <- MCStreams
  Inputs <- MCInputs
  ConcurrentRuns = 2
  ConcurrentLumis = 2
  MaxThrows = 2
INVARIANTS
  MainTypeOK
  SourceReadInOrder
  StreamsAgree
  AllClosed
  FailureReported
PROPERTIES
  ImplementsOccurrences
  JobEndsUnlessStranded
CHECK_DEADLOCK FALSE
