SPECIFICATION FairIOVSpec
CONSTANTS
  NumRecords = 2
  MaxSyncs = 4
  MaxFailures = 1
  Concurrent <- MCConcurrent
INVARIANTS
  IOVsSeparate
  RightIOVUnlessFailed
  EndTaskIsLast
PROPERTIES
  IOVsEnd
CHECK_DEADLOCK FALSE
