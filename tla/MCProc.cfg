SPECIFICATION ProcSpec
CONSTANTS
  MAX_PID = 6
  MAX_PROCESS = 5
  Buckets <- MCBuckets
  Hash <- MCHash
  CopyMmFails = FALSE
  Reclaims = FALSE
PROPERTY ForkReturnsPid
