SPECIFICATION Spec
CONSTANTS
  MAX_HEAP = 40
  INITCHUNKSIZE = 8
  CHUNKSIZE = 12
  BigBlock = 12
  LISTMAX = 4
  Requests <- MCRequests
  MaxBlocks = 3
  MaxOps = 8
  GrowsIntoGap = TRUE
CHECK_DEADLOCK FALSE
INVARIANT NeverRejected
