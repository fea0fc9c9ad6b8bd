SPECIFICATION MCSpec
CONSTANTS
  MAX_PID = 6
  MAX_PROCESS = 5
  Buckets <- MCBuckets
  Hash <- MCHash
  CopyMmFails = TRUE
  Reclaims = TRUE
  S = 2
  B = 2
  E = 3
  Addresses <- MCAddresses
  MaxLines = 5
  W = 8
  EXP_BITS = 4
  FRAC_BITS = 3
  TEST_RANGE = 4
  Draws = {100, 50}
  Options <- MCOptions
  MaxOptions = 2
  Faults <- MCFaults
  MaxTimeouts = 1
  Text = {0, 1, 2, 3, 4, 5}
  WORD = 3
  bp_count = 3
  MaxCalls = 3
INVARIANTS
  TypeOK
  PuzzlesRight
  StabsExact
  TraceExact
  UniquePids
  HashMatchesList
  ForkAccounts
  TagsDistinct
PROPERTIES
  TestExact
  LRUSpec
  GetPidTerminates
\* every program ends
CHECK_DEADLOCK FALSE
