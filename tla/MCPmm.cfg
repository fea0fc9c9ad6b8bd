SPECIFICATION Spec
CONSTANTS
  NPages = 7
  Regions <- MCRegions
  Requests <- MCRequests
  NULL = NULL
INVARIANTS ListIsFreePages FullyMerged NrFreeExact NoPanic
PROPERTY PageAllocSpec
