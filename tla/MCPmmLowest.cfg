SPECIFICATION Spec
CONSTANTS
  NPages = 5
  Regions <- MCOneRegion
  Requests <- MCRequests
  NULL = NULL
PROPERTY LowestFits
