SPECIFICATION FairSpec
CONSTANTS
  MAXJOBS = 2
  Pids = {p1}
  NoPid = NoPid
  Keys = {}
  Builtins = {"bg", "fg"}
  JidBound = 2
PROPERTY WaitfgReturns
CHECK_DEADLOCK FALSE
