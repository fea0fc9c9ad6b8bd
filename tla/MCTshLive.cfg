SPECIFICATION FairSpec
CONSTANTS
  MAXJOBS = 1
  Pids = {p1, p2}
  NoPid = NoPid
  Keys = {"INT"}
  Builtins = {}
  JidBound = 2
PROPERTIES ZombiesReaped CtrlCTakesEffect
CHECK_DEADLOCK FALSE
