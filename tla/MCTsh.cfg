SPECIFICATION Spec
CONSTANTS
  MAXJOBS = 2
  Pids = {p1, p2}
  NoPid = NoPid
  Keys = {"INT", "TSTP"}
  Builtins = {"bg", "fg"}
  JidBound = 2
SYMMETRY PidSymmetry
INVARIANTS TypeOK NoGhostJob NoLostChild OneSlotPerPid StoppedJobIsStopped
CHECK_DEADLOCK FALSE
