SPECIFICATION Spec
CONSTANTS
  MAXJOBS = 2
  Pids = {p1, p2}
  NoPid = NoPid
  Keys = {}
  Builtins = {"fg"}
  JidBound = 3
SYMMETRY PidSymmetry
INVARIANT AtMostOneForeground
CHECK_DEADLOCK FALSE
