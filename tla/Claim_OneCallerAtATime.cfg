\* Three processes, one of which dies while it holds the lock.
SPECIFICATION Spec
CONSTANTS
  p1 = p1
  p2 = p2
  p3 = p3
  Proc = {p1, p2, p3}
  None = None
  MaxLocks = 1
  MaxCrashes = 1
SYMMETRY ProcSymmetry
INVARIANT OneCallerAtATime
CHECK_DEADLOCK FALSE
