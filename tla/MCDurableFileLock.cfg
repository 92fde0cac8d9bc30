\* Three processes, two of which may die, each creating up to two locks.
SPECIFICATION FairSpec
CONSTANTS
  p1 = p1
  p2 = p2
  p3 = p3
  Proc = {p1, p2, p3}
  None = None
  MaxLocks = 2
  MaxCrashes = 2
INVARIANTS
  ExclusiveUnlessReapersOverlap
PROPERTY
  AbandonedLockIsReaped
CHECK_DEADLOCK FALSE
