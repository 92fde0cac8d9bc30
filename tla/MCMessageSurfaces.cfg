CONSTANTS
  Session = {s1, s2, s3, s4}
  Lineage = {l1, l2}
  ThreadLineage = {l1}
  Run = {r1, r2, r3}
  r1 = r1
  r2 = r2
  r3 = r3
  Message = {m1}
  MaxFence = 2
  None = None
  Unspecified = Unspecified
SPECIFICATION Spec
CONSTRAINT Scope
SYMMETRY Symmetry
CHECK_DEADLOCK FALSE
INVARIANTS
  OnlyHeadIsOpen
  LivePermitIsCurrent
  HandoffAlwaysPossible
  ConfirmedIsRecoverable
PROPERTIES
  HeadMovesForward
  ImplementsAtMostOnce
