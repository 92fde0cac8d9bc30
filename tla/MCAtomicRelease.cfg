SPECIFICATION Spec
CONSTANTS
  o1 = o1
  o2 = o2
  Release = {o1, o2}
  Owner = {w1}
  Build <- MCBuild
  From <- MCFrom
  To <- MCTo
  Installed = "A"
  None = None
  MaxFaults = 1
  MaxWrites = 1
INVARIANT JournalStaysLegible
INVARIANT OpenHubIsConsistent
INVARIANT OutcomeIsTrue
PROPERTY WritesSurvive
PROPERTY ReleaseEnds
CHECK_DEADLOCK FALSE
