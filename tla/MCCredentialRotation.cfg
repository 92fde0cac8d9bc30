SPECIFICATION FairSpec
CONSTANTS
  MaxOps = 2
  Slots = 3
  None = None
  MaxCrashes = 2
  MaxRestores = 2
INVARIANTS
  FilesFollowJournal
  DatabaseFollowsJournal
  DatabaseIsIntact
PROPERTIES
  RotationEnds
  ForgottenCommitIsRedone
CHECK_DEADLOCK FALSE
