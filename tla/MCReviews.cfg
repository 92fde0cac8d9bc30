SPECIFICATION Spec
CONSTANTS
  s1 = s1
  s2 = s2
  s3 = s3
  L1 = L1
  a1 = a1
  a2 = a2
  Session = {s1, s2, s3}
  Lineage = {L1}
  Run = {}
  None = None
  Unspecified = Unspecified
  Task = {t1}
  Agent = {a1, a2}
  AgentOf <- MCAgentOf
  WorkerOf <- MCWorkerOf
  ReviewRequired = {t1}
  DashboardActs = FALSE
  MaxTodos = 1
  MaxLag = 0
  Finding = {f1}
  MaxRevision = 2
CONSTRAINT Scope
SYMMETRY Symmetry
INVARIANT OneActiveReview
INVARIANT DoneIsApproved
INVARIANT ReviewsAreShownToTheirParties
PROPERTY JudgedIsImmutable
PROPERTY DoneHasNoTodosLeft
CHECK_DEADLOCK FALSE
