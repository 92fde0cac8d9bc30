SPECIFICATION BoardSpec
CONSTANTS
  s1 = s1
  s2 = s2
  s3 = s3
  L1 = L1
  L2 = L2
  a1 = a1
  a2 = a2
  t1 = t1
  t2 = t2
  Session = {s1, s2, s3}
  Lineage = {L1}
  Run = {r1}
  None = None
  Unspecified = Unspecified
  Task = {t1, t2}
  Agent = {a1, a2}
  AgentOf <- MCAgentOf
  WorkerOf <- MCWorkerOf
  ReviewRequired = {}
  DashboardActs = TRUE
  MaxTodos = 1
  MaxLag = 2
CONSTRAINT Scope
PROPERTY FreshClaimIsKept
PROPERTY ReplacementCarriesTheWork
PROPERTY ClaimsWaitForDependencies
CHECK_DEADLOCK FALSE
SYMMETRY Symmetry
