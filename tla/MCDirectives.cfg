CONSTANTS
  codex = codex
  claude = claude
  d1 = d1
  g1 = g1
  d2 = d2
  x1 = x1
  x2 = x2
  c1 = c1
  lx = lx
  lc = lc
  t1 = t1
  Agent = {codex, claude}
  Directive = {d1, d2}
  Message <- Rows
  Session = {x1, x2, c1}
  SessionAgent <- AgentOfSession
  Lineage = {lx, lc}
  LineageAgent <- AgentOfLineage
  ThreadLineage = {}
  Run = {}
  Turn = {t1}
  TurnClient <- ClientOfTurn
  Grant = {g1}
  MaxVersion = 2
  MaxTime = 1
  MaxFence = 1
  None = None
  Unspecified = Unspecified
SPECIFICATION DirectiveSpec
CHECK_DEADLOCK FALSE
INVARIANTS
  DelegationStandsUnderItsGrant
  CompletedExactlyWhenAllReported
PROPERTIES
  LifecycleIsFinal
  EveryFactPassesItsGuard
SYMMETRY Alike
CONSTRAINT Scope
