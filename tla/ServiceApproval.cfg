\* One ticket, two racing calls, two approvals required.
SPECIFICATION Spec
CONSTANTS
  t1 = t1  t2 = t2  t3 = t3  r1 = r1  r2 = r2
  TicketId = {t1}
  Request = {r1, r2}
  Email <- MCEmail
  Agent <- MCAgent
  Executor <- MCExecutor
  Lower <- MCLower
  Params = {p1}
  Tags = {g1}
  IdemKey = {}
  Gate = Gate
  None = None
  Required = 2
  AllowSelf = FALSE
  MaxEvents = 5
  MaxLineages = 1
VIEW WithoutLogs
SYMMETRY SymmetricCalls
INVARIANTS FourEyes SnapshotsAgree
PROPERTY DecisionIsFinal
CHECK_DEADLOCK FALSE
