\* Three tickets in two lineages, two calls racing over proposals with one idempotency
\* key, edits and follow-ups; one approval required, self-approval on.
SPECIFICATION Spec
CONSTANTS
  t1 = t1  t2 = t2  t3 = t3  r1 = r1  r2 = r2
  TicketId = {t1, t2, t3}
  Request = {r1, r2}
  Email <- MCOneEmail
  Agent <- MCAgent
  Executor <- MCExecutor
  Lower <- MCLower
  Params = {p1}
  Tags = {g1}
  IdemKey = {k1}
  Gate = Gate
  None = None
  Required = 1
  AllowSelf = TRUE
  MaxEvents = 3
  MaxLineages = 2
VIEW WithoutLogs
SYMMETRY SymmetricIds
INVARIANTS LineageIsChain OneLiveTicketPerLineage OneTicketPerKey
CHECK_DEADLOCK FALSE
