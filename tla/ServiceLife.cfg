\* Two tickets with every history of their logs, calls racing over a whole life up to
\* a follow-up; one approval required, self-approval on, one comment or change of tags.
SPECIFICATION Spec
CONSTANTS
  t1 = t1  t2 = t2  t3 = t3  r1 = r1  r2 = r2
  TicketId = {t1, t2}
  Request = {r1, r2}
  Email <- MCOneEmail
  Agent <- MCAgent
  Executor <- MCExecutor
  Lower <- MCLower
  Params = {p1}
  Tags = {g1}
  IdemKey = {}
  Gate = Gate
  None = None
  Required = 1
  AllowSelf = TRUE
  MaxEvents = 5
  MaxLineages = 1
CONSTRAINT FewRemarks
SYMMETRY SymmetricTwoIds
INVARIANTS TypeOK AuditTrailIsConsistent TicketIsFoldOfLog ExecutionMatchesStatus
PROPERTY ImplementsContract
CHECK_DEADLOCK FALSE
