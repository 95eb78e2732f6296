\* Two tickets, two crashes that cut the log between whole texts.
SPECIFICATION Spec
CONSTANTS
  t1 = t1  t2 = t2  t3 = t3
  TicketId = {t1, t2}
  Email <- MCEmail
  Agent <- MCAgent
  Params = {p1}
  Tags = {g1}
  IdemKey = {}
  Gate = Gate
  None = None
  Fragment = {}
  MaxEvents = 3
  MaxCrashes = 2
  MaxErrors = 0
SYMMETRY SymmetricTwoIds
INVARIANT RepairHolds
CHECK_DEADLOCK FALSE
