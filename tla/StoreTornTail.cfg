\* One ticket, two crashes; ASCII texts only.
SPECIFICATION Spec
CONSTANTS
  t1 = t1  t2 = t2  t3 = t3
  TicketId = {t1}
  Email <- MCEmail
  Agent <- MCAgent
  Params = {p1}
  Tags = {g1}
  IdemKey = {}
  Gate = Gate
  None = None
  Fragment = {"torn"}
  MaxEvents = 3
  MaxCrashes = 2
  MaxErrors = 0
INVARIANT TornTailIsHarmless
CHECK_DEADLOCK FALSE
