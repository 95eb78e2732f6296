\* One ticket, one crash; the text that is cut holds a character of several bytes.
SPECIFICATION Spec
CONSTANTS
  t1 = t1  t2 = t2  t3 = t3
  TicketId = {t1}
  Email <- MCEmail
  Agent <- MCAgent
  Params = {p1}
  Tags = {g1}
  IdemKey = {}
  Gate = Gate
  None = None
  Fragment = {"torn", "cutCharacter"}
  MaxEvents = 3
  MaxCrashes = 1
  MaxErrors = 0
INVARIANT TornLineIsSkipped
CHECK_DEADLOCK FALSE
