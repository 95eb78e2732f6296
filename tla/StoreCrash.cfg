\* Two tickets, up to three events each, two crashes or restarts, one write that fails
\* while the gate stays up; ASCII texts only.
SPECIFICATION Spec
CONSTANTS
  t1 = t1  t2 = t2  t3 = t3
  TicketId = {t1, t2}
  Email <- MCEmail
  Agent <- MCAgent
  Params = {p1}
  Tags = {g1}
  IdemKey = {}
  Gate = Gate
  None = None
  Fragment = {"torn"}
  MaxEvents = 3
  MaxCrashes = 2
  MaxErrors = 1
SYMMETRY SymmetricTwoIds
INVARIANTS TypeOK NothingAckedIsLost FirstBootRecovers SupersedeIsWhole RestartIsInvisible
CHECK_DEADLOCK FALSE
