\* One process, four attempts against three faults, a signal.
SPECIFICATION FairSpec
CONSTANTS
  e1 = e1  e2 = e2
  Person = {ann}
  Author = {ann}
  Required = 1
  AllowSelf = TRUE
  None = None
  Proposal = {1, 2}
  Mine = {1}
  Replica = {e1}
  PageLimit = 2
  ReportAttempts = 4
  MaxFaults = 3
  MaxSignals = 1
  MaxCrashes = 0
PROPERTIES EveryExecutionIsReported EveryClearedIsTaken
