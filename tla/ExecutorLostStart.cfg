\* One process, one ticket, one fault.
SPECIFICATION FairSpec
CONSTANTS
  e1 = e1  e2 = e2
  Person = {ann}
  Author = {ann}
  Required = 1
  AllowSelf = TRUE
  None = None
  Proposal = {1}
  Mine = {1}
  Replica = {e1}
  PageLimit = 1
  ReportAttempts = 4
  MaxFaults = 1
  MaxSignals = 0
  MaxCrashes = 0
PROPERTY EveryRunIsFinished
