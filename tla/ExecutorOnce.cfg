\* Two processes of one role, two tickets of theirs, one fault and a crash; a person, who
\* may not sign what she has edited, and an agent that proposes.
SPECIFICATION Spec
CONSTANTS
  e1 = e1  e2 = e2
  Person = {ann}
  Author = {ann, exe}
  Required = 1
  AllowSelf = FALSE
  None = None
  Proposal = {1, 2}
  Mine = {1, 2}
  Replica = {e1, e2}
  PageLimit = 2
  ReportAttempts = 2
  MaxFaults = 1
  MaxSignals = 0
  MaxCrashes = 1
SYMMETRY SymmetricReplicas
INVARIANTS AtMostOneCall OnlyClearedRuns ReportIsTruthful
