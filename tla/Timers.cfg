\* The sweep and the page of a ticket, one at a time.
SPECIFICATION TimersSpec
CONSTANTS
  \* ExpirySweep: two tickets, pages of one, a lifetime of one unit, one failure
  Ticket = {1, 2}
  Required = 2
  Ttl = 1
  PageSize = 1
  MaxClock = 2
  MaxSeq = 3
  MaxFailures = 1
  \* TicketPage: two people, one the proposer and one with the page, four events, one
  \* fetch or answer that fails
  ann = ann  bob = bob
  Person = {ann, bob}
  Watcher = {ann}
  Approver = {ann, bob}
  Proposer = bob
  AllowSelf = FALSE
  Threshold = 1
  Attempts = 2
  MaxEvents = 4
  MaxFaults = 1
INVARIANTS NoSurprise EveryRightIsOffered
PROPERTIES ExpiresOnlyStale EveryStaleTicketGoes OwnActIsShown OutcomeIsShown
