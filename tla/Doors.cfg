\* The doors of the gate, one at a time.
SPECIFICATION DoorsSpec
CONSTANTS
  m1 = m1  m2 = m2  x1 = x1  x2 = x2
  \* AgentDoor: two gates, an agent without nonces, clocks up to one unit ahead
  Signer = {"exe", "agent", "stranger"}
  Allowed = {"exe", "agent"}
  Drawing = {"exe"}
  GateId = {"here", "there"}
  ThisGate = "here"
  CallId = {x1, x2}
  NoNonce = "none"
  Client = {"c1"}
  Request = {m1, m2}
  Window = 1
  Ttl = 3
  HitWindow = 2
  MaxHits = 2
  Behind = 0
  Ahead = 1
  MaxClock = 3
  None = None
  \* ReportPace: a batch of two may fill the window
  RateWindow = 5
  RateMax = 4
  BatchLimit = 2
  ReportAttempts = 3
  Backoff = 1
  PollPause = 2
  LastMoment = 7
  \* HumanDoor: two approvals by two people
  Proposal = {m1, m2}
  Person = {"ann", "bob"}
  Author = {"ann", "bob", "exe"}
  Required = 2
  AllowSelf = FALSE
  Nobody = Nobody
  Lists <- MCLists
  Groups <- MCGroups
  HasExecutor = TRUE
  \* TokenVerifier
  Call = {m1, m2}
  Key = {"k1"}
  Address = {"ann"}
  NoAddress = "nobody"
  Token = {"opaque", "plain"}
  KeyOf <- MCKeyOf
  Claim <- MCClaim
  Fit = {"opaque", "plain"}
  JwksTtl = 1
  UserTtl = 1
  MaxWait = 1
  \* Discovery
  Session = {m1, m2}
  Kind = {"ami"}
  Region = {"ca"}
  Extra = {x1, x2}
  NoExtra = "none"
  Question <- MCQuestion
  Items = {"before", "after"}
  CacheTtl = 2
  MaxLatency = 1
  \* TicketParameters
  Ids <- MCIds
  Proposer = {x1, x2}
  Operation = {"RunInstances", "StopInstances"}
  Members <- MCMembers
  Needed <- MCNeeded
  Rules <- MCRules
  TagTypes <- MCTagTypes
  Offered <- MCOffered
  OfferedTags <- MCOfferedTags
  MaxTags = 3
  MaxUpdates = 1
  NoKey = NoKey
SYMMETRY SymmetricDoors
INVARIANTS
  SingleUse OnlyTwinsCollide RateIsExact
  LostReportWasCrowdedOut
  PreviewIsHonest LinkDecidesOnce
  WithdrawnKeyLapses SubjectIsRecent
  AnswerIsRecent
  EveryCreationIsTagged StoredCallIsAcceptable SameProposalSameTicket
PROPERTY VotesAreEntitled
CHECK_DEADLOCK FALSE
