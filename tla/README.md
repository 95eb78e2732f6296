# Verification of mcp-approval-gate

TLA+ models of the approval gate, TLC runs that check them on small instances, and TLAPS
proofs of the main safety properties for every instance.  The models are translated from
`backend/app`, `executor/app` and `frontend/src`; `PROJECT.json` names, for each
definition, the lines it stands for.

To check: `tlc -config X.cfg M` for each run below, `tlapm M.tla` for each module whose
name ends in `Proofs`, and for `FoldTheorems`.

## The system

An agent or a person *proposes* an EC2 change as a ticket; people approve or reject
it in a portal, through an MCP client or by mailed links; an *executor* polls for
approved tickets, tells the gate it starts, makes the one AWS call and reports the
outcome.

| component | state | operations | talks to |
|---|---|---|---|
| status machine (`core/status_machine.py`) | none | may this status move there, by this kind of actor | used by the service |
| fold (`repo/base.py:apply_event`) | none | ticket + event -> ticket | used by service, store, replay |
| ticket service (`core/service.py`) | none of its own | propose, start, report, approve, reject, supersede, close, comment, tag | awaits the repository: reads, then one conditional write |
| jsonl store (`repo/jsonl_store.py`) | `tickets.jsonl`, `_tickets`, `_events`, `_by_idem` | create, append (CAS), supersede pair (CAS), queries; replay and repair at boot | the disk |
| expiry sweep (`jobs/expiry.py`) | none; a timer | pages through pending and approved tickets, expires stale ones | repository, concurrently with the service |
| executor (`executor/app`) | the loop's position, a stop flag | poll, start, execute, report with retries | gate over HTTP, AWS |
| agent API, authentication, replay cache | nonces already seen | verify an envelope with STS, then the service | executor, STS |
| rate limiter (`api/middleware.py`) | a window of hits per client | allow or refuse | in front of agent API and links |
| portal API, sessions, roles | a signed cookie with the role | the service operations behind two gates | browsers |
| MCP gateway, token verifier | two caches | create, status, supersede, close for the caller's own tickets | IDEs, the identity provider |
| approval links | none: signed tokens | preview and act as the address the link was mailed to | mail clients |
| parameter checks, gate tags | none | validate a plan, inject the gate's tags | `build_ticket` |
| discovery, notifications, portal | caches, none, view state | look-ups, mail, rendering | AWS, SES, the API |

What is hard here: calls of several people, of the executor and of the sweep
interleave between reading a ticket and writing to it; the log is written by a
process that may die at any byte and is replayed by another; the executor and the
gate fail independently of each other, in the middle of a call that must happen at
most once; limits, caches and timeouts sit between them.  `PROJECT.json` lists these
hazards at their lines.

What makes each part correct:

* *service*: enough different people, none of them the proposer, before anything
  runs; decisions stay; a lineage is a chain with one live ticket; the record says
  truly whether a ticket ran; one ticket per idempotency key.
* *fold and log*: the log is gapless and truthful, and folding it gives the ticket.
* *store*: what was acknowledged survives every crash; a supersede is whole or
  undone; a crash never keeps the gate from starting (it can: see Findings).
* *executor*: an approved call is made at most once; a reported success
  happened; what was executed is reported; an approved ticket is taken up; a ticket does
  not stay in EXECUTING while both sides are up (it can: see Findings).
* *sweep*: nothing fresh is expired, and a stale ticket does not stay.
* *authentication*: one process accepts an envelope once; the first use of an envelope
  with a nonce is never taken for a replay, and one without collides only with another
  call of its signer in the same second.
* *limiter*: it counts exactly, and costs the executor a report only when the executor's
  own requests of the last seconds fill the window (they can: see Findings).
* *sessions and links*: every vote is by somebody entitled to it at that moment, through
  any sequence of logins, edits of list and groups and changes of the secret; a link works
  once, and its page says whether it will.
* *tokens and look-ups*: what a cache answers is not older than its lifetime says,
  however slow and out of order the answers it was filled with.
* *page*: it offers what the gate would accept, and does not stay behind the ticket's end or
  one's own acts.
* *calls*: what a call creates carries the ticket's id and its proposer, once; an edit
  can start from the stored call; the same proposal is the same ticket.

## Modules

```
StatusMachine <- TicketPage
StatusMachine <- TicketFold <- TicketService <- ServiceContract --(INSTANCE)--> GateContract
                     ^              ^                  ^                             ^
                     |              +- TicketServiceInv                              |
                     |                          ^                               (INSTANCE)
                     |              MCTicketService (both)                           |
                     +- JsonlStore <- MCJsonlStore               MCExecutor -> Executor
                            ^
                            +- JsonlStoreInv

ExpirySweep, TicketPage <- MCTimers
SlidingWindow <- AgentDoor, ReportPace
AgentDoor, ReportPace, TokenVerifier, Discovery, TicketParameters, HumanDoor <- MCDoors
                                               HumanDoor --(INSTANCE)--> GateContract

proofs
  FoldTheorems                       facts about FoldLeft, by INSTANCE with the folded operator
  TicketFoldProofs                   of TicketFold, with FoldTheorems
  GateContractProofs                 of GateContract; by INSTANCE in TicketServiceProofs,
                                     ExecutorProofs and DoorProofs
  TicketServiceProofs                of TicketServiceInv and ServiceContract, with TicketFoldProofs
  JsonlStoreProofs                   of JsonlStoreInv, with TicketFoldProofs and FoldTheorems
  ExecutorProofs                     of Executor
  TimerProofs                        of ExpirySweep and TicketPage
  DoorProofs                         of AgentDoor, ReportPace, HumanDoor, TokenVerifier,
                                     Discovery and TicketParameters, with FoldTheorems (its
                                     induction)
```

* **StatusMachine**: `_ALLOWED` as a set of triples, `can_transition`,
  `status_after_approval`.
* **TicketFold**: `Ticket`, `AuditEvent`, `build_ticket` and `apply_event`.  A plan
  (service, operation, region, parameters, and so its hash) is an element of
  `Params`; a person's address is an element of `Email` and its lower-case form is
  `Lower[p]`; roles are elements of `Agent` (the session ARN that is also logged is
  left out).  Subjects, dates, reasons, messages, request ids are left out.  The
  `TICKET_CREATED` event carries the ticket, as in the code.
* **TicketService**: each operation of `core/service.py`, and the sweep's step on one
  ticket, is an action that reads the ticket, evaluates *every* check of the
  function in the code's terms and leaves in `requests[r]` the snapshot and the event
  it is about to write.  `AppendEvent`, `TransactSupersede` and `CreateTicket` are
  the repository's methods; `RaiseConflict` is their refusal (HTTP 409).  A call
  whose checks fail has no effect and is no action.  `tickets` and `events` are the
  store's dictionaries; `_by_idem` is the function `FindByKey` of `tickets`.
* **TicketServiceInv**: what a call in flight holds (`LegalEvent`, `LegalLink`,
  `Newborn`), and the inductive invariant `IInv`.
* **GateContract**: the promise in a user's words, every operation one atomic step:
  people sign, enough signatures clear, a cleared proposal runs at most once, an
  edited one has one heir.  `MaySign` and `MayDecide` are the guards of a vote.  What the
  contract comes to is stated beside it: `SignedBeforeRun`, `HeirsAreOwn`,
  `EndsAreFinal`.  **ServiceContract** maps `TicketService` onto it: a status is
  a phase (CLOSED is *withdrawn* or *succeeded*, as the ticket has run or not), the
  signers are the people behind the approvals, the heir is `supersededBy`.
* **JsonlStore**: the file as a sequence of tokens (a JSON text, a newline, a
  fragment); writes, writes cut at any token, writes that fail without a crash,
  restarts, and `_replay` with `_repair_partial_supersede`.  Calls are atomic here
  (the store holds its lock and never suspends).  The events are those that matter
  to the file: creation, comment, withdrawal, both kinds of supersede.  Idempotency
  keys are left out here, `TicketService` has them.
* **JsonlStoreInv**: what the file and the memory must be like for the next boot to find
  the one in the other (`StoreInv`), for the proof.
* **Executor**: each process is a record with its place in `main` (`idle`, `listing`,
  `looping`, `starting`, `executing`, `reporting`, `stopped`), the polled batch, the
  ticket in hand, the verdict and the attempt.  Its HTTP requests lie on `wire` until the
  gate handles, refuses or, after the client has given up, still handles them.  The
  gate is `GateContract`, which `ServiceContract` shows the service to implement, so
  people sign, withdraw and edit while requests are under way.  AWS is external: a call
  succeeds, is refused or gives no answer.
* **ExpirySweep**: `sweep_once` line by line: the moment fixed at its start, a query
  for one page by offset into the list as it is *then*, a decision and a conditional
  write per ticket of the page as it was *read*.  Tickets carry what the sweep looks at.
  `TicketService` also has the step on one ticket, as one of the twelve operations that
  race there; here it is the pages and the clock that matter.
* **SlidingWindow**: what is left of a client's deque when the stale hits are dropped.
* **AgentDoor**: the way of a signed request to the agent API: an agent signs, the
  limiter counts, `verify_agent` checks the date and the server id, the replay cache
  remembers, STS answers later, the allowlist decides.  An envelope is a record of who
  signed, for which gate, with which date and which nonce; the syntax of a well-formed
  request is no part of it.  `signed` is a set of *calls*, each with its envelope, because
  two calls may have one envelope: the executor draws a nonce for each
  (`gate_client.py:70`), while the client of `docs/agent-contract.md` and
  `scripts/agent_flow_demo.py` sign none, which `verify_agent` accepts (`Drawing` says who
  does).  A signer's clock may be `Behind` or `Ahead`, a restart empties the
  cache and the windows.  Everything up to the call of STS is one step: between limiter
  and `verify_agent` the middleware awaits `call_next`, but the two share no state, and
  within each nothing is awaited.  Requests for links share the window (`ByLink`).
* **ReportPace**: one executor before the limiter, with its polls, starts and reports, the
  pauses of `_report`, the sleep between polls, signals, and restarts on both sides.  What
  the limiter lets through, the gate lands: other faults of a report are Executor's.
* **HumanDoor**: sessions (`sessions[who]` is the set of roles in the cookies a person
  holds: a role is resolved at login and kept), the list of approvers, which a restart
  may change, groups that people join and leave, links (`mailed[p]`: who was sent links for
  that ticket under the present secret), every handler that changes a ticket, and the
  landing page's `_blocked_reason`.  The tickets are `GateContract`.  `LinkCounts` says when
  a click on a link changes the ticket, for comparison with what its page says.  A link
  that has come to its age does nothing, and so has no action.  The number of approvals,
  self-approval and the rest of the settings stay as they are, and `dev_login`, where the
  caller names his role and which the settings refuse in production, is left out.
* **TokenVerifier**: `verify_token` up to and after each of its two awaits, the two
  caches, and the provider that rotates keys and renames people meanwhile.  A
  `verdict` stands for the request that was let in.
* **Discovery**: `get_or_call` and `_run`: hit, call, AWS reading the account, return,
  failure.  Both caches keep time as ages that stop growing once nothing tells them
  apart, so time is not bounded.
* **TicketParameters**: the call a ticket carries: the limits and checks of a proposal,
  `with_gate_tags`, the idempotency keys, `build_ticket`, the supersede dialog that
  resubmits a stored call, `supersede_change_ticket`, `update_tags`.  A ticket keeps what
  was asked beside what is stored.  Each request is one step; racing calls on one ticket
  are `TicketService`'s.
* **TicketPage**: the portal's page of one ticket, a cached copy of what the gate has.
  The query asks when the page is mounted, polls until it has shown a terminal status,
  tries again once, and is asked anew after one's own successful clicks, an edit leads
  to another page; meanwhile others change the ticket.  Who sees which button is
  translated from the components, what the gate accepts from the service.  The query
  cache is external: one fetch of a query at a time, an invalidation starts it anew, a
  tab in the back does not poll.  The three reads of `get_ticket` are one.
* **MCDoors**: the six side by side.  They share no state, so `focus`, fixed at the
  start, says which of them takes the steps of a behaviour: TLC sees all states of each
  and none of their products.  **MCTimers** does the same for ExpirySweep and TicketPage.

Operators introduced by a comment "Fault:" are seeded mistakes: put in the place of
the definition they precede, each makes a property fail.  They show that the
properties can fail, and no specification uses them.

### Interleaving

With the jsonl store no repository method really suspends: the lock is never
contended and file I/O is synchronous, so the halves of a call run back to back.
`service.py` and `expiry.py` are nevertheless written against the contract of
`repo/base.py` ("the production migration is a config swap, not a rewrite"), with
compare-and-set on every write, and the model lets other calls run between the
halves.  It allows strictly more behaviours than today's deployment; every property
that holds of it holds of the deployment.  No finding depends on it.

## Runs

| run | instance | what it shows |
|---|---|---|
| `approval` | 1 ticket, 2 racing calls, 4 spellings of 3 people, 2 approvals required, up to 5 events | `FourEyes`, `DecisionIsFinal`, `SnapshotsAgree` |
| `lineage` | 3 tickets in up to 2 lineages, 1 key, 2 calls, up to 3 events | `LineageIsChain`, `OneLiveTicketPerLineage` under racing edits and follow-ups; `OneTicketPerKey` under racing proposals |
| `life` | 2 tickets, 2 calls, up to 5 events, 1 approval, 1 comment or change of tags, logs part of the state | `ExecutionMatchesStatus` over a whole life with a follow-up; `AuditTrailIsConsistent`, `TicketIsFoldOfLog`, `TypeOK`; `ImplementsContract` with successors |
| `store_crash` | 2 tickets, 3 events, 2 crashes or restarts, 1 failed write | `NothingAckedIsLost`, `FirstBootRecovers`, `SupersedeIsWhole`, `RestartIsInvisible`, `TypeOK` |
| `executor_once` | 2 processes of one role, 2 tickets, 1 fault, 1 crash, 2 attempts; a person and an agent propose, and nobody signs what is her own | `AtMostOneCall`, `OnlyClearedRuns`, `ReportIsTruthful` |
| `executor_reports` | 1 process, 4 attempts against 3 faults, 1 signal, a ticket of another role | `EveryExecutionIsReported`, `EveryClearedIsTaken` |
| `timers` | sweep: 2 tickets, pages of 1, lifetime 1, clock to 2, 1 cut-off sweep; page: 2 people, 1 tab, 4 events, 1 failed fetch or lost answer, 2 attempts | `ExpiresOnlyStale`, `EveryStaleTicketGoes` (ExpirySweep); `NoSurprise`, `EveryRightIsOffered` (the page's rules are the service's), `OwnActIsShown`, `OutcomeIsShown` (a stale page does not stay) |
| `doors` | see below | `SingleUse`, `OnlyTwinsCollide`, `RateIsExact` (AgentDoor); `LostReportWasCrowdedOut` (ReportPace); `VotesAreEntitled`, `LinkDecidesOnce`, `PreviewIsHonest` (HumanDoor); `WithdrawnKeyLapses`, `SubjectIsRecent` (TokenVerifier); `AnswerIsRecent` (Discovery); `EveryCreationIsTagged`, `StoredCallIsAcceptable`, `SameProposalSameTicket` (TicketParameters) |
| `store_torn_tail`, `store_cut_character`, `store_repair`, `executor_lost_start` | as small as the finding allows | violations, see Findings |

Bounds.  `MaxEvents` bounds the sequence number at which a call may start (the logs
of a life up to a follow-up have four events, five with two votes), `MaxLineages`
the independent proposals, `MaxCrashes` and `MaxErrors` the faults.  Two calls are
enough for every race here: a conditional write only compares one call's snapshot
with the store, and what the store went through meanwhile is the work of earlier
calls, whose number is not bounded by two.  The proofs remove
these bounds for the properties they cover.  Three
tickets are enough for a fork (one parent, two children) and a chain of length
three.  `WithoutLogs` leaves `events` out of TLC's fingerprints in runs whose
properties do not read it and whose actions only append to it; in `life`, where they do,
`FewRemarks` bounds the events that change nothing else (`MaxRemarks`).  Ids and calls are
interchangeable, so symmetry is sound for the invariants; the only temporal
formulas checked under it are of the form `[][A]_v` and refinement to a
specification without fairness, which symmetry does not endanger.

The executor's two processes are interchangeable, and only its invariants are checked
under that symmetry.  Two processes and two tickets are enough for a batch that goes
stale between two tickets and for two starts of one ticket; the delayed request that
arrives after a restart needs one fault and one crash.  `executor_reports` takes the
code's own number of attempts, with one fault less.  A page of one and two tickets are
enough for a list that slides under the sweep's cursor.

`doors` has, per component:

* AgentDoor: two calls, of the executor, of another listed agent that draws no nonce or of
  an unlisted principal, for this gate or another, two requests at STS at a time, a clock
  of four ticks.  A window of 1 around the date, a time to live of 3, clocks that are right
  or one tick ahead: as in the code, the time to live exceeds the window by more than the
  lead.  Two hits in two ticks.  Four ticks are enough for an envelope
  to be signed early, presented, forgotten and presented again.  One client is enough:
  the limiter treats clients apart.
* ReportPace: four requests in five ticks, batches of up to two, three attempts with pauses
  of one and two ticks, eight ticks.  A poll, a ticket done and a start fill the window, and
  the next report meets it full; TLC reaches reports that are given up, reports that are
  refused and land later, and windows that empty at the last attempt.
* HumanDoor: two proposals (so that one may replace the other), two approvals by two
  people, one of them on a list that may be emptied and filled again and in a group now and
  then, the other in a group; a third author is the executor.
* TokenVerifier: one key that may be withdrawn and published again, a token that names
  its person and one whose address is asked for, two calls at a time, lifetimes and
  answers of one tick each: the least at which an answer outlives another's wait.  One
  address, which the provider gives or withholds: the property speaks of one address at a
  time, and the proof has any number.
* Discovery: two aliases that differ in their parameter only, two look-ups at a time, two
  answers, a time to live of 2 and a latency of 1.
* TicketParameters: three tickets, an operation that is tagged and has a rule of two
  names, one with a required name and no tags, a call with an entry copied from another
  ticket, and as many tags as allowed: enough for an edit of an edit.

The page of `timers` has one tab, because tabs meet only at the gate, where `Elsewhere`
stands for all others; four events are enough for a status to be reached, left and
followed up behind the page's back, with a comment between.

The symmetry of `doors` exchanges two pairs of model values, each used for one
interchangeable set per component, and no temporal property but one of the form `[][A]_v`
is checked there.

Deadlock is checked in the runs of the executor and in `timers`: neither system comes
to a state from which nothing goes on.  It is off in the runs of the
service and of the store, which really stop when every ticket is full at the bounds, and
in `doors`, where the clock of AgentDoor and the ids of TicketParameters run out.

### Fairness

* `Executor`: weak fairness of each process's `Proceed` (the loop survives every
  exception, sleeps for a bounded time, and a stopped container is started again) and of
  the gate's `Answer` (the gate is one process that serves what reaches it; a process
  has one request under way).
* `ExpirySweep` (in `MCTimers`): weak fairness of `Sweep` (`run_expiry_loop`: "never let the loop die",
  and a bounded sleep) and of `Tick` (time passes).
* `TicketPage` (in `MCTimers`): weak fairness of `Poll` (a page in front polls every ten seconds), `Read`
  and `Arrive` (the gate answers what reaches it).

Nothing is assumed of people, faults, signals or crashes: they may happen or not, up to
their bounds.

## Findings

1. `store_torn_tail`: the boot skips a torn final line but leaves its bytes, and the
   next append is glued to them.  The gate acknowledges that write (`acked` has its event in
   the trace); the boot after aborts with "corrupt event log".
2. `store_cut_character`: when the cut goes through a character of several bytes,
   `json.loads` raises `UnicodeDecodeError`, which the `except json.JSONDecodeError` does
   not catch: the boot aborts on a torn final line.
3. `store_repair`: `_repair_partial_supersede` works in memory; the link event stays
   in the log, and the ticket's next event repeats its sequence number.  The boot
   after raises `ConflictError`, on a log of whole lines only.
4. `executor_lost_start`: when the answer to `execution/start` is lost or late the
   executor drops the ticket, which is EXECUTING at the gate.  No one lists it, starts
   it, reports it or expires it again; the approved change is never made.

`FirstBootRecovers` and `NothingAckedIsLost` delimit the first three: with ASCII texts the
first boot after one cut-off write comes up, and no process that comes up has lost an
acknowledged event. `AtMostOneCall` delimits the fourth: it is the price of never calling
twice.

Limits that have no run of their own, each seen by changing one constant:

* The listing is cut at the newest fifty APPROVED tickets before it is filtered by
  assignee (`agent_tickets.py`): with `PageLimit = 1` `EveryClearedIsTaken` fails.  In the
  run the page holds all proposals, so that it says nothing of the cut.
* A time to live of the replay cache that does not exceed the date window by more than
  the lead of a signer's clock: `SingleUse` fails.  `ClocksAssumption` names the
  condition; with the code's 300 and 360 seconds the lead must be less than a minute.
  (With `Ttl = 2` TLC stops at the assumption; without the assumption it finds the envelope
  that is accepted twice.)

Limits that a property states as its exception:

* The documented client (`docs/agent-contract.md:48-67`) and `scripts/agent_flow_demo.py`
  sign no nonce.  "Each signed envelope is single-use; sign a fresh one per request"
  (`docs/agent-contract.md:37-38`): two envelopes that such a client signs afresh in one
  second are the same, and the second request is refused with 401 at its first use.
  `OnlyTwinsCollide` excepts them; the same without the exception fails at once.
* The limiter can cost the executor a report.  An executor with a full batch makes two
  requests per ticket without a pause of its own; if sixty pass in less than 48 seconds
  (the window less the pauses of 2, 4 and 6), all four attempts of the next report are
  refused, and the ticket stays in EXECUTING.  A poll and thirty tickets are enough: the
  report of the thirtieth is the sixty-first request.  `LostReportWasCrowdedOut` says that
  it happens in this way only, unless a signal has taken the pauses away.

Limits seen while modelling, which no property states:

* The supersede dialog sends the tags of the ticket, the gate's two among them, against
  the limit of twenty (`supersede-dialog.tsx:71`, `schemas.py:14`): a ticket opened with
  nineteen or twenty tags cannot be edited from the portal.  `StoredCallIsAcceptable`
  leaves the tags of such a ticket out.
* The idempotency key of a person's proposal leaves out the region, the tags and the
  dates (`tickets.py:84`, `mcp_gateway.py:113`): the same call for another region is
  answered with the first ticket, and so is the same call after a rejection or an expiry
  (`service.py:247`).
* An entry of TagSpecifications for a type that the gate does not tag keeps whatever tags
  it came with, a copied `gateTicketId` among them; `EveryCreationIsTagged` is about the
  types it does tag.
* The buttons of the portal are withheld from who has approved and may still reject.
* A session keeps its role until it ends, whatever the list says since; `VotesAreEntitled`
  says so (`founded`), where a link is checked against today's list.
* Two people who edit the tags of a ticket at once: the editor sends every tag as it was
  when the dialog opened, and the second save undoes the first (`tags-editor.tsx:46`,
  `service.py:466`).  The trail keeps the old tags.
* A page that has shown a terminal status no longer polls (`ticket-detail.tsx:37`): a
  comment or a follow-up made elsewhere appears there only after a click or a new visit.
  `OutcomeIsShown` promises the status only.  When a refetch after a click fails as often as
  a query attempts (twice), such a page does not show one's own act either;
  `OwnActIsShown` is checked with fewer faults than attempts.
* A click that the gate refuses fetches nothing: the page shows what it showed until the
  next poll.
* One sweep does not expire everything when stale tickets fill more than a page; the
  next one goes on.  `EveryStaleTicketGoes` is the weaker promise that holds.

## Proofs

### TicketService

`TicketServiceProofs` proves, for all sets of tickets, people, agents, plans, keys
and concurrent calls, every threshold and both settings of self-approval:

* `Invariance`: `Spec => []IInv`;
* `TypeCorrect`, `FourEyesHolds`, `SnapshotsAlwaysAgree`, `ExecutionAlwaysMatches`:
  the invariants of those names;
* `DecisionsAreFinal`: the action property `DecisionIsFinal`.

The assumptions are the named `ASSUME`s: `None` is no id, roles are not addresses
even in lower case, lower-casing is idempotent, the threshold is positive.

Why the invariant has to be strengthened: the checks of a call and its write are
different steps, so `FourEyes` says nothing of a vote that is on its way.  `IInv`
adds that a call in flight holds what its checks allow *on its snapshot*
(`CallsAreLegal`), that a snapshot with the stored sequence number *is* the stored
ticket (`SnapshotsAgree`: no ABA, because every event bumps the number), and that
votes are sound before there are enough of them (`VotesAreSound`).  A write then
applies a legal event to the very ticket it was checked on.  The lemmas on
`ApplyEvent` say what an event changes and what it freezes; `Starts` abstracts the
twelve operations to "a call now holds something legal"; one lemma per part of
`IInv` and per write closes the induction, and the same case analysis over writes
gives `DecisionIsFinal`.

### The history of tickets

`TicketServiceProofs` goes on to prove `LineagesAreChains`, `LineagesHaveOneLiveTicket`,
`KeysAreUnique` and `TrailsStayConsistent` on top of `IInv`, for any number of tickets and
logs of any length.  The invariant of this part, `HistoryInv`, adds what these properties
take for granted: the id a call is about to use is no ticket's and no other call's
(`CallsKnowTheirPlace`, `NewIdsDiffer`), every log has as many entries as its ticket's
sequence number (`LogsAreComplete`), and a lineage has exactly one ticket that nothing
supersedes, while every other one is terminal (`LineagesHaveEnds`).  From the last,
`OneLiveTicketPerLineage` follows: two live tickets would both be that end.  `Begins` says
of the first half of every call what the second relies on, `Appends`, `Pairs` and
`Creates` what each write does to tickets and logs.

`TicketsAreFoldsOfLogs` is `TicketIsFoldOfLog`: folding the log from its first entry gives
the ticket.  Its step is `RefoldAppend` (TicketFoldProofs): folding a log with one more
entry is one more step of the fold.

### Folds

A fold is a recursive definition, and the induction theorems of the library take an
operator as a parameter, which the provers cannot instantiate.  `FoldTheorems` goes
another way: `SetInduction` states induction for a *set* of numbers, from the library's
`WFMin`, and the module has a constant operator `Op`, so that `INSTANCE FoldTheorems WITH
Op <- ApplyEvent` gives its theorems about `FoldLeft(ApplyEvent, ...)`.  They say that the
fold of nothing is the base, that of one element more is one more step (`FoldAppend`), and
that a set closed under the step contains the fold (`FoldType`).  Five
folds are treated so: the ticket over its log, the lines over the tokens of the file, the
memory over the lines, and what a write puts into the memory and into the file over its
entries.

### JsonlStore

`JsonlStoreProofs` proves, for any ids, people and plans, logs of any length, and any
number of crashes, restarts and failed writes cut at any token:

* `StoreIsSound`: `Spec => []StoreInv`;
* `TypeCorrect`, `AckedIsKept`, `SupersedesAreWhole`, `RestartsAreInvisible`: the
  invariants `TypeOK`, `NothingAckedIsLost`, `SupersedeIsWhole` and `RestartIsInvisible`;
* `FirstBootsRecover`: `FirstBootRecovers`, where no cut leaves half a character.  That is
  the hypothesis of the theorem, as the texts of its property say; without it the boot
  aborts (finding 2).

Between two boots the properties speak of the memory, and after a boot of whatever the
file gave.  The invariant therefore compares the memory with what a boot would make of the
file *now*: `Body` is the replay of the lines that are ended by a newline, `Tip` what comes
after the last one, `Whole` the replay of both.  Replay may fail; then the process does
not come up.  `StoreInv` says:

* `FileInv`: if it does not fail, what it gives is worth serving (`Sane`).  It is
  `Sound`: every log folds to its ticket, a successor and its predecessor point at each
  other, and a link whose successor is missing is the last event of its log
  (`Detachable`), so that the repair may take it away.  It `Keeps` the acknowledged logs,
  also after that repair.  And it is `Within` the ids the file mentions, so that
  the id of the next ticket is not one a torn supersede has left dangling.  Both `Body` and
  `Whole` are needed: a newline turns one into the other, a text behind a torn line spoils
  the one and not yet the other.
* `MemoryInv`: the memory of a running process is sound, with nothing dangling, and a file
  to which something can still be appended legibly keeps the memory's logs.
  They need not be *equal*: after a failed write the file may hold a whole line that the
  memory does not, and after a repair the link event.
* `UntornInv`: until a first cut they are equal; that is `RestartIsInvisible`.
* `FirstTearInv`: a cut leaves the file readable until something is appended to it.

The argument goes along a write: `ReachedSteps` and `CutReached` say what of its tokens
may be on the disk, `FileGoesOn` what one token more does to `Body` and `Whole`,
`LineAdded`, `FragmentAdded`, `BehindTorn` and `Unreadable` the same for one line.
`PlainSound`, `LinkSound` and `CreateSound` say that one event more keeps a state sound,
`KeepsAppended` and `KeepsCreated` that it keeps the logs, for the memory and for any
other state that keeps the memory's logs (`Follows`), which is where the file may have got
to.  `RepairSound` and `RepairKeeps` treat the boot.

### The contract

`GateContractProofs` proves of the contract alone, for any proposals, people and
threshold and without an assumption on them:

* `SignaturesComeFirst`: what is cleared, or has run, has the required signatures, its
  author's not among them (unless that is allowed), and what has them does not wait;
* `HeirsAreTheirOwn`: nothing has two heirs, no two have one, and what has an heir has
  come to its end;
* `EndsStayAsTheyAre`: an ended proposal keeps its phase, author, signatures and heir.

The first two are inductive with one addition (`ContractInv`): what is absent has no
signature, so that a new proposal starts without any, and no heir, so that a new
heir has none yet (`AbsentAreBlank`).

`TicketServiceProofs` proves `ServiceKeepsContract`: `Spec => ImplementsContract`.
The first half of a call and a refused write change nothing the mapping sees.  A write
is one operation of the contract, whose guards hold because the call's event is legal
for the stored ticket (`IInv`): an approval is `Sign`, and leads to *cleared* just when
the signers are enough, because sound votes are as many as their signers
(`SignersCount`, a bijection); a rejection is `Refuse`; the other events are `Drop`, `Run`,
`Finish` or a stutter (`OtherEventImplements`); a creation is `Propose`; the supersede
pair is `Inherit`, by a person (`HistoryInv`).

Three systems take steps of the contract and nothing else: the service
(`ServiceKeepsContract`), the gate as the executor finds it (`ExecutorKeepsContract`) and
as the doors use it (`DoorsKeepContract`).  Each proof module takes `GateContractProofs`
by INSTANCE, as `Facts`, shows the two instances of the contract to be the same
(`SameContract`) and inherits `ContractInv` (`ContractIsInvariant`).  So the theorems
about the contract hold of all three: `SuccessorsAreOwn` and `EndedTicketsStay` of the
service with its racing calls, `ClearedBeforeRun` and `RecordsAreFinal` of the executor
with its crashes and late requests, `ClearedIsSigned` and `PreviewsAreHonest` of the
doors.

### TokenVerifier

`DoorProofs` proves `WithdrawnKeysLapse` and `SubjectsAreRecent` for all tokens,
keys, addresses, calls at a time, lifetimes and latencies under `TokenAssumption`.
`TokenInv` bounds, for every key of a cached or awaited set and for every cached or
awaited address, the time since the provider last said so: by the age of the entry or the
wait of the call.  A slow answer that fills the cache carries the wait it had into the
entry's age.

### Executor

`ExecutorProofs` proves `CalledAtMostOnce`, `ClearedBeforeRun`, `RecordsAreTruthful` and
`TypeCorrect` for every finite set of tickets, any number of processes of the role, any
page limit, number of attempts and bounds on faults, signals and crashes.  `ExecInv` is
about what a process has in hand: while it executes, the gate has the ticket running,
nothing has become of it, and no other process executes it (`OneRunner`), because the gate
grants a start once; what it reports, and every report still on the wire, is what became
of the change (`RequestIsSound`), so a report that arrives after its sender has died does no
harm.  `ExecutorAssumption` asks that the tickets be finitely many, so that the listing has
an order.  `HandlesSoundly` says what a handler does to started tickets,
`OthersKeep` that nobody else at the gate touches them.

`ExecutorKeepsContract` is `Spec => Gate!Spec`: a handler that succeeds is one operation
of the contract (`HandlerKeepsContract`), and a request that gets lost, comes late or is
refused is none.  With the contract's invariant, `ClearedBeforeRun` (`OnlyClearedRuns`)
says more than the executor could know of itself: it sees a status, and what that status
stands for is that as many others as required have signed.  `RecordsAreFinal` is
`EndsAreFinal` of the executor's specification: no report, however late, changes an
outcome.  The bound on epochs in `TypeOK` needs a second invariant, `EpochInv`: an epoch,
and a stop that is not yet obeyed, have each used up one of the bounds.

### ExpirySweep

`TimerProofs` proves, for every finite set of tickets, lifetime, page size and
threshold and at any bounds:

* `SweepTypeCorrect`: the type invariant, with the bound on a page's length;
* `OnlyStaleExpires`: the action property `ExpiresOnlyStale`.

The sweep decides on a page it read earlier and on a moment fixed earlier still.  The
invariant therefore says that a ticket of the page with the stored sequence number is the
stored ticket (`PageIsFaithful`), that the moment is not in the future, and that an
approved ticket has the vote its clock starts from (`ApprovedIsSigned`).  `SweepAssumption`
asks that the tickets be finitely many, so that a list of them exists.

### TicketPage

`TimerProofs` also proves `UpToDateClicksSucceed` (`NoSurprise`) and
`RightsAreAlwaysOffered` (`EveryRightIsOffered`) for all people, tabs, thresholds and
faults under `PageAssumption`.  The rules of the page are the service's, for one and the
same ticket (`OffersAreRights`, `RightsAreOffered`); but a click is judged by a ticket
that may have moved on.  `PageInv` therefore says that a copy with the ticket's sequence
number is the ticket, on the page as on its way there, that a click under way was offered
by the copy it was made on, and that what has a successor is terminal: only then may the
page hide the closing of a linked ticket, of which the service says nothing.

### AgentDoor

`DoorProofs` proves `EnvelopesAreSingleUse` for all sets of signers, envelopes,
clients and requests and all times under `DoorAssumption` and `ClocksAssumption`.  The
invariant (`DoorInv`) relates the cache to the history: an envelope that is accepted or
waits for STS is remembered until after its date has left the window, and no two waiting
requests hold one envelope.  Forgetting is harmless because of the clock alone: a
signature is dropped at its arrival plus the time to live, when the date, which was at
most `Ahead` later than the arrival plus the window, is refused.

`OthersDoNotCollide` (`OnlyTwinsCollide`) adds that whatever signature is remembered is that
of a call presented before (`SeenArePresented`), and that an envelope with a nonce is its
call's own (`CallsAreOwn`).  So a new call that meets its signature in the cache has no
nonce, and the call it meets is another one of the same second.
`RatesAreExact` is about the limiter, for any window, limit and number of clients: the
hits it keeps are the last of the client's passes, those it has dropped have left the
window, and passes that are `MaxHits` apart are a window apart (`Counted`).  What
`popleft` drops is the least number of hits that leaves none too old on the left, which
exists because the naturals are well-founded (`StaleIs`).

### ReportPace

`DoorProofs` proves `ReportsAreCrowdedOut` (`LostReportWasCrowdedOut`) for every window,
limit, page, number of attempts (two at least) and pause.  `PaceInv` says that the
limiter's list is sorted and of the past, that nothing in it is later than the first
attempt of the report under way, and that the time since then, with what is still slept of
the present pause, is at least the sum of the pauses so far (`Below`, whose step
`BelowGrows` takes apart even and odd).  At the last attempt nothing is left to sleep, so
what still counts is later than that moment less the window.

### HumanDoor

`DoorProofs` also proves `LinksDecideOnce` and `AllVotesAreEntitled` for all people,
proposals, lists, groups and thresholds.  `PeopleInv` says that every cookie with the role
of an approver was obtained by a member of a group or of a list under the present secret
(`founded`), and that a used link has left its trace in the ticket: an approval stays among the
signatures, a rejection is final.  Lemmas abstract the operations of `GateContract` to
"no vote" and "a vote of one person", so that the handlers are a case analysis over both.

`DoorsKeepContract` says that no door has a way of its own around the contract;
`ClearedIsSigned` follows, so who may use several doors has one vote.  `PeopleAssumption`
asks that lists be of people and that people may be authors.

`PreviewsAreHonest` is about what a page says of a click.  `LinkCounts`
is written without ENABLED, and `ClickIsGuarded` shows that it is no less: a click is
`LinkCounts` and one assignment to each variable, so it can be taken just when
`LinkCounts` holds.  The page and the service do not ask the same questions:
`_blocked_reason` looks for a successor, the service does not.  That they agree needs the
contract's invariant, by which a ticket that waits for votes has no successor.

### Discovery

`DoorProofs` proves `AnswersAreRecent` for all questions, answers and look-ups at a
time, every lifetime and latency.  `DiscoveryInv` says of each entry that what it holds
was true no longer ago than its age, and of each answer under way that it was true no
longer ago than its wait.

### TicketParameters

`DoorProofs` proves `CreationsAreTagged`, `StoredCallsAreAcceptable` and
`ProposalsAreOnce` for any operations, tables, parameters, tags and tickets under
`ParametersAssumption`: what callers send as `TagSpecifications` has the shape botocore
lets through, tags are finitely many, an operation that is tagged takes
`TagSpecifications`, and the rules name parameters that exist. The invariant
(`ParamInv`) says that every ticket is what was made of an acceptable proposal under its
own id, whatever became of its tags, and that no two tickets answer one proposal. The
rest is about `with_gate_tags` (`CallIsTagged`): an entry keeps the caller's tags of
other keys and ends with the gate's, each key once (`GateTagsAreSaid`), every type of
the table has an entry (`MergedSays`), and what was accepted stays so, because
parameters are only added and the one that is added is known and not empty. The
recursion that keeps the elements at given places is followed by induction (`PickedIs`,
with `SetInduction` of FoldTheorems).

### Only model-checked

All safety properties of the runs are proved.  Five properties are liveness under fairness
and stay with TLC: `EveryExecutionIsReported`, `EveryClearedIsTaken`,
`EveryStaleTicketGoes`, `OwnActIsShown` and `OutcomeIsShown`.  Each needs ENABLED of a
fair action, which the prover does not treat, and an induction along time (over the faults
that are left, the pages of a sweep, the ticks of the clock), for which the library has
only theorems with an operator parameter.  The properties of `GateContract` are stated by
theorems only; the runs check what they come to in the service, the executor and the
doors.

## Plan

What could come next, most useful first:

1. Links with their age beside the ticket's own lifetime.
2. Replicas of the executor behind one address, which share ReportPace's window.

### Not modelled

The DynamoDB and S3 stores are stubs that raise.  The texts of mails, static files,
rendering, the retries botocore makes within one call, the description of operations (`api/aws_meta.py`), the tools of the MCP gateway
that only read, the error envelope and the checks of the environment (`settings.py`) keep
no state and change none.  The identity provider, STS and AWS are external.  Deployment
and CI scripts are no part of the gate's behaviour.
