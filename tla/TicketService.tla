--------------------------- MODULE TicketService ---------------------------
(***************************************************************************)
(* The gate's business rules over a repository: core/service.py, the       *)
(* per-ticket step of jobs/expiry.py and the contract of TicketRepository  *)
(* (repo/base.py) as the jsonl store fulfils it in memory.                 *)
(*                                                                         *)
(* A call is a coroutine in two halves.  The first reads the ticket, runs  *)
(* every check on what it read and builds the audit event; the second is   *)
(* the repository's conditional write, which re-checks the sequence number *)
(* (CAS) under the store's lock and either applies everything or raises.   *)
(* Between the halves other calls may run: the repository's methods are    *)
(* awaited, and service.py is written against that contract.  (With the    *)
(* jsonl store, whose methods never suspend, the halves happen back to     *)
(* back: the model allows strictly more.)  A call whose checks fail has no *)
(* effect and is not an action.                                            *)
(***************************************************************************)
EXTENDS TicketFold, FiniteSets

CONSTANTS
  Request,    \* concurrent calls
  Executor,   \* settings.mcp_executor_arn: assignee of human proposals
  Required,   \* settings.required_approvals
  AllowSelf,  \* settings.allow_self_approval
  Lower,      \* str.lower(): the canonical spelling of an identity
  MaxEvents,  \* bound: no call is started on a ticket with this many events
  MaxLineages \* bound: no proposal is started with this many lineages

ASSUME SettingsAssumption ==
  /\ Executor \in Agent
  /\ Required \in Nat \ {0}
  /\ AllowSelf \in BOOLEAN
  /\ MaxEvents \in Nat
  /\ MaxLineages \in Nat

\* No ARN is spelled like the email address of a person.
ASSUME LowerAssumption ==
  /\ \A p \in Email : Lower[p] \in Email /\ Lower[Lower[p]] = Lower[p]
  /\ \A a \in Agent : Lower[a] \notin Email

VARIABLES
  tickets,   \* JsonlTicketRepository._tickets: id |-> ticket
  events,    \* JsonlTicketRepository._events: id |-> audit log
  requests   \* the calls between their read and their write

vars == <<tickets, events, requests>>

\* d[k] = v of a Python dict.
Put(d, k, v) == [x \in DOMAIN d \cup {k} |-> IF x = k THEN v ELSE d[x]]

Idle == [call |-> "idle"]

Init ==
  /\ tickets = [id \in {} |-> None]
  /\ events = [id \in {} |-> None]
  /\ requests = [r \in Request |-> Idle]

-----------------------------------------------------------------------------
(* The checks of service.py, on the ticket that was read.                  *)

\* _assert_actionable_by
ActionableBy(t, email) ==
  /\ t.supersededBy = None
  /\ AllowSelf \/ Lower[t.proposedBy] # Lower[email]

\* Fault: the addresses are compared as they are spelled.
HasApprovedAsSpelled(t, email) ==
  \E i \in DOMAIN t.approvals : t.approvals[i] = email

\* The DuplicateApprover check.
HasApproved(t, email) ==
  \E i \in DOMAIN t.approvals : Lower[t.approvals[i]] = Lower[email]

SupersedableStatuses == {"PENDING_APPROVAL", "APPROVED", "FAILED", "CLOSED"}

Supersedable(t) ==
  t.supersededBy = None /\ t.status \in SupersedableStatuses

Closable(t) == t.status \in {"PENDING_APPROVAL", "APPROVED"}

IsFollowUp(t) == t.status \in TerminalStatuses

\* find_by_idempotency_key
FindByKey(agent, key) ==
  {id \in DOMAIN tickets : tickets[id].assignee = agent /\ tickets[id].idemKey = key}

\* A ULID that no ticket has, be it stored or on its way to the store.
FreshId ==
  TicketId \ (DOMAIN tickets \cup
     {requests[r].newId : r \in {q \in Request : requests[q].call \in {"create", "supersede"}}})

\* The roots of the stored lineages and of those about to be stored.
Lineages ==
  {tickets[id].lineageRoot : id \in DOMAIN tickets} \cup
  {requests[r].newId : r \in {q \in Request : requests[q].call = "create"}}

\* The call has read ticket id and is about to write event: append_event.
Submit(r, id, event) ==
  /\ requests[r] = Idle
  /\ tickets[id].seq < MaxEvents
  /\ requests' = [requests EXCEPT ![r] =
       [call |-> "append", id |-> id, snap |-> tickets[id], event |-> event]]
  /\ UNCHANGED <<tickets, events>>

-----------------------------------------------------------------------------
(* Agent operations.                                                       *)

\* create_agent_ticket and create_human_ticket up to repo.create_ticket.  When
\* the key is already known the existing ticket is returned: no effect.
Propose(r, agent, proposer, params, tags, key) ==
  /\ requests[r] = Idle
  /\ Cardinality(Lineages) < MaxLineages
  /\ key # None => FindByKey(agent, key) = {}
  /\ \E id \in FreshId :
       requests' = [requests EXCEPT ![r] =
         [call |-> "create", newId |-> id,
          new |-> BuildTicket(id, agent, proposer, params, tags, key)]]
  /\ UNCHANGED <<tickets, events>>

CreateAgentTicket(r, agent, params, tags, key) ==
  Propose(r, agent, agent, params, tags, key)

CreateHumanTicket(r, email, params, tags, key) ==
  Propose(r, Executor, email, params, tags, key)

\* `echoed` stands for the plan whose hash the caller echoes.
StartExecution(r, id, agent, echoed) ==
  LET t == tickets[id] IN
  /\ t.assignee = agent
  /\ t.status = "APPROVED"
  /\ echoed = t.params
  /\ CanTransition(t.status, "EXECUTING", "agent")
  /\ Submit(r, id, EventAfter(t, "EXECUTION_STARTED", "agent", agent, "EXECUTING", None))

ReportExecutionResult(r, id, agent, outcome) ==
  LET t  == tickets[id]
      to == IF outcome = "success" THEN "CLOSED" ELSE "FAILED"
      type == IF outcome = "success" THEN "EXECUTION_COMPLETED" ELSE "EXECUTION_FAILED"
  IN
  /\ t.assignee = agent
  /\ t.status = "EXECUTING"
  /\ CanTransition(t.status, to, "agent")
  /\ Submit(r, id, EventAfter(t, type, "agent", agent, to, outcome))

-----------------------------------------------------------------------------
(* Human operations.                                                       *)

ApproveTicket(r, id, email) ==
  LET t  == tickets[id]
      to == StatusAfterApproval(Len(t.approvals) + 1, Required)
      type == IF to = "APPROVED" THEN "APPROVED" ELSE "APPROVAL_ADDED"
  IN
  /\ t.status = "PENDING_APPROVAL"
  /\ ActionableBy(t, email)
  /\ ~HasApproved(t, email)
  /\ CanTransition(t.status, to, "human")
  /\ Submit(r, id, EventAfter(t, type, "human", email, to, email))

RejectTicket(r, id, email) ==
  LET t == tickets[id] IN
  /\ t.status = "PENDING_APPROVAL"
  /\ ActionableBy(t, email)
  /\ CanTransition(t.status, "REJECTED", "human")
  /\ Submit(r, id, EventAfter(t, "REJECTED", "human", email, "REJECTED", None))

\* The first half of supersede_ticket, up to repo.transact_supersede.
SupersedeTicket(r, id, editor, params, tags) ==
  LET t == tickets[id] IN
  /\ requests[r] = Idle
  /\ t.seq < MaxEvents
  /\ Supersedable(t)
  /\ ~IsFollowUp(t) => CanTransition(t.status, "DEPRECATED", "human")
  /\ \E new \in FreshId :
       requests' = [requests EXCEPT ![r] =
         [call |-> "supersede", id |-> id, snap |-> t,
          event |-> EventAfter(t, IF IsFollowUp(t) THEN "SUPERSEDED" ELSE "DEPRECATED",
                               "human", editor,
                               IF IsFollowUp(t) THEN t.status ELSE "DEPRECATED", new),
          newId |-> new, new |-> BuildSuccessor(new, id, t, editor, params, tags)]]
  /\ UNCHANGED <<tickets, events>>

CloseTicket(r, id, email) ==
  LET t == tickets[id] IN
  /\ Closable(t)
  /\ CanTransition(t.status, "CLOSED", "human")
  /\ Submit(r, id, EventAfter(t, "CLOSED", "human", email, "CLOSED", None))

AddComment(r, id, email) ==
  LET t == tickets[id] IN
  Submit(r, id, EventAfter(t, "COMMENT_ADDED", "human", email, t.status, None))

\* The gate's own two tags, reasserted here, are not part of `tags`.
UpdateTags(r, id, email, tags) ==
  LET t == tickets[id] IN
  /\ t.supersededBy = None
  /\ Submit(r, id, EventAfter(t, "TAGS_UPDATED", "human", email, t.status, tags))

\* sweep_once on one ticket of a page.  Any ticket may have become stale.
ExpireTicket(r, id) ==
  LET t == tickets[id] IN
  /\ t.status \in {"PENDING_APPROVAL", "APPROVED"}
  /\ Submit(r, id, EventAfter(t, "EXPIRED", "system", Gate, "EXPIRED", None))

-----------------------------------------------------------------------------
(* The repository's conditional writes.                                    *)

\* The CAS of append_event and transact_supersede.
Unmoved(q) == tickets[q.id].seq = q.snap.seq

Done(r) == requests' = [requests EXCEPT ![r] = Idle]

\* Fault: the append is not conditional.
AppendEventBlindly(r) ==
  LET q == requests[r] IN
  /\ q.call = "append"
  /\ tickets' = Put(tickets, q.id, ApplyEvent(tickets[q.id], q.event))
  /\ events' = Put(events, q.id, Append(events[q.id], q.event))
  /\ Done(r)

AppendEvent(r) ==
  LET q == requests[r] IN
  /\ q.call = "append"
  /\ Unmoved(q)
  /\ Foldable(tickets[q.id], q.event)
  /\ tickets' = Put(tickets, q.id, ApplyEvent(tickets[q.id], q.event))
  /\ events' = Put(events, q.id, Append(events[q.id], q.event))
  /\ Done(r)

\* Fault: the pair is written whatever has become of the old ticket.
TransactSupersedeBlindly(r) ==
  LET q == requests[r] IN
  /\ q.call = "supersede"
  /\ tickets' = Put(Put(tickets, q.id, ApplyEvent(tickets[q.id], q.event)), q.newId, q.new)
  /\ events' = Put(Put(events, q.id, Append(events[q.id], q.event)),
                   q.newId, <<CreatedEvent(q.new)>>)
  /\ Done(r)

\* Fault: the store deprecates the old ticket itself, follow-up or not.
TransactSupersedeDeprecating(r) ==
  LET q == requests[r] IN
  /\ q.call = "supersede" /\ Unmoved(q)
  /\ tickets' = Put(Put(tickets, q.id, [ApplyEvent(tickets[q.id], q.event) EXCEPT
                                          !.status = "DEPRECATED"]), q.newId, q.new)
  /\ events' = Put(Put(events, q.id, Append(events[q.id], q.event)),
                   q.newId, <<CreatedEvent(q.new)>>)
  /\ Done(r)

\* Fault: the successor starts without a log.
TransactSupersedeUnlogged(r) ==
  LET q == requests[r] IN
  /\ q.call = "supersede" /\ Unmoved(q)
  /\ tickets' = Put(Put(tickets, q.id, ApplyEvent(tickets[q.id], q.event)), q.newId, q.new)
  /\ events' = Put(events, q.id, Append(events[q.id], q.event))
  /\ Done(r)

TransactSupersede(r) ==
  LET q == requests[r]
      linked == ApplyEvent(tickets[q.id], q.event)
  IN
  /\ q.call = "supersede"
  /\ Unmoved(q)
  /\ q.newId \notin DOMAIN tickets
  /\ Foldable(tickets[q.id], q.event)
  /\ tickets' = Put(Put(tickets, q.id, linked), q.newId, q.new)
  /\ events' = Put(Put(events, q.id, Append(events[q.id], q.event)),
                   q.newId, <<CreatedEvent(q.new)>>)
  /\ Done(r)

\* Fault: the look-up of the first half is trusted.
KeyNeverTaken(t) == FALSE

\* The (assignee, key) pair is looked up again under the lock.
KeyTaken(t) == t.idemKey # None /\ FindByKey(t.assignee, t.idemKey) # {}

CreateTicket(r) ==
  LET q == requests[r] IN
  /\ q.call = "create"
  /\ q.newId \notin DOMAIN tickets
  /\ ~KeyTaken(q.new)
  /\ tickets' = Put(tickets, q.newId, q.new)
  /\ events' = Put(events, q.newId, <<CreatedEvent(q.new)>>)
  /\ Done(r)

\* ConflictError or DuplicateError: nothing is written, the caller gets a 409.
RaiseConflict(r) ==
  LET q == requests[r] IN
  /\ \/ q.call \in {"append", "supersede"} /\ ~Unmoved(q)
     \/ q.call = "create" /\ KeyTaken(q.new)
  /\ Done(r)
  /\ UNCHANGED <<tickets, events>>

-----------------------------------------------------------------------------
AgentCall(r) ==
  \/ \E agent \in Agent, params \in Params, tags \in Tags, key \in IdemKey \cup {None} :
       CreateAgentTicket(r, agent, params, tags, key)
  \/ \E agent \in Agent, id \in DOMAIN tickets :
       \/ \E echoed \in Params : StartExecution(r, id, agent, echoed)
       \/ \E outcome \in Outcomes : ReportExecutionResult(r, id, agent, outcome)

HumanCall(r) ==
  \E email \in Email :
    \/ \E params \in Params, tags \in Tags, key \in IdemKey \cup {None} :
         CreateHumanTicket(r, email, params, tags, key)
    \/ \E id \in DOMAIN tickets :
         \/ ApproveTicket(r, id, email)
         \/ RejectTicket(r, id, email)
         \/ \E params \in Params, tags \in Tags : SupersedeTicket(r, id, email, params, tags)
         \/ CloseTicket(r, id, email)
         \/ AddComment(r, id, email)
         \/ \E tags \in Tags : UpdateTags(r, id, email, tags)

SystemCall(r) == \E id \in DOMAIN tickets : ExpireTicket(r, id)

Write(r) == AppendEvent(r) \/ TransactSupersede(r) \/ CreateTicket(r) \/ RaiseConflict(r)

Next == \E r \in Request : AgentCall(r) \/ HumanCall(r) \/ SystemCall(r) \/ Write(r)

Spec == Init /\ [][Next]_vars

-----------------------------------------------------------------------------
(* Types.                                                                  *)

Call ==
  {Idle}
  \cup [call : {"append"}, id : TicketId, snap : Ticket, event : AuditEvent]
  \cup [call : {"create"}, newId : TicketId, new : Ticket]
  \cup [call : {"supersede"}, id : TicketId, snap : Ticket, event : AuditEvent,
        newId : TicketId, new : Ticket]

\* The stored tickets, their logs and the calls in flight are well-formed, and
\* every stored ticket has a log (the two dictionaries of the jsonl store).
TypeOK ==
  /\ DOMAIN tickets \subseteq TicketId
  /\ tickets \in [DOMAIN tickets -> Ticket]
  /\ events \in [DOMAIN tickets -> Seq(AuditEvent)]
  /\ requests \in [Request -> Call]

-----------------------------------------------------------------------------
(* Approval.                                                               *)

Cleared(t) == t.status = "APPROVED" \/ t.execution # None

\* approve_ticket: no ticket becomes executable, let alone runs, before as many
\* different people as the settings require have approved it, none of them its
\* proposer (unless self-approval is on); spellings of one address are one
\* person, and racing approvals or a supersede never smuggle a vote in.
FourEyes ==
  \A id \in DOMAIN tickets :
    LET t == tickets[id] IN
    Cleared(t) =>
      /\ Len(t.approvals) >= Required
      /\ \A i, j \in DOMAIN t.approvals :
           Lower[t.approvals[i]] = Lower[t.approvals[j]] => i = j
      /\ ~AllowSelf => \A i \in DOMAIN t.approvals :
                         Lower[t.approvals[i]] # Lower[t.proposedBy]

KeepsDecisions ==
  \A id \in DOMAIN tickets :
    LET t == tickets[id]
        n == tickets'[id]
    IN  /\ t.status # "PENDING_APPROVAL" =>
             n.approvals = t.approvals /\ n.rejectedBy = t.rejectedBy
        /\ t.status \in TerminalStatuses =>
             n.status = t.status /\ n.execution = t.execution

\* Once a ticket has left PENDING_APPROVAL nobody's vote or rejection is added
\* or dropped, and once it is terminal its status and the record of its
\* execution stay: a late write of a call that read an older version is refused.
DecisionIsFinal == [][KeepsDecisions]_vars

-----------------------------------------------------------------------------
(* Optimistic concurrency.                                                 *)

\* Why comparing sequence numbers is enough: a call whose ticket still has the
\* sequence number it read holds exactly the stored ticket (no ABA), so all the
\* checks it made still hold when append_event or transact_supersede writes.
SnapshotsAgree ==
  \A r \in Request :
    LET q == requests[r] IN
    q.call \in {"append", "supersede"} =>
      /\ q.id \in DOMAIN tickets
      /\ q.snap.seq <= tickets[q.id].seq
      /\ Unmoved(q) => tickets[q.id] = q.snap

\* create_ticket's second look-up: two proposals with the same idempotency key
\* that both found nothing store one ticket, not two.
OneTicketPerKey ==
  \A a, b \in DOMAIN tickets :
    /\ tickets[a].idemKey # None
    /\ tickets[a].idemKey = tickets[b].idemKey
    /\ tickets[a].assignee = tickets[b].assignee
    => a = b

-----------------------------------------------------------------------------
(* Lineage.                                                                *)

Live(t) == t.status \notin TerminalStatuses

\* supersede_ticket: supersedes and superseded_by are inverse of each other and
\* stay within one lineage, whatever editors race for the same ticket: a
\* lineage is a chain, never a fork, and its root is where it starts.
LineageIsChain ==
  \A id \in DOMAIN tickets :
    LET t == tickets[id] IN
    /\ t.supersededBy # None =>
         t.supersededBy \in DOMAIN tickets /\ tickets[t.supersededBy].supersedes = id
    /\ t.supersedes # None =>
         /\ t.supersedes \in DOMAIN tickets
         /\ tickets[t.supersedes].supersededBy = id
         /\ tickets[t.supersedes].lineageRoot = t.lineageRoot
         /\ tickets[t.supersedes].assignee = t.assignee
    /\ t.supersedes = None <=> t.lineageRoot = id

\* "Only the latest ticket in a lineage is actionable": two tickets of one
\* lineage are never both open, so an edit never leaves its old version runnable.
OneLiveTicketPerLineage ==
  \A a, b \in DOMAIN tickets :
    /\ tickets[a].lineageRoot = tickets[b].lineageRoot
    /\ Live(tickets[a])
    /\ Live(tickets[b])
    => a = b

RecordsItsRun(t) ==
  /\ t.status \in {"PENDING_APPROVAL", "APPROVED", "REJECTED", "DEPRECATED", "EXPIRED"} =>
       t.execution = None
  /\ t.status = "EXECUTING" <=> t.execution = "running"
  /\ t.status = "FAILED" <=> t.execution = "failure"

\* models.py on DEPRECATED: "the old ticket never ran, so overwriting its status
\* loses nothing".  The same goes for a rejected or expired ticket, and a ticket
\* whose call is under way or has failed says so: closing, superseding or expiring
\* a ticket never races with start_execution into hiding that it ran.
ExecutionMatchesStatus == \A id \in DOMAIN tickets : RecordsItsRun(tickets[id])

-----------------------------------------------------------------------------
(* Audit trail.                                                            *)

\* Every log is what happened, step by step: sequence numbers without gaps, each
\* event leaves from the status the one before it arrived at, every change of
\* status is one the status machine allows that kind of actor, and the log ends
\* where the ticket is.  (from_status comes from a snapshot, not from the store.)
AuditTrailIsConsistent ==
  \A id \in DOMAIN tickets :
    LET log == events[id] IN
    /\ log[1].type = "TICKET_CREATED"
    /\ \A i \in DOMAIN log : log[i].seq = i
    /\ \A i \in DOMAIN log \ {1} :
         /\ log[i].from = log[i - 1].to
         /\ \/ CanTransition(log[i].from, log[i].to, log[i].kind)
            \/ log[i].type \in {"TAGS_UPDATED", "COMMENT_ADDED", "SUPERSEDED"}
               /\ log[i].to = log[i].from
    /\ log[Len(log)].to = tickets[id].status

\* "Tickets are immutable: every change is an appended AuditEvent and the ticket
\* is a fold over its events."  A restart that folds the log gives back every
\* ticket as the running gate last held it.
TicketIsFoldOfLog ==
  \A id \in DOMAIN tickets : Refold(events[id]) = tickets[id]
=============================================================================
