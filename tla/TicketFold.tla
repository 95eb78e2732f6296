----------------------------- MODULE TicketFold -----------------------------
(***************************************************************************)
(* Tickets, audit events and the fold that every store shares:             *)
(* core/models.py, apply_event of repo/base.py and build_ticket of         *)
(* core/service.py.                                                        *)
(*                                                                         *)
(* Left out of the records: subject, planned date and action, timestamps,  *)
(* messages and request ids.  No rule of the gate reads them, apart from   *)
(* the times the expiry sweep compares (modelled there).  `params` stands  *)
(* for ActionDetails and its parametersHash: two plans have the same hash  *)
(* exactly when they are the same element.                                 *)
(***************************************************************************)
EXTENDS StatusMachine, Sequences

SequenceFolds == INSTANCE SequencesExt

CONSTANTS
  TicketId,  \* ULIDs
  Email,     \* spellings of human identities (letter case matters here)
  Agent,     \* IAM role ARNs, the verified form of principal_arn
  Params,    \* plans: service, operation, region and exact parameters
  Tags,      \* values of the user-editable tags
  IdemKey,   \* idempotency keys
  Gate,      \* the id of the gate itself, as a "system" actor
  None       \* Python's None

ASSUME NoneAssumption ==
  None \notin TicketId \cup Email \cup Agent \cup IdemKey \cup {"running", "success", "failure"}

ASSUME IdentityAssumption == Email \cap Agent = {} /\ Gate \notin Email \cup Agent

Outcomes == {"success", "failure"}

\* Execution: absent, started, or finished with an outcome.
Executions == {None, "running"} \cup Outcomes

Ticket ==
  [status : Statuses, approvals : Seq(Email),
   rejectedBy : Email \cup Agent \cup {Gate, None},
   supersedes : TicketId \cup {None}, supersededBy : TicketId \cup {None},
   lineageRoot : TicketId, assignee : Agent, proposedBy : Email \cup Agent,
   params : Params, tags : Tags, idemKey : IdemKey \cup {None},
   execution : Executions, seq : Nat]

-----------------------------------------------------------------------------
(***************************************************************************)
(* Audit events.  `details` is what the fold reads of the event's details: *)
(* the approval, the successor, the new tags, the outcome, or the ticket.  *)
(***************************************************************************)
ApprovalTypes == {"APPROVAL_ADDED", "APPROVED"}
LinkTypes == {"DEPRECATED", "SUPERSEDED"}
ResultTypes == {"EXECUTION_COMPLETED", "EXECUTION_FAILED"}
PlainTypes == {"REJECTED", "EXPIRED", "CLOSED",
               "EXECUTION_STARTED", "COMMENT_ADDED"}

EventOf(types, detail) ==
  [type : types, seq : Nat, kind : ActorKinds, actor : Email \cup Agent \cup {Gate},
   from : Statuses \cup {None}, to : Statuses, details : detail]

AuditEvent ==
  EventOf({"TICKET_CREATED"}, Ticket) \cup EventOf(ApprovalTypes, Email)
    \cup EventOf(LinkTypes, TicketId) \cup EventOf(ResultTypes, Outcomes)
    \cup EventOf({"TAGS_UPDATED"}, Tags)
    \cup EventOf(PlainTypes, {None})

\* The event a service function builds from the ticket it read: service._event.
EventAfter(t, type, kind, actor, to, details) ==
  [type |-> type, seq |-> t.seq + 1, kind |-> kind, actor |-> actor,
   from |-> t.status, to |-> to, details |-> details]

\* build_ticket for a fresh proposal.
BuildTicket(id, agent, proposer, params, tags, key) ==
  [status |-> "PENDING_APPROVAL", approvals |-> <<>>, rejectedBy |-> None,
   supersedes |-> None, supersededBy |-> None, lineageRoot |-> id,
   assignee |-> agent, proposedBy |-> proposer, params |-> params,
   tags |-> tags, idemKey |-> key, execution |-> None, seq |-> 1]

\* Fault: the successor is a copy of the old ticket, votes included.
BuildSuccessorKeepingVotes(id, oldId, old, editor, params, tags) ==
  [BuildTicket(id, old.assignee, editor, params, tags, None) EXCEPT
     !.supersedes = oldId, !.lineageRoot = old.lineageRoot, !.approvals = old.approvals]

\* build_ticket with supersedes=old: the assignee and the lineage carry over,
\* the editor becomes the proposer.
BuildSuccessor(id, oldId, old, editor, params, tags) ==
  [BuildTicket(id, old.assignee, editor, params, tags, None) EXCEPT
     !.supersedes = oldId, !.lineageRoot = old.lineageRoot]

CreatedEvent(t) ==
  [type |-> "TICKET_CREATED", seq |-> 1,
   kind |-> IF t.proposedBy = t.assignee THEN "agent" ELSE "human",
   actor |-> t.proposedBy, from |-> None, to |-> "PENDING_APPROVAL", details |-> t]

-----------------------------------------------------------------------------
\* apply_event raises ConflictError for every other event.
Foldable(t, e) ==
  /\ e.seq = t.seq + 1
  /\ e.type # "TICKET_CREATED"
  /\ e.type \in ResultTypes => t.execution # None

\* Fault: an approval is folded without counting it.
BumpedUnlessApproved(t, e) ==
  IF e.type \in ApprovalTypes THEN t ELSE [t EXCEPT !.seq = e.seq]

\* Every event counts, whatever else it does.
Bumped(t, e) == [t EXCEPT !.seq = e.seq]

\* The fields of MUTABLE_FIELDS that each type of event changes.
ApplyEvent(t, e) ==
  LET n == Bumped(t, e)
  IN  CASE e.type \in ApprovalTypes ->
             [n EXCEPT !.approvals = Append(@, e.details), !.status = e.to]
        [] e.type = "REJECTED"     -> [n EXCEPT !.status = "REJECTED", !.rejectedBy = e.actor]
        [] e.type = "DEPRECATED"   -> [n EXCEPT !.status = "DEPRECATED", !.supersededBy = e.details]
        [] e.type = "SUPERSEDED"   -> [n EXCEPT !.supersededBy = e.details]
        [] e.type = "EXPIRED"      -> [n EXCEPT !.status = "EXPIRED"]
        [] e.type = "CLOSED"       -> [n EXCEPT !.status = "CLOSED"]
        [] e.type = "EXECUTION_STARTED" ->
             [n EXCEPT !.status = "EXECUTING", !.execution = "running"]
        [] e.type = "EXECUTION_COMPLETED" ->
             [n EXCEPT !.status = "CLOSED", !.execution = e.details]
        [] e.type = "EXECUTION_FAILED" ->
             [n EXCEPT !.status = "FAILED", !.execution = e.details]
        [] e.type = "TAGS_UPDATED" -> [n EXCEPT !.tags = e.details]
        [] OTHER                   -> n

\* The ticket folded again from its log, as the store does at boot.
Refold(log) == SequenceFolds!FoldLeft(ApplyEvent, log[1].details, Tail(log))
=============================================================================
