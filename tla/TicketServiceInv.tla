-------------------------- MODULE TicketServiceInv --------------------------
(***************************************************************************)
(* The inductive invariant behind the safety properties of TicketService:  *)
(* what a call holds between its read and its write.                       *)
(***************************************************************************)
EXTENDS TicketService

\* What the checks of append_event's callers guarantee of an event, relative to
\* the ticket they read.
LegalEvent(t, e) ==
  /\ e.seq = t.seq + 1
  /\ e.from = t.status
  /\ \/ /\ e.type \in ApprovalTypes
        /\ t.status = "PENDING_APPROVAL"
        /\ ActionableBy(t, e.details)
        /\ ~HasApproved(t, e.details)
        /\ e.to = StatusAfterApproval(Len(t.approvals) + 1, Required)
     \/ /\ e.type = "REJECTED" /\ e.to = "REJECTED"
        /\ t.status = "PENDING_APPROVAL"
        /\ e.actor \in Email /\ ActionableBy(t, e.actor)
     \/ /\ e.type \in {"EXPIRED", "CLOSED"} /\ e.to = e.type
        /\ t.status \in {"PENDING_APPROVAL", "APPROVED"}
     \/ /\ e.type = "EXECUTION_STARTED" /\ e.to = "EXECUTING"
        /\ t.status = "APPROVED"
     \/ /\ e.type = "EXECUTION_COMPLETED" /\ e.to = "CLOSED"
        /\ e.details = "success"
        /\ t.status = "EXECUTING"
     \/ /\ e.type = "EXECUTION_FAILED" /\ e.to = "FAILED"
        /\ e.details = "failure"
        /\ t.status = "EXECUTING"
     \/ /\ e.type \in {"TAGS_UPDATED", "COMMENT_ADDED"}
        /\ e.to = t.status

\* The same for the link event of supersede_ticket to a ticket with id newId.
LegalLink(t, e, newId) ==
  /\ e.seq = t.seq + 1
  /\ e.from = t.status
  /\ e.details = newId
  /\ Supersedable(t)
  /\ \/ /\ e.type = "DEPRECATED" /\ e.to = "DEPRECATED"
        /\ t.status \in {"PENDING_APPROVAL", "APPROVED"}
     \/ /\ e.type = "SUPERSEDED" /\ e.to = t.status
        /\ t.status \in {"FAILED", "CLOSED"}

\* A ticket as build_ticket makes it.
Newborn(t) ==
  /\ t.status = "PENDING_APPROVAL"
  /\ t.approvals = <<>>
  /\ t.rejectedBy = None
  /\ t.supersededBy = None
  /\ t.execution = None
  /\ t.seq = 1

\* Every call in flight carries what its checks allowed on its snapshot.
CallsAreLegal ==
  \A r \in Request :
    LET q == requests[r] IN
    /\ q.call = "append" => LegalEvent(q.snap, q.event)
    /\ q.call = "supersede" => LegalLink(q.snap, q.event, q.newId)
    /\ q.call \in {"create", "supersede"} => Newborn(q.new)

SoundVotes(t) ==
  /\ \A i, j \in DOMAIN t.approvals :
       Lower[t.approvals[i]] = Lower[t.approvals[j]] => i = j
  /\ ~AllowSelf => \A i \in DOMAIN t.approvals :
                     Lower[t.approvals[i]] # Lower[t.proposedBy]
  /\ Cleared(t) => Len(t.approvals) >= Required

\* FourEyes for tickets at any stage: a vote is sound from the moment it is cast,
\* and only enough of them lead to APPROVED.
VotesAreSound == \A id \in DOMAIN tickets : SoundVotes(tickets[id])

IInv ==
  /\ TypeOK
  /\ CallsAreLegal
  /\ SnapshotsAgree
  /\ ExecutionMatchesStatus
  /\ VotesAreSound
=============================================================================
