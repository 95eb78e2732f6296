-------------------------- MODULE TicketFoldProofs --------------------------
(***************************************************************************)
(* What folding an event, or a log, makes of a ticket.                     *)
(***************************************************************************)
EXTENDS TicketFold, TLAPS

Folding == INSTANCE FoldTheorems WITH Op <- ApplyEvent

-----------------------------------------------------------------------------
(* The fold.                                                               *)

\* apply_event keeps a ticket a ticket.
LEMMA ApplyEventType ==
  ASSUME NEW t \in Ticket, NEW e \in AuditEvent
  PROVE  ApplyEvent(t, e) \in Ticket
<1>. DEFINE n == [t EXCEPT !.seq = e.seq]
<1>1. n \in Ticket /\ n.approvals \in Seq(Email)
  BY DEF Ticket, AuditEvent, EventOf
<1>2. /\ e.actor \in Email \cup Agent \cup {Gate}
      /\ e.to \in Statuses
      /\ e.type \in ApprovalTypes => e.details \in Email
      /\ e.type \in LinkTypes => e.details \in TicketId
      /\ e.type \in ResultTypes => e.details \in Outcomes
      /\ e.type = "TAGS_UPDATED" => e.details \in Tags
  BY DEF AuditEvent, EventOf, ApprovalTypes, LinkTypes, ResultTypes, PlainTypes
<1>. HIDE DEF n
<1>3. CASE e.type \in ApprovalTypes
  <2>1. Append(n.approvals, e.details) \in Seq(Email)
    BY <1>1, <1>2, <1>3
  <2>2. ApplyEvent(t, e) = [n EXCEPT !.approvals = Append(@, e.details), !.status = e.to]
    BY <1>3 DEF ApplyEvent, Bumped, ApprovalTypes, n
  <2>. QED  BY <1>1, <1>2, <2>1, <2>2 DEF Ticket
<1>4. CASE e.type = "REJECTED"
  <2>1. ApplyEvent(t, e) = [n EXCEPT !.status = "REJECTED", !.rejectedBy = e.actor]
    BY <1>4 DEF ApplyEvent, Bumped, ApprovalTypes, n
  <2>. QED  BY <1>1, <1>2, <2>1 DEF Ticket, Statuses
<1>5. CASE e.type = "DEPRECATED"
  <2>1. ApplyEvent(t, e) = [n EXCEPT !.status = "DEPRECATED", !.supersededBy = e.details]
    BY <1>5 DEF ApplyEvent, Bumped, ApprovalTypes, n
  <2>. QED  BY <1>1, <1>2, <1>5, <2>1 DEF Ticket, Statuses, LinkTypes
<1>6. CASE e.type = "SUPERSEDED"
  <2>1. ApplyEvent(t, e) = [n EXCEPT !.supersededBy = e.details]
    BY <1>6 DEF ApplyEvent, Bumped, ApprovalTypes, n
  <2>. QED  BY <1>1, <1>2, <1>6, <2>1 DEF Ticket, LinkTypes
<1>7. CASE e.type \in {"EXPIRED", "CLOSED"}
  <2>1. ApplyEvent(t, e) = [n EXCEPT !.status = e.type]
    BY <1>7 DEF ApplyEvent, Bumped, ApprovalTypes, n
  <2>. QED  BY <1>1, <1>7, <2>1 DEF Ticket, Statuses
<1>8. CASE e.type = "EXECUTION_STARTED"
  <2>1. ApplyEvent(t, e) = [n EXCEPT !.status = "EXECUTING", !.execution = "running"]
    BY <1>8 DEF ApplyEvent, Bumped, ApprovalTypes, n
  <2>. QED  BY <1>1, <2>1 DEF Ticket, Statuses, Executions
<1>9. CASE e.type \in ResultTypes
  <2>1. \E s \in {"CLOSED", "FAILED"} :
          ApplyEvent(t, e) = [n EXCEPT !.status = s, !.execution = e.details]
    BY <1>9 DEF ApplyEvent, Bumped, ApprovalTypes, ResultTypes, n
  <2>2. e.details \in Executions
    BY <1>2, <1>9 DEF Executions
  <2>. QED  BY <1>1, <2>1, <2>2 DEF Ticket, Statuses
<1>10. CASE e.type = "TAGS_UPDATED"
  <2>1. ApplyEvent(t, e) = [n EXCEPT !.tags = e.details]
    BY <1>10 DEF ApplyEvent, Bumped, ApprovalTypes, n
  <2>. QED  BY <1>1, <1>2, <1>10, <2>1 DEF Ticket
<1>11. CASE e.type \in {"TICKET_CREATED", "COMMENT_ADDED"}
  <2>1. ApplyEvent(t, e) = n
    BY <1>11 DEF ApplyEvent, Bumped, ApprovalTypes, n
  <2>. QED  BY <1>1, <2>1
<1>12. e.type \in {"TICKET_CREATED", "TAGS_UPDATED"} \cup ApprovalTypes \cup LinkTypes
                    \cup ResultTypes \cup PlainTypes
  BY DEF AuditEvent, EventOf
<1>. QED
  BY <1>3, <1>4, <1>5, <1>6, <1>7, <1>8, <1>9, <1>10, <1>11, <1>12
  DEF LinkTypes, PlainTypes

\* "Fields not listed in MUTABLE_FIELDS are frozen at creation": whatever event is
\* folded, and every event counts.
LEMMA ApplyEventFreezes ==
  ASSUME NEW t \in Ticket, NEW e \in AuditEvent
  PROVE  LET n == ApplyEvent(t, e) IN
         /\ n.seq = e.seq
         /\ n.proposedBy = t.proposedBy
         /\ n.assignee = t.assignee
         /\ n.params = t.params
         /\ n.supersedes = t.supersedes
         /\ n.lineageRoot = t.lineageRoot
         /\ n.idemKey = t.idemKey
  BY DEF ApplyEvent, Bumped, Ticket, AuditEvent, EventOf, ApprovalTypes, LinkTypes, ResultTypes, PlainTypes

\* Only an approval event changes the approvals, by one at the end.
LEMMA ApplyEventVotes ==
  ASSUME NEW t \in Ticket, NEW e \in AuditEvent
  PROVE  ApplyEvent(t, e).approvals =
           IF e.type \in ApprovalTypes THEN Append(t.approvals, e.details) ELSE t.approvals
  BY DEF ApplyEvent, Bumped, Ticket, AuditEvent, EventOf, ApprovalTypes, LinkTypes, ResultTypes, PlainTypes

\* Only the execution events change the record of the execution.
LEMMA ApplyEventExecution ==
  ASSUME NEW t \in Ticket, NEW e \in AuditEvent
  PROVE  ApplyEvent(t, e).execution =
           IF e.type = "EXECUTION_STARTED" THEN "running"
           ELSE IF e.type \in ResultTypes THEN e.details ELSE t.execution
  BY DEF ApplyEvent, Bumped, Ticket, AuditEvent, EventOf, ApprovalTypes, LinkTypes, ResultTypes, PlainTypes

LEMMA EventAfterType ==
  ASSUME NEW t \in Ticket, NEW types, NEW type \in types, NEW kind \in ActorKinds,
         NEW actor \in Email \cup Agent \cup {Gate}, NEW to \in Statuses,
         NEW D, NEW details \in D
  PROVE  EventAfter(t, type, kind, actor, to, details) \in EventOf(types, D)
  BY DEF EventAfter, EventOf, Ticket

-----------------------------------------------------------------------------
(* The log.                                                                *)

LEMMA SameFold ==
  ASSUME NEW base, NEW log
  PROVE  SequenceFolds!FoldLeft(ApplyEvent, base, log) = Folding!FoldLeft(ApplyEvent, base, log)
  BY DEF SequenceFolds!FoldLeft, SequenceFolds!MapThenFoldSet, SequenceFolds!Max,
         Folding!FoldLeft, Folding!MapThenFoldSet, Folding!Max

LEMMA RefoldCreation == ASSUME NEW e PROVE Refold(<<e>>) = e.details
<1>1. Tail(<<e>>) = <<>> /\ <<e>>[1] = e
  OBVIOUS
<1> QED BY <1>1, SameFold, Folding!FoldEmpty DEF Refold

\* An event at the end of the log is an event folded last.
LEMMA RefoldAppend ==
  ASSUME NEW S, NEW log \in Seq(S), log # <<>>, NEW e \in S
  PROVE  Refold(Append(log, e)) = ApplyEvent(Refold(log), e)
<1> DEFINE base == log[1].details
           tail == Tail(log)
<1>1. /\ tail \in Seq(S) /\ Tail(Append(log, e)) = Append(tail, e)
      /\ Append(log, e)[1].details = base
  OBVIOUS
<1>2. Refold(log) = Folding!FoldLeft(ApplyEvent, base, tail)
  BY SameFold DEF Refold
<1>3. Refold(Append(log, e)) = Folding!FoldLeft(ApplyEvent, base, Append(tail, e))
  BY <1>1, SameFold DEF Refold
<1> HIDE DEF base, tail
<1>4. Folding!FoldLeft(ApplyEvent, base, Append(tail, e))
        = ApplyEvent(Folding!FoldLeft(ApplyEvent, base, tail), e)
  BY <1>1, Folding!FoldAppend
<1> QED BY <1>2, <1>3, <1>4

\* A log that starts with a ticket folds to a ticket.
LEMMA RefoldType ==
  ASSUME NEW log \in Seq(AuditEvent), log # <<>>, log[1].details \in Ticket
  PROVE  Refold(log) \in Ticket
<1> DEFINE base == log[1].details
           tail == Tail(log)
<1>1. tail \in Seq(AuditEvent) /\ base \in Ticket
  OBVIOUS
<1>2. Refold(log) = Folding!FoldLeft(ApplyEvent, base, tail)
  BY SameFold DEF Refold
<1>3. \A t \in Ticket, e \in AuditEvent : ApplyEvent(t, e) \in Ticket
  BY ApplyEventType
<1> HIDE DEF base, tail
<1>4. Folding!FoldLeft(ApplyEvent, base, tail) \in Ticket
  BY <1>1, <1>3, Folding!FoldType
<1> QED BY <1>2, <1>4
=============================================================================
