------------------------- MODULE TicketServiceProofs -------------------------
(***************************************************************************)
(* Proofs about TicketService, for any number of tickets, people, calls    *)
(* and required approvals: its invariants, and that it implements          *)
(* GateContract.                                                           *)
(***************************************************************************)
EXTENDS ServiceContract, TicketServiceInv, TicketFoldProofs, FiniteSetTheorems, TLAPS

-----------------------------------------------------------------------------
(* The events the service builds.                                          *)

\* The fold arrives at the status the event announces, for every event that the
\* service builds.
LEMMA ApplyEventStatus ==
  ASSUME NEW t \in Ticket, NEW e \in AuditEvent, NEW newId \in TicketId,
         LegalEvent(t, e) \/ LegalLink(t, e, newId)
  PROVE  ApplyEvent(t, e).status = e.to
<1>1. CASE LegalEvent(t, e)
  BY <1>1 DEF LegalEvent, ApplyEvent, Bumped, Ticket, AuditEvent, EventOf, ApprovalTypes, LinkTypes,
              ResultTypes, PlainTypes
<1>2. CASE LegalLink(t, e, newId)
  BY <1>2 DEF LegalLink, ApplyEvent, Bumped, Ticket, AuditEvent, EventOf, ApprovalTypes, LinkTypes,
              ResultTypes, PlainTypes
<1>. QED  BY <1>1, <1>2

LEMMA BuildTicketType ==
  ASSUME NEW id \in TicketId, NEW agent \in Agent, NEW proposer \in Email \cup Agent,
         NEW params \in Params, NEW tags \in Tags, NEW key \in IdemKey \cup {None}
  PROVE  /\ BuildTicket(id, agent, proposer, params, tags, key) \in Ticket
         /\ Newborn(BuildTicket(id, agent, proposer, params, tags, key))
  BY DEF BuildTicket, Newborn, Ticket, Statuses, Executions

LEMMA BuildSuccessorType ==
  ASSUME NEW id \in TicketId, NEW oldId \in TicketId, NEW old \in Ticket,
         NEW editor \in Email, NEW params \in Params, NEW tags \in Tags
  PROVE  /\ BuildSuccessor(id, oldId, old, editor, params, tags) \in Ticket
         /\ Newborn(BuildSuccessor(id, oldId, old, editor, params, tags))
<1>. DEFINE n == BuildTicket(id, old.assignee, editor, params, tags, None)
<1>1. old.assignee \in Agent /\ old.lineageRoot \in TicketId
  BY DEF Ticket
<1>2. n \in Ticket /\ Newborn(n)
  BY <1>1, BuildTicketType
<1>3. BuildSuccessor(id, oldId, old, editor, params, tags) =
        [n EXCEPT !.supersedes = oldId, !.lineageRoot = old.lineageRoot]
  BY DEF BuildSuccessor
<1>. HIDE DEF n
<1>. QED  BY <1>1, <1>2, <1>3 DEF Ticket, Newborn

-----------------------------------------------------------------------------
(* What the first half of a call does, seen from the invariant.            *)

StartsAppend(r) ==
  \E id \in DOMAIN tickets, e \in AuditEvent :
    LegalEvent(tickets[id], e) /\ Submit(r, id, e)

StartsCreate(r) ==
  /\ \E id \in TicketId, new \in Ticket :
       /\ Newborn(new)
       /\ requests' = [requests EXCEPT ![r] = [call |-> "create", newId |-> id, new |-> new]]
  /\ UNCHANGED <<tickets, events>>

StartsSupersede(r) ==
  /\ \E id \in DOMAIN tickets, e \in AuditEvent, newId \in TicketId, new \in Ticket :
       /\ LegalLink(tickets[id], e, newId)
       /\ Newborn(new)
       /\ requests' = [requests EXCEPT ![r] =
            [call |-> "supersede", id |-> id, snap |-> tickets[id], event |-> e,
             newId |-> newId, new |-> new]]
  /\ UNCHANGED <<tickets, events>>

Starts(r) == StartsAppend(r) \/ StartsCreate(r) \/ StartsSupersede(r)

LEMMA FreshIdType == FreshId \subseteq TicketId
  BY DEF FreshId

\* Every agent operation starts a call that holds a legal write.
LEMMA AgentCallStarts ==
  ASSUME TypeOK, NEW r \in Request, AgentCall(r)
  PROVE  Starts(r)
<1>1. ASSUME NEW agent \in Agent, NEW params \in Params, NEW tags \in Tags,
             NEW key \in IdemKey \cup {None}, CreateAgentTicket(r, agent, params, tags, key)
      PROVE  StartsCreate(r)
  BY <1>1, BuildTicketType, FreshIdType DEF CreateAgentTicket, Propose, StartsCreate
<1>2. ASSUME NEW agent \in Agent, NEW id \in DOMAIN tickets, NEW echoed \in Params,
             StartExecution(r, id, agent, echoed)
      PROVE  StartsAppend(r)
  <2>. DEFINE t == tickets[id]
              e == EventAfter(t, "EXECUTION_STARTED", "agent", agent, "EXECUTING", None)
  <2>1. t \in Ticket
    BY DEF TypeOK
  <2>2. e \in EventOf(PlainTypes, {None})
    BY <2>1, EventAfterType DEF PlainTypes, ActorKinds, Statuses
  <2>3. LegalEvent(t, e)
    BY <1>2 DEF StartExecution, LegalEvent, EventAfter
  <2>. QED  BY <1>2, <2>2, <2>3 DEF StartExecution, StartsAppend, AuditEvent
<1>3. ASSUME NEW agent \in Agent, NEW id \in DOMAIN tickets, NEW outcome \in Outcomes,
             ReportExecutionResult(r, id, agent, outcome)
      PROVE  StartsAppend(r)
  <2>. DEFINE t == tickets[id]
              to == IF outcome = "success" THEN "CLOSED" ELSE "FAILED"
              type == IF outcome = "success" THEN "EXECUTION_COMPLETED" ELSE "EXECUTION_FAILED"
              e == EventAfter(t, type, "agent", agent, to, outcome)
  <2>1. t \in Ticket
    BY DEF TypeOK
  <2>2. e \in EventOf(ResultTypes, Outcomes)
    BY <2>1, EventAfterType DEF ResultTypes, ActorKinds, Statuses
  <2>3. LegalEvent(t, e)
    BY <1>3 DEF ReportExecutionResult, LegalEvent, EventAfter, Outcomes
  <2>. QED  BY <1>3, <2>2, <2>3 DEF ReportExecutionResult, StartsAppend, AuditEvent
<1>. QED  BY <1>1, <1>2, <1>3 DEF AgentCall, Starts

\* Likewise for a human's vote.
LEMMA VoteStarts ==
  ASSUME TypeOK, NEW r \in Request, NEW id \in DOMAIN tickets, NEW email \in Email,
         ApproveTicket(r, id, email)
  PROVE  StartsAppend(r)
<1>. DEFINE t == tickets[id]
            to == StatusAfterApproval(Len(t.approvals) + 1, Required)
            type == IF to = "APPROVED" THEN "APPROVED" ELSE "APPROVAL_ADDED"
            e == EventAfter(t, type, "human", email, to, email)
<1>1. t \in Ticket
  BY DEF TypeOK
<1>2. to \in Statuses
  BY DEF StatusAfterApproval, Statuses
<1>3. e \in EventOf(ApprovalTypes, Email)
  <2>. HIDE DEF to
  <2>. QED  BY <1>1, <1>2, EventAfterType DEF ApprovalTypes, ActorKinds
<1>4. LegalEvent(t, e)
  <2>1. /\ e.seq = t.seq + 1 /\ e.from = t.status
        /\ e.type \in ApprovalTypes /\ e.to = to /\ e.details = email
    BY DEF EventAfter, ApprovalTypes
  <2>2. t.status = "PENDING_APPROVAL" /\ ActionableBy(t, email) /\ ~HasApproved(t, email)
    BY DEF ApproveTicket
  <2>. HIDE DEF e
  <2>. QED  BY <2>1, <2>2 DEF LegalEvent
<1>5. Submit(r, id, e)
  BY DEF ApproveTicket
<1>. QED  BY <1>3, <1>4, <1>5 DEF StartsAppend, AuditEvent

\* Likewise for the other appends a human can ask for.
LEMMA HumanAppendStarts ==
  ASSUME TypeOK, NEW r \in Request, NEW id \in DOMAIN tickets, NEW email \in Email,
         \/ RejectTicket(r, id, email)
         \/ CloseTicket(r, id, email)
         \/ AddComment(r, id, email)
         \/ \E tags \in Tags : UpdateTags(r, id, email, tags)
  PROVE  StartsAppend(r)
<1>. DEFINE t == tickets[id]
<1>1. t \in Ticket /\ t.status \in Statuses
  BY DEF TypeOK, Ticket
<1>2. CASE RejectTicket(r, id, email)
  <2>. DEFINE e == EventAfter(t, "REJECTED", "human", email, "REJECTED", None)
  <2>1. e \in EventOf(PlainTypes, {None})
    BY <1>1, EventAfterType DEF PlainTypes, ActorKinds, Statuses
  <2>2. LegalEvent(t, e)
    BY <1>2 DEF RejectTicket, LegalEvent, EventAfter
  <2>. QED  BY <1>2, <2>1, <2>2 DEF RejectTicket, StartsAppend, AuditEvent
<1>3. CASE CloseTicket(r, id, email)
  <2>. DEFINE e == EventAfter(t, "CLOSED", "human", email, "CLOSED", None)
  <2>1. e \in EventOf(PlainTypes, {None})
    BY <1>1, EventAfterType DEF PlainTypes, ActorKinds, Statuses
  <2>2. LegalEvent(t, e)
    BY <1>3 DEF CloseTicket, Closable, LegalEvent, EventAfter
  <2>. QED  BY <1>3, <2>1, <2>2 DEF CloseTicket, StartsAppend, AuditEvent
<1>4. CASE AddComment(r, id, email)
  <2>. DEFINE e == EventAfter(t, "COMMENT_ADDED", "human", email, t.status, None)
  <2>1. e \in EventOf(PlainTypes, {None})
    BY <1>1, EventAfterType DEF PlainTypes, ActorKinds
  <2>2. LegalEvent(t, e)
    BY DEF LegalEvent, EventAfter
  <2>. QED  BY <1>4, <2>1, <2>2 DEF AddComment, StartsAppend, AuditEvent
<1>5. ASSUME NEW tags \in Tags, UpdateTags(r, id, email, tags)
      PROVE  StartsAppend(r)
  <2>. DEFINE e == EventAfter(t, "TAGS_UPDATED", "human", email, t.status, tags)
  <2>1. e \in EventOf({"TAGS_UPDATED"}, Tags)
    BY <1>1, EventAfterType DEF ActorKinds
  <2>2. LegalEvent(t, e)
    BY DEF LegalEvent, EventAfter
  <2>. QED  BY <1>5, <2>1, <2>2 DEF UpdateTags, StartsAppend, AuditEvent
<1>. QED  BY <1>2, <1>3, <1>4, <1>5

\* Likewise for the expiry of a ticket by the gate.
LEMMA ExpiryStarts ==
  ASSUME TypeOK, NEW r \in Request, NEW id \in DOMAIN tickets, ExpireTicket(r, id)
  PROVE  StartsAppend(r)
<1>. DEFINE t == tickets[id]
            e == EventAfter(t, "EXPIRED", "system", Gate, "EXPIRED", None)
<1>1. t \in Ticket
  BY DEF TypeOK
<1>2. e \in EventOf(PlainTypes, {None})
  BY <1>1, EventAfterType DEF PlainTypes, ActorKinds, Statuses
<1>3. LegalEvent(t, e)
  BY DEF ExpireTicket, LegalEvent, EventAfter
<1>. QED  BY <1>2, <1>3 DEF ExpireTicket, StartsAppend, AuditEvent

\* supersede_ticket starts a call that holds a legal pair of link and successor.
LEMMA SupersedeStarts ==
  ASSUME TypeOK, NEW r \in Request, NEW id \in DOMAIN tickets, NEW email \in Email,
         NEW params \in Params, NEW tags \in Tags,
         SupersedeTicket(r, id, email, params, tags)
  PROVE  StartsSupersede(r)
<1>. DEFINE t == tickets[id]
            type == IF IsFollowUp(t) THEN "SUPERSEDED" ELSE "DEPRECATED"
            to == IF IsFollowUp(t) THEN t.status ELSE "DEPRECATED"
            e(new) == EventAfter(t, type, "human", email, to, new)
            n(new) == BuildSuccessor(new, id, t, email, params, tags)
<1>1. t \in Ticket /\ to \in Statuses /\ id \in TicketId
  BY DEF TypeOK, Ticket, Statuses
<1>2. PICK new \in FreshId :
        requests' = [requests EXCEPT ![r] =
          [call |-> "supersede", id |-> id, snap |-> t, event |-> e(new),
           newId |-> new, new |-> n(new)]]
  BY DEF SupersedeTicket
<1>3. new \in TicketId
  BY FreshIdType
<1>4. e(new) \in EventOf(LinkTypes, TicketId)
  <2>. HIDE DEF to
  <2>. QED  BY <1>1, <1>3, EventAfterType DEF LinkTypes, ActorKinds
<1>5. n(new) \in Ticket /\ Newborn(n(new))
  BY <1>1, <1>3, BuildSuccessorType
<1>6. LegalLink(t, e(new), new)
  BY DEF SupersedeTicket, Supersedable, SupersedableStatuses, IsFollowUp, TerminalStatuses,
         LegalLink, EventAfter
<1>7. e(new) \in AuditEvent
  BY <1>4 DEF AuditEvent
<1>8. UNCHANGED <<tickets, events>>
  BY DEF SupersedeTicket
<1>. HIDE DEF e, n
<1>. QED  BY <1>2, <1>3, <1>5, <1>6, <1>7, <1>8 DEF StartsSupersede

\* Every call, whoever makes it, starts with a legal write in hand.
LEMMA CallStarts ==
  ASSUME TypeOK, NEW r \in Request, AgentCall(r) \/ HumanCall(r) \/ SystemCall(r)
  PROVE  Starts(r)
<1>1. ASSUME NEW email \in Email, NEW params \in Params, NEW tags \in Tags,
             NEW key \in IdemKey \cup {None}, CreateHumanTicket(r, email, params, tags, key)
      PROVE  StartsCreate(r)
  BY <1>1, BuildTicketType, FreshIdType, SettingsAssumption
  DEF CreateHumanTicket, Propose, StartsCreate
<1>2. HumanCall(r) => Starts(r)
  BY <1>1, VoteStarts, HumanAppendStarts, SupersedeStarts DEF HumanCall, Starts
<1>3. SystemCall(r) => Starts(r)
  BY ExpiryStarts DEF SystemCall, Starts
<1>. QED  BY <1>2, <1>3, AgentCallStarts

-----------------------------------------------------------------------------
(* Type correctness.                                                       *)

LEMMA StartsType ==
  ASSUME TypeOK, NEW r \in Request, Starts(r)
  PROVE  TypeOK'
<1>1. CASE StartsAppend(r)
  <2>1. PICK id \in DOMAIN tickets, e \in AuditEvent : Submit(r, id, e)
    BY <1>1 DEF StartsAppend
  <2>2. [call |-> "append", id |-> id, snap |-> tickets[id], event |-> e] \in Call
    BY DEF TypeOK, Call
  <2>. QED  BY <2>1, <2>2 DEF TypeOK, Submit
<1>2. CASE StartsCreate(r)
  <2>1. PICK id \in TicketId, new \in Ticket :
          requests' = [requests EXCEPT ![r] = [call |-> "create", newId |-> id, new |-> new]]
    BY <1>2 DEF StartsCreate
  <2>2. [call |-> "create", newId |-> id, new |-> new] \in Call
    BY DEF Call
  <2>. QED  BY <1>2, <2>1, <2>2 DEF TypeOK, StartsCreate
<1>3. CASE StartsSupersede(r)
  <2>1. PICK id \in DOMAIN tickets, e \in AuditEvent, newId \in TicketId, new \in Ticket :
          requests' = [requests EXCEPT ![r] =
            [call |-> "supersede", id |-> id, snap |-> tickets[id], event |-> e,
             newId |-> newId, new |-> new]]
    BY <1>3 DEF StartsSupersede
  <2>2. [call |-> "supersede", id |-> id, snap |-> tickets[id], event |-> e,
         newId |-> newId, new |-> new] \in Call
    BY DEF TypeOK, Call
  <2>. QED  BY <1>3, <2>1, <2>2 DEF TypeOK, StartsSupersede
<1>. QED  BY <1>1, <1>2, <1>3 DEF Starts

LEMMA CreatedEventType ==
  ASSUME NEW t \in Ticket
  PROVE  CreatedEvent(t) \in AuditEvent
<1>1. CreatedEvent(t) \in EventOf({"TICKET_CREATED"}, Ticket)
  BY DEF CreatedEvent, EventOf, Ticket, ActorKinds, Statuses
<1>. QED  BY <1>1 DEF AuditEvent

\* What a call in flight consists of.
LEMMA CallParts ==
  ASSUME TypeOK, NEW r \in Request
  PROVE  LET q == requests[r] IN
         /\ q.call \in {"append", "supersede"} =>
              q.id \in TicketId /\ q.snap \in Ticket /\ q.event \in AuditEvent
         /\ q.call \in {"create", "supersede"} => q.newId \in TicketId /\ q.new \in Ticket
  BY DEF TypeOK, Call, Idle

LEMMA WriteType ==
  ASSUME TypeOK, SnapshotsAgree, NEW r \in Request, Write(r)
  PROVE  TypeOK'
<1>. DEFINE q == requests[r]
<1>1. Done(r) /\ Idle \in Call
  BY DEF Write, AppendEvent, TransactSupersede, CreateTicket, RaiseConflict, Call
<1>2. requests' \in [Request -> Call]
  BY <1>1 DEF Done, TypeOK
<1>3. CASE AppendEvent(r)
  <2>1. q.call = "append" /\ q.id \in DOMAIN tickets /\ q.event \in AuditEvent
    BY <1>3, CallParts DEF AppendEvent, SnapshotsAgree
  <2>2. ApplyEvent(tickets[q.id], q.event) \in Ticket
    BY <2>1, ApplyEventType DEF TypeOK
  <2>3. Append(events[q.id], q.event) \in Seq(AuditEvent)
    BY <2>1 DEF TypeOK
  <2>4. /\ tickets' = [id \in DOMAIN tickets |->
                         IF id = q.id THEN ApplyEvent(tickets[q.id], q.event) ELSE tickets[id]]
        /\ events' = [id \in DOMAIN tickets |->
                         IF id = q.id THEN Append(events[q.id], q.event) ELSE events[id]]
    BY <1>3, <2>1 DEF AppendEvent, Put, TypeOK
  <2>. QED  BY <1>2, <2>1, <2>2, <2>3, <2>4 DEF TypeOK
<1>4. CASE TransactSupersede(r)
  <2>. DEFINE linked == ApplyEvent(tickets[q.id], q.event)
              D == DOMAIN tickets \cup {q.newId}
  <2>1. /\ q.call = "supersede" /\ q.id \in DOMAIN tickets /\ q.event \in AuditEvent
        /\ q.newId \in TicketId /\ q.new \in Ticket /\ q.newId \notin DOMAIN tickets
    BY <1>4, CallParts DEF TransactSupersede, SnapshotsAgree
  <2>2. linked \in Ticket
    BY <2>1, ApplyEventType DEF TypeOK
  <2>3. Append(events[q.id], q.event) \in Seq(AuditEvent)
    BY <2>1 DEF TypeOK
  <2>4. <<CreatedEvent(q.new)>> \in Seq(AuditEvent)
    BY <2>1, CreatedEventType
  <2>5. /\ tickets' = [id \in D |-> IF id = q.newId THEN q.new
                                    ELSE IF id = q.id THEN linked ELSE tickets[id]]
        /\ events' = [id \in D |-> IF id = q.newId THEN <<CreatedEvent(q.new)>>
                                   ELSE IF id = q.id THEN Append(events[q.id], q.event)
                                   ELSE events[id]]
    BY <1>4, <2>1 DEF TransactSupersede, Put, TypeOK
  <2>. HIDE DEF linked
  <2>. QED  BY <1>2, <2>1, <2>2, <2>3, <2>4, <2>5 DEF TypeOK
<1>5. CASE CreateTicket(r)
  <2>. DEFINE D == DOMAIN tickets \cup {q.newId}
  <2>1. q.call = "create" /\ q.newId \in TicketId /\ q.new \in Ticket
    BY <1>5, CallParts DEF CreateTicket
  <2>2. <<CreatedEvent(q.new)>> \in Seq(AuditEvent)
    BY <2>1, CreatedEventType
  <2>3. /\ tickets' = [id \in D |-> IF id = q.newId THEN q.new ELSE tickets[id]]
        /\ events' = [id \in D |-> IF id = q.newId THEN <<CreatedEvent(q.new)>> ELSE events[id]]
    BY <1>5 DEF CreateTicket, Put, TypeOK
  <2>. QED  BY <1>2, <2>1, <2>2, <2>3 DEF TypeOK
<1>6. CASE RaiseConflict(r)
  BY <1>2, <1>6 DEF RaiseConflict, TypeOK
<1>. QED  BY <1>3, <1>4, <1>5, <1>6 DEF Write

-----------------------------------------------------------------------------
(* What the second half of a call does to the tickets.                     *)

WritesEvent ==
  \E id \in DOMAIN tickets, e \in AuditEvent :
    /\ LegalEvent(tickets[id], e)
    /\ tickets' = [x \in DOMAIN tickets |->
                     IF x = id THEN ApplyEvent(tickets[id], e) ELSE tickets[x]]

WritesPair ==
  \E id \in DOMAIN tickets, e \in AuditEvent, newId \in TicketId, new \in Ticket :
    /\ newId \notin DOMAIN tickets
    /\ LegalLink(tickets[id], e, newId)
    /\ Newborn(new)
    /\ tickets' = [x \in DOMAIN tickets \cup {newId} |->
                     IF x = newId THEN new
                     ELSE IF x = id THEN ApplyEvent(tickets[id], e) ELSE tickets[x]]

WritesNew ==
  \E newId \in TicketId, new \in Ticket :
    /\ newId \notin DOMAIN tickets
    /\ Newborn(new)
    /\ tickets' = [x \in DOMAIN tickets \cup {newId} |->
                     IF x = newId THEN new ELSE tickets[x]]

\* The CAS at work: the event that is written is legal for the ticket as it is
\* stored now, although it was checked against an earlier reading of it.
LEMMA WriteIsLegal ==
  ASSUME TypeOK, CallsAreLegal, SnapshotsAgree, NEW r \in Request, Write(r)
  PROVE  Done(r) /\ (WritesEvent \/ WritesPair \/ WritesNew \/ UNCHANGED tickets)
<1>. DEFINE q == requests[r]
<1>1. Done(r)
  BY DEF Write, AppendEvent, TransactSupersede, CreateTicket, RaiseConflict
<1>2. CASE AppendEvent(r)
  <2>1. q.call = "append" /\ q.id \in DOMAIN tickets /\ q.event \in AuditEvent
    BY <1>2, CallParts DEF AppendEvent, SnapshotsAgree
  <2>2. tickets[q.id] = q.snap
    BY <1>2, <2>1 DEF AppendEvent, SnapshotsAgree
  <2>3. LegalEvent(tickets[q.id], q.event)
    BY <2>1, <2>2 DEF CallsAreLegal
  <2>4. tickets' = [x \in DOMAIN tickets |->
                     IF x = q.id THEN ApplyEvent(tickets[q.id], q.event) ELSE tickets[x]]
    BY <1>2, <2>1 DEF AppendEvent, Put
  <2>. QED  BY <1>1, <2>1, <2>3, <2>4 DEF WritesEvent
<1>3. CASE TransactSupersede(r)
  <2>1. /\ q.call = "supersede" /\ q.id \in DOMAIN tickets /\ q.event \in AuditEvent
        /\ q.newId \in TicketId /\ q.new \in Ticket /\ q.newId \notin DOMAIN tickets
    BY <1>3, CallParts DEF TransactSupersede, SnapshotsAgree
  <2>2. tickets[q.id] = q.snap
    BY <1>3, <2>1 DEF TransactSupersede, SnapshotsAgree
  <2>3. LegalLink(tickets[q.id], q.event, q.newId) /\ Newborn(q.new)
    BY <2>1, <2>2 DEF CallsAreLegal
  <2>4. tickets' = [x \in DOMAIN tickets \cup {q.newId} |->
                     IF x = q.newId THEN q.new
                     ELSE IF x = q.id THEN ApplyEvent(tickets[q.id], q.event) ELSE tickets[x]]
    BY <1>3, <2>1 DEF TransactSupersede, Put
  <2>. QED  BY <1>1, <2>1, <2>3, <2>4 DEF WritesPair
<1>4. CASE CreateTicket(r)
  <2>1. /\ q.call = "create" /\ q.newId \in TicketId /\ q.new \in Ticket
        /\ q.newId \notin DOMAIN tickets
    BY <1>4, CallParts DEF CreateTicket
  <2>2. Newborn(q.new)
    BY <2>1 DEF CallsAreLegal
  <2>3. tickets' = [x \in DOMAIN tickets \cup {q.newId} |->
                     IF x = q.newId THEN q.new ELSE tickets[x]]
    BY <1>4 DEF CreateTicket, Put
  <2>. QED  BY <1>1, <2>1, <2>2, <2>3 DEF WritesNew
<1>5. CASE RaiseConflict(r)
  BY <1>1, <1>5 DEF RaiseConflict
<1>. QED  BY <1>2, <1>3, <1>4, <1>5 DEF Write

\* No step removes a ticket, and every step that changes one raises its seq.
LEMMA WriteRaisesSeq ==
  ASSUME TypeOK, WritesEvent \/ WritesPair \/ WritesNew \/ UNCHANGED tickets
  PROVE  /\ DOMAIN tickets \subseteq DOMAIN tickets'
         /\ \A id \in DOMAIN tickets :
              tickets'[id] = tickets[id] \/ tickets'[id].seq = tickets[id].seq + 1
<1>1. CASE WritesEvent
  <2>1. PICK id \in DOMAIN tickets, e \in AuditEvent :
          /\ LegalEvent(tickets[id], e)
          /\ tickets' = [x \in DOMAIN tickets |->
                           IF x = id THEN ApplyEvent(tickets[id], e) ELSE tickets[x]]
    BY <1>1 DEF WritesEvent
  <2>2. ApplyEvent(tickets[id], e).seq = tickets[id].seq + 1
    BY <2>1, ApplyEventFreezes DEF TypeOK, LegalEvent
  <2>. QED  BY <2>1, <2>2
<1>2. CASE WritesPair
  <2>1. PICK id \in DOMAIN tickets, e \in AuditEvent, newId \in TicketId, new \in Ticket :
          /\ newId \notin DOMAIN tickets
          /\ LegalLink(tickets[id], e, newId)
          /\ tickets' = [x \in DOMAIN tickets \cup {newId} |->
                           IF x = newId THEN new
                           ELSE IF x = id THEN ApplyEvent(tickets[id], e) ELSE tickets[x]]
    BY <1>2 DEF WritesPair
  <2>2. ApplyEvent(tickets[id], e).seq = tickets[id].seq + 1
    BY <2>1, ApplyEventFreezes DEF TypeOK, LegalLink
  <2>. QED  BY <2>1, <2>2
<1>3. CASE WritesNew
  BY <1>3 DEF WritesNew
<1>. QED  BY <1>1, <1>2, <1>3

-----------------------------------------------------------------------------
(* The calls in flight.                                                    *)

LEMMA StartsCalls ==
  ASSUME TypeOK, CallsAreLegal, SnapshotsAgree, NEW r \in Request, Starts(r)
  PROVE  CallsAreLegal' /\ SnapshotsAgree' /\ UNCHANGED tickets
<1>1. UNCHANGED tickets
  BY DEF Starts, StartsAppend, StartsCreate, StartsSupersede, Submit
<1>2. \A id \in DOMAIN tickets : tickets[id] \in Ticket /\ tickets[id].seq \in Nat
  BY DEF TypeOK, Ticket
<1>3. \A x \in Request \ {r} : requests'[x] = requests[x]
  BY DEF Starts, StartsAppend, StartsCreate, StartsSupersede, Submit, TypeOK
<1>4. LET q == requests'[r] IN
        /\ q.call = "append" => LegalEvent(q.snap, q.event)
        /\ q.call = "supersede" => LegalLink(q.snap, q.event, q.newId)
        /\ q.call \in {"create", "supersede"} => Newborn(q.new)
        /\ q.call \in {"append", "supersede"} =>
             /\ q.id \in DOMAIN tickets
             /\ q.snap = tickets[q.id]
  BY DEF Starts, StartsAppend, StartsCreate, StartsSupersede, Submit, TypeOK
<1>5. CallsAreLegal'
  BY <1>3, <1>4 DEF CallsAreLegal
<1>6. SnapshotsAgree'
  <2>. SUFFICES ASSUME NEW x \in Request,
                       requests'[x].call \in {"append", "supersede"}
                PROVE  LET q == requests'[x] IN
                       /\ q.id \in DOMAIN tickets
                       /\ q.snap.seq <= tickets[q.id].seq
                       /\ tickets[q.id].seq = q.snap.seq => tickets[q.id] = q.snap
    BY <1>1 DEF SnapshotsAgree, Unmoved
  <2>1. CASE x = r
    BY <1>2, <1>4, <2>1
  <2>2. CASE x # r
    BY <1>3, <2>2 DEF SnapshotsAgree, Unmoved
  <2>. QED  BY <2>1, <2>2
<1>. QED  BY <1>1, <1>5, <1>6

LEMMA WriteCalls ==
  ASSUME TypeOK, CallsAreLegal, SnapshotsAgree, NEW r \in Request, Done(r),
         WritesEvent \/ WritesPair \/ WritesNew \/ UNCHANGED tickets
  PROVE  CallsAreLegal' /\ SnapshotsAgree'
<1>1. \A x \in Request : requests'[x] = requests[x] \/ requests'[x] = Idle
  BY DEF Done, TypeOK
<1>2. CallsAreLegal'
  BY <1>1 DEF CallsAreLegal, Idle
<1>3. SnapshotsAgree'
  <2>. SUFFICES ASSUME NEW x \in Request,
                       requests'[x].call \in {"append", "supersede"}
                PROVE  LET q == requests'[x] IN
                       /\ q.id \in DOMAIN tickets'
                       /\ q.snap.seq <= tickets'[q.id].seq
                       /\ tickets'[q.id].seq = q.snap.seq => tickets'[q.id] = q.snap
    BY DEF SnapshotsAgree, Unmoved
  <2>. DEFINE q == requests[x]
  <2>1. requests'[x] = q /\ q.call \in {"append", "supersede"}
    BY <1>1 DEF Idle
  <2>2. /\ q.id \in DOMAIN tickets
        /\ q.snap.seq <= tickets[q.id].seq
        /\ tickets[q.id].seq = q.snap.seq => tickets[q.id] = q.snap
    BY <2>1 DEF SnapshotsAgree, Unmoved
  <2>3. q.snap.seq \in Nat /\ tickets[q.id].seq \in Nat
    BY <2>1, <2>2, CallParts DEF TypeOK, Ticket
  <2>4. /\ q.id \in DOMAIN tickets'
        /\ tickets'[q.id] = tickets[q.id] \/ tickets'[q.id].seq = tickets[q.id].seq + 1
    BY <2>2, WriteRaisesSeq
  <2>. HIDE DEF q
  <2>. QED  BY <2>1, <2>2, <2>3, <2>4
<1>. QED  BY <1>2, <1>3

-----------------------------------------------------------------------------
(* The tickets.                                                            *)

LEMMA NewbornIsSound ==
  ASSUME NEW t, Newborn(t)
  PROVE  SoundVotes(t) /\ RecordsItsRun(t)
<1>1. SoundVotes(t)
  BY DEF Newborn, SoundVotes, Cleared
<1>2. RecordsItsRun(t)
  BY NoneAssumption DEF Newborn, RecordsItsRun
<1>. QED  BY <1>1, <1>2

\* One event, legal for the ticket, keeps its votes sound: this is where the
\* checks of approve_ticket and start_execution are needed.
LEMMA EventKeepsVotes ==
  ASSUME NEW t \in Ticket, NEW e \in AuditEvent, NEW newId \in TicketId,
         LegalEvent(t, e) \/ LegalLink(t, e, newId),
         SoundVotes(t), RecordsItsRun(t)
  PROVE  SoundVotes(ApplyEvent(t, e))
<1>. DEFINE n == ApplyEvent(t, e)
<1>1. n.proposedBy = t.proposedBy /\ n.status = e.to
  BY ApplyEventFreezes, ApplyEventStatus
<1>2. t.approvals \in Seq(Email) /\ Required \in Nat
  BY SettingsAssumption DEF Ticket
<1>3. CASE e.type \in ApprovalTypes
  <2>1. n.approvals = Append(t.approvals, e.details) /\ n.execution = t.execution
    BY <1>3, ApplyEventVotes, ApplyEventExecution DEF ApprovalTypes, ResultTypes
  <2>2. /\ t.status = "PENDING_APPROVAL"
        /\ AllowSelf \/ Lower[t.proposedBy] # Lower[e.details]
        /\ \A i \in DOMAIN t.approvals : Lower[t.approvals[i]] # Lower[e.details]
        /\ e.to = StatusAfterApproval(Len(t.approvals) + 1, Required)
    BY <1>3 DEF LegalEvent, LegalLink, ApprovalTypes, ActionableBy, HasApproved
  <2>3. t.execution = None
    BY <2>2 DEF RecordsItsRun
  <2>4. e.details \in Email
    BY <1>3 DEF AuditEvent, EventOf, ApprovalTypes, LinkTypes, ResultTypes, PlainTypes
  <2>5. /\ Len(n.approvals) = Len(t.approvals) + 1
        /\ DOMAIN n.approvals = 1..(Len(t.approvals) + 1)
        /\ DOMAIN t.approvals = 1..Len(t.approvals)
        /\ Len(t.approvals) \in Nat
        /\ \A i \in DOMAIN t.approvals : n.approvals[i] = t.approvals[i]
        /\ n.approvals[Len(t.approvals) + 1] = e.details
    BY <1>2, <2>1, <2>4
  <2>6. \A i \in DOMAIN n.approvals : i \in DOMAIN t.approvals \/ i = Len(t.approvals) + 1
    BY <2>5
  <2>7. \A i, j \in DOMAIN n.approvals :
          Lower[n.approvals[i]] = Lower[n.approvals[j]] => i = j
    BY <2>2, <2>5, <2>6 DEF SoundVotes
  <2>8. ~AllowSelf => \A i \in DOMAIN n.approvals :
                       Lower[n.approvals[i]] # Lower[n.proposedBy]
    BY <1>1, <2>2, <2>5, <2>6 DEF SoundVotes
  <2>9. Cleared(n) => Len(n.approvals) >= Required
    BY <1>1, <1>2, <2>1, <2>2, <2>3, <2>5 DEF Cleared, StatusAfterApproval
  <2>. QED  BY <2>7, <2>8, <2>9 DEF SoundVotes
<1>4. CASE e.type \notin ApprovalTypes
  <2>1. n.approvals = t.approvals
    BY <1>4, ApplyEventVotes
  <2>2. Cleared(n) => Cleared(t)
    <3>1. LegalEvent(t, e) =>
            \/ e.to \in {"REJECTED", "EXPIRED", "CLOSED"} /\ e.type \in PlainTypes \ {"EXECUTION_STARTED"}
            \/ t.status = "APPROVED"
            \/ t.status = "EXECUTING"
            \/ e.type \in {"TAGS_UPDATED", "COMMENT_ADDED"} /\ e.to = t.status
      BY <1>4 DEF LegalEvent, ApprovalTypes, PlainTypes
    <3>2. LegalLink(t, e, newId) =>
            e.type \in LinkTypes /\ e.to # "APPROVED"
      BY DEF LegalLink, LinkTypes
    <3>3. e.type \notin ResultTypes \cup {"EXECUTION_STARTED"} => n.execution = t.execution
      BY ApplyEventExecution
    <3>4. t.status = "EXECUTING" => Cleared(t)
      BY NoneAssumption DEF RecordsItsRun, Cleared
    <3>. QED
      BY <1>1, <3>1, <3>2, <3>3, <3>4 DEF Cleared, PlainTypes, LinkTypes, ResultTypes
  <2>. QED  BY <1>1, <2>1, <2>2 DEF SoundVotes
<1>. QED  BY <1>3, <1>4

\* The record of the execution follows the status.
LEMMA EventKeepsRun ==
  ASSUME NEW t \in Ticket, NEW e \in AuditEvent, NEW newId \in TicketId,
         LegalEvent(t, e) \/ LegalLink(t, e, newId),
         RecordsItsRun(t)
  PROVE  RecordsItsRun(ApplyEvent(t, e))
<1>. DEFINE n == ApplyEvent(t, e)
<1>1. n.status = e.to
  BY ApplyEventStatus
<1>2. n.execution = IF e.type = "EXECUTION_STARTED" THEN "running"
                    ELSE IF e.type \in ResultTypes THEN e.details ELSE t.execution
  BY ApplyEventExecution
<1>3. t.execution \in {None, "running", "success", "failure"}
  BY DEF Ticket, Executions, Outcomes
<1>. SUFFICES RecordsItsRun(n)
  OBVIOUS
<1>. HIDE DEF n
<1>4. CASE LegalEvent(t, e)
  <2>1. CASE e.type \in ApprovalTypes
    BY <1>1, <1>2, <1>4, <2>1, NoneAssumption
    DEF LegalEvent, RecordsItsRun, ApprovalTypes, ResultTypes, StatusAfterApproval
  <2>2. CASE e.type \notin ApprovalTypes
    BY <1>1, <1>2, <1>3, <1>4, <2>2, NoneAssumption DEF LegalEvent, RecordsItsRun, ResultTypes
  <2>. QED  BY <2>1, <2>2
<1>5. CASE LegalLink(t, e, newId)
  BY <1>1, <1>2, <1>3, <1>5, NoneAssumption DEF LegalLink, RecordsItsRun, ResultTypes
<1>. QED  BY <1>4, <1>5

\* No legal event touches a decision that has been made.
LEMMA EventKeepsDecision ==
  ASSUME NEW t \in Ticket, NEW e \in AuditEvent, NEW newId \in TicketId,
         LegalEvent(t, e) \/ LegalLink(t, e, newId)
  PROVE  LET n == ApplyEvent(t, e) IN
         /\ t.status # "PENDING_APPROVAL" =>
              n.approvals = t.approvals /\ n.rejectedBy = t.rejectedBy
         /\ t.status \in TerminalStatuses =>
              n.status = t.status /\ n.execution = t.execution
<1>. DEFINE n == ApplyEvent(t, e)
<1>1. /\ n.status = e.to
      /\ n.approvals = IF e.type \in ApprovalTypes THEN Append(t.approvals, e.details)
                                                 ELSE t.approvals
      /\ n.execution = IF e.type = "EXECUTION_STARTED" THEN "running"
                       ELSE IF e.type \in ResultTypes THEN e.details ELSE t.execution
  BY ApplyEventStatus, ApplyEventVotes, ApplyEventExecution
<1>2. e.type # "REJECTED" => n.rejectedBy = t.rejectedBy
  BY DEF ApplyEvent, Bumped, Ticket, AuditEvent, EventOf, ApprovalTypes, LinkTypes, ResultTypes, PlainTypes
<1>3. t.status # "PENDING_APPROVAL" => e.type \notin ApprovalTypes \cup {"REJECTED"}
  BY DEF LegalEvent, LegalLink, ApprovalTypes
<1>4. t.status \in TerminalStatuses =>
        e.to = t.status /\ e.type \notin ResultTypes \cup {"EXECUTION_STARTED"}
  BY <1>3 DEF LegalEvent, LegalLink, TerminalStatuses, ResultTypes
<1>. HIDE DEF n
<1>5. /\ t.status # "PENDING_APPROVAL" =>
           n.approvals = t.approvals /\ n.rejectedBy = t.rejectedBy
      /\ t.status \in TerminalStatuses =>
           n.status = t.status /\ n.execution = t.execution
  BY <1>1, <1>2, <1>3, <1>4
<1>. QED  BY <1>5 DEF n

LEMMA WriteKeepsDecisions ==
  ASSUME TypeOK, WritesEvent \/ WritesPair \/ WritesNew \/ UNCHANGED tickets
  PROVE  KeepsDecisions
<1>1. ASSUME NEW id \in DOMAIN tickets, NEW e \in AuditEvent, NEW newId \in TicketId,
             LegalEvent(tickets[id], e) \/ LegalLink(tickets[id], e, newId)
      PROVE  LET t == tickets[id]
                 n == ApplyEvent(t, e)
             IN  /\ t.status # "PENDING_APPROVAL" =>
                      n.approvals = t.approvals /\ n.rejectedBy = t.rejectedBy
                 /\ t.status \in TerminalStatuses =>
                      n.status = t.status /\ n.execution = t.execution
  BY <1>1, EventKeepsDecision DEF TypeOK
<1>2. CASE WritesEvent
  BY <1>1, <1>2 DEF WritesEvent, KeepsDecisions, TypeOK
<1>3. CASE WritesPair
  BY <1>1, <1>3 DEF WritesPair, KeepsDecisions
<1>4. CASE WritesNew
  BY <1>4 DEF WritesNew, KeepsDecisions
<1>5. CASE UNCHANGED tickets
  BY <1>5 DEF KeepsDecisions
<1>. QED  BY <1>2, <1>3, <1>4, <1>5

LEMMA WriteTickets ==
  ASSUME TypeOK, ExecutionMatchesStatus, VotesAreSound,
         WritesEvent \/ WritesPair \/ WritesNew \/ UNCHANGED tickets
  PROVE  ExecutionMatchesStatus' /\ VotesAreSound'
<1>1. ASSUME NEW id \in DOMAIN tickets, NEW e \in AuditEvent, NEW newId \in TicketId,
             LegalEvent(tickets[id], e) \/ LegalLink(tickets[id], e, newId)
      PROVE  LET n == ApplyEvent(tickets[id], e) IN SoundVotes(n) /\ RecordsItsRun(n)
  BY <1>1, EventKeepsVotes, EventKeepsRun DEF TypeOK, ExecutionMatchesStatus, VotesAreSound
<1>2. \A x \in DOMAIN tickets' : SoundVotes(tickets'[x]) /\ RecordsItsRun(tickets'[x])
  <2>1. CASE WritesEvent
    BY <1>1, <2>1 DEF WritesEvent, ExecutionMatchesStatus, VotesAreSound, TypeOK
  <2>2. CASE WritesPair
    BY <1>1, <2>2, NewbornIsSound DEF WritesPair, ExecutionMatchesStatus, VotesAreSound
  <2>3. CASE WritesNew
    BY <2>3, NewbornIsSound DEF WritesNew, ExecutionMatchesStatus, VotesAreSound
  <2>4. CASE UNCHANGED tickets
    BY <2>4 DEF ExecutionMatchesStatus, VotesAreSound
  <2>. QED  BY <2>1, <2>2, <2>3, <2>4
<1>. QED  BY <1>2 DEF ExecutionMatchesStatus, VotesAreSound, SoundVotes, RecordsItsRun, Cleared

-----------------------------------------------------------------------------
(* The theorems.                                                           *)

\* The invariant holds initially, every step of every call keeps it, and it says
\* at least what the properties below say.
THEOREM Invariance == Spec => []IInv
<1>1. Init => IInv
  <2>. SUFFICES ASSUME Init PROVE IInv
    OBVIOUS
  <2>1. DOMAIN tickets = {} /\ DOMAIN events = {} /\ \A r \in Request : requests[r] = Idle
    BY DEF Init
  <2>2. TypeOK
    BY <2>1 DEF Init, TypeOK, Call
  <2>. QED
    BY <2>1, <2>2 DEF IInv, CallsAreLegal, SnapshotsAgree, ExecutionMatchesStatus, VotesAreSound, Idle
<1>2. IInv /\ [Next]_vars => IInv'
  <2>. SUFFICES ASSUME IInv, [Next]_vars PROVE IInv'
    OBVIOUS
  <2>. USE DEF IInv
  <2>1. ASSUME NEW r \in Request, AgentCall(r) \/ HumanCall(r) \/ SystemCall(r)
        PROVE  IInv'
    <3>1. Starts(r)
      BY <2>1, CallStarts
    <3>2. TypeOK' /\ CallsAreLegal' /\ SnapshotsAgree' /\ UNCHANGED tickets
      BY <3>1, StartsType, StartsCalls
    <3>. QED  BY <3>2, WriteTickets
  <2>2. ASSUME NEW r \in Request, Write(r)
        PROVE  IInv'
    <3>1. Done(r) /\ (WritesEvent \/ WritesPair \/ WritesNew \/ UNCHANGED tickets)
      BY <2>2, WriteIsLegal
    <3>. QED  BY <2>2, <3>1, WriteType, WriteCalls, WriteTickets
  <2>3. CASE UNCHANGED vars
    BY <2>3 DEF vars, TypeOK, CallsAreLegal, SnapshotsAgree, Unmoved, ExecutionMatchesStatus,
                VotesAreSound
  <2>. QED  BY <2>1, <2>2, <2>3 DEF Next
<1>. QED  BY <1>1, <1>2, PTL DEF Spec

\* Type correctness of every reachable state.
THEOREM TypeCorrect == Spec => []TypeOK
<1>1. IInv => TypeOK
  BY DEF IInv
<1>. QED  BY <1>1, Invariance, PTL

\* No ticket becomes executable without enough different approvers, none of them
\* its proposer: for any number of calls, people and required approvals.
THEOREM FourEyesHolds == Spec => []FourEyes
<1>1. IInv => FourEyes
  BY DEF IInv, VotesAreSound, SoundVotes, FourEyes
<1>. QED  BY <1>1, Invariance, PTL

\* A call that finds the sequence number it read finds the ticket it read.
THEOREM SnapshotsAlwaysAgree == Spec => []SnapshotsAgree
<1>1. IInv => SnapshotsAgree
  BY DEF IInv
<1>. QED  BY <1>1, Invariance, PTL

\* The status of a ticket never hides that its call was started.
THEOREM ExecutionAlwaysMatches == Spec => []ExecutionMatchesStatus
<1>1. IInv => ExecutionMatchesStatus
  BY DEF IInv
<1>. QED  BY <1>1, Invariance, PTL

\* Decisions are never revisited, whatever calls are still under way.
THEOREM DecisionsAreFinal == Spec => DecisionIsFinal
<1>1. IInv /\ [Next]_vars => [KeepsDecisions]_vars
  <2>. SUFFICES ASSUME IInv, Next PROVE KeepsDecisions
    OBVIOUS
  <2>1. ASSUME NEW r \in Request, AgentCall(r) \/ HumanCall(r) \/ SystemCall(r)
        PROVE  KeepsDecisions
    BY <2>1, CallStarts, StartsCalls, WriteKeepsDecisions DEF IInv
  <2>2. ASSUME NEW r \in Request, Write(r)
        PROVE  KeepsDecisions
    BY <2>2, WriteIsLegal, WriteKeepsDecisions DEF IInv
  <2>. QED  BY <2>1, <2>2 DEF Next
<1>. QED  BY <1>1, Invariance, PTL DEF Spec, DecisionIsFinal

-----------------------------------------------------------------------------
(* What becomes of tickets over time: lineages, idempotency keys and logs.  *)

\* What the status machine and the service allow as one entry of a log.
Lawful(e) ==
  \/ CanTransition(e.from, e.to, e.kind)
  \/ e.type \in {"TAGS_UPDATED", "COMMENT_ADDED", "SUPERSEDED"} /\ e.to = e.from

Creating == {"create", "supersede"}
Changing == {"append", "supersede"}

\* A call about to be written has an id of its own and a ticket with its place in a
\* lineage; the event it brings is lawful.
CallsKnowTheirPlace ==
  \A r \in Request :
    LET q == requests[r] IN
    /\ q.call \in Creating => q.newId \notin DOMAIN tickets
    /\ q.call = "create" => q.new.supersedes = None /\ q.new.lineageRoot = q.newId
    /\ q.call = "supersede" => /\ q.new.supersedes = q.id
                               /\ q.new.lineageRoot = q.snap.lineageRoot
                               /\ q.new.assignee = q.snap.assignee
                               /\ q.new.idemKey = None
                               /\ q.new.proposedBy \in Email
    /\ q.call \in Changing => Lawful(q.event)

NewIdsDiffer ==
  \A r, s \in Request :
    /\ requests[r].call \in Creating /\ requests[s].call \in Creating
    /\ requests[r].newId = requests[s].newId
    => r = s

\* A lineage starts at a stored ticket, ends at one that nothing supersedes, and only
\* that one may still be open.
LineagesHaveEnds ==
  /\ \A a \in DOMAIN tickets : tickets[a].lineageRoot \in DOMAIN tickets
  /\ \A a, b \in DOMAIN tickets :
       /\ tickets[a].lineageRoot = tickets[b].lineageRoot
       /\ tickets[a].supersededBy = None /\ tickets[b].supersededBy = None
       => a = b
  /\ \A a \in DOMAIN tickets :
       tickets[a].supersededBy # None => tickets[a].status \in TerminalStatuses

\* An entry for every change.
LogsAreComplete ==
  \A a \in DOMAIN tickets : Len(events[a]) = tickets[a].seq /\ tickets[a].seq >= 1

HistoryInv ==
  /\ CallsKnowTheirPlace
  /\ NewIdsDiffer
  /\ LineagesHaveEnds
  /\ LineageIsChain
  /\ OneTicketPerKey
  /\ LogsAreComplete
  /\ AuditTrailIsConsistent

-----------------------------------------------------------------------------
(* The first half of a call.                                               *)

\* What it leaves for the second half.
Begins(r) ==
  /\ UNCHANGED <<tickets, events>>
  /\ \A s \in Request \ {r} : requests'[s] = requests[s]
  /\ LET q == requests'[r] IN
     \/ q.call = "append" /\ Lawful(q.event)
     \/ /\ q.call = "create"
        /\ q.newId \in FreshId /\ q.new.supersedes = None /\ q.new.lineageRoot = q.newId
     \/ /\ q.call = "supersede" /\ Lawful(q.event)
        /\ q.newId \in FreshId /\ q.new.supersedes = q.id
        /\ q.new.lineageRoot = q.snap.lineageRoot
        /\ q.new.assignee = q.snap.assignee
        /\ q.new.idemKey = None
        /\ q.new.proposedBy \in Email

LEMMA SubmitBegins ==
  ASSUME TypeOK, NEW r \in Request, NEW id, NEW e, Submit(r, id, e), Lawful(e)
  PROVE  Begins(r)
<1>1. /\ requests' = [requests EXCEPT ![r] =
           [call |-> "append", id |-> id, snap |-> tickets[id], event |-> e]]
      /\ UNCHANGED <<tickets, events>>
  BY DEF Submit
<1>2. requests'[r].call = "append" /\ requests'[r].event = e
  BY <1>1 DEF TypeOK
<1>3. \A s \in Request \ {r} : requests'[s] = requests[s]
  BY <1>1 DEF TypeOK
<1> QED BY <1>1, <1>2, <1>3 DEF Begins

LEMMA ProposeBegins ==
  ASSUME TypeOK, NEW r \in Request, NEW agent, NEW proposer, NEW params, NEW tags, NEW key,
         Propose(r, agent, proposer, params, tags, key)
  PROVE  Begins(r)
<1>1. PICK id \in FreshId :
        requests' = [requests EXCEPT ![r] =
          [call |-> "create", newId |-> id,
           new |-> BuildTicket(id, agent, proposer, params, tags, key)]]
  BY DEF Propose
<1>2. /\ requests'[r].call = "create" /\ requests'[r].newId = id
      /\ requests'[r].new = BuildTicket(id, agent, proposer, params, tags, key)
  BY <1>1 DEF TypeOK
<1>3. /\ requests'[r].new.supersedes = None
      /\ requests'[r].new.lineageRoot = id
  BY <1>2 DEF BuildTicket
<1>4. \A s \in Request \ {r} : requests'[s] = requests[s]
  BY <1>1 DEF TypeOK
<1> QED BY <1>1, <1>2, <1>3, <1>4 DEF Begins, Propose

LEMMA SupersedeBegins ==
  ASSUME TypeOK, NEW r \in Request, NEW id \in DOMAIN tickets, NEW editor \in Email,
         NEW params, NEW tags, SupersedeTicket(r, id, editor, params, tags)
  PROVE  Begins(r)
<1> DEFINE t == tickets[id]
           e(new) == EventAfter(t, IF IsFollowUp(t) THEN "SUPERSEDED" ELSE "DEPRECATED",
                                "human", editor,
                                IF IsFollowUp(t) THEN t.status ELSE "DEPRECATED", new)
           n(new) == BuildSuccessor(new, id, t, editor, params, tags)
<1>1. PICK new \in FreshId :
        requests' = [requests EXCEPT ![r] =
          [call |-> "supersede", id |-> id, snap |-> t, event |-> e(new),
           newId |-> new, new |-> n(new)]]
  BY DEF SupersedeTicket
<1>2. Lawful(e(new))
  BY DEF Lawful, EventAfter, SupersedeTicket
<1>3. /\ n(new).supersedes = id /\ n(new).lineageRoot = t.lineageRoot
      /\ n(new).assignee = t.assignee /\ n(new).idemKey = None
      /\ n(new).proposedBy = editor
  BY DEF BuildSuccessor, BuildTicket
<1> HIDE DEF e, n
<1>4. /\ requests'[r].call = "supersede" /\ requests'[r].id = id /\ requests'[r].snap = t
      /\ requests'[r].event = e(new) /\ requests'[r].newId = new /\ requests'[r].new = n(new)
  BY <1>1 DEF TypeOK
<1>5. \A s \in Request \ {r} : requests'[s] = requests[s]
  BY <1>1 DEF TypeOK
<1>6. UNCHANGED <<tickets, events>>
  BY DEF SupersedeTicket
<1> QED BY <1>2, <1>3, <1>4, <1>5, <1>6 DEF Begins

LEMMA CallBegins ==
  ASSUME TypeOK, NEW r \in Request, AgentCall(r) \/ HumanCall(r) \/ SystemCall(r)
  PROVE  Begins(r)
<1>1. ASSUME NEW agent \in Agent, NEW params \in Params, NEW tags \in Tags,
             NEW key \in IdemKey \cup {None}, CreateAgentTicket(r, agent, params, tags, key)
      PROVE  Begins(r)
  BY <1>1, ProposeBegins DEF CreateAgentTicket
<1>2. ASSUME NEW agent \in Agent, NEW id \in DOMAIN tickets, NEW echoed \in Params,
             StartExecution(r, id, agent, echoed)
      PROVE  Begins(r)
  <2> DEFINE e == EventAfter(tickets[id], "EXECUTION_STARTED", "agent", agent, "EXECUTING", None)
  <2>1. Lawful(e) /\ Submit(r, id, e)
    BY <1>2 DEF StartExecution, Lawful, EventAfter
  <2> QED BY <2>1, SubmitBegins
<1>3. ASSUME NEW agent \in Agent, NEW id \in DOMAIN tickets, NEW outcome \in Outcomes,
             ReportExecutionResult(r, id, agent, outcome)
      PROVE  Begins(r)
  <2> DEFINE to == IF outcome = "success" THEN "CLOSED" ELSE "FAILED"
             type == IF outcome = "success" THEN "EXECUTION_COMPLETED" ELSE "EXECUTION_FAILED"
             e == EventAfter(tickets[id], type, "agent", agent, to, outcome)
  <2>1. Lawful(e) /\ Submit(r, id, e)
    BY <1>3 DEF ReportExecutionResult, Lawful, EventAfter
  <2> QED BY <2>1, SubmitBegins
<1>4. ASSUME NEW email \in Email, NEW params \in Params, NEW tags \in Tags,
             NEW key \in IdemKey \cup {None}, CreateHumanTicket(r, email, params, tags, key)
      PROVE  Begins(r)
  BY <1>4, ProposeBegins DEF CreateHumanTicket
<1>5. ASSUME NEW email \in Email, NEW id \in DOMAIN tickets, ApproveTicket(r, id, email)
      PROVE  Begins(r)
  <2> DEFINE to == StatusAfterApproval(Len(tickets[id].approvals) + 1, Required)
             type == IF to = "APPROVED" THEN "APPROVED" ELSE "APPROVAL_ADDED"
             e == EventAfter(tickets[id], type, "human", email, to, email)
  <2>1. Lawful(e) /\ Submit(r, id, e)
    BY <1>5 DEF ApproveTicket, Lawful, EventAfter
  <2> QED BY <2>1, SubmitBegins
<1>6. ASSUME NEW email \in Email, NEW id \in DOMAIN tickets, RejectTicket(r, id, email)
      PROVE  Begins(r)
  <2> DEFINE e == EventAfter(tickets[id], "REJECTED", "human", email, "REJECTED", None)
  <2>1. Lawful(e) /\ Submit(r, id, e)
    BY <1>6 DEF RejectTicket, Lawful, EventAfter
  <2> QED BY <2>1, SubmitBegins
<1>7. ASSUME NEW email \in Email, NEW id \in DOMAIN tickets, CloseTicket(r, id, email)
      PROVE  Begins(r)
  <2> DEFINE e == EventAfter(tickets[id], "CLOSED", "human", email, "CLOSED", None)
  <2>1. Lawful(e) /\ Submit(r, id, e)
    BY <1>7 DEF CloseTicket, Lawful, EventAfter
  <2> QED BY <2>1, SubmitBegins
<1>8. ASSUME NEW email \in Email, NEW id \in DOMAIN tickets, AddComment(r, id, email)
      PROVE  Begins(r)
  <2> DEFINE e == EventAfter(tickets[id], "COMMENT_ADDED", "human", email,
                             tickets[id].status, None)
  <2>1. Lawful(e) /\ Submit(r, id, e)
    BY <1>8 DEF AddComment, Lawful, EventAfter
  <2> QED BY <2>1, SubmitBegins
<1>9. ASSUME NEW email \in Email, NEW id \in DOMAIN tickets, NEW tags \in Tags,
             UpdateTags(r, id, email, tags)
      PROVE  Begins(r)
  <2> DEFINE e == EventAfter(tickets[id], "TAGS_UPDATED", "human", email,
                             tickets[id].status, tags)
  <2>1. Lawful(e) /\ Submit(r, id, e)
    BY <1>9 DEF UpdateTags, Lawful, EventAfter
  <2> QED BY <2>1, SubmitBegins
<1>10. ASSUME NEW id \in DOMAIN tickets, ExpireTicket(r, id)
       PROVE  Begins(r)
  <2> DEFINE e == EventAfter(tickets[id], "EXPIRED", "system", Gate, "EXPIRED", None)
  <2>1. Submit(r, id, e) /\ tickets[id].status \in {"PENDING_APPROVAL", "APPROVED"}
    BY <1>10 DEF ExpireTicket
  <2>2. Lawful(e)
    BY <2>1 DEF Lawful, EventAfter, CanTransition, Allowed
  <2> QED BY <2>1, <2>2, SubmitBegins
<1>11. AgentCall(r) => Begins(r)
  BY <1>1, <1>2, <1>3 DEF AgentCall
<1>12. HumanCall(r) => Begins(r)
  BY <1>4, <1>5, <1>6, <1>7, <1>8, <1>9, SupersedeBegins DEF HumanCall
<1>13. SystemCall(r) => Begins(r)
  BY <1>10 DEF SystemCall
<1> QED BY <1>11, <1>12, <1>13

LEMMA BeginKeeps ==
  ASSUME TypeOK, HistoryInv, NEW r \in Request, Begins(r)
  PROVE  HistoryInv'
<1> USE DEF HistoryInv
<1>1. UNCHANGED <<tickets, events>> /\ \A s \in Request \ {r} : requests'[s] = requests[s]
  BY DEF Begins
<1>2. requests'[r].call \in Creating =>
        /\ requests'[r].newId \notin DOMAIN tickets
        /\ \A s \in Request : requests[s].call \in Creating =>
             requests[s].newId # requests'[r].newId
  BY DEF Begins, Creating, FreshId
<1>3. CallsKnowTheirPlace'
  <2> SUFFICES ASSUME NEW s \in Request
               PROVE  LET q == requests'[s] IN
                      /\ q.call \in Creating => q.newId \notin DOMAIN tickets
                      /\ q.call = "create" => /\ q.new.supersedes = None
                                              /\ q.new.lineageRoot = q.newId
                      /\ q.call = "supersede" => /\ q.new.supersedes = q.id
                                                 /\ q.new.lineageRoot = q.snap.lineageRoot
                                                 /\ q.new.assignee = q.snap.assignee
                                                 /\ q.new.idemKey = None
                                                 /\ q.new.proposedBy \in Email
                      /\ q.call \in Changing => Lawful(q.event)
    BY <1>1 DEF CallsKnowTheirPlace, Lawful
  <2>1. CASE s = r
    BY <1>2, <2>1 DEF Begins, Changing
  <2>2. CASE s # r
    BY <1>1, <2>2 DEF CallsKnowTheirPlace
  <2> QED BY <2>1, <2>2
<1>4. NewIdsDiffer'
  <2> SUFFICES ASSUME NEW s \in Request, NEW u \in Request,
                      requests'[s].call \in Creating, requests'[u].call \in Creating,
                      requests'[s].newId = requests'[u].newId
               PROVE  s = u
    BY DEF NewIdsDiffer
  <2>1. CASE s = r /\ u # r
    BY <1>1, <1>2, <2>1
  <2>2. CASE s # r /\ u = r
    BY <1>1, <1>2, <2>2
  <2>3. CASE s # r /\ u # r
    BY <1>1, <2>3 DEF NewIdsDiffer
  <2> QED BY <2>1, <2>2, <2>3
<1>5. LineagesHaveEnds' /\ LineageIsChain' /\ OneTicketPerKey'
  BY <1>1 DEF LineagesHaveEnds, LineageIsChain, OneTicketPerKey
<1>6. LogsAreComplete' /\ AuditTrailIsConsistent'
  BY <1>1 DEF LogsAreComplete, AuditTrailIsConsistent
<1> QED BY <1>3, <1>4, <1>5, <1>6

-----------------------------------------------------------------------------
(* The second half: what a write changes.                                  *)

\* apply_event links a ticket to its successor on a link event, once and only then.
LEMMA ApplyEventLinks ==
  ASSUME NEW t \in Ticket, NEW e \in AuditEvent
  PROVE  ApplyEvent(t, e).supersededBy = IF e.type \in LinkTypes THEN e.details ELSE t.supersededBy
  BY DEF ApplyEvent, Bumped, Ticket, AuditEvent, EventOf, ApprovalTypes, LinkTypes, ResultTypes, PlainTypes

\* What no event but a link may do to a ticket's place in its lineage.
KeepsPlace(t, n) ==
  /\ n.supersedes = t.supersedes /\ n.supersededBy = t.supersededBy
  /\ n.lineageRoot = t.lineageRoot
  /\ n.assignee = t.assignee /\ n.idemKey = t.idemKey
  /\ t.status \in TerminalStatuses => n.status \in TerminalStatuses

LEMMA EventKeepsPlace ==
  ASSUME NEW t \in Ticket, NEW e \in AuditEvent, LegalEvent(t, e)
  PROVE  KeepsPlace(t, ApplyEvent(t, e))
<1>1. e.type \notin LinkTypes
  BY DEF LegalEvent, LinkTypes, ApprovalTypes
<1>2. ApplyEvent(t, e).supersededBy = t.supersededBy
  BY <1>1, ApplyEventLinks
<1>3. t.status \in TerminalStatuses => ApplyEvent(t, e).status \in TerminalStatuses
  BY DEF LegalEvent, ApplyEvent, Bumped, Ticket, AuditEvent, EventOf, ApprovalTypes,
         LinkTypes, ResultTypes, PlainTypes, TerminalStatuses
<1> QED BY <1>2, <1>3, ApplyEventFreezes DEF KeepsPlace

LEMMA Appends ==
  ASSUME IInv, NEW r \in Request, AppendEvent(r)
  PROVE  LET q == requests[r] IN
         /\ q.call = "append" /\ q.id \in DOMAIN tickets /\ q.event \in AuditEvent
         /\ LegalEvent(tickets[q.id], q.event)
         /\ DOMAIN tickets' = DOMAIN tickets
         /\ \A x \in DOMAIN tickets :
              /\ tickets'[x] = IF x = q.id THEN ApplyEvent(tickets[x], q.event) ELSE tickets[x]
              /\ events'[x] = IF x = q.id THEN Append(events[x], q.event) ELSE events[x]
<1> DEFINE q == requests[r]
<1>1. q.call = "append" /\ q.id \in DOMAIN tickets /\ q.event \in AuditEvent
  BY CallParts DEF AppendEvent, SnapshotsAgree, IInv
<1>2. tickets[q.id] = q.snap
  BY <1>1 DEF AppendEvent, SnapshotsAgree, IInv
<1>3. LegalEvent(tickets[q.id], q.event)
  BY <1>1, <1>2 DEF CallsAreLegal, IInv
<1>4. DOMAIN events = DOMAIN tickets
  BY DEF IInv, TypeOK
<1>5. /\ tickets' = Put(tickets, q.id, ApplyEvent(tickets[q.id], q.event))
      /\ events' = Put(events, q.id, Append(events[q.id], q.event))
  BY DEF AppendEvent
<1> QED BY <1>1, <1>3, <1>4, <1>5 DEF Put

LEMMA Pairs ==
  ASSUME IInv, NEW r \in Request, TransactSupersede(r)
  PROVE  LET q == requests[r] IN
         /\ q.call = "supersede" /\ q.id \in DOMAIN tickets /\ q.event \in AuditEvent
         /\ q.newId \in TicketId /\ q.new \in Ticket /\ q.newId \notin DOMAIN tickets
         /\ LegalLink(tickets[q.id], q.event, q.newId) /\ Newborn(q.new)
         /\ tickets[q.id] = q.snap
         /\ DOMAIN tickets' = DOMAIN tickets \cup {q.newId}
         /\ tickets'[q.newId] = q.new /\ events'[q.newId] = <<CreatedEvent(q.new)>>
         /\ \A x \in DOMAIN tickets :
              /\ tickets'[x] = IF x = q.id THEN ApplyEvent(tickets[x], q.event) ELSE tickets[x]
              /\ events'[x] = IF x = q.id THEN Append(events[x], q.event) ELSE events[x]
<1> DEFINE q == requests[r]
<1>1. /\ q.call = "supersede" /\ q.id \in DOMAIN tickets /\ q.event \in AuditEvent
      /\ q.newId \in TicketId /\ q.new \in Ticket /\ q.newId \notin DOMAIN tickets
  BY CallParts DEF TransactSupersede, SnapshotsAgree, IInv
<1>2. tickets[q.id] = q.snap
  BY <1>1 DEF TransactSupersede, SnapshotsAgree, IInv
<1>3. LegalLink(tickets[q.id], q.event, q.newId) /\ Newborn(q.new)
  BY <1>1, <1>2 DEF CallsAreLegal, IInv
<1>4. DOMAIN events = DOMAIN tickets
  BY DEF IInv, TypeOK
<1>5. /\ tickets' = Put(Put(tickets, q.id, ApplyEvent(tickets[q.id], q.event)), q.newId, q.new)
      /\ events' = Put(Put(events, q.id, Append(events[q.id], q.event)),
                       q.newId, <<CreatedEvent(q.new)>>)
  BY DEF TransactSupersede
<1>6. /\ DOMAIN tickets' = DOMAIN tickets \cup {q.newId}
      /\ tickets'[q.newId] = q.new
      /\ \A x \in DOMAIN tickets :
           tickets'[x] = IF x = q.id THEN ApplyEvent(tickets[x], q.event) ELSE tickets[x]
  BY <1>1, <1>5 DEF Put
<1>7. /\ events'[q.newId] = <<CreatedEvent(q.new)>>
      /\ \A x \in DOMAIN tickets :
           events'[x] = IF x = q.id THEN Append(events[x], q.event) ELSE events[x]
  BY <1>1, <1>4, <1>5 DEF Put
<1> QED BY <1>1, <1>2, <1>3, <1>6, <1>7

LEMMA Creates ==
  ASSUME IInv, NEW r \in Request, CreateTicket(r)
  PROVE  LET q == requests[r] IN
         /\ q.call = "create" /\ q.newId \in TicketId /\ q.new \in Ticket
         /\ q.newId \notin DOMAIN tickets /\ Newborn(q.new) /\ ~KeyTaken(q.new)
         /\ DOMAIN tickets' = DOMAIN tickets \cup {q.newId}
         /\ tickets'[q.newId] = q.new /\ events'[q.newId] = <<CreatedEvent(q.new)>>
         /\ \A x \in DOMAIN tickets : tickets'[x] = tickets[x] /\ events'[x] = events[x]
<1> DEFINE q == requests[r]
<1>1. /\ q.call = "create" /\ q.newId \in TicketId /\ q.new \in Ticket
      /\ q.newId \notin DOMAIN tickets /\ ~KeyTaken(q.new)
  BY CallParts DEF CreateTicket, IInv
<1>2. Newborn(q.new)
  BY <1>1 DEF CallsAreLegal, IInv
<1>3. DOMAIN events = DOMAIN tickets
  BY DEF IInv, TypeOK
<1>4. /\ tickets' = Put(tickets, q.newId, q.new)
      /\ events' = Put(events, q.newId, <<CreatedEvent(q.new)>>)
  BY DEF CreateTicket
<1> QED BY <1>1, <1>2, <1>3, <1>4 DEF Put

\* A write ends one call and leaves the others as they are.
LEMMA WriteEnds ==
  ASSUME TypeOK, NEW r \in Request, Write(r)
  PROVE  /\ requests'[r] = Idle
         /\ \A s \in Request \ {r} : requests'[s] = requests[s]
<1>1. Done(r)
  BY DEF Write, AppendEvent, TransactSupersede, CreateTicket, RaiseConflict
<1> QED BY <1>1 DEF Done, TypeOK

LEMMA WriteKeepsPlaces ==
  ASSUME IInv, HistoryInv, NEW r \in Request, Write(r)
  PROVE  CallsKnowTheirPlace' /\ NewIdsDiffer'
<1> USE DEF HistoryInv
<1>1. /\ requests'[r].call = "idle"
      /\ \A s \in Request \ {r} : requests'[s] = requests[s]
  BY WriteEnds DEF Idle, IInv
<1>2. \A x \in DOMAIN tickets' : x \notin DOMAIN tickets =>
        requests[r].call \in Creating /\ x = requests[r].newId
  <2>1. CASE AppendEvent(r)
    BY <2>1, Appends
  <2>2. CASE TransactSupersede(r)
    <3>1. /\ requests[r].call = "supersede"
          /\ DOMAIN tickets' = DOMAIN tickets \cup {requests[r].newId}
      BY <2>2, Pairs
    <3> QED BY <3>1 DEF Creating
  <2>3. CASE CreateTicket(r)
    <3>1. /\ requests[r].call = "create"
          /\ DOMAIN tickets' = DOMAIN tickets \cup {requests[r].newId}
      BY <2>3, Creates
    <3> QED BY <3>1 DEF Creating
  <2>4. CASE RaiseConflict(r)
    BY <2>4 DEF RaiseConflict
  <2> QED BY <2>1, <2>2, <2>3, <2>4 DEF Write
<1>3. NewIdsDiffer'
  BY <1>1 DEF NewIdsDiffer, Creating
<1>4. CallsKnowTheirPlace'
  <2> SUFFICES ASSUME NEW s \in Request
               PROVE  LET q == requests'[s] IN
                      /\ q.call \in Creating => q.newId \notin DOMAIN tickets'
                      /\ q.call = "create" => /\ q.new.supersedes = None
                                              /\ q.new.lineageRoot = q.newId
                      /\ q.call = "supersede" => /\ q.new.supersedes = q.id
                                                 /\ q.new.lineageRoot = q.snap.lineageRoot
                                                 /\ q.new.assignee = q.snap.assignee
                                                 /\ q.new.idemKey = None
                                                 /\ q.new.proposedBy \in Email
                      /\ q.call \in Changing => Lawful(q.event)
    BY DEF CallsKnowTheirPlace, Lawful
  <2>1. CASE s = r
    BY <1>1, <2>1 DEF Creating, Changing
  <2>2. CASE s # r
    <3>1. requests'[s] = requests[s]
      BY <1>1, <2>2
    <3>2. requests[s].call \in Creating => requests[s].newId \notin DOMAIN tickets'
      BY <1>2, <2>2 DEF CallsKnowTheirPlace, NewIdsDiffer
    <3> QED BY <3>1, <3>2 DEF CallsKnowTheirPlace
  <2> QED BY <2>1, <2>2
<1> QED BY <1>3, <1>4

-----------------------------------------------------------------------------
(* Lineages and keys.                                                      *)

\* When no ticket changes its place.
LEMMA SamePlaces ==
  ASSUME TypeOK, LineagesHaveEnds, LineageIsChain, OneTicketPerKey,
         DOMAIN tickets' = DOMAIN tickets,
         \A x \in DOMAIN tickets : KeepsPlace(tickets[x], tickets'[x])
  PROVE  LineagesHaveEnds' /\ LineageIsChain' /\ OneTicketPerKey'
<1>1. LineagesHaveEnds'
  BY DEF LineagesHaveEnds, KeepsPlace
<1>2. LineageIsChain'
  <2> SUFFICES ASSUME NEW id \in DOMAIN tickets
               PROVE  LET t == tickets'[id] IN
                      /\ t.supersededBy # None =>
                           /\ t.supersededBy \in DOMAIN tickets'
                           /\ tickets'[t.supersededBy].supersedes = id
                      /\ t.supersedes # None =>
                           /\ t.supersedes \in DOMAIN tickets'
                           /\ tickets'[t.supersedes].supersededBy = id
                           /\ tickets'[t.supersedes].lineageRoot = t.lineageRoot
                           /\ tickets'[t.supersedes].assignee = t.assignee
                      /\ t.supersedes = None <=> t.lineageRoot = id
    BY DEF LineageIsChain
  <2> QED BY DEF LineageIsChain, KeepsPlace
<1>3. OneTicketPerKey'
  BY DEF OneTicketPerKey, KeepsPlace
<1> QED BY <1>1, <1>2, <1>3

LEMMA AppendKeepsLineages ==
  ASSUME IInv, HistoryInv, NEW r \in Request, AppendEvent(r)
  PROVE  LineagesHaveEnds' /\ LineageIsChain' /\ OneTicketPerKey'
<1>1. \A x \in DOMAIN tickets : KeepsPlace(tickets[x], tickets'[x])
  <2> TAKE x \in DOMAIN tickets
  <2>1. tickets[x] \in Ticket
    BY DEF IInv, TypeOK
  <2>2. CASE x = requests[r].id
    BY <2>1, <2>2, Appends, EventKeepsPlace
  <2>3. CASE x # requests[r].id
    BY <2>3, Appends DEF KeepsPlace
  <2> QED BY <2>2, <2>3
<1>2. DOMAIN tickets' = DOMAIN tickets
  BY Appends
<1> QED BY <1>1, <1>2, SamePlaces DEF IInv, HistoryInv

LEMMA CreateKeepsLineages ==
  ASSUME IInv, HistoryInv, NEW r \in Request, CreateTicket(r)
  PROVE  LineagesHaveEnds' /\ LineageIsChain' /\ OneTicketPerKey'
<1> USE DEF HistoryInv
<1> DEFINE id == requests[r].newId
           new == requests[r].new
           D == DOMAIN tickets
<1>1. /\ id \in TicketId /\ id \notin D /\ Newborn(new) /\ ~KeyTaken(new)
      /\ DOMAIN tickets' = D \cup {id} /\ tickets'[id] = new
      /\ \A x \in D : tickets'[x] = tickets[x]
      /\ requests[r].call = "create"
  BY Creates
<1>2. new.supersedes = None /\ new.lineageRoot = id /\ new.supersededBy = None
  BY <1>1 DEF CallsKnowTheirPlace, Newborn
<1> HIDE DEF id, new
<1>3. LineagesHaveEnds'
  <2>1. \A a \in DOMAIN tickets' : tickets'[a].lineageRoot \in DOMAIN tickets'
    BY <1>1, <1>2 DEF LineagesHaveEnds
  <2>2. \A a \in D : tickets[a].lineageRoot # id
    BY <1>1 DEF LineagesHaveEnds
  <2>3. \A a, b \in DOMAIN tickets' :
          /\ tickets'[a].lineageRoot = tickets'[b].lineageRoot
          /\ tickets'[a].supersededBy = None /\ tickets'[b].supersededBy = None
          => a = b
    BY <1>1, <1>2, <2>2 DEF LineagesHaveEnds
  <2>4. \A a \in DOMAIN tickets' :
          tickets'[a].supersededBy # None => tickets'[a].status \in TerminalStatuses
    BY <1>1, <1>2 DEF LineagesHaveEnds
  <2> QED BY <2>1, <2>3, <2>4 DEF LineagesHaveEnds
<1>4. LineageIsChain'
  <2> SUFFICES ASSUME NEW x \in DOMAIN tickets'
               PROVE  LET t == tickets'[x] IN
                      /\ t.supersededBy # None =>
                           /\ t.supersededBy \in DOMAIN tickets'
                           /\ tickets'[t.supersededBy].supersedes = x
                      /\ t.supersedes # None =>
                           /\ t.supersedes \in DOMAIN tickets'
                           /\ tickets'[t.supersedes].supersededBy = x
                           /\ tickets'[t.supersedes].lineageRoot = t.lineageRoot
                           /\ tickets'[t.supersedes].assignee = t.assignee
                      /\ t.supersedes = None <=> t.lineageRoot = x
    BY DEF LineageIsChain
  <2>1. CASE x = id
    BY <1>1, <1>2, <2>1
  <2>2. CASE x \in D
    BY <1>1, <2>2 DEF LineageIsChain
  <2> QED BY <1>1, <2>1, <2>2
<1>5. OneTicketPerKey'
  <2>1. \A a \in D : ~(/\ new.idemKey # None /\ tickets[a].idemKey = new.idemKey
                       /\ tickets[a].assignee = new.assignee)
    BY <1>1 DEF KeyTaken, FindByKey
  <2> QED BY <1>1, <2>1 DEF OneTicketPerKey
<1> QED BY <1>3, <1>4, <1>5

\* The successor takes the place at the end that the old ticket leaves.
LEMMA SupersedeKeepsLineages ==
  ASSUME IInv, HistoryInv, NEW r \in Request, TransactSupersede(r)
  PROVE  LineagesHaveEnds' /\ LineageIsChain' /\ OneTicketPerKey'
<1> USE DEF HistoryInv
<1> DEFINE id == requests[r].newId
           old == requests[r].id
           new == requests[r].new
           e == requests[r].event
           linked == ApplyEvent(tickets[old], e)
           D == DOMAIN tickets
<1>1. /\ old \in D /\ e \in AuditEvent /\ id \in TicketId /\ id \notin D
      /\ LegalLink(tickets[old], e, id) /\ Newborn(new)
      /\ DOMAIN tickets' = D \cup {id} /\ tickets'[id] = new
      /\ \A x \in D : tickets'[x] = IF x = old THEN ApplyEvent(tickets[x], e) ELSE tickets[x]
      /\ requests[r].call = "supersede" /\ tickets[old] = requests[r].snap
  BY Pairs
<1>2. /\ new.supersedes = old /\ new.lineageRoot = tickets[old].lineageRoot
      /\ new.assignee = tickets[old].assignee /\ new.idemKey = None
      /\ new.supersededBy = None
  BY <1>1 DEF CallsKnowTheirPlace, Newborn
<1>3. tickets[old] \in Ticket /\ old \in TicketId /\ \A x \in D : x \in TicketId
  BY <1>1 DEF IInv, TypeOK
<1>4. tickets[old].supersededBy = None /\ e.details = id /\ e.type \in LinkTypes
  BY <1>1 DEF LegalLink, Supersedable, LinkTypes
<1>5. /\ linked.supersededBy = id
      /\ linked.supersedes = tickets[old].supersedes
      /\ linked.lineageRoot = tickets[old].lineageRoot
      /\ linked.assignee = tickets[old].assignee
      /\ linked.idemKey = tickets[old].idemKey
  BY <1>1, <1>3, <1>4, ApplyEventLinks, ApplyEventFreezes
<1>6. linked.status \in TerminalStatuses
  BY <1>1, <1>3, ApplyEventStatus DEF LegalLink, TerminalStatuses
<1>7. old # None /\ id # None /\ old # id
  BY <1>1, <1>3, NoneAssumption
<1>8. /\ tickets'[old] = linked
      /\ \A x \in D \ {old} : tickets'[x] = tickets[x]
  BY <1>1
<1>9. DOMAIN tickets' = D \cup {id} /\ tickets'[id] = new /\ id \notin D /\ old \in D
  BY <1>1
<1> HIDE DEF id, old, new, e, linked, D
<1>10. \A x \in D : /\ tickets'[x].supersedes = tickets[x].supersedes
                    /\ tickets'[x].lineageRoot = tickets[x].lineageRoot
                    /\ tickets'[x].assignee = tickets[x].assignee
                    /\ tickets'[x].idemKey = tickets[x].idemKey
                    /\ tickets'[x].supersededBy = IF x = old THEN id ELSE tickets[x].supersededBy
  BY <1>5, <1>8
<1>11. LineagesHaveEnds'
  <2>1. \A a \in D : tickets[a].lineageRoot \in D
    BY DEF LineagesHaveEnds, D
  <2>2. \A a \in DOMAIN tickets' : tickets'[a].lineageRoot \in DOMAIN tickets'
    BY <1>2, <1>9, <1>10, <2>1
  <2>3. \A a, b \in D :
          /\ tickets[a].lineageRoot = tickets[b].lineageRoot
          /\ tickets[a].supersededBy = None /\ tickets[b].supersededBy = None
          => a = b
    BY DEF LineagesHaveEnds, D
  <2>4. \A a \in D : (tickets'[a].supersededBy = None
                        /\ tickets'[a].lineageRoot = tickets[old].lineageRoot) => FALSE
    BY <1>4, <1>7, <1>9, <1>10, <2>3
  <2>5. \A a, b \in DOMAIN tickets' :
          /\ tickets'[a].lineageRoot = tickets'[b].lineageRoot
          /\ tickets'[a].supersededBy = None /\ tickets'[b].supersededBy = None
          => a = b
    <3> TAKE a, b \in DOMAIN tickets'
    <3> HAVE /\ tickets'[a].lineageRoot = tickets'[b].lineageRoot
             /\ tickets'[a].supersededBy = None /\ tickets'[b].supersededBy = None
    <3>1. CASE a \in D /\ b \in D
      BY <1>7, <1>10, <2>3, <3>1
    <3>2. CASE a = id /\ b \in D
      BY <1>2, <1>9, <2>4, <3>2
    <3>3. CASE a \in D /\ b = id
      BY <1>2, <1>9, <2>4, <3>3
    <3> QED BY <1>9, <3>1, <3>2, <3>3
  <2>6. \A a \in D : tickets[a].supersededBy # None => tickets[a].status \in TerminalStatuses
    BY DEF LineagesHaveEnds, D
  <2>7. \A a \in DOMAIN tickets' :
          tickets'[a].supersededBy # None => tickets'[a].status \in TerminalStatuses
    BY <1>2, <1>6, <1>8, <1>9, <2>6
  <2> QED BY <2>2, <2>5, <2>7 DEF LineagesHaveEnds
<1>12. LineageIsChain'
  <2>1. \A x \in D :
          LET t == tickets[x] IN
          /\ t.supersededBy # None =>
               t.supersededBy \in D /\ tickets[t.supersededBy].supersedes = x
          /\ t.supersedes # None =>
               /\ t.supersedes \in D
               /\ tickets[t.supersedes].supersededBy = x
               /\ tickets[t.supersedes].lineageRoot = t.lineageRoot
               /\ tickets[t.supersedes].assignee = t.assignee
          /\ t.supersedes = None <=> t.lineageRoot = x
    BY DEF LineageIsChain, D
  <2>2. \A x \in D : tickets[x].supersedes # old
    BY <1>3, <1>4, <1>7, <2>1, NoneAssumption DEF D
  <2>3. tickets[old].lineageRoot \in D
    BY <1>9 DEF LineagesHaveEnds, D
  <2> SUFFICES ASSUME NEW x \in DOMAIN tickets'
               PROVE  LET t == tickets'[x] IN
                      /\ t.supersededBy # None =>
                           /\ t.supersededBy \in DOMAIN tickets'
                           /\ tickets'[t.supersededBy].supersedes = x
                      /\ t.supersedes # None =>
                           /\ t.supersedes \in DOMAIN tickets'
                           /\ tickets'[t.supersedes].supersededBy = x
                           /\ tickets'[t.supersedes].lineageRoot = t.lineageRoot
                           /\ tickets'[t.supersedes].assignee = t.assignee
                      /\ t.supersedes = None <=> t.lineageRoot = x
    BY DEF LineageIsChain
  <2>4. CASE x = id
    <3>1. tickets'[x] = new
      BY <1>9, <2>4
    <3>2. tickets'[old].supersededBy = id /\ tickets'[old].lineageRoot = new.lineageRoot
          /\ tickets'[old].assignee = new.assignee
      BY <1>2, <1>9, <1>10
    <3>3. new.lineageRoot # id
      BY <1>2, <1>9, <2>3
    <3> QED BY <1>2, <1>7, <1>9, <2>4, <3>1, <3>2, <3>3
  <2>5. CASE x = old
    <3>1. tickets'[x].supersededBy = id /\ tickets'[id].supersedes = x
      BY <1>2, <1>9, <1>10, <2>5
    <3>2. tickets[x].supersedes # None =>
            /\ tickets[x].supersedes \in D \ {old}
            /\ tickets[tickets[x].supersedes].supersededBy = x
            /\ tickets[tickets[x].supersedes].lineageRoot = tickets[x].lineageRoot
            /\ tickets[tickets[x].supersedes].assignee = tickets[x].assignee
      BY <1>9, <2>1, <2>2, <2>5
    <3> QED BY <1>9, <1>10, <2>1, <2>5, <3>1, <3>2
  <2>6. CASE x \in D \ {old}
    <3>1. tickets'[x] = tickets[x]
      BY <1>8, <2>6
    <3>2. tickets[x].supersededBy # None =>
            /\ tickets[x].supersededBy \in D
            /\ tickets'[tickets[x].supersededBy].supersedes = x
      BY <1>10, <2>1, <2>6
    <3>3. tickets[x].supersedes # None =>
            /\ tickets[x].supersedes \in D \ {old}
            /\ tickets[tickets[x].supersedes].supersededBy = x
            /\ tickets[tickets[x].supersedes].lineageRoot = tickets[x].lineageRoot
            /\ tickets[tickets[x].supersedes].assignee = tickets[x].assignee
      BY <2>1, <2>2, <2>6
    <3> QED BY <1>9, <1>10, <2>1, <2>6, <3>1, <3>2, <3>3
  <2> QED BY <1>9, <2>4, <2>5, <2>6
<1>13. OneTicketPerKey'
  <2>1. \A a, b \in D :
          /\ tickets[a].idemKey # None
          /\ tickets[a].idemKey = tickets[b].idemKey
          /\ tickets[a].assignee = tickets[b].assignee
          => a = b
    BY DEF OneTicketPerKey, D
  <2> QED BY <1>2, <1>9, <1>10, <2>1 DEF OneTicketPerKey
<1> QED BY <1>11, <1>12, <1>13

-----------------------------------------------------------------------------
(* Logs.                                                                   *)

\* AuditTrailIsConsistent, of one log.
Consistent(log, status) ==
  /\ log[1].type = "TICKET_CREATED"
  /\ \A i \in DOMAIN log : log[i].seq = i
  /\ \A i \in DOMAIN log \ {1} : log[i].from = log[i - 1].to /\ Lawful(log[i])
  /\ log[Len(log)].to = status

LEMMA TrailsAreConsistent ==
  AuditTrailIsConsistent <=>
    \A id \in DOMAIN tickets : Consistent(events[id], tickets[id].status)
BY DEF AuditTrailIsConsistent, Consistent, Lawful

LEMMA LogStarts ==
  ASSUME NEW t \in Ticket
  PROVE  Consistent(<<CreatedEvent(t)>>, "PENDING_APPROVAL") /\ Len(<<CreatedEvent(t)>>) = 1
<1> DEFINE e == CreatedEvent(t)
<1>1. e.type = "TICKET_CREATED" /\ e.seq = 1 /\ e.to = "PENDING_APPROVAL"
  BY DEF CreatedEvent
<1> HIDE DEF e
<1>2. Len(<<e>>) = 1 /\ DOMAIN <<e>> = {1} /\ <<e>>[1] = e
  OBVIOUS
<1> QED BY <1>1, <1>2 DEF Consistent, e

LEMMA LogGrows ==
  ASSUME NEW log \in Seq(AuditEvent), Len(log) >= 1, NEW status, Consistent(log, status),
         NEW e \in AuditEvent, e.seq = Len(log) + 1, e.from = status, Lawful(e)
  PROVE  Consistent(Append(log, e), e.to) /\ Len(Append(log, e)) = Len(log) + 1
<1> DEFINE new == Append(log, e)
<1>1. /\ Len(log) \in Nat /\ Len(new) = Len(log) + 1
      /\ DOMAIN log = 1 .. Len(log) /\ DOMAIN new = 1 .. Len(log) + 1
      /\ \A i \in 1 .. Len(log) : new[i] = log[i]
      /\ new[Len(log) + 1] = e
  OBVIOUS
<1> HIDE DEF new
<1>2. new[1].type = "TICKET_CREATED"
  BY <1>1 DEF Consistent
<1>3. \A i \in DOMAIN new : new[i].seq = i
  BY <1>1 DEF Consistent
<1>4. \A i \in DOMAIN new \ {1} : new[i].from = new[i - 1].to /\ Lawful(new[i])
  <2> TAKE i \in DOMAIN new \ {1}
  <2>1. CASE i \in DOMAIN log
    <3>1. i \in DOMAIN log \ {1} /\ i - 1 \in 1 .. Len(log)
      BY <1>1, <2>1
    <3>2. new[i] = log[i] /\ new[i - 1] = log[i - 1]
      BY <1>1, <3>1
    <3> QED BY <3>1, <3>2 DEF Consistent
  <2>2. CASE i = Len(log) + 1
    <3>1. i - 1 = Len(log) /\ Len(log) \in 1 .. Len(log)
      BY <1>1, <2>2
    <3>2. new[i] = e /\ new[i - 1] = log[Len(log)]
      BY <1>1, <2>2, <3>1
    <3> QED BY <3>2 DEF Consistent
  <2> QED BY <1>1, <2>1, <2>2
<1>5. new[Len(new)].to = e.to
  BY <1>1
<1> QED BY <1>1, <1>2, <1>3, <1>4, <1>5 DEF Consistent, new

\* One entry on the log of the ticket it is about: what append_event and the first
\* half of transact_supersede write.
LEMMA EntryKeepsLog ==
  ASSUME IInv, HistoryInv, NEW id \in DOMAIN tickets, NEW e \in AuditEvent, NEW newId \in TicketId,
         LegalEvent(tickets[id], e) \/ LegalLink(tickets[id], e, newId), Lawful(e)
  PROVE  LET t == ApplyEvent(tickets[id], e)
             log == Append(events[id], e)
         IN  Consistent(log, t.status) /\ Len(log) = t.seq /\ t.seq >= 1
<1> DEFINE log == events[id]
           t == tickets[id]
           n == ApplyEvent(t, e)
<1>1. /\ t \in Ticket /\ log \in Seq(AuditEvent)
      /\ Len(log) = t.seq /\ t.seq >= 1 /\ Consistent(log, t.status)
  BY TrailsAreConsistent DEF IInv, TypeOK, HistoryInv, LogsAreComplete
<1>2. e.seq = t.seq + 1 /\ e.from = t.status
  BY DEF LegalEvent, LegalLink
<1>3. n.status = e.to /\ n.seq = e.seq
  BY <1>1, ApplyEventStatus, ApplyEventFreezes
<1> HIDE DEF log, t, n
<1>4. Consistent(Append(log, e), e.to) /\ Len(Append(log, e)) = Len(log) + 1
  BY <1>1, <1>2, LogGrows
<1>5. t.seq \in Nat
  BY <1>1 DEF Ticket
<1>6. Len(Append(log, e)) = n.seq /\ n.seq >= 1
  BY <1>1, <1>2, <1>3, <1>4, <1>5
<1> QED BY <1>3, <1>4, <1>6 DEF log, t, n

LEMMA WriteKeepsLogs ==
  ASSUME IInv, HistoryInv, NEW r \in Request, Write(r)
  PROVE  LogsAreComplete' /\ AuditTrailIsConsistent'
<1> DEFINE Kept(x) == /\ Consistent(events'[x], tickets'[x].status)
                      /\ Len(events'[x]) = tickets'[x].seq /\ tickets'[x].seq >= 1
           q == requests[r]
<1>1. \A x \in DOMAIN tickets :
        tickets'[x] = tickets[x] /\ events'[x] = events[x] => Kept(x)
  BY TrailsAreConsistent DEF HistoryInv, LogsAreComplete
<1>2. q.call \in Changing => Lawful(q.event)
  BY DEF HistoryInv, CallsKnowTheirPlace
<1>3. ASSUME NEW new \in Ticket, Newborn(new), NEW x, tickets'[x] = new,
             events'[x] = <<CreatedEvent(new)>>
      PROVE  Kept(x)
  BY <1>3, LogStarts DEF Newborn
<1>4. \A x \in DOMAIN tickets' : Kept(x)
  <2>1. CASE AppendEvent(r)
    <3>1. PICK newId \in TicketId : newId = q.id
      BY <2>1, Appends DEF IInv, TypeOK
    <3>2. /\ q.id \in DOMAIN tickets /\ q.event \in AuditEvent /\ Lawful(q.event)
          /\ LegalEvent(tickets[q.id], q.event)
          /\ tickets'[q.id] = ApplyEvent(tickets[q.id], q.event)
          /\ events'[q.id] = Append(events[q.id], q.event)
      BY <1>2, <2>1, Appends DEF Changing
    <3>3. Kept(q.id)
      <4> HIDE DEF q
      <4> QED BY <3>1, <3>2, EntryKeepsLog
    <3>4. /\ DOMAIN tickets' = DOMAIN tickets
          /\ \A x \in DOMAIN tickets : x # q.id => tickets'[x] = tickets[x] /\ events'[x] = events[x]
      BY <2>1, Appends
    <3> HIDE DEF Kept, q
    <3> QED BY <1>1, <3>3, <3>4
  <2>2. CASE TransactSupersede(r)
    <3>1. /\ q.id \in DOMAIN tickets /\ q.event \in AuditEvent /\ Lawful(q.event)
          /\ q.newId \in TicketId /\ LegalLink(tickets[q.id], q.event, q.newId)
          /\ tickets'[q.id] = ApplyEvent(tickets[q.id], q.event)
          /\ events'[q.id] = Append(events[q.id], q.event)
      BY <1>2, <2>2, Pairs DEF Changing
    <3>2. Kept(q.id)
      <4> HIDE DEF q
      <4> QED BY <3>1, EntryKeepsLog
    <3>3. Kept(q.newId)
      BY <1>3, <2>2, Pairs
    <3>4. /\ DOMAIN tickets' = DOMAIN tickets \cup {q.newId}
          /\ \A x \in DOMAIN tickets : x # q.id => tickets'[x] = tickets[x] /\ events'[x] = events[x]
      BY <2>2, Pairs
    <3> HIDE DEF Kept, q
    <3> QED BY <1>1, <3>2, <3>3, <3>4
  <2>3. CASE CreateTicket(r)
    <3>1. Kept(q.newId)
      BY <1>3, <2>3, Creates
    <3> HIDE DEF Kept
    <3> QED BY <1>1, <2>3, <3>1, Creates
  <2>4. CASE RaiseConflict(r)
    BY <1>1, <2>4 DEF RaiseConflict
  <2> QED BY <2>1, <2>2, <2>3, <2>4 DEF Write
<1>5. LogsAreComplete'
  BY <1>4 DEF LogsAreComplete
<1>6. \A id \in DOMAIN tickets' : Consistent(events'[id], tickets'[id].status)
  BY <1>4
<1>7. AuditTrailIsConsistent'
  BY <1>6 DEF AuditTrailIsConsistent, Consistent, Lawful
<1> QED BY <1>5, <1>7

-----------------------------------------------------------------------------
(* The theorems.                                                           *)

\* Every step of every call keeps the lineages, the keys and the logs as they must be.
THEOREM HistoryInvariance == Spec => []HistoryInv
<1>1. Init => HistoryInv
  <2> SUFFICES ASSUME Init PROVE HistoryInv
    OBVIOUS
  <2>1. DOMAIN tickets = {} /\ \A r \in Request : requests[r].call = "idle"
    BY DEF Init, Idle
  <2>2. CallsKnowTheirPlace /\ NewIdsDiffer
    BY <2>1 DEF CallsKnowTheirPlace, NewIdsDiffer, Creating, Changing
  <2>3. LineagesHaveEnds /\ LineageIsChain /\ OneTicketPerKey
    BY <2>1 DEF LineagesHaveEnds, LineageIsChain, OneTicketPerKey
  <2>4. LogsAreComplete /\ AuditTrailIsConsistent
    BY <2>1 DEF LogsAreComplete, AuditTrailIsConsistent
  <2> QED BY <2>2, <2>3, <2>4 DEF HistoryInv
<1>2. IInv /\ HistoryInv /\ [Next]_vars => HistoryInv'
  <2> SUFFICES ASSUME IInv, HistoryInv, [Next]_vars PROVE HistoryInv'
    OBVIOUS
  <2>1. ASSUME NEW r \in Request, AgentCall(r) \/ HumanCall(r) \/ SystemCall(r)
        PROVE  HistoryInv'
    BY <2>1, CallBegins, BeginKeeps DEF IInv
  <2>2. ASSUME NEW r \in Request, Write(r)
        PROVE  HistoryInv'
    <3>1. CallsKnowTheirPlace' /\ NewIdsDiffer'
      BY <2>2, WriteKeepsPlaces
    <3>2. LogsAreComplete' /\ AuditTrailIsConsistent'
      BY <2>2, WriteKeepsLogs
    <3>3. LineagesHaveEnds' /\ LineageIsChain' /\ OneTicketPerKey'
      <4>1. CASE RaiseConflict(r)
        BY <4>1 DEF RaiseConflict, HistoryInv, LineagesHaveEnds, LineageIsChain, OneTicketPerKey
      <4> QED BY <2>2, <4>1, AppendKeepsLineages, CreateKeepsLineages, SupersedeKeepsLineages
              DEF Write
    <3> QED BY <3>1, <3>2, <3>3 DEF HistoryInv
  <2>3. CASE UNCHANGED vars
    BY <2>3 DEF vars, HistoryInv, CallsKnowTheirPlace, NewIdsDiffer, LineagesHaveEnds,
                LineageIsChain, OneTicketPerKey, LogsAreComplete, AuditTrailIsConsistent
  <2> QED BY <2>1, <2>2, <2>3 DEF Next
<1> QED BY <1>1, <1>2, Invariance, PTL DEF Spec

\* However many editors race for a ticket, its lineage is a chain without forks.
THEOREM LineagesAreChains == Spec => []LineageIsChain
<1>1. HistoryInv => LineageIsChain
  BY DEF HistoryInv
<1> QED BY <1>1, HistoryInvariance, PTL

\* An edit never leaves its old version open beside the new one.
THEOREM LineagesHaveOneLiveTicket == Spec => []OneLiveTicketPerLineage
<1>1. HistoryInv => OneLiveTicketPerLineage
  BY DEF HistoryInv, LineagesHaveEnds, OneLiveTicketPerLineage, Live
<1> QED BY <1>1, HistoryInvariance, PTL

\* Two racing proposals with one idempotency key are stored as one ticket.
THEOREM KeysAreUnique == Spec => []OneTicketPerKey
<1>1. HistoryInv => OneTicketPerKey
  BY DEF HistoryInv
<1> QED BY <1>1, HistoryInvariance, PTL

\* Every log is gapless, continuous and lawful, and ends where its ticket is.
THEOREM TrailsStayConsistent == Spec => []AuditTrailIsConsistent
<1>1. HistoryInv => AuditTrailIsConsistent
  BY DEF HistoryInv
<1> QED BY <1>1, HistoryInvariance, PTL

\* A restart that folds the logs gives back every ticket: what a write makes of a ticket
\* is what the fold makes of the entry that it appends.
THEOREM TicketsAreFoldsOfLogs == Spec => []TicketIsFoldOfLog
<1>1. Init => TicketIsFoldOfLog
  BY DEF Init, TicketIsFoldOfLog
<1>2. IInv /\ HistoryInv /\ TicketIsFoldOfLog /\ [Next]_vars => TicketIsFoldOfLog'
  <2> SUFFICES ASSUME IInv, HistoryInv, TicketIsFoldOfLog, [Next]_vars
               PROVE  TicketIsFoldOfLog'
    OBVIOUS
  <2>1. CASE UNCHANGED <<tickets, events>>
    BY <2>1 DEF TicketIsFoldOfLog
  <2>2. ASSUME NEW r \in Request, AgentCall(r) \/ HumanCall(r) \/ SystemCall(r)
        PROVE  UNCHANGED <<tickets, events>>
    BY <2>2, CallBegins DEF IInv, Begins
  <2>3. ASSUME NEW id \in DOMAIN tickets, NEW e \in AuditEvent,
               tickets'[id] = ApplyEvent(tickets[id], e), events'[id] = Append(events[id], e)
        PROVE  Refold(events'[id]) = tickets'[id]
    <3>1. events[id] \in Seq(AuditEvent) /\ Len(events[id]) >= 1
      BY DEF IInv, TypeOK, HistoryInv, LogsAreComplete, Ticket
    <3>2. events[id] # <<>>
      BY <3>1
    <3> QED BY <2>3, <3>1, <3>2, RefoldAppend DEF TicketIsFoldOfLog
  <2>4. ASSUME NEW r \in Request, Write(r)
        PROVE  TicketIsFoldOfLog'
    <3> DEFINE q == requests[r]
    <3>1. Refold(<<CreatedEvent(q.new)>>) = q.new
      BY RefoldCreation DEF CreatedEvent
    <3>2. CASE AppendEvent(r)
      <4>1. /\ q.id \in DOMAIN tickets /\ q.event \in AuditEvent
            /\ tickets'[q.id] = ApplyEvent(tickets[q.id], q.event)
            /\ events'[q.id] = Append(events[q.id], q.event)
            /\ DOMAIN tickets' = DOMAIN tickets
            /\ \A x \in DOMAIN tickets \ {q.id} :
                 tickets'[x] = tickets[x] /\ events'[x] = events[x]
        BY <3>2, Appends
      <4> HIDE DEF q
      <4>2. Refold(events'[q.id]) = tickets'[q.id]
        BY <2>3, <4>1
      <4> QED BY <4>1, <4>2 DEF TicketIsFoldOfLog
    <3>3. CASE TransactSupersede(r)
      <4>1. /\ q.id \in DOMAIN tickets /\ q.event \in AuditEvent
            /\ tickets'[q.id] = ApplyEvent(tickets[q.id], q.event)
            /\ events'[q.id] = Append(events[q.id], q.event)
            /\ DOMAIN tickets' = DOMAIN tickets \cup {q.newId}
            /\ tickets'[q.newId] = q.new /\ events'[q.newId] = <<CreatedEvent(q.new)>>
            /\ \A x \in DOMAIN tickets \ {q.id} :
                 tickets'[x] = tickets[x] /\ events'[x] = events[x]
        BY <3>3, Pairs
      <4> HIDE DEF q
      <4>2. Refold(events'[q.id]) = tickets'[q.id]
        BY <2>3, <4>1
      <4> QED BY <3>1, <4>1, <4>2 DEF TicketIsFoldOfLog
    <3>4. CASE CreateTicket(r)
      BY <3>1, <3>4, Creates DEF TicketIsFoldOfLog
    <3>5. CASE RaiseConflict(r)
      BY <2>1, <3>5 DEF RaiseConflict
    <3> QED BY <2>4, <3>2, <3>3, <3>4, <3>5 DEF Write
  <2>5. CASE UNCHANGED vars
    BY <2>1, <2>5 DEF vars
  <2> QED BY <2>1, <2>2, <2>4, <2>5 DEF Next
<1> QED BY <1>1, <1>2, Invariance, HistoryInvariance, PTL DEF Spec

-----------------------------------------------------------------------------
(* The operations of the contract, in terms of the mapping.                *)

\* The contract counts as the service does.
LEMMA SameCount ==
  ASSUME NEW S
  PROVE  Contract!Cardinality(S) = Cardinality(S)
BY DEF Contract!Cardinality, Cardinality

LEMMA SignStep ==
  ASSUME NEW p \in TicketId, NEW who \in Person, phase[p] = "proposed",
         AllowSelf \/ author[p] # who, who \notin signers[p],
         signers' = [signers EXCEPT ![p] = signers[p] \cup {who}],
         phase' = [phase EXCEPT ![p] = IF Cardinality(signers[p] \cup {who}) >= Required
                                       THEN "cleared" ELSE "proposed"],
         UNCHANGED <<author, heir>>
  PROVE  Contract!Next
<1>1. Contract!Sign(p, who)
  BY SameCount DEF Contract!Sign, Contract!MaySign, Contract!MayDecide, Contract!Move
<1> QED BY <1>1 DEF Contract!Next

LEMMA RefuseStep ==
  ASSUME NEW p \in TicketId, NEW who \in Person, phase[p] = "proposed",
         AllowSelf \/ author[p] # who,
         phase' = [phase EXCEPT ![p] = "refused"], UNCHANGED <<author, signers, heir>>
  PROVE  Contract!Next
<1>1. Contract!Refuse(p, who)
  BY DEF Contract!Refuse, Contract!MayDecide, Contract!Move
<1> QED BY <1>1 DEF Contract!Next

\* Drop, Run and Finish.
LEMMA MoveStep ==
  ASSUME NEW p \in TicketId, NEW to, phase' = [phase EXCEPT ![p] = to],
         \/ phase[p] \in {"proposed", "cleared"} /\ to \in {"withdrawn", "expired"}
         \/ phase[p] = "cleared" /\ to = "running"
         \/ phase[p] = "running" /\ to \in {"succeeded", "failed"},
         UNCHANGED <<author, signers, heir>>
  PROVE  Contract!Next
<1>1. Contract!Drop(p) \/ Contract!Run(p) \/ Contract!Finish(p)
  BY DEF Contract!Drop, Contract!Run, Contract!Finish, Contract!Move
<1> QED BY <1>1 DEF Contract!Next

LEMMA ProposeStep ==
  ASSUME NEW p \in TicketId, NEW who \in Author, phase[p] = "absent",
         phase' = [phase EXCEPT ![p] = "proposed"], author' = [author EXCEPT ![p] = who],
         UNCHANGED <<signers, heir>>
  PROVE  Contract!Next
<1>1. Contract!Propose(p, who)
  BY DEF Contract!Propose, Contract!Move
<1> QED BY <1>1 DEF Contract!Next

LEMMA InheritStep ==
  ASSUME NEW p \in TicketId, NEW new \in TicketId, NEW who \in Person, heir[p] = None,
         phase[p] \in {"proposed", "cleared", "withdrawn", "succeeded", "failed"},
         phase[new] = "absent",
         phase' = [phase EXCEPT ![p] = IF phase[p] \in {"proposed", "cleared"}
                                       THEN "replaced" ELSE phase[p],
                                ![new] = "proposed"],
         author' = [author EXCEPT ![new] = who],
         heir' = [heir EXCEPT ![p] = new],
         UNCHANGED signers
  PROVE  Contract!Next
<1>1. Contract!Inherit(p, new, who)
  BY DEF Contract!Inherit
<1> QED BY <1>1 DEF Contract!Next

-----------------------------------------------------------------------------
(* The mapping.                                                            *)

\* What the mapping says of one ticket.
LEMMA Mapped ==
  ASSUME TypeOK, NEW id \in DOMAIN tickets
  PROVE  /\ id \in TicketId /\ tickets[id] \in Ticket
         /\ phase[id] = PhaseOf(tickets[id])
         /\ author[id] = Lower[tickets[id].proposedBy]
         /\ signers[id] = SignersOf(tickets[id])
         /\ heir[id] = tickets[id].supersededBy
BY DEF TypeOK, phase, author, signers, heir

\* Only one ticket changes, and its proposer stays.
LEMMA OneTicketChanges ==
  ASSUME TypeOK, NEW id \in DOMAIN tickets, NEW n, n.proposedBy = tickets[id].proposedBy,
         DOMAIN tickets' = DOMAIN tickets,
         \A x \in DOMAIN tickets : tickets'[x] = IF x = id THEN n ELSE tickets[x]
  PROVE  /\ phase' = [phase EXCEPT ![id] = PhaseOf(n)]
         /\ author' = author
         /\ signers' = [signers EXCEPT ![id] = SignersOf(n)]
         /\ heir' = [heir EXCEPT ![id] = n.supersededBy]
<1>1. id \in TicketId
  BY DEF TypeOK
<1>2. phase' = [phase EXCEPT ![id] = PhaseOf(n)]
  BY <1>1 DEF phase
<1>3. author' = author
  BY <1>1 DEF author
<1>4. signers' = [signers EXCEPT ![id] = SignersOf(n)]
  BY <1>1 DEF signers
<1>5. heir' = [heir EXCEPT ![id] = n.supersededBy]
  BY <1>1 DEF heir
<1> QED BY <1>2, <1>3, <1>4, <1>5

\* A ticket is added whose votes are none and that nothing supersedes.
LEMMA OneTicketAppears ==
  ASSUME TypeOK, NEW id \in TicketId, id \notin DOMAIN tickets, NEW n, Newborn(n),
         DOMAIN tickets' = DOMAIN tickets \cup {id}, tickets'[id] = n,
         \A x \in DOMAIN tickets : tickets'[x] = tickets[x]
  PROVE  /\ phase[id] = "absent"
         /\ phase' = [phase EXCEPT ![id] = "proposed"]
         /\ author' = [author EXCEPT ![id] = Lower[n.proposedBy]]
         /\ signers' = signers
         /\ heir' = heir
<1>1. PhaseOf(n) = "proposed"
  BY DEF Newborn, PhaseOf
<1>2. SignersOf(n) = {} /\ n.supersededBy = None
  BY DEF Newborn, SignersOf
<1>3. phase[id] = "absent" /\ phase' = [phase EXCEPT ![id] = "proposed"]
  BY <1>1 DEF phase
<1>4. author' = [author EXCEPT ![id] = Lower[n.proposedBy]]
  BY DEF author
<1>5. signers' = signers
  BY <1>2 DEF signers
<1>6. heir' = heir
  BY <1>2 DEF heir
<1> QED BY <1>3, <1>4, <1>5, <1>6

\* As many people as votes, when no person has two.
LEMMA SignersCount ==
  ASSUME NEW t \in Ticket, SoundVotes(t)
  PROVE  /\ IsFiniteSet(SignersOf(t))
         /\ Cardinality(SignersOf(t)) = Len(t.approvals)
<1> DEFINE I == 1 .. Len(t.approvals)
           f == [i \in I |-> Lower[t.approvals[i]]]
<1>1. t.approvals \in Seq(Email)
  BY DEF Ticket
<1>2. Len(t.approvals) \in Nat /\ DOMAIN t.approvals = I
  BY <1>1
<1>3. f \in Bijection(I, SignersOf(t))
  <2>1. f \in [I -> SignersOf(t)]
    BY <1>2 DEF SignersOf
  <2>2. \A i, j \in I : f[i] = f[j] => i = j
    BY <1>2 DEF SoundVotes
  <2>3. \A s \in SignersOf(t) : \E i \in I : f[i] = s
    BY <1>2 DEF SignersOf
  <2> HIDE DEF f, I
  <2> QED BY <2>1, <2>2, <2>3 DEF Bijection, Injection, Surjection, IsInjective
<1>4. IsFiniteSet(I) /\ Cardinality(I) = Len(t.approvals)
  BY <1>2, FS_Interval
<1> HIDE DEF f, I
<1>5. ExistsBijection(I, SignersOf(t))
  BY <1>3 DEF ExistsBijection
<1> QED BY <1>4, <1>5, FS_Bijection

-----------------------------------------------------------------------------
(* What each kind of step does.                                            *)

\* Addresses and agents as people and authors of the contract.
LEMMA Identities ==
  /\ \A a \in Email : Lower[a] \in Person
  /\ \A a \in Email \cup Agent : Lower[a] \in Author
BY DEF Person, Author

LEMMA ApprovalImplements ==
  ASSUME NEW t \in Ticket, NEW e \in AuditEvent, LegalEvent(t, e), e.type \in ApprovalTypes,
         SoundVotes(ApplyEvent(t, e))
  PROVE  LET n == ApplyEvent(t, e)
             who == Lower[e.details]
         IN  /\ e.details \in Email
             /\ PhaseOf(t) = "proposed"
             /\ AllowSelf \/ Lower[t.proposedBy] # who
             /\ who \notin SignersOf(t)
             /\ SignersOf(n) = SignersOf(t) \cup {who}
             /\ PhaseOf(n) = IF Cardinality(SignersOf(n)) >= Required
                             THEN "cleared" ELSE "proposed"
<1> DEFINE n == ApplyEvent(t, e)
           who == Lower[e.details]
<1>1. e.details \in Email
  BY DEF AuditEvent, EventOf, ApprovalTypes, LinkTypes, ResultTypes, PlainTypes
<1>2. /\ t.status = "PENDING_APPROVAL" /\ ActionableBy(t, e.details)
      /\ ~HasApproved(t, e.details)
      /\ e.to = StatusAfterApproval(Len(t.approvals) + 1, Required)
  BY DEF LegalEvent, ApprovalTypes
<1>4. n.approvals = Append(t.approvals, e.details) /\ n.status = e.to
  <2>1. n.approvals = Append(t.approvals, e.details)
    BY ApplyEventVotes
  <2>2. n.status = e.to
    BY ApplyEventStatus DEF Ticket
  <2> QED BY <2>1, <2>2
<1>5. t.approvals \in Seq(Email)
  BY DEF Ticket
<1>6. /\ DOMAIN n.approvals = DOMAIN t.approvals \cup {Len(t.approvals) + 1}
      /\ \A i \in DOMAIN t.approvals : n.approvals[i] = t.approvals[i]
      /\ n.approvals[Len(t.approvals) + 1] = e.details
      /\ Len(n.approvals) = Len(t.approvals) + 1
  BY <1>1, <1>4, <1>5
<1> HIDE DEF n
<1>7. SignersOf(n) = SignersOf(t) \cup {who}
  BY <1>6 DEF SignersOf
<1>8. who \notin SignersOf(t)
  BY <1>2 DEF HasApproved, SignersOf
<1>9. n \in Ticket
  BY ApplyEventType DEF n
<1>10. Cardinality(SignersOf(n)) = Len(t.approvals) + 1
  BY <1>6, <1>9, SignersCount DEF n
<1>11. PhaseOf(n) = IF Cardinality(SignersOf(n)) >= Required THEN "cleared" ELSE "proposed"
  BY <1>2, <1>4, <1>10 DEF PhaseOf, StatusAfterApproval
<1>12. PhaseOf(t) = "proposed"
  BY <1>2 DEF PhaseOf
<1>13. AllowSelf \/ Lower[t.proposedBy] # who
  BY <1>2 DEF ActionableBy
<1> QED BY <1>1, <1>7, <1>8, <1>11, <1>12, <1>13 DEF n

\* Any other legal event: the ticket is refused, moves on, or looks the same.
LEMMA OtherEventImplements ==
  ASSUME NEW t \in Ticket, NEW e \in AuditEvent, LegalEvent(t, e), e.type \notin ApprovalTypes,
         RecordsItsRun(t)
  PROVE  LET n == ApplyEvent(t, e)
             from == PhaseOf(t)
             to == PhaseOf(n)
         IN  /\ SignersOf(n) = SignersOf(t)
             /\ \/ /\ e.actor \in Email /\ (AllowSelf \/ Lower[t.proposedBy] # Lower[e.actor])
                   /\ from = "proposed" /\ to = "refused"
                \/ from \in {"proposed", "cleared"} /\ to \in {"withdrawn", "expired"}
                \/ from = "cleared" /\ to = "running"
                \/ from = "running" /\ to \in {"succeeded", "failed"}
                \/ to = from
<1> DEFINE n == ApplyEvent(t, e)
<1>1. n.approvals = t.approvals
  BY DEF LegalEvent, ApplyEvent, Bumped, Ticket, ApprovalTypes
<1>2. SignersOf(n) = SignersOf(t)
  BY <1>1 DEF SignersOf
<1>3. CASE e.type = "REJECTED"
  <2>1. /\ t.status = "PENDING_APPROVAL" /\ e.actor \in Email /\ ActionableBy(t, e.actor)
        /\ n.status = "REJECTED"
    BY <1>3 DEF LegalEvent, ApplyEvent, Bumped, Ticket, ApprovalTypes
  <2> HIDE DEF n
  <2> QED BY <1>2, <2>1 DEF PhaseOf, ActionableBy, n
<1>4. CASE e.type \in {"EXPIRED", "CLOSED"}
  <2>1. /\ t.status \in {"PENDING_APPROVAL", "APPROVED"}
        /\ n.status = e.type /\ n.execution = t.execution
    BY <1>4 DEF LegalEvent, ApplyEvent, Bumped, Ticket, ApprovalTypes
  <2>2. t.execution = None
    BY <2>1 DEF RecordsItsRun
  <2> HIDE DEF n
  <2>3. PhaseOf(t) \in {"proposed", "cleared"}
    BY <2>1 DEF PhaseOf
  <2>4. PhaseOf(n) \in {"withdrawn", "expired"}
    BY <1>4, <2>1, <2>2 DEF PhaseOf
  <2> QED BY <1>2, <2>3, <2>4 DEF n
<1>5. CASE e.type = "EXECUTION_STARTED"
  <2>1. t.status = "APPROVED" /\ n.status = "EXECUTING"
    BY <1>5 DEF LegalEvent, ApplyEvent, Bumped, Ticket, ApprovalTypes
  <2> HIDE DEF n
  <2> QED BY <1>2, <2>1 DEF PhaseOf, n
<1>6. CASE e.type \in ResultTypes
  <2>1. /\ t.status = "EXECUTING"
        /\ \/ n.status = "CLOSED" /\ n.execution = "success"
           \/ n.status = "FAILED"
    BY <1>6 DEF LegalEvent, ApplyEvent, Bumped, Ticket, ApprovalTypes, ResultTypes
  <2> HIDE DEF n
  <2>2. PhaseOf(t) = "running"
    BY <2>1 DEF PhaseOf
  <2>3. PhaseOf(n) \in {"succeeded", "failed"}
    BY <2>1, NoneAssumption DEF PhaseOf
  <2> QED BY <1>2, <2>2, <2>3 DEF n
<1>7. CASE e.type \in {"TAGS_UPDATED", "COMMENT_ADDED"}
  <2>1. n.status = t.status /\ n.execution = t.execution
    BY <1>7 DEF ApplyEvent, Bumped, Ticket, ApprovalTypes
  <2> HIDE DEF n
  <2>2. PhaseOf(n) = PhaseOf(t)
    BY <2>1 DEF PhaseOf
  <2> QED BY <1>2, <2>2 DEF n
<1> QED BY <1>3, <1>4, <1>5, <1>6, <1>7 DEF LegalEvent, ResultTypes

-----------------------------------------------------------------------------
(* Every step of the service is a step of the contract or a stutter.       *)

LEMMA AppendImplements ==
  ASSUME IInv, IInv', NEW r \in Request, AppendEvent(r)
  PROVE  Contract!Next \/ UNCHANGED <<phase, author, signers, heir>>
<1> DEFINE q == requests[r]
           t == tickets[q.id]
           n == ApplyEvent(t, q.event)
<1>1. /\ q.id \in DOMAIN tickets /\ q.event \in AuditEvent /\ LegalEvent(t, q.event)
      /\ DOMAIN tickets' = DOMAIN tickets
      /\ \A x \in DOMAIN tickets : tickets'[x] = IF x = q.id THEN n ELSE tickets[x]
  BY Appends
<1>2. /\ q.id \in TicketId /\ t \in Ticket
      /\ phase[q.id] = PhaseOf(t) /\ author[q.id] = Lower[t.proposedBy]
      /\ signers[q.id] = SignersOf(t) /\ heir[q.id] = t.supersededBy
  BY <1>1, Mapped DEF IInv
<1>3. n.proposedBy = t.proposedBy
  BY <1>1, <1>2, ApplyEventFreezes
<1>4. n.supersededBy = t.supersededBy
  BY <1>1, <1>2, EventKeepsPlace DEF KeepsPlace
<1>5. SoundVotes(n) /\ RecordsItsRun(t)
  BY <1>1 DEF IInv, VotesAreSound, ExecutionMatchesStatus
<1> HIDE DEF n, t
<1>6. /\ phase' = [phase EXCEPT ![q.id] = PhaseOf(n)]
      /\ author' = author
      /\ signers' = [signers EXCEPT ![q.id] = SignersOf(n)]
      /\ heir' = [heir EXCEPT ![q.id] = n.supersededBy]
  BY <1>1, <1>3, OneTicketChanges DEF IInv, t
<1>7. heir' = heir
  BY <1>2, <1>4, <1>6 DEF heir
<1>8. CASE q.event.type \in ApprovalTypes
  <2> DEFINE who == Lower[q.event.details]
  <2>1. /\ q.event.details \in Email /\ PhaseOf(t) = "proposed"
        /\ AllowSelf \/ Lower[t.proposedBy] # who
        /\ who \notin SignersOf(t) /\ SignersOf(n) = SignersOf(t) \cup {who}
        /\ PhaseOf(n) = IF Cardinality(SignersOf(n)) >= Required THEN "cleared" ELSE "proposed"
    BY <1>1, <1>2, <1>5, <1>8, ApprovalImplements DEF n
  <2>2. who \in Person
    BY <2>1, Identities
  <2> HIDE DEF who, q
  <2>3. phase[q.id] = "proposed" /\ who \notin signers[q.id]
    BY <1>2, <2>1
  <2>4. AllowSelf \/ author[q.id] # who
    BY <1>2, <2>1
  <2>5. signers' = [signers EXCEPT ![q.id] = signers[q.id] \cup {who}]
    BY <1>2, <1>6, <2>1
  <2>6. phase' = [phase EXCEPT ![q.id] = IF Cardinality(signers[q.id] \cup {who}) >= Required
                                         THEN "cleared" ELSE "proposed"]
    BY <1>2, <1>6, <2>1
  <2>7. UNCHANGED <<author, heir>>
    BY <1>6, <1>7
  <2>8. Contract!Next
    BY <1>2, <2>2, <2>3, <2>4, <2>5, <2>6, <2>7, SignStep
  <2> QED BY <2>8
<1>9. CASE q.event.type \notin ApprovalTypes
  <2>1. SignersOf(n) = SignersOf(t)
    BY <1>1, <1>2, <1>5, <1>9, OtherEventImplements DEF n
  <2>2. signers' = signers
    BY <1>2, <1>6, <2>1 DEF signers
  <2>3. \/ /\ q.event.actor \in Email
           /\ AllowSelf \/ Lower[t.proposedBy] # Lower[q.event.actor]
           /\ PhaseOf(t) = "proposed" /\ PhaseOf(n) = "refused"
        \/ PhaseOf(t) \in {"proposed", "cleared"} /\ PhaseOf(n) \in {"withdrawn", "expired"}
        \/ PhaseOf(t) = "cleared" /\ PhaseOf(n) = "running"
        \/ PhaseOf(t) = "running" /\ PhaseOf(n) \in {"succeeded", "failed"}
        \/ PhaseOf(n) = PhaseOf(t)
    BY <1>1, <1>2, <1>5, <1>9, OtherEventImplements DEF n
  <2>4. CASE /\ q.event.actor \in Email
             /\ AllowSelf \/ Lower[t.proposedBy] # Lower[q.event.actor]
             /\ PhaseOf(t) = "proposed" /\ PhaseOf(n) = "refused"
    <3> DEFINE who == Lower[q.event.actor]
    <3>1. who \in Person
      BY <2>4, Identities
    <3>2. AllowSelf \/ author[q.id] # who
      BY <1>2, <2>4
    <3> HIDE DEF who, q
    <3>3. phase[q.id] = "proposed" /\ phase' = [phase EXCEPT ![q.id] = "refused"]
      BY <1>2, <1>6, <2>4
    <3>4. UNCHANGED <<author, signers, heir>>
      BY <1>6, <1>7, <2>2
    <3>5. Contract!Next
      BY <1>2, <3>1, <3>2, <3>3, <3>4, RefuseStep
    <3> QED BY <3>5
  <2>5. CASE PhaseOf(n) = PhaseOf(t)
    BY <1>2, <1>6, <1>7, <2>2, <2>5 DEF phase
  <2>6. CASE \/ PhaseOf(t) \in {"proposed", "cleared"} /\ PhaseOf(n) \in {"withdrawn", "expired"}
             \/ PhaseOf(t) = "cleared" /\ PhaseOf(n) = "running"
             \/ PhaseOf(t) = "running" /\ PhaseOf(n) \in {"succeeded", "failed"}
    BY <1>2, <1>6, <1>7, <2>2, <2>6, MoveStep
  <2> QED BY <2>3, <2>4, <2>5, <2>6
<1> QED BY <1>8, <1>9

LEMMA CreateImplements ==
  ASSUME IInv, NEW r \in Request, CreateTicket(r)
  PROVE  Contract!Next
<1> DEFINE q == requests[r]
<1>1. /\ q.newId \in TicketId /\ q.newId \notin DOMAIN tickets
      /\ q.new \in Ticket /\ Newborn(q.new)
      /\ DOMAIN tickets' = DOMAIN tickets \cup {q.newId} /\ tickets'[q.newId] = q.new
      /\ \A x \in DOMAIN tickets : tickets'[x] = tickets[x]
  BY Creates
<1>2. /\ phase[q.newId] = "absent"
      /\ phase' = [phase EXCEPT ![q.newId] = "proposed"]
      /\ author' = [author EXCEPT ![q.newId] = Lower[q.new.proposedBy]]
      /\ signers' = signers /\ heir' = heir
  BY <1>1, OneTicketAppears DEF IInv
<1>3. Lower[q.new.proposedBy] \in Author
  BY <1>1, Identities DEF Ticket
<1> QED BY <1>1, <1>2, <1>3, ProposeStep

\* The link keeps the votes; the phase changes unless the ticket is followed up.
LEMMA LinkImplements ==
  ASSUME NEW t \in Ticket, NEW e \in AuditEvent, NEW newId \in TicketId, LegalLink(t, e, newId),
         RecordsItsRun(t)
  PROVE  LET n == ApplyEvent(t, e) IN
         /\ t.supersededBy = None /\ n.supersededBy = newId
         /\ SignersOf(n) = SignersOf(t)
         /\ PhaseOf(t) \in {"proposed", "cleared", "withdrawn", "succeeded", "failed"}
         /\ PhaseOf(n) = IF PhaseOf(t) \in {"proposed", "cleared"} THEN "replaced" ELSE PhaseOf(t)
<1> DEFINE n == ApplyEvent(t, e)
<1>1. e.type \in LinkTypes /\ e.type \notin ApprovalTypes /\ e.details = newId
  BY DEF LegalLink, LinkTypes, ApprovalTypes
<1>2. t.supersededBy = None /\ n.supersededBy = newId
  BY <1>1, ApplyEventLinks DEF LegalLink, Supersedable
<1>3. n.approvals = t.approvals
  BY <1>1, ApplyEventVotes
<1>4. n.execution = t.execution
  BY ApplyEventExecution DEF LegalLink, ResultTypes
<1>5. n.status = e.to
  BY ApplyEventStatus
<1>6. \/ n.status = "DEPRECATED" /\ t.status \in {"PENDING_APPROVAL", "APPROVED"}
      \/ n.status = t.status /\ t.status \in {"FAILED", "CLOSED"}
  BY <1>5 DEF LegalLink
<1> HIDE DEF n
<1>7. SignersOf(n) = SignersOf(t)
  BY <1>3 DEF SignersOf
<1>8. CASE n.status = "DEPRECATED" /\ t.status \in {"PENDING_APPROVAL", "APPROVED"}
  <2>1. PhaseOf(n) = "replaced" /\ PhaseOf(t) \in {"proposed", "cleared"}
    BY <1>8 DEF PhaseOf
  <2> QED BY <1>2, <1>7, <2>1 DEF n
<1>9. CASE n.status = t.status /\ t.status \in {"FAILED", "CLOSED"}
  <2>1. PhaseOf(n) = PhaseOf(t) /\ PhaseOf(t) \in {"withdrawn", "succeeded", "failed"}
    BY <1>4, <1>9 DEF PhaseOf
  <2> QED BY <1>2, <1>7, <2>1 DEF n
<1> QED BY <1>6, <1>8, <1>9

LEMMA SupersedeImplements ==
  ASSUME IInv, HistoryInv, NEW r \in Request, TransactSupersede(r)
  PROVE  Contract!Next
<1> DEFINE q == requests[r]
           t == tickets[q.id]
           n == ApplyEvent(t, q.event)
<1>1. /\ q.call = "supersede" /\ q.id \in DOMAIN tickets /\ q.event \in AuditEvent
      /\ q.newId \in TicketId /\ q.newId \notin DOMAIN tickets
      /\ LegalLink(t, q.event, q.newId) /\ Newborn(q.new)
      /\ DOMAIN tickets' = DOMAIN tickets \cup {q.newId} /\ tickets'[q.newId] = q.new
      /\ \A x \in DOMAIN tickets : tickets'[x] = IF x = q.id THEN n ELSE tickets[x]
  BY Pairs
<1>2. /\ q.id \in TicketId /\ t \in Ticket
      /\ phase[q.id] = PhaseOf(t) /\ author[q.id] = Lower[t.proposedBy]
      /\ signers[q.id] = SignersOf(t) /\ heir[q.id] = t.supersededBy
  BY <1>1, Mapped DEF IInv
<1>3. RecordsItsRun(t) /\ n.proposedBy = t.proposedBy
  BY <1>1, <1>2, ApplyEventFreezes DEF IInv, ExecutionMatchesStatus
<1>4. Lower[q.new.proposedBy] \in Person
  BY <1>1, Identities DEF HistoryInv, CallsKnowTheirPlace
<1>5. /\ t.supersededBy = None /\ n.supersededBy = q.newId /\ SignersOf(n) = SignersOf(t)
      /\ PhaseOf(t) \in {"proposed", "cleared", "withdrawn", "succeeded", "failed"}
      /\ PhaseOf(n) = IF PhaseOf(t) \in {"proposed", "cleared"} THEN "replaced" ELSE PhaseOf(t)
  BY <1>1, <1>2, <1>3, LinkImplements
<1> HIDE DEF n, t
<1>6. /\ PhaseOf(q.new) = "proposed" /\ SignersOf(q.new) = {} /\ q.new.supersededBy = None
  BY <1>1 DEF Newborn, PhaseOf, SignersOf
<1> HIDE DEF q
<1>7. phase[q.newId] = "absent" /\ signers[q.newId] = {} /\ heir[q.newId] = None
  BY <1>1 DEF phase, signers, heir
<1>8. q.id # q.newId
  BY <1>1
<1>9. phase' = [phase EXCEPT ![q.id] = PhaseOf(n), ![q.newId] = "proposed"]
  BY <1>1, <1>2, <1>6, <1>8 DEF phase
<1>10. author' = [author EXCEPT ![q.newId] = Lower[q.new.proposedBy]]
  BY <1>1, <1>2, <1>3, <1>8 DEF author, t
<1>11. signers' = signers
  BY <1>1, <1>2, <1>5, <1>6, <1>8 DEF signers, t
<1>12. heir' = [heir EXCEPT ![q.id] = q.newId]
  BY <1>1, <1>2, <1>5, <1>6, <1>8 DEF heir
<1>13. heir[q.id] = None
  BY <1>2, <1>5
<1>14. phase[q.id] \in {"proposed", "cleared", "withdrawn", "succeeded", "failed"}
  BY <1>2, <1>5
<1>15. phase' = [phase EXCEPT ![q.id] = IF phase[q.id] \in {"proposed", "cleared"}
                                        THEN "replaced" ELSE phase[q.id],
                              ![q.newId] = "proposed"]
  BY <1>2, <1>5, <1>9
<1>16. q.id \in TicketId /\ q.newId \in TicketId /\ phase[q.newId] = "absent"
  BY <1>1, <1>2, <1>7
<1> QED BY <1>4, <1>10, <1>11, <1>12, <1>13, <1>14, <1>15, <1>16, InheritStep

\* What leaves the tickets alone leaves the contract alone.
LEMMA SameTickets ==
  ASSUME UNCHANGED tickets
  PROVE  UNCHANGED <<phase, author, signers, heir>>
<1>1. phase' = phase
  BY DEF phase
<1>2. author' = author
  BY DEF author
<1>3. signers' = signers
  BY DEF signers
<1>4. heir' = heir
  BY DEF heir
<1> QED BY <1>1, <1>2, <1>3, <1>4

LEMMA StartsProposingNothing ==
  ASSUME Init
  PROVE  Contract!Init
BY DEF Init, Contract!Init, phase, author, signers, heir

LEMMA ServiceStep ==
  ASSUME IInv, IInv', HistoryInv, [Next]_vars
  PROVE  Contract!Next \/ UNCHANGED <<phase, author, signers, heir>>
<1>1. CASE UNCHANGED vars
  BY <1>1, SameTickets DEF vars
<1>2. ASSUME NEW r \in Request, AgentCall(r) \/ HumanCall(r) \/ SystemCall(r)
      PROVE  UNCHANGED <<phase, author, signers, heir>>
  <2>1. UNCHANGED tickets
    BY <1>2, CallBegins DEF Begins, IInv
  <2> QED BY <2>1, SameTickets
<1>3. ASSUME NEW r \in Request, RaiseConflict(r)
      PROVE  UNCHANGED <<phase, author, signers, heir>>
  BY <1>3, SameTickets DEF RaiseConflict
<1> QED BY <1>1, <1>2, <1>3, AppendImplements, CreateImplements, SupersedeImplements
        DEF Next, Write

\* service.py keeps the gate's promise however its calls interleave: whatever it
\* does is one atomic operation of GateContract, and that happens at the write.
THEOREM ServiceKeepsContract == Spec => ImplementsContract
BY ServiceStep, StartsProposingNothing, Invariance, HistoryInvariance, PTL
   DEF Spec, ImplementsContract, Contract!Spec, Contract!contractVars

-----------------------------------------------------------------------------
(* What the service inherits.                                              *)

Facts == INSTANCE GateContractProofs WITH Proposal <- TicketId

\* The contract of ServiceContract is the one GateContractProofs is about.
LEMMA SameContract ==
  /\ Contract!Init <=> Facts!Init
  /\ Contract!Next \/ UNCHANGED <<phase, author, signers, heir>> =>
       [Facts!Next]_Facts!contractVars
<1>1. Contract!Init <=> Facts!Init
  BY DEF Contract!Init, Facts!Init
<1>2. Contract!Next <=> Facts!Next
  BY DEF Contract!Next, Contract!Propose, Contract!Sign, Contract!MaySign, Contract!Refuse,
         Contract!MayDecide, Contract!Drop, Contract!Run, Contract!Finish, Contract!Inherit,
         Contract!Move, Contract!Cardinality,
         Facts!Next, Facts!Propose, Facts!Sign, Facts!MaySign, Facts!Refuse, Facts!MayDecide,
         Facts!Drop, Facts!Run, Facts!Finish, Facts!Inherit, Facts!Move, Facts!Cardinality
<1> QED BY <1>1, <1>2 DEF Facts!contractVars

LEMMA ContractIsInvariant == Spec => []Facts!ContractInv
<1>1. Init => Facts!ContractInv
  BY StartsProposingNothing, SameContract, Facts!ContractInit
<1>2. Facts!ContractInv /\ IInv /\ IInv' /\ HistoryInv /\ [Next]_vars => Facts!ContractInv'
  BY ServiceStep, SameContract, Facts!ContractStep
<1> QED BY <1>1, <1>2, Invariance, HistoryInvariance, PTL DEF Spec

\* supersede_ticket: no two tickets have one successor, and a ticket that has one will not
\* run any more.
THEOREM SuccessorsAreOwn == Spec => []Contract!HeirsAreOwn
<1>1. Facts!ContractInv => Contract!HeirsAreOwn
  BY DEF Facts!ContractInv, Facts!HeirsAreOwn, Contract!HeirsAreOwn
<1> QED BY <1>1, ContractIsInvariant, PTL

\* A ticket that has come to its end keeps its status, its proposer, its approvals and
\* its successor, whatever calls were under way when it did.
THEOREM EndedTicketsStay == Spec => Contract!EndsAreFinal
<1>1. Facts!ContractInv /\ IInv /\ IInv' /\ HistoryInv /\ [Next]_vars =>
        [\A p \in TicketId : Contract!LeavesEnds(p)]_Contract!contractVars
  <2> SUFFICES ASSUME Facts!ContractInv, IInv, IInv', HistoryInv, [Next]_vars,
                      NEW p \in TicketId
               PROVE  Contract!LeavesEnds(p)
    OBVIOUS
  <2>1. Facts!LeavesEnds(p)
    BY ServiceStep, SameContract, Facts!StepLeavesEnds
  <2> QED BY <2>1 DEF Contract!LeavesEnds, Facts!LeavesEnds
<1> QED BY <1>1, Invariance, HistoryInvariance, ContractIsInvariant, PTL
        DEF Spec, Contract!EndsAreFinal
==============================================================================
