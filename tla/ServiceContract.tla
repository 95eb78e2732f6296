--------------------------- MODULE ServiceContract ---------------------------
(***************************************************************************)
(* TicketService implements GateContract.  A call takes effect at its      *)
(* write, and only there: the checks it made when it read still hold then. *)
(***************************************************************************)
EXTENDS TicketService

PhaseOf(t) ==
  CASE t.status = "PENDING_APPROVAL" -> "proposed"
    [] t.status = "APPROVED"         -> "cleared"
    [] t.status = "REJECTED"         -> "refused"
    [] t.status = "EXPIRED"          -> "expired"
    [] t.status = "DEPRECATED"       -> "replaced"
    [] t.status = "EXECUTING"        -> "running"
    [] t.status = "FAILED"           -> "failed"
    [] t.status = "CLOSED"           -> IF t.execution = None THEN "withdrawn" ELSE "succeeded"

SignersOf(t) == {Lower[t.approvals[i]] : i \in DOMAIN t.approvals}

\* The mapping: an id that no ticket has yet is an absent proposal.
phase ==
  [id \in TicketId |-> IF id \in DOMAIN tickets THEN PhaseOf(tickets[id]) ELSE "absent"]
author ==
  [id \in TicketId |-> IF id \in DOMAIN tickets THEN Lower[tickets[id].proposedBy] ELSE None]
signers ==
  [id \in TicketId |-> IF id \in DOMAIN tickets THEN SignersOf(tickets[id]) ELSE {}]
heir ==
  [id \in TicketId |-> IF id \in DOMAIN tickets THEN tickets[id].supersededBy ELSE None]

Person == {Lower[p] : p \in Email}
Author == {Lower[p] : p \in Email \cup Agent}

Contract == INSTANCE GateContract WITH Proposal <- TicketId

\* service.py keeps the gate's promise however its calls interleave: every step
\* is one atomic operation of the contract or changes nothing the contract sees.
ImplementsContract == Contract!Spec
==============================================================================
