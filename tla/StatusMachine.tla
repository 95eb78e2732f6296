--------------------------- MODULE StatusMachine ---------------------------
(***************************************************************************)
(* The ticket status machine: backend/app/core/status_machine.py, with the *)
(* status names of core/models.py.  It answers "may this status move       *)
(* there, by this kind of actor"; the identity rules are in TicketService. *)
(***************************************************************************)
EXTENDS Integers

Statuses ==
  {"PENDING_APPROVAL", "APPROVED", "REJECTED", "DEPRECATED",
   "EXPIRED", "EXECUTING", "CLOSED", "FAILED"}

\* "No transition leaves these states; pollers stop here."
TerminalStatuses == {"REJECTED", "DEPRECATED", "EXPIRED", "CLOSED", "FAILED"}

ActorKinds == {"agent", "human", "system"}

\* The table _ALLOWED as a set of <<from, to, kind of actor>>.
Allowed ==
  {<<"PENDING_APPROVAL", to, "human">> :
     to \in {"PENDING_APPROVAL", "APPROVED", "REJECTED", "DEPRECATED", "CLOSED"}}
  \cup {<<"APPROVED", to, "human">> : to \in {"DEPRECATED", "CLOSED"}}
  \cup {<<from, "EXPIRED", "system">> : from \in {"PENDING_APPROVAL", "APPROVED"}}
  \cup {<<"APPROVED", "EXECUTING", "agent">>}
  \cup {<<"EXECUTING", to, "agent">> : to \in {"CLOSED", "FAILED"}}

CanTransition(from, to, kind) == <<from, to, kind>> \in Allowed

\* Status of a PENDING_APPROVAL ticket after `count` approvals.
StatusAfterApproval(count, required) ==
  IF count >= required THEN "APPROVED" ELSE "PENDING_APPROVAL"
=============================================================================
