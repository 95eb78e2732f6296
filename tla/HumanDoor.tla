------------------------------ MODULE HumanDoor ------------------------------
(***************************************************************************)
(* How people reach the gate: sessions with a role (api/auth.py, auth/rbac *)
(* .py), the routes of the portal (api/tickets.py), the tools of an IDE    *)
(* (api/mcp_gateway.py), and the signed approve and reject links of the    *)
(* notification mail (notifications/ses.py, auth/approval_links.py,        *)
(* api/approval_link_actions.py).                                          *)
(*                                                                         *)
(* The tickets are GateContract, which ServiceContract shows the ticket    *)
(* service to implement.  The gate keeps no table of sessions or links:    *)
(* both are signed, both outlive a restart, and the list of approvers may  *)
(* be another one after it.  Other settings (the number of approvals,      *)
(* self-approval) are the same throughout.  A person is an address,        *)
(* whatever its spelling.                                                  *)
(***************************************************************************)
EXTENDS Integers

CONSTANTS
  Proposal, Person, Author, Required, AllowSelf,  \* see GateContract
  Nobody,      \* its None
  Lists,       \* values APPROVER_EMAILS may be given
  Groups,      \* who may be in one of settings.approver_group_list, by turns
  HasExecutor  \* is settings.executor_arn configured?

ASSUME PeopleAssumption ==
  Lists \subseteq SUBSET Person /\ Groups \subseteq SUBSET Person /\ Person \subseteq Author

VARIABLES
  phase, author, signers, heir,  \* the gate
  approvers,  \* settings.approver_email_list of the running process
  grouped,    \* people in one of settings.approver_group_list
  sessions,   \* roles in the session cookies a person holds
  mailed,     \* who was sent links for a proposal
  founded,    \* history: who holds a session from a login as one of the list or a group
  uses        \* history: how often a link has changed its ticket

ticketVars == <<phase, author, signers, heir>>
doorVars == <<approvers, grouped, sessions, mailed, founded>>
humanVars == <<ticketVars, doorVars, uses>>

Tickets == INSTANCE GateContract WITH None <- Nobody

Role == {"approver", "viewer"}
LinkAction == {"approve", "reject"}
Link == Proposal \X Person \X LinkAction

HumanInit ==
  /\ Tickets!Init
  /\ approvers \in Lists
  /\ sessions = [who \in Person |-> {}]
  /\ mailed = [p \in Proposal |-> {}]
  /\ grouped \in Groups
  /\ founded = {}
  /\ uses = [l \in Link |-> 0]

-----------------------------------------------------------------------------
(* Sessions.                                                               *)

\* resolve_role: the groups first, then the list.
RoleOf(who) == IF who \in grouped \cup approvers THEN "approver" ELSE "viewer"

\* The callback of the identity provider.  The role goes into the cookie.  (With
\* AUTH_MODE=dev, which the settings refuse in production, the caller names the role.)
Login(who) ==
  /\ sessions' = [sessions EXCEPT ![who] = @ \cup {RoleOf(who)}]
  /\ founded' = founded \cup ({who} \cap (grouped \cup approvers))
  /\ UNCHANGED <<ticketVars, approvers, grouped, mailed, uses>>

\* Logged out, or the cookie has come to its age.
SessionEnds(who, role) ==
  /\ role \in sessions[who]
  /\ sessions' = [sessions EXCEPT ![who] = @ \ {role}]
  /\ founded' = IF role = "approver" THEN founded \ {who} ELSE founded
  /\ UNCHANGED <<ticketVars, approvers, grouped, mailed, uses>>

\* The identity provider has moved people between groups, or a new process asks for
\* other groups.  No session ends.
Regroup(people) ==
  /\ grouped' = people
  /\ UNCHANGED <<ticketVars, approvers, sessions, mailed, founded, uses>>

\* A new process with another list; with another SESSION_SECRET no session and no
\* link of the old one is accepted any more.
Reconfigure(list, newSecret) ==
  /\ approvers' = list
  /\ IF newSecret
     THEN /\ sessions' = [who \in Person |-> {}]
          /\ mailed' = [p \in Proposal |-> {}]
          /\ founded' = {}
     ELSE UNCHANGED <<sessions, mailed, founded>>
  /\ UNCHANGED <<ticketVars, grouped, uses>>

\* require_session, require_approver
SignedIn(who) == sessions[who] # {}
MayApprove(who) == "approver" \in sessions[who]

-----------------------------------------------------------------------------
(* Proposals, edits and withdrawals.                                       *)

\* notify_ticket_created: a mail to each approver, any of which may fail; none when
\* NOTIFY_ON_CREATE is off.
Notify(p) == \E reached \in SUBSET approvers : mailed' = [mailed EXCEPT ![p] = reached]

Open(p, who) ==
  /\ Tickets!Propose(p, who)
  /\ Notify(p)
  /\ UNCHANGED <<approvers, grouped, sessions, founded, uses>>

OpenInPortal(p, who) == SignedIn(who) /\ HasExecutor /\ Open(p, who)

\* create_change_ticket: any person the token verifier names.
OpenByMcp(p, who) == HasExecutor /\ Open(p, who)

OpenByAgent(p, who) == who \notin Person /\ Open(p, who)

\* Nobody is notified of an edit: the successor has no links.
Edit(p, new, who) == Tickets!Inherit(p, new, who) /\ UNCHANGED <<doorVars, uses>>

EditInPortal(p, new, who) == SignedIn(who) /\ Edit(p, new, who)
EditByMcp(p, new, who) == Edit(p, new, who)

Withdraw(p) ==
  /\ Tickets!Drop(p)
  /\ phase'[p] = "withdrawn"
  /\ UNCHANGED <<doorVars, uses>>

CloseInPortal(p, who) == SignedIn(who) /\ Withdraw(p)
CloseByMcp(p) == Withdraw(p)

-----------------------------------------------------------------------------
(* Decisions.                                                              *)

ApproveInPortal(p, who) ==
  MayApprove(who) /\ Tickets!Sign(p, who) /\ UNCHANGED <<doorVars, uses>>

RejectInPortal(p, who) ==
  MayApprove(who) /\ Tickets!Refuse(p, who) /\ UNCHANGED <<doorVars, uses>>

Used(p, who, action) == uses' = [uses EXCEPT ![<<p, who, action>>] = @ + 1]

\* Fault: the token alone is the authority.
ActByLinkOnToken(p, who, action) ==
  /\ who \in mailed[p]
  /\ IF action = "approve" THEN Tickets!Sign(p, who) ELSE Tickets!Refuse(p, who)
  /\ Used(p, who, action)
  /\ UNCHANGED doorVars

\* Fault: a vote by link is recorded without the service's look at earlier votes.
ActByLinkAgain(p, who, action) ==
  /\ who \in mailed[p] /\ who \in approvers
  /\ \/ action = "approve" /\ Tickets!Sign(p, who)
     \/ action = "approve" /\ who \in signers[p] /\ phase[p] = "proposed"
        /\ UNCHANGED ticketVars
     \/ action = "reject" /\ Tickets!Refuse(p, who)
  /\ Used(p, who, action)
  /\ UNCHANGED doorVars

\* act: a link that is genuine and not too old, of somebody who is still on the
\* list.  (A link may be too old at any time after it was sent; nothing happens then.)
LinkHolds(p, who) == who \in mailed[p] /\ who \in approvers

ActByLink(p, who, action) ==
  /\ LinkHolds(p, who)
  /\ IF action = "approve" THEN Tickets!Sign(p, who) ELSE Tickets!Refuse(p, who)
  /\ Used(p, who, action)
  /\ UNCHANGED doorVars

\* When ActByLink may be taken: does the click change the ticket at this moment?
LinkCounts(p, who, action) ==
  /\ LinkHolds(p, who)
  /\ IF action = "approve" THEN Tickets!MaySign(p, who) ELSE Tickets!MayDecide(p, who)

\* Fault: earlier approvals are left to the service.
PreviewWithoutVotes(p, who, action) ==
  IF heir[p] # Nobody \/ phase[p] # "proposed" THEN "already_actioned"
  ELSE IF who \notin approvers THEN "not_approver"
  ELSE IF ~AllowSelf /\ author[p] = who THEN "self_approval"
  ELSE "none"

\* _blocked_reason: what the landing page of a link says.
BlockedReason(p, who, action) ==
  IF heir[p] # Nobody \/ phase[p] # "proposed" THEN "already_actioned"
  ELSE IF who \notin approvers THEN "not_approver"
  ELSE IF ~AllowSelf /\ author[p] = who THEN "self_approval"
  ELSE IF action = "approve" /\ who \in signers[p] THEN "duplicate_approval"
  ELSE "none"

-----------------------------------------------------------------------------
\* The sweep and the executor.
Elsewhere ==
  /\ \E p \in Proposal :
       \/ Tickets!Drop(p) /\ phase'[p] = "expired"
       \/ Tickets!Run(p)
       \/ Tickets!Finish(p)
  /\ UNCHANGED <<doorVars, uses>>

HumanNext ==
  \/ \E who \in Person : Login(who) \/ \E role \in Role : SessionEnds(who, role)
  \/ \E people \in Groups : Regroup(people)
  \/ \E list \in Lists, newSecret \in BOOLEAN : Reconfigure(list, newSecret)
  \/ \E p \in Proposal :
       \/ \E who \in Person :
            \/ OpenInPortal(p, who) \/ OpenByMcp(p, who)
            \/ \E new \in Proposal : EditInPortal(p, new, who) \/ EditByMcp(p, new, who)
            \/ CloseInPortal(p, who)
            \/ ApproveInPortal(p, who)
            \/ RejectInPortal(p, who)
            \/ \E action \in LinkAction : ActByLink(p, who, action)
       \/ \E who \in Author : OpenByAgent(p, who)
       \/ CloseByMcp(p)
  \/ Elsewhere

HumanSpec == HumanInit /\ [][HumanNext]_humanVars

-----------------------------------------------------------------------------
\* _blocked_reason promises "the same checks approve_ticket/reject_ticket and the
\* live-approver recheck would apply": the page of a link offers its button exactly
\* when the click would change the ticket, in every state of the ticket and under
\* any list of approvers; the checks are written twice in the code.
PreviewIsHonest ==
  \A p \in Proposal : \A who \in mailed[p], action \in LinkAction :
    BlockedReason(p, who, action) = "none" <=> LinkCounts(p, who, action)

\* Who may vote at this moment: by a link, who was mailed it for this very proposal and
\* is on today's list; otherwise who holds a session from a login as a member of a group
\* or of the list, under the present secret, whatever group and list say today.
EntitledByLink(p, who) == who \in mailed[p] \cap approvers
EntitledBySession(who) == "approver" \in sessions[who] /\ who \in founded

Entitled(p, who, action) ==
  IF uses' = uses THEN EntitledBySession(who)
  ELSE uses'[<<p, who, action>>] # uses[<<p, who, action>>] /\ EntitledByLink(p, who)

\* No signature appears and no proposal is refused by anyone who is not entitled,
\* however cookies, mails, lists and groups of different times are combined.
VotesAreEntitled ==
  [][\A p \in Proposal :
       /\ \A who \in signers'[p] \ signers[p] : Entitled(p, who, "approve")
       /\ phase[p] = "proposed" /\ phase'[p] = "refused" =>
            \E who \in Person :
              Entitled(p, who, "reject") /\ (AllowSelf \/ author[p] # who)]_humanVars

\* "Re-use is naturally blocked by service.py's own status/duplicate-approver
\* guards, not by tracking token IDs": a link changes its ticket once at most.
LinkDecidesOnce == \A l \in Link : uses[l] <= 1
==============================================================================
