----------------------------- MODULE TicketPage -----------------------------
(***************************************************************************)
(* The portal's page of one ticket (frontend/src/routes/ticket-detail.tsx  *)
(* and components/tickets): a copy of the ticket that is fetched, polled   *)
(* and fetched again after one's own clicks, while other people, the       *)
(* executor and the sweep change the ticket.                               *)
(*                                                                         *)
(* Each person has one tab and one click under way at a time.  The query   *)
(* cache (@tanstack/react-query) is external: at most one fetch of a query *)
(* at a time, an invalidation starts it anew, a hidden tab does not poll.  *)
(* Accepts and After are the service's rules (core/service.py), taken as   *)
(* one step each: a conflict is answered with an error, as if refused.     *)
(***************************************************************************)
EXTENDS StatusMachine, FiniteSets

CONSTANTS
  Person,
  Watcher,   \* those who have the page in a tab, one each
  Approver,  \* those with the role of an approver
  Proposer,  \* who proposed the ticket
  AllowSelf, Threshold,
  Attempts,  \* of a fetch: the first and `retry` more
  MaxEvents, \* bound: events of the ticket
  MaxFaults  \* bound: fetches that fail and answers that are lost

ASSUME PageAssumption ==
  /\ Approver \subseteq Person /\ Watcher \subseteq Person
  /\ {Threshold, Attempts, MaxEvents} \subseteq Nat \ {0}
  /\ MaxFaults \in Nat

VARIABLES
  ticket,    \* what the gate has
  page,      \* the tab of each person
  faults,
  due,       \* history: the event that a person was last told of on the page
  surprises  \* history: clicks refused although the page was up to date

pageVars == <<ticket, page, faults, due, surprises>>

Act == {"approve", "reject", "close", "supersede", "tags", "comment"}

\* A page without data: the skeleton.
Blank == [seq |-> 0, status |-> "unknown", linked |-> FALSE, votes |-> {}]

NoFetch == [state |-> "none", attempt |-> 0, answer |-> Blank]
Asked == [state |-> "asked", attempt |-> 1, answer |-> Blank]

NoClick == [state |-> "none", act |-> "none", seq |-> 0]

PageInit ==
  /\ ticket = [seq |-> 1, status |-> "PENDING_APPROVAL", linked |-> FALSE, votes |-> {}]
  /\ page = [who \in Watcher |-> [place |-> "away", shown |-> Blank, fetch |-> NoFetch,
                                  click |-> NoClick]]
  /\ faults = 0
  /\ due = [who \in Watcher |-> 0]
  /\ surprises = {}

-----------------------------------------------------------------------------
(* The rules, as the service and as the page have them.                    *)

MayDecide(who) == who \in Approver /\ (AllowSelf \/ who # Proposer)

\* The routes' role gates, and the checks of approve_ticket to update_tags.
Accepts(who, act) ==
  CASE act = "approve"   -> /\ ticket.status = "PENDING_APPROVAL" /\ ~ticket.linked
                            /\ MayDecide(who) /\ who \notin ticket.votes
    [] act = "reject"    -> /\ ticket.status = "PENDING_APPROVAL" /\ ~ticket.linked
                            /\ MayDecide(who)
    [] act = "close"     -> ticket.status \in {"PENDING_APPROVAL", "APPROVED"}
    [] act = "supersede" -> /\ ~ticket.linked
                            /\ ticket.status \in {"PENDING_APPROVAL", "APPROVED",
                                                  "FAILED", "CLOSED"}
    [] act = "tags"      -> ~ticket.linked
    [] act = "comment"   -> TRUE

\* What the event of an accepted act makes of the ticket.
After(who, act) ==
  LET t == [ticket EXCEPT !.seq = @ + 1] IN
  CASE act = "approve" ->
         LET votes == ticket.votes \cup {who} IN
         [t EXCEPT !.votes = votes, !.status = StatusAfterApproval(Cardinality(votes), Threshold)]
    [] act = "reject" -> [t EXCEPT !.status = "REJECTED"]
    [] act = "close" -> [t EXCEPT !.status = "CLOSED"]
    [] act = "supersede" ->
         [t EXCEPT !.linked = TRUE,
                   !.status = IF @ \in TerminalStatuses THEN @ ELSE "DEPRECATED"]
    [] act \in {"tags", "comment"} -> t

\* ApproveRejectActions
DecisionButtons(t, who) ==
  t.status = "PENDING_APPROVAL" /\ MayDecide(who) /\ who \notin t.votes

\* canClose
CanClose(t) == t.status \in {"PENDING_APPROVAL", "APPROVED"} /\ ~t.linked

\* Fault: a rejected ticket may be edited.
CanSupersedeRejected(t) ==
  t.status \notin {"unknown", "EXECUTING", "EXPIRED", "DEPRECATED"} /\ ~t.linked

\* Fault: no follow-up to what has run.
CanSupersedeOpen(t) == t.status \in {"PENDING_APPROVAL", "APPROVED"} /\ ~t.linked

\* canSupersede
CanSupersede(t) ==
  t.status \in {"PENDING_APPROVAL", "APPROVED", "FAILED", "CLOSED"} /\ ~t.linked

\* What a page that shows t lets a person click.
Offers(t, who, act) ==
  CASE act \in {"approve", "reject"} -> DecisionButtons(t, who)
    [] act = "close"     -> CanClose(t)
    [] act = "supersede" -> CanSupersede(t)
    [] act = "tags"      -> ~t.linked
    [] act = "comment"   -> TRUE

-----------------------------------------------------------------------------
(* The query of the page.                                                  *)

Has(who, field, value) == page' = [page EXCEPT ![who] = [@ EXCEPT ![field] = value]]

\* The page is mounted: what is cached is shown, and fetched again.
Visit(who) ==
  LET p == page[who] IN
  /\ p.place = "away"
  /\ page' = [page EXCEPT ![who].place = "front",
                          ![who].fetch = IF @.state = "none" THEN Asked ELSE @]
  /\ UNCHANGED <<ticket, faults, due, surprises>>

\* The tab comes to the front (refetchOnWindowFocus is off), behind another one, or
\* shows another page of the portal.
Switch(who) ==
  /\ \/ page[who].place = "hidden" /\ Has(who, "place", "front")
     \/ page[who].place = "front" /\ \E place \in {"hidden", "away"} : Has(who, "place", place)
  /\ UNCHANGED <<ticket, faults, due, surprises>>

\* Five minutes after the last use the cached copy goes.
Forget(who) ==
  LET p == page[who] IN
  /\ p.place = "away" /\ p.fetch = NoFetch /\ p.click = NoClick /\ p.shown # Blank
  /\ Has(who, "shown", Blank)
  /\ UNCHANGED <<ticket, faults, due, surprises>>

\* Fault: as on the list of pending tickets.
PollsPending(t) == t.status \in {"unknown", "PENDING_APPROVAL"}

\* refetchInterval
Polls(t) == t.status \notin TerminalStatuses

Poll(who) ==
  LET p == page[who] IN
  /\ p.place = "front" /\ Polls(p.shown) /\ p.fetch = NoFetch
  /\ Has(who, "fetch", Asked)
  /\ UNCHANGED <<ticket, faults, due, surprises>>

\* get_ticket at the gate.
Read(who) ==
  /\ page[who].fetch.state = "asked"
  /\ Has(who, "fetch", [page[who].fetch EXCEPT !.state = "read", !.answer = ticket])
  /\ UNCHANGED <<ticket, faults, due, surprises>>

Arrive(who) ==
  /\ page[who].fetch.state = "read"
  /\ page' = [page EXCEPT ![who].shown = page[who].fetch.answer, ![who].fetch = NoFetch]
  /\ UNCHANGED <<ticket, faults, due, surprises>>

Fault == faults < MaxFaults /\ faults' = faults + 1

\* A fetch fails and is tried again, or given up when the attempts are used up or nobody
\* looks: the page keeps what it shows.
Fail(who) ==
  LET f == page[who].fetch IN
  /\ f # NoFetch
  /\ Fault
  /\ Has(who, "fetch", IF f.attempt < Attempts /\ page[who].place # "away"
                       THEN [Asked EXCEPT !.attempt = f.attempt + 1] ELSE NoFetch)
  /\ UNCHANGED <<ticket, due, surprises>>

-----------------------------------------------------------------------------
(* Clicks.                                                                 *)

Click(who, act) ==
  LET p == page[who] IN
  /\ p.place = "front" /\ p.shown # Blank /\ p.click = NoClick
  /\ Offers(p.shown, who, act)
  /\ Has(who, "click", [state |-> "sent", act |-> act, seq |-> p.shown.seq])
  /\ UNCHANGED <<ticket, faults, due, surprises>>

\* The request is handled.
Handle(who) ==
  LET c == page[who].click IN
  /\ c.state = "sent"
  /\ IF Accepts(who, c.act)
     THEN /\ ticket.seq < MaxEvents
          /\ ticket' = After(who, c.act)
          /\ Has(who, "click", [c EXCEPT !.state = "done", !.seq = ticket'.seq])
          /\ UNCHANGED surprises
     ELSE /\ surprises' = IF c.seq = ticket.seq THEN surprises \cup {c.act} ELSE surprises
          /\ Has(who, "click", [c EXCEPT !.state = "refused"])
          /\ UNCHANGED ticket
  /\ UNCHANGED <<faults, due>>

\* Fault: only the list is fetched again.
RefetchedLists(p) == p.fetch

\* invalidateQueries: a mounted page asks again, and drops an answer to what it asked
\* before, unless it shows nothing yet.
Refetched(p) ==
  IF p.place = "away" \/ (p.shown = Blank /\ p.fetch # NoFetch) THEN p.fetch ELSE Asked

\* onSuccess and onError of the mutations.  The author of an edit goes on to its page.
Return(who) ==
  LET p == page[who] IN
  /\ p.click.state \in {"done", "refused"}
  /\ IF p.click.state = "done"
     THEN /\ page' = [page EXCEPT
                        ![who].click = NoClick,
                        ![who].fetch = Refetched(p),
                        ![who].place = IF p.click.act = "supersede" THEN "away" ELSE @]
          /\ due' = [due EXCEPT ![who] = IF p.place = "away" THEN @ ELSE p.click.seq]
     ELSE Has(who, "click", NoClick) /\ UNCHANGED due
  /\ UNCHANGED <<ticket, faults, surprises>>

\* The request or its answer is lost: an error, and nothing is fetched.
Lose(who) ==
  /\ page[who].click # NoClick
  /\ Fault
  /\ Has(who, "click", NoClick)
  /\ UNCHANGED <<ticket, due, surprises>>

\* The executor and the sweep, and people at other doors or pages.
Elsewhere ==
  /\ ticket.seq < MaxEvents
  /\ \/ \E to \in Statuses, kind \in {"agent", "system"} :
          /\ CanTransition(ticket.status, to, kind)
          /\ ticket' = [ticket EXCEPT !.seq = @ + 1, !.status = to]
     \/ \E who \in Person, act \in Act :
          Accepts(who, act) /\ ticket' = After(who, act)
  /\ UNCHANGED <<page, faults, due, surprises>>

-----------------------------------------------------------------------------
PageNext ==
  \/ Elsewhere
  \/ \E who \in Watcher :
       \/ Visit(who) \/ Switch(who) \/ Forget(who)
       \/ Poll(who) \/ Read(who) \/ Arrive(who) \/ Fail(who)
       \/ Handle(who) \/ Return(who) \/ Lose(who)
       \/ \E act \in Act : Click(who, act)

PageSpec == PageInit /\ [][PageNext]_pageVars

-----------------------------------------------------------------------------
InFront(who) == page[who].place = "front"

\* ticket-detail.tsx and supersede-dialog.tsx "mirror" rules of the service, in four
\* components: a click that the gate refuses was made on a page that was out of date.
\* (close_ticket does not ask whether the ticket has a successor and the page does:
\* the two agree because a ticket that may be closed has none.)
NoSurprise == surprises = {}

\* What the gate would accept of a person is offered by a page that is up to date, but
\* for a rejection by somebody who has approved.
EveryRightIsOffered ==
  \A who \in Watcher, act \in Act :
    page[who].shown = ticket /\ Accepts(who, act) =>
      Offers(ticket, who, act) \/ (act = "reject" /\ who \in ticket.votes)

\* Whoever was told on the page that a click succeeded sees its effect there, also when
\* the page no longer polls, fewer fetches fail than a query attempts, or an older answer
\* was under way.
OwnActIsShown ==
  \A who \in Watcher :
    InFront(who) ~> ~InFront(who) \/ page[who].shown.seq >= due[who]

\* refetchInterval: a page that is in front comes to show the status at which the ticket
\* ends, although it stops polling at the first such status that it sees.
OutcomeIsShown ==
  \A who \in Watcher :
    InFront(who) /\ ticket.status \in TerminalStatuses
      ~> ~InFront(who) \/ page[who].shown.status = ticket.status
=============================================================================
