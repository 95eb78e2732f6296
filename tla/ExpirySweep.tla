---------------------------- MODULE ExpirySweep ----------------------------
(***************************************************************************)
(* The expiry sweep (jobs/expiry.py): one coroutine that pages through the *)
(* pending and then the approved tickets, by an offset into a list that    *)
(* its own writes shorten, while people and agents create, sign and move   *)
(* the same tickets and time passes.                                       *)
(*                                                                         *)
(* A ticket is reduced to its status, its two dates, its votes and its     *)
(* sequence number; "GONE" stands for every status the sweep never asks    *)
(* for.  Tickets are numbered in the order of creation, as ULIDs sort.     *)
(***************************************************************************)
EXTENDS Integers, FiniteSets, Sequences

CONSTANTS
  Ticket,      \* numbers of the tickets
  Required,    \* settings.required_approvals
  Ttl,         \* settings.approval_ttl_hours
  PageSize,    \* the limit of the sweep's queries
  MaxClock,    \* bound: the time
  MaxSeq,      \* bound: nobody writes to a ticket with this many events
  MaxFailures  \* bound: sweeps that are cut off

ASSUME SweepAssumption ==
  /\ Ticket \subseteq Nat /\ IsFiniteSet(Ticket)
  /\ Required \in Nat \ {0} /\ Ttl \in Nat \ {0} /\ PageSize \in Nat \ {0}
  /\ MaxClock \in Nat /\ MaxSeq \in Nat /\ MaxFailures \in Nat

VARIABLES
  tickets,
  clock,
  sweep,    \* the locals of sweep_once
  failures

vars == <<tickets, clock, sweep, failures>>

Swept == {"PENDING_APPROVAL", "APPROVED"}

Absent == [status |-> "ABSENT", created |-> 0, signed |-> 0, votes |-> 0, seq |-> 0]

\* The sweep between two runs of sweep_once.
Asleep == [pc |-> "asleep", now |-> 0, status |-> "PENDING_APPROVAL", cursor |-> 0,
           page |-> <<>>, more |-> FALSE]

Init ==
  /\ tickets = [t \in Ticket |-> Absent]
  /\ clock = 0
  /\ sweep = Asleep
  /\ failures = 0

-----------------------------------------------------------------------------
(* Everybody else, and time.                                               *)

Tick ==
  /\ clock < MaxClock
  /\ clock' = clock + 1
  /\ UNCHANGED <<tickets, sweep, failures>>

\* An event on ticket t that leaves it as new.
Change(t, new) ==
  /\ tickets[t].status # "ABSENT" /\ tickets[t].seq < MaxSeq
  /\ tickets' = [tickets EXCEPT ![t] = [new EXCEPT !.seq = @ + 1]]
  /\ UNCHANGED <<clock, sweep, failures>>

Create(t) ==
  /\ tickets[t].status = "ABSENT"
  /\ \A u \in Ticket : u < t => tickets[u].status # "ABSENT"
  /\ tickets' = [tickets EXCEPT ![t] = [Absent EXCEPT
       !.status = "PENDING_APPROVAL", !.created = clock, !.seq = 1]]
  /\ UNCHANGED <<clock, sweep, failures>>

Approve(t) ==
  LET votes == tickets[t].votes + 1 IN
  /\ tickets[t].status = "PENDING_APPROVAL"
  /\ Change(t, [tickets[t] EXCEPT
       !.status = IF votes >= Required THEN "APPROVED" ELSE @,
       !.votes = votes, !.signed = clock])

\* A rejection, a withdrawal, an edit or execution/start.
Leave(t) ==
  /\ tickets[t].status \in Swept
  /\ Change(t, [tickets[t] EXCEPT !.status = "GONE"])

\* A comment or new tags.
Annotate(t) == Change(t, tickets[t])

-----------------------------------------------------------------------------
(* The sweep.                                                              *)

\* _expiry_start; the votes of a ticket are in the order of their dates.
ExpiryStart(ticket) ==
  IF ticket.status = "APPROVED" /\ ticket.votes > 0 THEN ticket.signed ELSE ticket.created

Stale(ticket, now) == now - ExpiryStart(ticket) >= Ttl

\* sweep_once is called: the moment is fixed for the whole sweep.
Wake ==
  /\ sweep.pc = "asleep"
  /\ sweep' = [Asleep EXCEPT !.pc = "querying", !.now = clock]
  /\ UNCHANGED <<tickets, clock, failures>>

\* _paginate: whether there is a next cursor.
More(items) == sweep.cursor + PageSize < Len(items)

PageEnd(items) == IF More(items) THEN sweep.cursor + PageSize ELSE Len(items)

\* items.sort(reverse=True): the one way to list S from the newest to the oldest.
NewestFirst(S) ==
  {s \in [1..Cardinality(S) -> S] : \A i, j \in DOMAIN s : i < j => s[i] > s[j]}

\* Fault: the cursor is taken for an item that has been seen already.
PageAfterCursor(items) ==
  LET window == SubSeq(items, sweep.cursor + 2, PageEnd(items))
  IN  [i \in DOMAIN window |-> [id |-> window[i], read |-> tickets[window[i]]]]

\* Page.items: the slice, each ticket as it is now.
PageOf(items) ==
  LET window == SubSeq(items, sweep.cursor + 1, PageEnd(items))
  IN  [i \in DOMAIN window |-> [id |-> window[i], read |-> tickets[window[i]]]]

\* query_by_status
Query ==
  /\ sweep.pc = "querying"
  /\ \E items \in NewestFirst({t \in Ticket : tickets[t].status = sweep.status}) :
       sweep' = [sweep EXCEPT !.pc = "writing", !.page = PageOf(items), !.more = More(items)]
  /\ UNCHANGED <<tickets, clock, failures>>

\* Fault: the sweep writes whatever has become of the ticket.
UnmovedAlways(item) == TRUE

\* The CAS of append_event.
Unmoved(item) == tickets[item.id].seq = item.read.seq

NextItem == sweep' = [sweep EXCEPT !.page = Tail(@)]

\* One ticket of the page that is stale and unmoved.
Expire ==
  /\ sweep.pc = "writing" /\ sweep.page # <<>>
  /\ LET item == Head(sweep.page) IN
     /\ Stale(item.read, sweep.now)
     /\ Unmoved(item)
     /\ tickets' = [tickets EXCEPT ![item.id].status = "EXPIRED", ![item.id].seq = @ + 1]
  /\ NextItem
  /\ UNCHANGED <<clock, failures>>

\* One that is not: `continue`, or ConflictError, which is passed over.
PassOver ==
  /\ sweep.pc = "writing" /\ sweep.page # <<>>
  /\ LET item == Head(sweep.page) IN ~Stale(item.read, sweep.now) \/ ~Unmoved(item)
  /\ NextItem
  /\ UNCHANGED <<tickets, clock, failures>>

\* The end of a page: the next page, the next status, or the end of the sweep.
Turn ==
  /\ sweep.pc = "writing" /\ sweep.page = <<>>
  /\ sweep' =
       IF sweep.more
       THEN [sweep EXCEPT !.pc = "querying", !.cursor = @ + PageSize]
       ELSE IF sweep.status = "PENDING_APPROVAL"
       THEN [sweep EXCEPT !.pc = "querying", !.status = "APPROVED", !.cursor = 0]
       ELSE Asleep
  /\ UNCHANGED <<tickets, clock, failures>>

\* A write fails and run_expiry_loop goes to sleep, or the gate is restarted.
CutOff ==
  /\ sweep.pc # "asleep"
  /\ failures < MaxFailures /\ failures' = failures + 1
  /\ sweep' = Asleep
  /\ UNCHANGED <<tickets, clock>>

-----------------------------------------------------------------------------
Sweep == Wake \/ Query \/ Expire \/ PassOver \/ Turn

Next ==
  \/ Tick
  \/ \E t \in Ticket : Create(t) \/ Approve(t) \/ Leave(t) \/ Annotate(t)
  \/ Sweep
  \/ CutOff

Spec == Init /\ [][Next]_vars

\* The loop is "never let die" and sleeps for a bounded time; time passes.
FairSpec == Spec /\ WF_vars(Sweep) /\ WF_vars(Tick)

-----------------------------------------------------------------------------
Record ==
  [status : Swept \cup {"ABSENT", "GONE", "EXPIRED"}, created : Nat, signed : Nat,
   votes : Nat, seq : Nat]

\* The tickets and what the sweep holds are well-formed; a page is no longer than
\* the limit and all of one status.
TypeOK ==
  /\ tickets \in [Ticket -> Record]
  /\ clock \in Nat
  /\ sweep \in [pc : {"asleep", "querying", "writing"}, now : Nat, status : Swept,
                cursor : Nat, page : Seq([id : Ticket, read : Record]), more : BOOLEAN]
  /\ Len(sweep.page) <= PageSize
  /\ \A i \in DOMAIN sweep.page : sweep.page[i].read.status = sweep.status

\* "The clock starts at ticket creation for pending tickets and at the last approval
\* for approved ones."
Due(t) ==
  \/ tickets[t].status = "PENDING_APPROVAL" /\ clock - tickets[t].created >= Ttl
  \/ tickets[t].status = "APPROVED" /\ clock - tickets[t].signed >= Ttl

\* What expires is, at that moment, due by that rule, though the sweep decides on a
\* page it read earlier: an approval in between restarts the clock.
ExpiresOnlyStale ==
  [][\A t \in Ticket :
       tickets[t].status # "EXPIRED" /\ tickets'[t].status = "EXPIRED" => Due(t)]_vars

\* "Prevents an approval granted weeks ago from being executable forever": tickets
\* that a sweep misses, because they slid under its cursor or were written to, are
\* met by a later one.  (One sweep is not enough: a page that expires whole moves the
\* next one under the cursor.)
EveryStaleTicketGoes == \A t \in Ticket : Due(t) ~> ~Due(t)
=============================================================================
