------------------------------ MODULE Executor ------------------------------
(***************************************************************************)
(* The executor (executor/app) in front of the gate: poll, start, make the *)
(* AWS call, report, over HTTP requests that may be lost, refused, delayed *)
(* past the client's timeout or answered in vain, with processes that are  *)
(* stopped or die.                                                         *)
(*                                                                         *)
(* The gate is GateContract, which ServiceContract shows the ticket        *)
(* service to implement; people keep proposing, signing, withdrawing and   *)
(* editing meanwhile.  Proposals are numbered in the order of creation, as *)
(* ULIDs sort.  AWS is external: a call may succeed, be refused, or give   *)
(* no answer.                                                              *)
(***************************************************************************)
EXTENDS Integers, FiniteSets, Sequences

CONSTANTS
  Proposal, Person, Author, Required, AllowSelf, None,  \* see GateContract
  Mine,           \* the proposals assigned to this executor's role
  Replica,        \* processes with that role
  PageLimit,      \* the listing's default limit
  ReportAttempts, \* _REPORT_ATTEMPTS
  MaxFaults,      \* bound: requests and answers that go wrong
  MaxSignals,     \* bound: signals
  MaxCrashes      \* bound: crashes

ASSUME ExecutorAssumption ==
  /\ Proposal \subseteq Nat /\ IsFiniteSet(Proposal) /\ Mine \subseteq Proposal
  /\ PageLimit \in Nat /\ ReportAttempts \in Nat \ {0}
  /\ MaxFaults \in Nat /\ MaxSignals \in Nat /\ MaxCrashes \in Nat

VARIABLES
  phase, author, signers, heir,  \* the gate
  loop,     \* where each process is in main.py
  wire,     \* requests on their way to the gate
  answer,   \* what became of each approved change: "none", "dry", "refused"
            \* before AWS was asked, or AWS's own "ok", "error", "silence"
  calls,    \* number of AWS calls made for each proposal
  faults, signals, crashes

gateVars == <<phase, author, signers, heir>>
vars == <<gateVars, loop, wire, answer, calls, faults, signals, crashes>>

Gate == INSTANCE GateContract

Waiting == {"listing", "starting", "reporting"}

\* A process at the top of its loop.  The epoch tells its requests from those it
\* has given up or an earlier process has left behind.
Fresh(epoch, dry) ==
  [pc |-> "idle", batch |-> <<>>, id |-> None, verdict |-> None, attempt |-> 0,
   stop |-> FALSE, dry |-> dry, epoch |-> epoch]

Init ==
  /\ Gate!Init
  /\ loop \in [Replica -> {Fresh(0, dry) : dry \in BOOLEAN}]
  /\ wire = {}
  /\ answer = [p \in Proposal |-> "none"]
  /\ calls = [p \in Proposal |-> 0]
  /\ faults = 0
  /\ signals = 0
  /\ crashes = 0

-----------------------------------------------------------------------------
(* The client side of a request.                                           *)

\* The request a waiting process has sent, freshly signed.
Request(r, l) ==
  [from |-> r, epoch |-> l.epoch, call |-> l.pc,
   id |-> l.id, outcome |-> l.verdict, attempt |-> l.attempt]

Sent(r, l) == IF l.pc \in Waiting THEN {Request(r, l)} ELSE {}

\* Process r goes on as l; `left` is what stays on the wire.
GoOn(r, l, left) ==
  /\ loop' = [loop EXCEPT ![r] = l]
  /\ wire' = left \cup Sent(r, l)

\* process_ticket has returned.
NextTicket(l) == [l EXCEPT !.pc = "looping", !.id = None, !.verdict = None, !.attempt = 0]

\* Fault: INVALID_STATE at the start is taken for one's own earlier start.
AfterAnswerResuming(l, code, page) ==
  IF l.pc = "listing" THEN [l EXCEPT !.pc = "looping", !.batch = page]
  ELSE IF l.pc = "starting"
  THEN IF code \in {"OK", "INVALID_STATE"} THEN [l EXCEPT !.pc = "executing"] ELSE NextTicket(l)
  ELSE NextTicket(l)

\* Fault: one attempt too few.
AfterAnswerThrice(l, code, page) ==
  IF l.pc = "listing" THEN [l EXCEPT !.pc = "looping", !.batch = page]
  ELSE IF l.pc = "starting"
  THEN IF code = "OK" THEN [l EXCEPT !.pc = "executing"] ELSE NextTicket(l)
  ELSE IF code = "ERROR" /\ l.attempt + 1 < ReportAttempts
  THEN [l EXCEPT !.attempt = @ + 1] ELSE NextTicket(l)

\* Fault: the change is made whatever the gate says.
AfterAnswerRegardless(l, code, page) ==
  IF l.pc = "listing" THEN [l EXCEPT !.pc = "looping", !.batch = page]
  ELSE IF l.pc = "starting" THEN [l EXCEPT !.pc = "executing"]
  ELSE NextTicket(l)

\* How the loop goes on after an answer: "OK", "INVALID_STATE", or "ERROR" for any
\* other answer or exception.  A failed poll is an empty one, a start that did not
\* succeed skips the ticket, and only the report is tried again.
AfterAnswer(l, code, page) ==
  CASE l.pc = "listing"  -> [l EXCEPT !.pc = "looping",
                                      !.batch = IF code = "OK" THEN page ELSE <<>>]
    [] l.pc = "starting" -> IF code = "OK" THEN [l EXCEPT !.pc = "executing"] ELSE NextTicket(l)
    [] l.pc = "reporting" ->
         IF code = "ERROR" /\ l.attempt < ReportAttempts
         THEN [l EXCEPT !.attempt = @ + 1]
         ELSE NextTicket(l)

-----------------------------------------------------------------------------
(* The gate's side: api/agent_tickets.py.                                  *)

\* query_by_status: the newest APPROVED tickets, cut at the limit, whoever's they are.
Newest ==
  LET approved == {p \in Proposal : phase[p] = "cleared"}
  IN  {p \in approved : Cardinality({q \in approved : q > p}) < PageLimit}

\* Fault: the assignee, a role, is compared with the caller's session.
PageByCaller == {<<>>}

\* list_my_tickets: those of the caller among them, in the order of the listing.
Page ==
  LET mine == Newest \cap Mine
  IN  {s \in [1 .. Cardinality(mine) -> mine] : \A i, j \in DOMAIN s : i < j => s[i] > s[j]}

\* The handler of request m runs and answers code.
Handles(m, code) ==
  \/ /\ m.call = "listing" /\ code = "OK"
     /\ UNCHANGED gateVars
  \/ /\ m.call = "starting" /\ code = "OK"
     /\ Gate!Run(m.id)
  \/ /\ m.call = "reporting" /\ code = "OK"
     /\ Gate!Finish(m.id)
     /\ phase'[m.id] = IF m.outcome = "success" THEN "succeeded" ELSE "failed"
  \/ /\ code = "INVALID_STATE"
     /\ \/ m.call = "starting" /\ phase[m.id] # "cleared"
        \/ m.call = "reporting" /\ phase[m.id] # "running"
     /\ UNCHANGED gateVars

Awaited(m) == loop[m.from].pc \in Waiting /\ m = Request(m.from, loop[m.from])

\* The process that sent m, if it still waits for m, sees code.
Sees(m, code) ==
  \E page \in Page :
    GoOn(m.from, IF Awaited(m) THEN AfterAnswer(loop[m.from], code, page) ELSE loop[m.from],
         wire \ {m})

Answer(m) ==
  /\ \E code \in {"OK", "INVALID_STATE"} : Handles(m, code) /\ Sees(m, code)
  /\ UNCHANGED <<answer, calls, faults, signals, crashes>>

Fault == faults < MaxFaults /\ faults' = faults + 1

\* The handler runs, the answer is lost.
AnswerInVain(m) ==
  /\ Fault
  /\ \E code \in {"OK", "INVALID_STATE"} : Handles(m, code)
  /\ Sees(m, "ERROR")
  /\ UNCHANGED <<answer, calls, signals, crashes>>

\* The gate is down, or refuses the request before its handler: 401, 429.
Refuse(m) ==
  /\ Fault
  /\ Sees(m, "ERROR")
  /\ UNCHANGED <<gateVars, answer, calls, signals, crashes>>

\* The client gives up; the request may still arrive.
TimeOut(r) ==
  /\ loop[r].pc \in Waiting
  /\ Fault
  /\ GoOn(r, [AfterAnswer(loop[r], "ERROR", <<>>) EXCEPT !.epoch = @ + 1], wire)
  /\ UNCHANGED <<gateVars, answer, calls, signals, crashes>>

-----------------------------------------------------------------------------
(* The loop: main, process_ticket and _report.                             *)

Poll(r) ==
  /\ loop[r].pc = "idle" /\ ~loop[r].stop
  /\ GoOn(r, [loop[r] EXCEPT !.pc = "listing"], wire)
  /\ UNCHANGED <<gateVars, answer, calls, faults, signals, crashes>>

Take(r) ==
  LET l == loop[r] IN
  /\ l.pc = "looping" /\ l.batch # <<>> /\ ~l.stop
  /\ GoOn(r, [l EXCEPT !.pc = "starting", !.id = Head(l.batch), !.batch = Tail(@)], wire)
  /\ UNCHANGED <<gateVars, answer, calls, faults, signals, crashes>>

\* The for loop ends, the process sleeps until the next poll.
Rest(r) ==
  LET l == loop[r] IN
  /\ l.pc = "looping" /\ (l.batch = <<>> \/ l.stop)
  /\ GoOn(r, [l EXCEPT !.pc = "idle", !.batch = <<>>], wire)
  /\ UNCHANGED <<gateVars, answer, calls, faults, signals, crashes>>

\* Fault: an answer without the expected ids counts as a failure.
VerdictOnShape(a) == IF a = "dry" THEN "success" ELSE "failure"

\* What execute() may come back with, for AWS's answer a.
Verdict(a) == IF a \in {"ok", "dry"} THEN "success" ELSE "failure"

\* aws_exec.execute, and the first attempt to report what it came to.
Execute(r) ==
  LET l == loop[r] IN
  /\ l.pc = "executing"
  /\ \E a \in IF l.dry THEN {"dry"} ELSE {"refused", "ok", "error", "silence"} :
       /\ answer' = [answer EXCEPT ![l.id] = a]
       /\ calls' = [calls EXCEPT ![l.id] = IF a \in {"ok", "error", "silence"} THEN @ + 1 ELSE @]
       /\ GoOn(r, [l EXCEPT !.pc = "reporting", !.verdict = Verdict(a), !.attempt = 1], wire)
  /\ UNCHANGED <<gateVars, faults, signals, crashes>>

Exit(r) ==
  /\ loop[r].pc = "idle" /\ loop[r].stop
  /\ GoOn(r, [loop[r] EXCEPT !.pc = "stopped"], wire)
  /\ UNCHANGED <<gateVars, answer, calls, faults, signals, crashes>>

\* SIGTERM or SIGINT.
Signal(r) ==
  /\ loop[r].pc # "stopped" /\ ~loop[r].stop
  /\ signals < MaxSignals /\ signals' = signals + 1
  /\ GoOn(r, [loop[r] EXCEPT !.stop = TRUE], wire)
  /\ UNCHANGED <<gateVars, answer, calls, faults, crashes>>

\* The process dies, at any point, and a new one takes its place.
Crash(r) ==
  /\ loop[r].pc # "stopped"
  /\ crashes < MaxCrashes /\ crashes' = crashes + 1
  /\ \E dry \in BOOLEAN : GoOn(r, Fresh(loop[r].epoch + 1, dry), wire)
  /\ UNCHANGED <<gateVars, answer, calls, faults, signals>>

StartAgain(r) ==
  /\ loop[r].pc = "stopped"
  /\ \E dry \in BOOLEAN : GoOn(r, Fresh(loop[r].epoch + 1, dry), wire)
  /\ UNCHANGED <<gateVars, answer, calls, faults, signals, crashes>>

-----------------------------------------------------------------------------
\* Everybody else at the gate.  Proposals come in order, the assignee of an edited
\* one is that of the old one, and other agents run their own.
Created(p) == \A q \in Proposal : q < p => phase[q] # "absent"

Others ==
  /\ \E p \in Proposal :
       \/ \E who \in Author : Created(p) /\ Gate!Propose(p, who)
       \/ \E who \in Person : Gate!Sign(p, who) \/ Gate!Refuse(p, who)
       \/ Gate!Drop(p)
       \/ p \notin Mine /\ (Gate!Run(p) \/ Gate!Finish(p))
       \/ \E new \in Proposal, who \in Person :
            Created(new) /\ (new \in Mine <=> p \in Mine) /\ Gate!Inherit(p, new, who)
  /\ UNCHANGED <<loop, wire, answer, calls, faults, signals, crashes>>

Proceed(r) == Poll(r) \/ Take(r) \/ Rest(r) \/ Execute(r) \/ Exit(r) \/ StartAgain(r)

Next ==
  \/ Others
  \/ \E r \in Replica : Proceed(r) \/ TimeOut(r) \/ Signal(r) \/ Crash(r)
  \/ \E m \in wire : Answer(m) \/ AnswerInVain(m) \/ Refuse(m)

Spec == Init /\ [][Next]_vars

\* The loop survives every exception and sleeps for a bounded time, the kubelet
\* starts a stopped process again, and the gate answers what reaches it.  Nothing
\* is assumed of people, faults and signals.
Fairness ==
  /\ \A r \in Replica : WF_vars(Proceed(r))
  /\ WF_vars(\E m \in wire : Answer(m))

FairSpec == Spec /\ Fairness

-----------------------------------------------------------------------------
\* The processes and the requests on the wire are well-formed; no report is
\* attempted more often than the limit says.
TypeOK ==
  /\ loop \in [Replica ->
       [pc : Waiting \cup {"idle", "looping", "executing", "stopped"}, batch : Seq(Mine),
        id : Mine \cup {None}, verdict : {None, "success", "failure"},
        attempt : 0..ReportAttempts, stop : BOOLEAN, dry : BOOLEAN,
        epoch : 0..(MaxFaults + MaxSignals + MaxCrashes)]]
  /\ \A m \in wire : m.from \in Replica /\ m.call \in Waiting
  /\ answer \in [Proposal -> {"none", "dry", "refused", "ok", "error", "silence"}]
  /\ calls \in [Proposal -> Nat]

\* "Execute each exactly once", the half that must never fail: however requests
\* are delayed, processes restarted or doubled, AWS is asked at most once for a
\* ticket.  "A duplicate AWS call is prevented by the gate rather than by this loop."
AtMostOneCall == \A p \in Proposal : calls[p] <= 1

\* process_ticket: whatever was done was done on a ticket that had been cleared and
\* was still wanted: a ticket that was withdrawn, rejected, edited or expired while
\* it sat in a polled batch is never executed.  So nothing reaches AWS that as many
\* people as required, and not its own author, have not signed.
OnlyClearedRuns ==
  \A p \in Proposal : answer[p] # "none" =>
    /\ phase[p] \in {"running", "succeeded", "failed"}
    /\ Cardinality(signers[p]) >= Required
    /\ AllowSelf \/ author[p] \notin signers[p]

\* The record is what AWS answered: "turning a success into a reported failure
\* would be a lie in the audit trail", and the other way round; a dry run is the one
\* success without a call.
ReportIsTruthful ==
  \A p \in Mine :
    /\ phase[p] = "succeeded" => answer[p] \in {"ok", "dry"}
    /\ phase[p] = "failed" => answer[p] \in {"refused", "error", "silence"}

Finished(p) == phase[p] \in {"succeeded", "failed"}

\* _report: with fewer faults than attempts, whatever was executed gets its result
\* recorded, also when the process is told to stop meanwhile.
EveryExecutionIsReported ==
  \A p \in Mine : (\E r \in Replica : loop[r].pc = "executing" /\ loop[r].id = p) ~> Finished(p)

\* main: a ticket that stays approved is taken up, through failed polls, failed
\* starts and restarts.  (It takes a page that holds all approved tickets: the page
\* is cut before it is filtered.)
EveryClearedIsTaken == \A p \in Mine : phase[p] = "cleared" ~> phase[p] # "cleared"

\* "Execute each exactly once, report the outcome", the other half: a ticket in
\* EXECUTING gets its outcome.
EveryRunIsFinished == \A p \in Mine : phase[p] = "running" ~> Finished(p)
=============================================================================
