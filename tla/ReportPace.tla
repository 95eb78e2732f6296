------------------------------ MODULE ReportPace ------------------------------
(***************************************************************************)
(* The pace of one executor (executor/app/main.py) before the limiter of   *)
(* the gate (api/middleware.py), which counts its polls, starts and        *)
(* reports together: a refused poll gives an empty batch, a refused start  *)
(* leaves the ticket for the next poll, and a report is repeated with      *)
(* growing pauses and then given up, its ticket left in EXECUTING.         *)
(*                                                                         *)
(* What happens to the requests that are let through, and other faults of  *)
(* a report, are Executor's: here the gate lands what it lets through.     *)
(* Time may pass anywhere; the pauses are the least that passes.           *)
(***************************************************************************)
EXTENDS SlidingWindow

CONSTANTS
  RateWindow,     \* RATE_LIMIT_WINDOW
  RateMax,        \* RATE_LIMIT_MAX
  BatchLimit,     \* the listing's default limit
  ReportAttempts, \* _REPORT_ATTEMPTS
  Backoff,        \* _REPORT_BACKOFF_SECONDS
  PollPause,      \* poll_interval_seconds
  LastMoment      \* bound on the clock

ASSUME PaceAssumption ==
  /\ {RateWindow, BatchLimit, Backoff, PollPause, LastMoment} \subseteq Nat
  /\ RateMax \in Nat \ {0}
  /\ ReportAttempts \in Nat \ {0, 1}

VARIABLES
  moment,    \* the clock
  counted,   \* SlidingWindowLimiter._hits of the executor
  doing,     \* what it does next: "poll", "start" or "report"
  queued,    \* tickets of the batch not yet done, the present one included
  attempt,   \* of the report
  resting,   \* time.sleep: how long it still sleeps
  stopping,  \* _stop
  firstTry   \* history: when the report was first attempted

paceVars == <<moment, counted, doing, queued, attempt, resting, stopping, firstTry>>

PaceInit ==
  /\ moment = 0 /\ counted = <<>> /\ firstTry = 0
  /\ doing = "poll" /\ queued = 0 /\ attempt = 1 /\ resting = 0 /\ stopping = FALSE

-----------------------------------------------------------------------------
(* The limiter.                                                            *)

Current == InWindow(counted, moment - RateWindow)

LetThrough == Len(Current) < RateMax /\ counted' = Append(Current, moment)

\* Fault: a refused request counts, too.
CountedAnyway == Len(Current) >= RateMax /\ counted' = Append(Current, moment)

TurnedAway == Len(Current) >= RateMax /\ counted' = Current

-----------------------------------------------------------------------------
(* The executor.                                                           *)

\* The loop over the batch, and the sleep when it is done.
NextOfBatch ==
  /\ queued' = IF stopping THEN 0 ELSE queued - 1
  /\ IF queued' = 0
     THEN doing' = "poll" /\ resting' = (IF stopping THEN 0 ELSE PollPause)
     ELSE doing' = "start" /\ resting' = 0
  /\ UNCHANGED <<attempt, firstTry>>

\* list_approved; when it fails the batch is empty.
PollGate ==
  /\ doing = "poll" /\ resting = 0 /\ ~stopping
  /\ \/ LetThrough /\ queued' \in 0 .. BatchLimit
     \/ TurnedAway /\ queued' = 0
  /\ IF queued' = 0
     THEN doing' = doing /\ resting' = PollPause
     ELSE doing' = "start" /\ resting' = resting
  /\ UNCHANGED <<moment, attempt, stopping, firstTry>>

\* start_execution: only what the gate accepts comes to a report.
StartOne ==
  /\ doing = "start"
  /\ \/ LetThrough /\ doing' = "report" /\ attempt' = 1 /\ UNCHANGED <<queued, resting, firstTry>>
     \/ (LetThrough \/ TurnedAway) /\ NextOfBatch
  /\ UNCHANGED <<moment, stopping>>

\* Fault: the pauses between the attempts are all alike.
SamePause(k) == Backoff

PauseAfter(k) == Backoff * k

\* _report
ReportOne ==
  /\ doing = "report" /\ resting = 0
  /\ \/ LetThrough /\ NextOfBatch
     \/ /\ TurnedAway /\ attempt < ReportAttempts
        /\ attempt' = attempt + 1
        /\ resting' = IF stopping THEN 0 ELSE PauseAfter(attempt)
        /\ firstTry' = IF attempt = 1 THEN moment ELSE firstTry
        /\ UNCHANGED <<doing, queued>>
     \/ TurnedAway /\ attempt = ReportAttempts /\ NextOfBatch
  /\ UNCHANGED <<moment, stopping>>

\* SIGTERM: it ends the sleep before a poll, and leaves out the pauses to come.
SignalStop ==
  /\ ~stopping
  /\ stopping' = TRUE
  /\ resting' = IF doing = "poll" THEN 0 ELSE resting
  /\ UNCHANGED <<moment, counted, doing, queued, attempt, firstTry>>

\* The executor dies, or has stopped, and is started anew.
StartAnew ==
  /\ doing' = "poll" /\ queued' = 0 /\ attempt' = 1 /\ resting' = 0 /\ stopping' = FALSE
  /\ UNCHANGED <<moment, counted, firstTry>>

\* The gate is restarted and has counted nothing.
ForgetCounts ==
  /\ counted' = <<>>
  /\ UNCHANGED <<moment, doing, queued, attempt, resting, stopping, firstTry>>

PassMoment ==
  /\ moment < LastMoment
  /\ moment' = moment + 1
  /\ resting' = IF resting = 0 THEN 0 ELSE resting - 1
  /\ UNCHANGED <<counted, doing, queued, attempt, stopping, firstTry>>

PaceNext ==
  \/ PollGate \/ StartOne \/ ReportOne
  \/ SignalStop \/ StartAnew \/ ForgetCounts \/ PassMoment

PaceSpec == PaceInit /\ [][PaceNext]_paceVars

-----------------------------------------------------------------------------
\* The last attempt, and the limiter is about to refuse it.
GivesUp ==
  /\ doing = "report" /\ resting = 0 /\ attempt = ReportAttempts /\ ~stopping
  /\ Len(Current) >= RateMax

\* The pauses of a report together.
Patience == Backoff * ((ReportAttempts * (ReportAttempts - 1)) \div 2)

\* What "this call is worth retrying" (main.py) comes to against the limiter.  Unless
\* it has been told to stop, an executor loses a report to the limiter only if RateMax
\* requests of its own were let through in the last RateWindow - Patience before the
\* first attempt: the attempts are not counted against each other, and they go on long
\* enough for all earlier requests to be forgotten.
LostReportWasCrowdedOut ==
  GivesUp => \A i \in 1 .. Len(Current) :
               Current[i] <= firstTry /\ Current[i] > firstTry + Patience - RateWindow
==============================================================================
