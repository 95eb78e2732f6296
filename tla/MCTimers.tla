------------------------------ MODULE MCTimers ------------------------------
(***************************************************************************)
(* The two parts that act by the clock, checked side by side: the sweep,   *)
(* which wakes up and pages through the tickets, and the portal's page,    *)
(* which polls one.  They share no state, so in each behaviour one of them *)
(* takes its steps while the other rests in its initial state.             *)
(***************************************************************************)
EXTENDS ExpirySweep, TicketPage

VARIABLE focus  \* the component that takes the steps

At(name) == focus = name

TimersInit ==
  /\ focus \in {"sweep", "page"}
  /\ Init /\ PageInit

SweepStep == At("sweep") /\ Next /\ UNCHANGED pageVars
PageStep == At("page") /\ PageNext /\ UNCHANGED vars

TimersNext ==
  /\ SweepStep \/ PageStep
  /\ UNCHANGED focus

\* As in FairSpec: the sweep goes on, and time passes.
SweepFairness ==
  /\ WF_vars(At("sweep") /\ Sweep)
  /\ WF_vars(At("sweep") /\ Tick)

\* A page in front polls, and the gate answers.  Nothing is assumed of people.
PageFairness ==
  \A who \in Watcher :
    /\ WF_pageVars(At("page") /\ Poll(who))
    /\ WF_pageVars(At("page") /\ Read(who))
    /\ WF_pageVars(At("page") /\ Arrive(who))

TimersSpec ==
  /\ TimersInit /\ [][TimersNext]_<<vars, pageVars, focus>>
  /\ SweepFairness /\ PageFairness
==============================================================================
