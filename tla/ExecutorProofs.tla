--------------------------- MODULE ExecutorProofs ---------------------------
(***************************************************************************)
(* An approved change is made at most once and reported truly, for any     *)
(* number of processes, tickets, faults, signals and crashes.              *)
(***************************************************************************)
EXTENDS Executor, FiniteSetTheorems, SequenceTheorems, TLAPS

Phases == {"absent", "proposed", "cleared", "refused", "withdrawn", "expired", "replaced",
           "running", "succeeded", "failed"}

\* The phases of a proposal that has been started.
Started == {"running", "succeeded", "failed"}

Places == Waiting \cup {"idle", "looping", "executing", "stopped"}

Process ==
  [pc : Places, batch : Seq(Mine), id : Mine \cup {None},
   verdict : {None, "success", "failure"}, attempt : 0 .. ReportAttempts,
   stop : BOOLEAN, dry : BOOLEAN, epoch : Nat]

Answers == {"none", "dry", "refused", "ok", "error", "silence"}

Types ==
  /\ phase \in [Proposal -> Phases]
  /\ loop \in [Replica -> Process]
  /\ \A m \in wire : m.from \in Replica /\ m.call \in Waiting
  /\ answer \in [Proposal -> Answers]
  /\ calls \in [Proposal -> Nat]

\* A report says what became of the change.
True(id, outcome) ==
  id \in Mine /\ answer[id] # "none" /\ outcome = Verdict(answer[id])

\* The ticket a process has in hand is its role's; while it executes it, the gate has it
\* running and nothing has become of it; once it reports, what it reports is true.
HandIsSound(l) ==
  /\ l.pc = "starting" => l.id \in Mine
  /\ l.pc = "executing" => l.id \in Mine /\ phase[l.id] = "running" /\ answer[l.id] = "none"
  /\ l.pc = "reporting" => True(l.id, l.verdict)

RequestIsSound(m) ==
  /\ m.call = "starting" => m.id \in Mine
  /\ m.call = "reporting" => True(m.id, m.outcome)

Executes(r, id) == loop[r].pc = "executing" /\ loop[r].id = id

OneRunner ==
  \A r, s \in Replica : \A id \in Mine : Executes(r, id) /\ Executes(s, id) => r = s

\* What OnlyClearedRuns says of this side of the gate.
RunsAreStarted == \A p \in Proposal : answer[p] # "none" => phase[p] \in Started

CallsAreCounted == \A p \in Proposal : calls[p] <= IF answer[p] = "none" THEN 0 ELSE 1

ExecInv ==
  /\ Types
  /\ \A r \in Replica : HandIsSound(loop[r])
  /\ \A m \in wire : RequestIsSound(m)
  /\ OneRunner
  /\ CallsAreCounted
  /\ RunsAreStarted
  /\ ReportIsTruthful

-----------------------------------------------------------------------------
(* The client.                                                             *)

\* An answer takes a process on: it executes only what a start was granted for, it
\* starts nothing, and it reports again what it has reported.
LEMMA AnswerTakesOn ==
  ASSUME NEW l \in Process, l.pc \in Waiting, NEW code, NEW page \in Seq(Mine)
  PROVE  LET n == AfterAnswer(l, code, page) IN
         /\ n \in Process
         /\ n.stop = l.stop /\ n.epoch = l.epoch
         /\ n.pc \in {"looping", "executing", "reporting"}
         /\ n.pc = "executing" => l.pc = "starting" /\ code = "OK" /\ n.id = l.id
         /\ n.pc = "reporting" => l.pc = "reporting" /\ n.id = l.id /\ n.verdict = l.verdict
<1> DEFINE n == AfterAnswer(l, code, page)
<1>1. NextTicket(l) \in Process
  <2>1. 0 \in 0 .. ReportAttempts
    BY ExecutorAssumption
  <2> QED BY <2>1 DEF NextTicket, Process, Places
<1>2. /\ NextTicket(l).pc = "looping"
      /\ NextTicket(l).stop = l.stop /\ NextTicket(l).epoch = l.epoch
  BY DEF NextTicket, Process
<1>3. CASE l.pc = "listing"
  <2> DEFINE b == IF code = "OK" THEN page ELSE <<>>
  <2>1. n = [l EXCEPT !.pc = "looping", !.batch = b]
    BY <1>3 DEF AfterAnswer
  <2>2. b \in Seq(Mine)
    OBVIOUS
  <2> HIDE DEF n, b
  <2>3. n \in Process /\ n.pc = "looping" /\ n.stop = l.stop /\ n.epoch = l.epoch
    BY <2>1, <2>2 DEF Process, Places
  <2> QED BY <2>3 DEF n
<1>4. CASE l.pc = "starting"
  <2>1. n = IF code = "OK" THEN [l EXCEPT !.pc = "executing"] ELSE NextTicket(l)
    BY <1>4 DEF AfterAnswer
  <2>2. CASE code = "OK"
    <3>1. n = [l EXCEPT !.pc = "executing"]
      BY <2>1, <2>2
    <3> HIDE DEF n
    <3>2. n \in Process /\ n.pc = "executing" /\ n.id = l.id /\ n.stop = l.stop /\ n.epoch = l.epoch
      BY <3>1 DEF Process, Places
    <3> QED BY <1>4, <2>2, <3>2 DEF n
  <2>3. CASE code # "OK"
    BY <1>1, <1>2, <2>1, <2>3
  <2> QED BY <2>2, <2>3
<1>5. CASE l.pc = "reporting"
  <2>1. n = IF code = "ERROR" /\ l.attempt < ReportAttempts
            THEN [l EXCEPT !.attempt = @ + 1] ELSE NextTicket(l)
    BY <1>5 DEF AfterAnswer
  <2>2. CASE code = "ERROR" /\ l.attempt < ReportAttempts
    <3>1. n = [l EXCEPT !.attempt = l.attempt + 1]
      BY <2>1, <2>2
    <3>2. l.attempt + 1 \in 0 .. ReportAttempts
      BY <2>2, ExecutorAssumption DEF Process
    <3> HIDE DEF n
    <3>3. n \in Process
      BY <3>1, <3>2 DEF Process
    <3>4. /\ n.pc = "reporting" /\ n.id = l.id /\ n.verdict = l.verdict
          /\ n.stop = l.stop /\ n.epoch = l.epoch
      BY <1>5, <3>1 DEF Process
    <3> QED BY <1>5, <3>3, <3>4 DEF n
  <2>3. CASE ~(code = "ERROR" /\ l.attempt < ReportAttempts)
    BY <1>1, <1>2, <2>1, <2>3
  <2> QED BY <2>2, <2>3
<1> QED BY <1>3, <1>4, <1>5 DEF Waiting

\* What the gate lists is the role's.
LEMMA PageIsMine == Page \subseteq Seq(Mine)
<1> DEFINE mine == Newest \cap Mine
<1>1. IsFiniteSet(mine)
  BY FS_Subset, ExecutorAssumption
<1>2. Cardinality(mine) \in Nat
  BY <1>1, FS_CardinalityType
<1> HIDE DEF mine
<1>3. \A s \in [1 .. Cardinality(mine) -> mine] : s \in Seq(mine)
  BY <1>2
<1>4. Seq(mine) \subseteq Seq(Mine)
  BY DEF mine
<1> QED BY <1>3, <1>4 DEF Page, mine

\* One process moves and the gate may act on its request: what has to be known of the
\* process's new position l and of the gate's new phases.
LEMMA MoveKeeps ==
  ASSUME ExecInv, NEW r \in Replica, NEW l \in Process, NEW left \in SUBSET wire,
         GoOn(r, l, left), UNCHANGED <<answer, calls>>,
         phase' \in [Proposal -> Phases],
         \A p \in Proposal : phase[p] \in Started => phase'[p] \in Started,
         \A p \in Mine : phase[p] = "running" /\ answer[p] = "none" => phase'[p] = "running",
         ReportIsTruthful',
         l.pc = "starting" => l.id \in Mine,
         l.pc = "executing" => /\ l.id \in Mine /\ phase'[l.id] = "running"
                               /\ answer[l.id] = "none"
                               /\ \A s \in Replica \ {r} : ~Executes(s, l.id),
         l.pc = "reporting" => True(l.id, l.verdict)
  PROVE  ExecInv'
<1> USE DEF ExecInv
<1>1. loop' = [loop EXCEPT ![r] = l] /\ wire' = left \cup Sent(r, l)
  BY DEF GoOn
<1>2. loop'[r] = l /\ \A s \in Replica \ {r} : loop'[s] = loop[s]
  BY <1>1 DEF Types
<1>3. HandIsSound(l)'
  BY DEF HandIsSound, True
<1>4. \A s \in Replica : HandIsSound(loop[s])'
  <2> SUFFICES ASSUME NEW s \in Replica \ {r}
               PROVE  HandIsSound(loop[s])'
    BY <1>2, <1>3 DEF HandIsSound
  <2>1. HandIsSound(loop[s]) /\ loop'[s] = loop[s]
    BY <1>2
  <2> QED BY <2>1 DEF HandIsSound, True
<1>5. \A m \in wire' : m.from \in Replica /\ m.call \in Waiting /\ RequestIsSound(m)'
  <2>1. \A m \in left : m.from \in Replica /\ m.call \in Waiting /\ RequestIsSound(m)'
    BY DEF Types, RequestIsSound, True
  <2>2. ASSUME NEW m \in Sent(r, l)
        PROVE  m.from \in Replica /\ m.call \in Waiting /\ RequestIsSound(m)'
    <3>1. l.pc \in Waiting /\ m = Request(r, l)
      BY <2>2 DEF Sent
    <3>2. m.from = r /\ m.call = l.pc /\ m.id = l.id /\ m.outcome = l.verdict
      BY <3>1 DEF Request
    <3> QED BY <1>3, <3>1, <3>2 DEF HandIsSound, RequestIsSound
  <2> QED BY <1>1, <2>1, <2>2
<1>6. Types'
  BY <1>1, <1>5 DEF Types
<1>7. OneRunner'
  <2> SUFFICES ASSUME NEW s \in Replica, NEW u \in Replica, NEW id \in Mine,
                      Executes(s, id)', Executes(u, id)', s # u
               PROVE  FALSE
    BY DEF OneRunner
  <2>1. CASE s # r /\ u # r
    BY <1>2, <2>1 DEF OneRunner, Executes
  <2>2. CASE s = r
    BY <1>2, <2>2 DEF Executes
  <2>3. CASE u = r
    BY <1>2, <2>3 DEF Executes
  <2> QED BY <2>1, <2>2, <2>3
<1>8. CallsAreCounted' /\ RunsAreStarted'
  BY DEF CallsAreCounted, RunsAreStarted
<1> QED BY <1>4, <1>5, <1>6, <1>7, <1>8

\* The process moves and the gate does not.
LEMMA QuietMoveKeeps ==
  ASSUME ExecInv, NEW r \in Replica, NEW l \in Process, NEW left \in SUBSET wire,
         GoOn(r, l, left), UNCHANGED <<gateVars, answer, calls>>,
         l.pc = "starting" => l.id \in Mine,
         l.pc = "executing" => loop[r].pc = "executing" /\ l.id = loop[r].id,
         l.pc = "reporting" => True(l.id, l.verdict)
  PROVE  ExecInv'
<1>1. phase' = phase /\ answer' = answer
  BY DEF gateVars
<1>2. l.pc = "executing" => /\ l.id \in Mine /\ phase[l.id] = "running"
                            /\ answer[l.id] = "none"
                            /\ \A s \in Replica \ {r} : ~Executes(s, l.id)
  BY DEF ExecInv, HandIsSound, OneRunner, Executes
<1>3. ReportIsTruthful' /\ phase' \in [Proposal -> Phases]
  BY <1>1 DEF ExecInv, ReportIsTruthful, Types
<1> QED BY <1>1, <1>2, <1>3, MoveKeeps

LEMMA ProceedKeeps ==
  ASSUME ExecInv, NEW r \in Replica,
         \/ Poll(r) \/ Take(r) \/ Rest(r) \/ Exit(r) \/ StartAgain(r) \/ Signal(r) \/ Crash(r)
  PROVE  ExecInv'
<1> DEFINE l == loop[r]
<1>1. l \in Process /\ HandIsSound(l)
  BY DEF ExecInv, Types
<1>2. wire \in SUBSET wire
  OBVIOUS
<1>3. CASE Poll(r)
  <2> DEFINE n == [l EXCEPT !.pc = "listing"]
  <2>1. n \in Process /\ n.pc = "listing"
    BY <1>1 DEF Process, Places, Waiting
  <2>2. GoOn(r, n, wire) /\ UNCHANGED <<gateVars, answer, calls>>
    BY <1>3 DEF Poll
  <2> HIDE DEF n
  <2> QED BY <1>2, <2>1, <2>2, QuietMoveKeeps
<1>4. CASE Take(r)
  <2> DEFINE n == [l EXCEPT !.pc = "starting", !.id = Head(l.batch), !.batch = Tail(l.batch)]
  <2>1. l.batch \in Seq(Mine) /\ l.batch # <<>>
    BY <1>1, <1>4 DEF Take, Process
  <2>2. Head(l.batch) \in Mine /\ Tail(l.batch) \in Seq(Mine)
    BY <2>1
  <2>3. n \in Process /\ n.pc = "starting" /\ n.id \in Mine
    BY <1>1, <2>2 DEF Process, Places, Waiting
  <2>4. GoOn(r, n, wire) /\ UNCHANGED <<gateVars, answer, calls>>
    BY <1>4 DEF Take
  <2> HIDE DEF n
  <2> QED BY <1>2, <2>3, <2>4, QuietMoveKeeps
<1>5. CASE Rest(r)
  <2> DEFINE n == [l EXCEPT !.pc = "idle", !.batch = <<>>]
  <2>1. n \in Process /\ n.pc = "idle"
    <3>1. <<>> \in Seq(Mine)
      OBVIOUS
    <3> QED BY <1>1, <3>1 DEF Process, Places, Waiting
  <2>2. GoOn(r, n, wire) /\ UNCHANGED <<gateVars, answer, calls>>
    BY <1>5 DEF Rest
  <2> HIDE DEF n
  <2> QED BY <1>2, <2>1, <2>2, QuietMoveKeeps
<1>6. CASE Exit(r)
  <2> DEFINE n == [l EXCEPT !.pc = "stopped"]
  <2>1. n \in Process /\ n.pc = "stopped"
    BY <1>1 DEF Process, Places, Waiting
  <2>2. GoOn(r, n, wire) /\ UNCHANGED <<gateVars, answer, calls>>
    BY <1>6 DEF Exit
  <2> HIDE DEF n
  <2> QED BY <1>2, <2>1, <2>2, QuietMoveKeeps
<1>7. CASE Signal(r)
  <2> DEFINE n == [l EXCEPT !.stop = TRUE]
  <2>1. n \in Process /\ n.pc = l.pc /\ n.id = l.id /\ n.verdict = l.verdict
    BY <1>1 DEF Process
  <2>2. GoOn(r, n, wire) /\ UNCHANGED <<gateVars, answer, calls>>
    BY <1>7 DEF Signal
  <2> HIDE DEF n
  <2> QED BY <1>1, <1>2, <2>1, <2>2, QuietMoveKeeps DEF HandIsSound
<1>8. CASE StartAgain(r) \/ Crash(r)
  <2>1. PICK dry \in BOOLEAN : GoOn(r, Fresh(l.epoch + 1, dry), wire)
    BY <1>8 DEF StartAgain, Crash
  <2>2. UNCHANGED <<gateVars, answer, calls>>
    BY <1>8 DEF StartAgain, Crash
  <2>3. Fresh(l.epoch + 1, dry) \in Process /\ Fresh(l.epoch + 1, dry).pc = "idle"
    <3>1. l.epoch + 1 \in Nat /\ 0 \in 0 .. ReportAttempts
      BY <1>1, ExecutorAssumption DEF Process
    <3> QED BY <3>1 DEF Fresh, Process, Places
  <2> QED BY <1>2, <2>1, <2>2, <2>3, QuietMoveKeeps
<1> QED BY <1>3, <1>4, <1>5, <1>6, <1>7, <1>8

LEMMA TimeOutKeeps ==
  ASSUME ExecInv, NEW r \in Replica, TimeOut(r)
  PROVE  ExecInv'
<1>1. PICK l \in Process : l = loop[r] /\ HandIsSound(l) /\ l.pc \in Waiting
  BY DEF ExecInv, Types, TimeOut
<1>2. PICK code \in {"ERROR"}, page \in Seq(Mine) : page = <<>>
  <2>1. <<>> \in Seq(Mine) /\ "ERROR" \in {"ERROR"}
    OBVIOUS
  <2> QED BY <2>1
<1> DEFINE a == AfterAnswer(l, code, page)
           n == [a EXCEPT !.epoch = a.epoch + 1]
<1>3. /\ a \in Process /\ a.pc \in {"looping", "executing", "reporting"}
      /\ a.pc # "executing"
      /\ a.pc = "reporting" => l.pc = "reporting" /\ a.id = l.id /\ a.verdict = l.verdict
  <2>1. code # "OK"
    OBVIOUS
  <2> QED BY <1>1, <2>1, AnswerTakesOn
<1>4. GoOn(r, n, wire) /\ UNCHANGED <<gateVars, answer, calls>>
  <2>1. code = "ERROR"
    OBVIOUS
  <2> QED BY <1>1, <1>2, <2>1 DEF TimeOut
<1> HIDE DEF a
<1>5. n \in Process /\ n.pc = a.pc /\ n.id = a.id /\ n.verdict = a.verdict
  <2>1. a \in Process /\ a.epoch + 1 \in Nat
    BY <1>3 DEF Process
  <2>2. n \in Process
    BY <2>1 DEF Process
  <2>3. n.pc = a.pc /\ n.id = a.id /\ n.verdict = a.verdict
    BY <2>1 DEF Process
  <2> QED BY <2>2, <2>3
<1> HIDE DEF n
<1> QED BY <1>1, <1>2, <1>3, <1>4, <1>5, QuietMoveKeeps DEF HandIsSound

\* AWS is asked, or refused before it is asked: by the one process that holds the ticket.
LEMMA ExecuteKeeps ==
  ASSUME ExecInv, NEW r \in Replica, Execute(r)
  PROVE  ExecInv'
<1> USE DEF ExecInv
<1>0. PICK l \in Process, p \in Mine : l = loop[r] /\ p = l.id
  BY DEF Execute, Types, HandIsSound
<1>1. /\ l.pc = "executing" /\ p \in Proposal
      /\ phase[p] = "running" /\ answer[p] = "none"
  BY <1>0, ExecutorAssumption DEF Execute, HandIsSound
<1>2. PICK a \in Answers \ {"none"} :
        /\ answer' = [answer EXCEPT ![p] = a]
        /\ calls' = [calls EXCEPT ![p] = IF a \in {"ok", "error", "silence"} THEN calls[p] + 1
                                         ELSE calls[p]]
        /\ GoOn(r, [l EXCEPT !.pc = "reporting", !.verdict = Verdict(a), !.attempt = 1], wire)
  BY <1>0 DEF Execute, Answers
<1>3. phase' = phase
  BY DEF Execute, gateVars
<1> DEFINE n == [l EXCEPT !.pc = "reporting", !.verdict = Verdict(a), !.attempt = 1]
<1>4. /\ n \in Process /\ n.pc = "reporting" /\ n.id = p /\ n.verdict = Verdict(a)
  <2>1. 1 \in 0 .. ReportAttempts /\ Verdict(a) \in {"success", "failure"}
    BY ExecutorAssumption DEF Verdict
  <2> QED BY <1>0, <2>1 DEF Process, Places, Waiting
<1>5. loop' = [loop EXCEPT ![r] = n] /\ wire' = wire \cup Sent(r, n)
  BY <1>2 DEF GoOn
<1> HIDE DEF n
<1>6. loop'[r] = n /\ \A s \in Replica \ {r} : loop'[s] = loop[s]
  BY <1>5 DEF Types
<1>7. answer'[p] = a /\ \A x \in Proposal \ {p} : answer'[x] = answer[x]
  BY <1>1, <1>2 DEF Types
<1>8. True(p, Verdict(a))'
  BY <1>1, <1>7 DEF True, Verdict
<1>9. \A outcome : \A id \in Mine : True(id, outcome) => True(id, outcome)'
  BY <1>1, <1>7, ExecutorAssumption DEF True, Verdict
<1>10. \A s \in Replica : HandIsSound(loop[s])'
  <2> SUFFICES ASSUME NEW s \in Replica \ {r}
               PROVE  HandIsSound(loop[s])'
    BY <1>4, <1>6, <1>8 DEF HandIsSound
  <2>1. HandIsSound(loop[s]) /\ loop'[s] = loop[s]
    BY <1>6
  <2>2. loop[s].pc = "executing" => loop[s].id # p
    BY <1>0, <1>1 DEF OneRunner, Executes
  <2>3. loop[s].pc = "executing" => answer'[loop[s].id] = "none"
    BY <1>7, <2>1, <2>2, ExecutorAssumption DEF HandIsSound
  <2> QED BY <1>3, <1>9, <2>1, <2>3 DEF HandIsSound, True
<1>11. \A m \in wire' : m.from \in Replica /\ m.call \in Waiting /\ RequestIsSound(m)'
  <2>1. \A m \in wire : m.from \in Replica /\ m.call \in Waiting /\ RequestIsSound(m)'
    BY <1>9 DEF Types, RequestIsSound, True
  <2>2. ASSUME NEW m \in Sent(r, n)
        PROVE  m.from \in Replica /\ m.call \in Waiting /\ RequestIsSound(m)'
    <3>1. n.pc \in Waiting /\ m = Request(r, n)
      BY <2>2 DEF Sent
    <3>2. m.from = r /\ m.call = n.pc /\ m.id = n.id /\ m.outcome = n.verdict
      BY <3>1 DEF Request
    <3> QED BY <1>4, <1>8, <3>1, <3>2 DEF RequestIsSound
  <2> QED BY <1>5, <2>1, <2>2
<1>12. calls[p] = 0
  BY <1>1 DEF CallsAreCounted, Types
<1>13. calls' \in [Proposal -> Nat] /\ CallsAreCounted'
  BY <1>1, <1>2, <1>7, <1>12 DEF CallsAreCounted, Types
<1>14. Types'
  BY <1>1, <1>2, <1>3, <1>4, <1>5, <1>11, <1>13 DEF Types
<1>15. OneRunner'
  BY <1>4, <1>6 DEF OneRunner, Executes
<1>16. RunsAreStarted' /\ ReportIsTruthful'
  BY <1>1, <1>3, <1>7, ExecutorAssumption DEF RunsAreStarted, Started, ReportIsTruthful
<1> QED BY <1>10, <1>11, <1>13, <1>14, <1>15, <1>16

-----------------------------------------------------------------------------
(* The gate.                                                               *)

\* What no step of the gate does to started proposals of the role, unless it records
\* a report: they stay where they are, and no other one gets there.
Undisturbed(p) ==
  phase[p] \in Started \/ phase'[p] \in Started => phase'[p] = phase[p]

LEMMA RunStarts ==
  ASSUME Types, NEW p \in Proposal, Gate!Run(p)
  PROVE  /\ phase[p] = "cleared" /\ phase'[p] = "running"
         /\ phase' \in [Proposal -> Phases]
         /\ \A x \in Proposal \ {p} : phase'[x] = phase[x]
BY DEF Types, Gate!Run, Gate!Move, Phases

LEMMA FinishFinishes ==
  ASSUME Types, NEW p \in Proposal, Gate!Finish(p)
  PROVE  /\ phase[p] = "running" /\ phase'[p] \in {"succeeded", "failed"}
         /\ phase' \in [Proposal -> Phases]
         /\ \A x \in Proposal \ {p} : phase'[x] = phase[x]
<1>1. PICK to \in {"succeeded", "failed"} : phase' = [phase EXCEPT ![p] = to]
  BY DEF Gate!Finish, Gate!Move
<1>2. phase[p] = "running"
  BY DEF Gate!Finish
<1> QED BY <1>1, <1>2 DEF Types, Phases

\* What people and the sweep do.
LEMMA PeopleDoNotDisturb ==
  ASSUME Types, NEW p \in Proposal,
         \/ \E who \in Author : Gate!Propose(p, who)
         \/ \E who \in Person : Gate!Sign(p, who) \/ Gate!Refuse(p, who)
         \/ Gate!Drop(p)
  PROVE  phase' \in [Proposal -> Phases] /\ \A x \in Proposal : Undisturbed(x)
<1>1. PICK to \in {"proposed", "cleared", "refused", "withdrawn", "expired"} :
        phase' = [phase EXCEPT ![p] = to]
  BY DEF Gate!Propose, Gate!Sign, Gate!Refuse, Gate!Drop, Gate!Move
<1>2. phase[p] \notin Started
  BY DEF Gate!Propose, Gate!Sign, Gate!MaySign, Gate!Refuse, Gate!MayDecide, Gate!Drop, Started
<1>3. to \in Phases /\ to \notin Started
  BY DEF Phases, Started
<1> QED BY <1>1, <1>2, <1>3 DEF Types, Undisturbed

LEMMA InheritDoesNotDisturb ==
  ASSUME Types, NEW p \in Proposal, NEW new \in Proposal, NEW who, Gate!Inherit(p, new, who)
  PROVE  phase' \in [Proposal -> Phases] /\ \A x \in Proposal : Undisturbed(x)
<1> DEFINE to == IF phase[p] \in {"proposed", "cleared"} THEN "replaced" ELSE phase[p]
<1>1. phase' = [phase EXCEPT ![p] = to, ![new] = "proposed"]
  BY DEF Gate!Inherit
<1>2. phase[new] = "absent"
  BY DEF Gate!Inherit
<1>3. to \in Phases /\ (to = phase[p] \/ (to \notin Started /\ phase[p] \notin Started))
  <2>1. CASE phase[p] \in {"proposed", "cleared"}
    <3>1. to = "replaced"
      BY <2>1
    <3> HIDE DEF to
    <3> QED BY <2>1, <3>1 DEF Phases, Started
  <2>2. CASE phase[p] \notin {"proposed", "cleared"}
    <3>1. to = phase[p] /\ phase[p] \in Phases
      BY <2>2 DEF Types
    <3> HIDE DEF to
    <3> QED BY <3>1
  <2> QED BY <2>1, <2>2
<1>4. "proposed" \in Phases /\ "proposed" \notin Started /\ "absent" \notin Started
  BY DEF Phases, Started
<1> HIDE DEF to
<1>5. phase' \in [Proposal -> Phases]
  BY <1>1, <1>3, <1>4 DEF Types
<1>6. ASSUME NEW x \in Proposal
      PROVE  Undisturbed(x)
  <2>1. CASE x = new
    BY <1>1, <1>2, <1>4, <2>1 DEF Undisturbed, Types
  <2>2. CASE x # new /\ x = p
    BY <1>1, <1>3, <2>2 DEF Undisturbed, Types
  <2>3. CASE x # new /\ x # p
    BY <1>1, <2>3 DEF Undisturbed, Types
  <2> QED BY <2>1, <2>2, <2>3
<1> QED BY <1>5, <1>6

\* Everybody else: the role's started tickets stay, and a started one stays started.
LEMMA OthersDoNotDisturb ==
  ASSUME Types, Others
  PROVE  /\ phase' \in [Proposal -> Phases]
         /\ \A x \in Mine : Undisturbed(x)
         /\ \A x \in Proposal : phase[x] \in Started => phase'[x] \in Started
<1>1. PICK p \in Proposal :
        \/ \E who \in Author : Gate!Propose(p, who)
        \/ \E who \in Person : Gate!Sign(p, who) \/ Gate!Refuse(p, who)
        \/ Gate!Drop(p)
        \/ p \notin Mine /\ (Gate!Run(p) \/ Gate!Finish(p))
        \/ \E new \in Proposal, who \in Person : Gate!Inherit(p, new, who)
  BY DEF Others
<1>2. (\A x \in Proposal : Undisturbed(x)) =>
         /\ \A x \in Mine : Undisturbed(x)
         /\ \A x \in Proposal : phase[x] \in Started => phase'[x] \in Started
  BY ExecutorAssumption DEF Undisturbed
<1>3. CASE \/ \E who \in Author : Gate!Propose(p, who)
           \/ \E who \in Person : Gate!Sign(p, who) \/ Gate!Refuse(p, who)
           \/ Gate!Drop(p)
  BY <1>2, <1>3, PeopleDoNotDisturb
<1>4. CASE \E new \in Proposal, who \in Person : Gate!Inherit(p, new, who)
  BY <1>2, <1>4, InheritDoesNotDisturb
<1>5. CASE p \notin Mine /\ Gate!Run(p)
  BY <1>5, RunStarts, ExecutorAssumption DEF Undisturbed, Started
<1>6. CASE p \notin Mine /\ Gate!Finish(p)
  BY <1>6, FinishFinishes, ExecutorAssumption DEF Undisturbed, Started
<1> QED BY <1>1, <1>3, <1>4, <1>5, <1>6

LEMMA OthersKeep ==
  ASSUME ExecInv, Others
  PROVE  ExecInv'
<1> USE DEF ExecInv
<1>1. UNCHANGED <<loop, wire, answer, calls>>
  BY DEF Others
<1>2. /\ phase' \in [Proposal -> Phases]
      /\ \A x \in Mine : Undisturbed(x)
      /\ \A x \in Proposal : phase[x] \in Started => phase'[x] \in Started
  BY OthersDoNotDisturb
<1>3. Types'
  BY <1>1, <1>2 DEF Types
<1>4. \A r \in Replica : HandIsSound(loop[r])'
  <2> SUFFICES ASSUME NEW r \in Replica
               PROVE  HandIsSound(loop[r])'
    OBVIOUS
  <2>1. HandIsSound(loop[r])
    OBVIOUS
  <2> QED BY <1>1, <1>2, <2>1 DEF HandIsSound, True, Undisturbed, Started
<1>5. (\A m \in wire : RequestIsSound(m))'
  BY <1>1 DEF RequestIsSound, True
<1>6. OneRunner' /\ CallsAreCounted'
  BY <1>1 DEF OneRunner, Executes, CallsAreCounted
<1>7. RunsAreStarted'
  BY <1>1, <1>2 DEF RunsAreStarted
<1>8. ReportIsTruthful'
  BY <1>1, <1>2 DEF ReportIsTruthful, Undisturbed, Started
<1> QED BY <1>3, <1>4, <1>5, <1>6, <1>7, <1>8

-----------------------------------------------------------------------------
(* Requests and answers.                                                   *)

\* The process that is answered, if any still waits, goes on as l.
LEMMA SeenAs ==
  ASSUME ExecInv, NEW m \in wire, NEW code, Sees(m, code)
  PROVE  /\ m.from \in Replica
         /\ \E l \in Process :
              /\ GoOn(m.from, l, wire \ {m})
              /\ l.pc = "starting" => l.id \in Mine
              /\ l.pc = "reporting" => True(l.id, l.verdict)
              /\ l.pc = "executing" =>
                   \/ loop[m.from].pc = "executing" /\ l.id = loop[m.from].id
                   \/ code = "OK" /\ m.call = "starting" /\ l.id = m.id
<1> USE DEF ExecInv
<1> DEFINE r == m.from
<1>1. r \in Replica
  BY DEF Types
<1>2. PICK page \in Page :
        GoOn(r, IF Awaited(m) THEN AfterAnswer(loop[r], code, page) ELSE loop[r], wire \ {m})
  BY DEF Sees
<1>3. PICK q \in Process : q = loop[r] /\ HandIsSound(q)
  BY <1>1 DEF Types
<1>4. CASE Awaited(m)
  <2> DEFINE l == AfterAnswer(q, code, page)
  <2>1. q.pc \in Waiting /\ m.call = q.pc /\ m.id = q.id
    BY <1>3, <1>4 DEF Awaited, Request
  <2>2. /\ l \in Process /\ l.pc \in {"looping", "executing", "reporting"}
        /\ l.pc = "executing" => q.pc = "starting" /\ code = "OK" /\ l.id = q.id
        /\ l.pc = "reporting" => q.pc = "reporting" /\ l.id = q.id /\ l.verdict = q.verdict
    BY <2>1, PageIsMine, AnswerTakesOn
  <2>3. GoOn(r, l, wire \ {m})
    BY <1>2, <1>3, <1>4
  <2> HIDE DEF l
  <2>4. /\ l.pc = "starting" => l.id \in Mine
        /\ l.pc = "reporting" => True(l.id, l.verdict)
        /\ l.pc = "executing" => code = "OK" /\ m.call = "starting" /\ l.id = m.id
    BY <1>3, <2>1, <2>2 DEF HandIsSound
  <2> QED BY <1>1, <2>2, <2>3, <2>4
<1>5. CASE ~Awaited(m)
  <2>1. GoOn(r, q, wire \ {m})
    BY <1>2, <1>3, <1>5
  <2> QED BY <1>1, <1>3, <2>1 DEF HandIsSound
<1> QED BY <1>4, <1>5

\* What a handler does to started tickets: it starts one that nothing has become of, or
\* records a report, which is true.
LEMMA HandlesSoundly ==
  ASSUME ExecInv, NEW m \in wire, NEW code, Handles(m, code), answer' = answer
  PROVE  /\ phase' \in [Proposal -> Phases]
         /\ \A p \in Proposal : phase[p] \in Started => phase'[p] \in Started
         /\ \A p \in Mine : phase[p] = "running" /\ answer[p] = "none" => phase'[p] = "running"
         /\ ReportIsTruthful'
         /\ code = "OK" /\ m.call = "starting" =>
              m.id \in Mine /\ phase[m.id] = "cleared" /\ phase'[m.id] = "running"
<1> USE DEF ExecInv
<1>1. Types /\ RequestIsSound(m) /\ Mine \subseteq Proposal
  BY ExecutorAssumption
<1>2. CASE UNCHANGED gateVars /\ ~(code = "OK" /\ m.call = "starting")
  <2>1. phase' = phase
    BY <1>2 DEF gateVars
  <2> QED BY <1>2, <2>1 DEF Types, ReportIsTruthful
<1>3. CASE m.call = "starting" /\ code = "OK" /\ Gate!Run(m.id)
  <2>1. m.id \in Mine
    BY <1>1, <1>3 DEF RequestIsSound
  <2>2. /\ phase[m.id] = "cleared" /\ phase'[m.id] = "running"
        /\ phase' \in [Proposal -> Phases]
        /\ \A x \in Proposal \ {m.id} : phase'[x] = phase[x]
    BY <1>1, <1>3, <2>1, RunStarts
  <2>3. ReportIsTruthful'
    BY <1>1, <2>2 DEF ReportIsTruthful
  <2>4. \A p \in Proposal : phase[p] \in Started => phase'[p] \in Started
    BY <2>2 DEF Started
  <2>5. \A p \in Mine : phase[p] = "running" /\ answer[p] = "none" => phase'[p] = "running"
    BY <1>1, <2>2
  <2> QED BY <2>1, <2>2, <2>3, <2>4, <2>5
<1>4. CASE /\ m.call = "reporting" /\ code = "OK" /\ Gate!Finish(m.id)
           /\ phase'[m.id] = IF m.outcome = "success" THEN "succeeded" ELSE "failed"
  <2>1. m.id \in Mine /\ answer[m.id] # "none" /\ m.outcome = Verdict(answer[m.id])
    BY <1>1, <1>4 DEF RequestIsSound, True
  <2>2. /\ phase[m.id] = "running" /\ phase'[m.id] \in {"succeeded", "failed"}
        /\ phase' \in [Proposal -> Phases]
        /\ \A x \in Proposal \ {m.id} : phase'[x] = phase[x]
    BY <1>1, <1>4, <2>1, FinishFinishes
  <2>3. answer[m.id] \in Answers
    BY <1>1, <2>1 DEF Types
  <2>4. /\ phase'[m.id] = "succeeded" => answer[m.id] \in {"ok", "dry"}
        /\ phase'[m.id] = "failed" => answer[m.id] \in {"refused", "error", "silence"}
    BY <1>4, <2>1, <2>3 DEF Verdict, Answers
  <2>5. ReportIsTruthful'
    BY <1>1, <2>2, <2>4 DEF ReportIsTruthful
  <2>6. \A p \in Mine : phase[p] = "running" /\ answer[p] = "none" => phase'[p] = "running"
    BY <1>1, <2>1, <2>2
  <2>7. \A p \in Proposal : phase[p] \in Started => phase'[p] \in Started
    BY <2>2 DEF Started
  <2>8. ~(code = "OK" /\ m.call = "starting")
    BY <1>4
  <2> QED BY <2>2, <2>5, <2>6, <2>7, <2>8
<1>5. \/ UNCHANGED gateVars /\ ~(code = "OK" /\ m.call = "starting")
      \/ m.call = "starting" /\ code = "OK" /\ Gate!Run(m.id)
      \/ /\ m.call = "reporting" /\ code = "OK" /\ Gate!Finish(m.id)
         /\ phase'[m.id] = IF m.outcome = "success" THEN "succeeded" ELSE "failed"
  BY DEF Handles
<1> QED BY <1>2, <1>3, <1>4, <1>5

LEMMA AnswerKeeps ==
  ASSUME ExecInv, NEW m \in wire, NEW code, NEW told, Handles(m, code), Sees(m, told),
         told = "OK" => code = "OK", UNCHANGED <<answer, calls>>
  PROVE  ExecInv'
<1>1. /\ phase' \in [Proposal -> Phases]
      /\ \A p \in Proposal : phase[p] \in Started => phase'[p] \in Started
      /\ \A p \in Mine : phase[p] = "running" /\ answer[p] = "none" => phase'[p] = "running"
      /\ ReportIsTruthful'
      /\ code = "OK" /\ m.call = "starting" =>
           m.id \in Mine /\ phase[m.id] = "cleared" /\ phase'[m.id] = "running"
  BY HandlesSoundly
<1>2. PICK r \in Replica, l \in Process :
        /\ GoOn(r, l, wire \ {m})
        /\ l.pc = "starting" => l.id \in Mine
        /\ l.pc = "reporting" => True(l.id, l.verdict)
        /\ l.pc = "executing" =>
             \/ loop[r].pc = "executing" /\ l.id = loop[r].id
             \/ told = "OK" /\ m.call = "starting" /\ l.id = m.id
  BY SeenAs
<1>3. l.pc = "executing" => /\ l.id \in Mine /\ phase'[l.id] = "running"
                            /\ answer[l.id] = "none"
                            /\ \A s \in Replica \ {r} : ~Executes(s, l.id)
  <2>1. CASE loop[r].pc = "executing" /\ l.id = loop[r].id
    BY <1>1, <2>1 DEF ExecInv, HandIsSound, OneRunner, Executes
  <2>2. CASE told = "OK" /\ m.call = "starting" /\ l.id = m.id
    <3>1. m.id \in Mine /\ m.id \in Proposal /\ phase[m.id] = "cleared" /\ phase'[m.id] = "running"
      BY <1>1, <2>2, ExecutorAssumption
    <3>2. answer[m.id] = "none"
      BY <3>1 DEF ExecInv, RunsAreStarted, Started
    <3>3. \A s \in Replica : ~Executes(s, m.id)
      BY <3>1 DEF ExecInv, HandIsSound, Executes
    <3> QED BY <2>2, <3>1, <3>2, <3>3
  <2> QED BY <1>2, <2>1, <2>2
<1> QED BY <1>1, <1>2, <1>3, MoveKeeps

LEMMA RefuseKeeps ==
  ASSUME ExecInv, NEW m \in wire, Refuse(m)
  PROVE  ExecInv'
<1>1. Sees(m, "ERROR") /\ UNCHANGED <<gateVars, answer, calls>>
  BY DEF Refuse
<1>2. PICK r \in Replica, l \in Process :
        /\ GoOn(r, l, wire \ {m})
        /\ l.pc = "starting" => l.id \in Mine
        /\ l.pc = "reporting" => True(l.id, l.verdict)
        /\ l.pc = "executing" => loop[r].pc = "executing" /\ l.id = loop[r].id
  BY <1>1, SeenAs
<1> QED BY <1>1, <1>2, QuietMoveKeeps

-----------------------------------------------------------------------------
LEMMA InitIsSound ==
  ASSUME Init
  PROVE  ExecInv
<1>1. \A r \in Replica : \E dry \in BOOLEAN : loop[r] = Fresh(0, dry)
  BY DEF Init
<1>2. 0 \in 0 .. ReportAttempts
  BY ExecutorAssumption
<1>3. \A dry \in BOOLEAN : Fresh(0, dry) \in Process /\ Fresh(0, dry).pc = "idle"
  BY <1>2 DEF Fresh, Process, Places
<1>4. \A r \in Replica : loop[r] \in Process /\ loop[r].pc = "idle"
  BY <1>1, <1>3
<1>5. loop \in [Replica -> Process]
  BY <1>4 DEF Init
<1>6. phase = [p \in Proposal |-> "absent"]
  BY DEF Init, Gate!Init
<1>7. Types
  BY <1>5, <1>6 DEF Init, Types, Phases, Answers
<1>8. RunsAreStarted /\ ReportIsTruthful /\ CallsAreCounted
  BY <1>6, ExecutorAssumption DEF Init, RunsAreStarted, ReportIsTruthful, CallsAreCounted
<1>9. wire = {}
  BY DEF Init
<1> QED BY <1>4, <1>7, <1>8, <1>9 DEF ExecInv, HandIsSound, OneRunner, Executes

\* The inductive invariant: what a process has in hand, and what its requests say, goes
\* with the ticket's phase and with what has become of the change.
THEOREM ExecInvariance == Spec => []ExecInv
<1>1. Init => ExecInv
  BY InitIsSound
<1>2. ExecInv /\ [Next]_vars => ExecInv'
  <2> SUFFICES ASSUME ExecInv, [Next]_vars PROVE ExecInv'
    OBVIOUS
  <2>1. CASE UNCHANGED vars
    BY <2>1 DEF vars, gateVars, ExecInv, Types, HandIsSound, RequestIsSound, True, OneRunner,
                Executes, CallsAreCounted, RunsAreStarted, ReportIsTruthful
  <2>2. CASE Others
    BY <2>2, OthersKeep
  <2>3. ASSUME NEW r \in Replica, Proceed(r) \/ TimeOut(r) \/ Signal(r) \/ Crash(r)
        PROVE  ExecInv'
    BY <2>3, ProceedKeeps, ExecuteKeeps, TimeOutKeeps DEF Proceed
  <2>4. ASSUME NEW m \in wire, Answer(m)
        PROVE  ExecInv'
    <3>1. PICK code : Handles(m, code) /\ Sees(m, code)
      BY <2>4 DEF Answer
    <3>2. UNCHANGED <<answer, calls>>
      BY <2>4 DEF Answer
    <3> QED BY <3>1, <3>2, AnswerKeeps
  <2>5. ASSUME NEW m \in wire, AnswerInVain(m)
        PROVE  ExecInv'
    <3>1. PICK code : Handles(m, code)
      BY <2>5 DEF AnswerInVain
    <3>2. Sees(m, "ERROR") /\ UNCHANGED <<answer, calls>>
      BY <2>5 DEF AnswerInVain
    <3>3. "ERROR" # "OK"
      OBVIOUS
    <3> QED BY <3>1, <3>2, <3>3, AnswerKeeps
  <2>6. ASSUME NEW m \in wire, Refuse(m)
        PROVE  ExecInv'
    BY <2>6, RefuseKeeps
  <2> QED BY <2>1, <2>2, <2>3, <2>4, <2>5, <2>6 DEF Next
<1> QED BY <1>1, <1>2, PTL DEF Spec

-----------------------------------------------------------------------------
(* Epochs, which keep the requests of a process apart.                     *)

\* What a process has used up of the bounds: a stop that it has not yet obeyed comes
\* from a signal.
Weight(l) == l.epoch + IF l.stop = TRUE THEN 1 ELSE 0

Used == faults + signals + crashes

Bounded ==
  faults \in 0 .. MaxFaults /\ signals \in 0 .. MaxSignals /\ crashes \in 0 .. MaxCrashes

WeighsOK(l) == Weight(l) <= Used /\ (l.pc = "stopped" => l.stop = TRUE)

EpochInv == Bounded /\ \A r \in Replica : WeighsOK(loop[r])

LEMMA WeightAdds ==
  ASSUME NEW l \in Process
  PROVE  /\ l.epoch \in Nat /\ Weight(l) \in Nat /\ l.epoch <= Weight(l)
         /\ Weight(l) <= l.epoch + 1
         /\ l.stop = TRUE => Weight(l) = l.epoch + 1
         /\ l.stop # TRUE => Weight(l) = l.epoch
<1>1. l.epoch \in Nat
  BY DEF Process
<1>2. \A e \in Nat : e + 1 \in Nat /\ e <= e + 1 /\ e <= e /\ e + 0 = e
  OBVIOUS
<1>3. CASE l.stop = TRUE
  <2>1. Weight(l) = l.epoch + 1
    BY <1>3 DEF Weight
  <2> QED BY <1>1, <1>2, <1>3, <2>1
<1>4. CASE l.stop # TRUE
  <2>1. Weight(l) = l.epoch + 0
    BY <1>4 DEF Weight
  <2> QED BY <1>1, <1>2, <1>4, <2>1
<1> QED BY <1>3, <1>4

\* Processes with the same epoch and stop weigh the same.
LEMMA SameWeight ==
  ASSUME NEW l, NEW n, n.epoch = l.epoch, n.stop = l.stop
  PROVE  Weight(n) = Weight(l)
BY DEF Weight

LEMMA MoveKeepsEpochs ==
  ASSUME Types, EpochInv, NEW r \in Replica, NEW l \in Process, NEW left, GoOn(r, l, left),
         Bounded', Used <= Used', WeighsOK(l)'
  PROVE  EpochInv'
<1>1. loop'[r] = l /\ \A s \in Replica \ {r} : loop'[s] = loop[s]
  BY DEF GoOn, Types
<1>2. Used \in Nat /\ Used' \in Nat
  <2>1. \A a, b, c \in Nat : a + b + c \in Nat
    OBVIOUS
  <2>2. faults \in Nat /\ signals \in Nat /\ crashes \in Nat
    BY ExecutorAssumption DEF EpochInv, Bounded
  <2>3. faults' \in Nat /\ signals' \in Nat /\ crashes' \in Nat
    BY ExecutorAssumption DEF Bounded
  <2> QED BY <2>1, <2>2, <2>3 DEF Used
<1>3. ASSUME NEW s \in Replica
      PROVE  WeighsOK(loop[s])'
  <2>1. CASE s = r
    BY <1>1, <2>1 DEF WeighsOK, Weight
  <2>2. CASE s # r
    <3>1. PICK q \in Process : q = loop[s] /\ q = loop'[s] /\ WeighsOK(q)
      BY <1>1, <2>2 DEF Types, EpochInv
    <3>2. Weight(q) <= Used /\ Weight(q) \in Nat
      BY <3>1, WeightAdds DEF WeighsOK
    <3>3. \A a, b, c \in Nat : a <= b /\ b <= c => a <= c
      OBVIOUS
    <3>4. Weight(q) <= Used'
      BY <1>2, <3>2, <3>3
    <3> QED BY <3>1, <3>4 DEF WeighsOK, Weight
  <2> QED BY <2>1, <2>2
<1> QED BY <1>3 DEF EpochInv

LEMMA UsedIsCounted ==
  ASSUME Bounded
  PROVE  Used \in Nat
<1>1. \A a, b, c \in Nat : a + b + c \in Nat
  OBVIOUS
<1>2. faults \in Nat /\ signals \in Nat /\ crashes \in Nat
  BY ExecutorAssumption DEF Bounded
<1> QED BY <1>1, <1>2 DEF Used

LEMMA NothingSpent ==
  ASSUME Bounded, UNCHANGED <<faults, signals, crashes>>
  PROVE  Bounded' /\ Used' = Used /\ Used <= Used'
<1>1. Bounded' /\ Used' = Used
  BY DEF Bounded, Used
<1>2. \A n \in Nat : n <= n
  OBVIOUS
<1> QED BY <1>1, <1>2, UsedIsCounted

LEMMA OneSpent ==
  ASSUME Bounded,
         \/ Fault /\ UNCHANGED <<signals, crashes>>
         \/ signals < MaxSignals /\ signals' = signals + 1 /\ UNCHANGED <<faults, crashes>>
         \/ crashes < MaxCrashes /\ crashes' = crashes + 1 /\ UNCHANGED <<faults, signals>>
  PROVE  Bounded' /\ Used' = Used + 1 /\ Used <= Used'
<1>1. \A a, b, c \in Nat : /\ (a + 1) + b + c = a + b + c + 1
                           /\ a + (b + 1) + c = a + b + c + 1
                           /\ a + b + c <= a + b + c + 1
  OBVIOUS
<1>2. \A n, max \in Nat : n < max => n + 1 \in 0 .. max
  OBVIOUS
<1>3. /\ faults \in Nat /\ signals \in Nat /\ crashes \in Nat
      /\ MaxFaults \in Nat /\ MaxSignals \in Nat /\ MaxCrashes \in Nat
  BY ExecutorAssumption DEF Bounded
<1>4. Bounded'
  BY <1>2, <1>3 DEF Bounded, Fault
<1>5. CASE Fault /\ UNCHANGED <<signals, crashes>>
  BY <1>1, <1>3, <1>4, <1>5 DEF Used, Fault
<1>6. CASE signals < MaxSignals /\ signals' = signals + 1 /\ UNCHANGED <<faults, crashes>>
  BY <1>1, <1>3, <1>4, <1>6 DEF Used
<1>7. CASE crashes < MaxCrashes /\ crashes' = crashes + 1 /\ UNCHANGED <<faults, signals>>
  BY <1>1, <1>3, <1>4, <1>7 DEF Used
<1> QED BY <1>5, <1>6, <1>7

\* A process that goes on under its epoch weighs what it did.
LEMMA SameEpoch ==
  ASSUME Types, EpochInv, NEW r \in Replica, NEW l \in Process,
         l.epoch = loop[r].epoch, l.stop = loop[r].stop, l.pc = "stopped" => l.stop = TRUE,
         Bounded', Used <= Used'
  PROVE  WeighsOK(l)'
<1>1. PICK q \in Process : q = loop[r] /\ WeighsOK(q)
  BY DEF Types, EpochInv
<1>2. Weight(l) = Weight(q)
  BY <1>1, SameWeight
<1>3. Weight(q) <= Used /\ Weight(q) \in Nat
  BY <1>1, WeightAdds DEF WeighsOK
<1>4. Used \in Nat /\ Used' \in Nat
  BY UsedIsCounted, ExecutorAssumption DEF EpochInv, Bounded, Used
<1>5. \A a, b, c \in Nat : a <= b /\ b <= c => a <= c
  OBVIOUS
<1>6. Weight(l) <= Used'
  BY <1>2, <1>3, <1>4, <1>5
<1> QED BY <1>6 DEF WeighsOK, Weight

\* A process that has used one of the bounds may weigh one more.
LEMMA NextEpoch ==
  ASSUME Types, EpochInv, NEW r \in Replica, NEW l \in Process,
         Weight(l) <= Weight(loop[r]) + 1, l.pc = "stopped" => l.stop = TRUE,
         Bounded', Used' = Used + 1
  PROVE  WeighsOK(l)'
<1>1. PICK q \in Process : q = loop[r] /\ WeighsOK(q)
  BY DEF Types, EpochInv
<1>2. Weight(q) <= Used /\ Weight(q) \in Nat /\ Weight(l) \in Nat
  BY <1>1, WeightAdds DEF WeighsOK
<1>3. Used \in Nat
  BY UsedIsCounted DEF EpochInv
<1>4. \A a, b, c \in Nat : a <= b + 1 /\ b <= c => a <= c + 1
  OBVIOUS
<1>5. Weight(l) <= Used + 1
  BY <1>1, <1>2, <1>3, <1>4
<1> QED BY <1>5 DEF WeighsOK, Weight

LEMMA FreshProcess ==
  ASSUME NEW e \in Nat, NEW dry \in BOOLEAN
  PROVE  /\ Fresh(e, dry) \in Process /\ Fresh(e, dry).pc = "idle"
         /\ Weight(Fresh(e, dry)) = e
<1>1. 0 \in 0 .. ReportAttempts
  BY ExecutorAssumption
<1>2. Fresh(e, dry) \in Process /\ Fresh(e, dry).pc = "idle"
  BY <1>1 DEF Fresh, Process, Places
<1>3. Fresh(e, dry).epoch = e /\ Fresh(e, dry).stop # TRUE
  BY DEF Fresh
<1> QED BY <1>2, <1>3, WeightAdds

LEMMA SeenKeepsEpochs ==
  ASSUME Types, EpochInv, NEW m \in wire, NEW code, Sees(m, code), Bounded', Used <= Used'
  PROVE  EpochInv'
<1> DEFINE r == m.from
<1>1. r \in Replica
  BY DEF Types
<1>2. PICK page \in Page :
        GoOn(r, IF Awaited(m) THEN AfterAnswer(loop[r], code, page) ELSE loop[r], wire \ {m})
  BY DEF Sees
<1>3. PICK q \in Process : q = loop[r] /\ WeighsOK(q)
  BY <1>1 DEF Types, EpochInv
<1> HIDE DEF r
<1>4. CASE Awaited(m)
  <2> DEFINE l == AfterAnswer(q, code, page)
  <2>1. q.pc \in Waiting
    BY <1>3, <1>4 DEF Awaited, r
  <2>2. l \in Process /\ l.pc # "stopped" /\ l.stop = q.stop /\ l.epoch = q.epoch
    BY <2>1, PageIsMine, AnswerTakesOn
  <2>3. GoOn(r, l, wire \ {m})
    BY <1>2, <1>3, <1>4
  <2> HIDE DEF l
  <2>4. WeighsOK(l)'
    BY <1>1, <1>3, <2>2, SameEpoch
  <2> QED BY <1>1, <2>2, <2>3, <2>4, MoveKeepsEpochs
<1>5. CASE ~Awaited(m)
  <2>1. GoOn(r, q, wire \ {m})
    BY <1>2, <1>3, <1>5
  <2>2. q.pc = "stopped" => q.stop = TRUE
    BY <1>3 DEF WeighsOK
  <2>3. WeighsOK(q)'
    BY <1>1, <1>3, <2>2, SameEpoch
  <2> QED BY <1>1, <2>1, <2>3, MoveKeepsEpochs
<1> QED BY <1>4, <1>5

LEMMA StepKeepsEpochs ==
  ASSUME Types, EpochInv, NEW r \in Replica, Poll(r) \/ Take(r) \/ Rest(r) \/ Execute(r) \/ Exit(r)
  PROVE  EpochInv'
<1>1. PICK q \in Process : q = loop[r]
  BY DEF Types
<1>2. Bounded' /\ Used <= Used'
  <2>1. UNCHANGED <<faults, signals, crashes>> /\ Bounded
    BY DEF Poll, Take, Rest, Execute, Exit, EpochInv
  <2> QED BY <2>1, NothingSpent
<1>3. PICK n : /\ GoOn(r, n, wire) /\ n \in Process
               /\ n.stop = q.stop /\ n.epoch = q.epoch
               /\ n.pc = "stopped" => q.stop = TRUE
  <2>1. CASE Poll(r)
    <3> DEFINE n == [q EXCEPT !.pc = "listing"]
    <3>1. GoOn(r, n, wire)
      BY <1>1, <2>1 DEF Poll
    <3>2. n \in Process /\ n.stop = q.stop /\ n.epoch = q.epoch /\ n.pc = "listing"
      BY DEF Process, Places, Waiting
    <3> HIDE DEF n
    <3> QED BY <3>1, <3>2
  <2>2. CASE Take(r)
    <3> DEFINE n == [q EXCEPT !.pc = "starting", !.id = Head(q.batch), !.batch = Tail(q.batch)]
    <3>1. q.batch \in Seq(Mine) /\ q.batch # <<>>
      BY <1>1, <2>2 DEF Take, Process
    <3>2. Head(q.batch) \in Mine /\ Tail(q.batch) \in Seq(Mine)
      BY <3>1
    <3>3. GoOn(r, n, wire)
      BY <1>1, <2>2 DEF Take
    <3>4. n \in Process /\ n.stop = q.stop /\ n.epoch = q.epoch /\ n.pc = "starting"
      BY <3>2 DEF Process, Places, Waiting
    <3> HIDE DEF n
    <3> QED BY <3>3, <3>4
  <2>3. CASE Rest(r)
    <3> DEFINE n == [q EXCEPT !.pc = "idle", !.batch = <<>>]
    <3>1. GoOn(r, n, wire)
      BY <1>1, <2>3 DEF Rest
    <3>2. <<>> \in Seq(Mine)
      OBVIOUS
    <3>3. n \in Process /\ n.stop = q.stop /\ n.epoch = q.epoch /\ n.pc = "idle"
      BY <3>2 DEF Process, Places
    <3> HIDE DEF n
    <3> QED BY <3>1, <3>3
  <2>4. CASE Execute(r)
    <3>1. PICK a : GoOn(r, [q EXCEPT !.pc = "reporting", !.verdict = Verdict(a), !.attempt = 1],
                        wire)
      BY <1>1, <2>4 DEF Execute
    <3> DEFINE n == [q EXCEPT !.pc = "reporting", !.verdict = Verdict(a), !.attempt = 1]
    <3>2. 1 \in 0 .. ReportAttempts /\ Verdict(a) \in {"success", "failure"}
      BY ExecutorAssumption DEF Verdict
    <3>3. n \in Process /\ n.stop = q.stop /\ n.epoch = q.epoch /\ n.pc = "reporting"
      BY <3>2 DEF Process, Places, Waiting
    <3>4. GoOn(r, n, wire)
      BY <3>1
    <3> HIDE DEF n
    <3> QED BY <3>3, <3>4
  <2>5. CASE Exit(r)
    <3> DEFINE n == [q EXCEPT !.pc = "stopped"]
    <3>1. GoOn(r, n, wire) /\ q.stop = TRUE
      BY <1>1, <2>5 DEF Exit, Process
    <3>2. n \in Process /\ n.stop = q.stop /\ n.epoch = q.epoch
      BY DEF Process, Places
    <3> HIDE DEF n
    <3> QED BY <3>1, <3>2
  <2> QED BY <2>1, <2>2, <2>3, <2>4, <2>5
<1>4. WeighsOK(n)'
  <2>1. n.epoch = loop[r].epoch /\ n.stop = loop[r].stop /\ (n.pc = "stopped" => n.stop = TRUE)
    BY <1>1, <1>3
  <2> QED BY <1>2, <1>3, <2>1, SameEpoch
<1> QED BY <1>2, <1>3, <1>4, MoveKeepsEpochs

\* A stop, a death and a time-out use up one of their bound each.
LEMMA SpendKeepsEpochs ==
  ASSUME Types, EpochInv, NEW r \in Replica, TimeOut(r) \/ Signal(r) \/ Crash(r)
  PROVE  EpochInv'
<1>1. PICK q \in Process : q = loop[r] /\ WeighsOK(q)
  BY DEF Types, EpochInv
<1>2. Bounded' /\ Used' = Used + 1 /\ Used <= Used'
  <2>1. Bounded
    BY DEF EpochInv
  <2>2. \/ Fault /\ UNCHANGED <<signals, crashes>>
        \/ signals < MaxSignals /\ signals' = signals + 1 /\ UNCHANGED <<faults, crashes>>
        \/ crashes < MaxCrashes /\ crashes' = crashes + 1 /\ UNCHANGED <<faults, signals>>
    BY DEF TimeOut, Signal, Crash
  <2> QED BY <2>1, <2>2, OneSpent
<1>3. q.epoch \in Nat /\ Weight(q) \in Nat /\ q.epoch <= Weight(q)
  BY WeightAdds
<1>4. \A a \in Nat : a + 1 \in Nat /\ a + 1 <= a + 1 /\ a <= a + 1
  OBVIOUS
<1>5. \A a, b \in Nat : a <= b => a + 1 <= b + 1
  OBVIOUS
<1>6. PICK n : /\ GoOn(r, n, wire) /\ n \in Process
               /\ Weight(n) <= Weight(q) + 1
               /\ n.pc = "stopped" => n.stop = TRUE
  <2>1. CASE TimeOut(r)
    <3>1. PICK code \in {"ERROR"}, page \in Seq(Mine) : page = <<>>
      <4>1. <<>> \in Seq(Mine) /\ "ERROR" \in {"ERROR"}
        OBVIOUS
      <4> QED BY <4>1
    <3> DEFINE a == AfterAnswer(q, code, page)
               n == [a EXCEPT !.epoch = a.epoch + 1]
    <3>2. q.pc \in Waiting
      BY <1>1, <2>1 DEF TimeOut
    <3>3. a \in Process /\ a.pc # "stopped" /\ a.stop = q.stop /\ a.epoch = q.epoch
      BY <3>2, AnswerTakesOn
    <3>4. GoOn(r, n, wire)
      BY <1>1, <2>1, <3>1 DEF TimeOut
    <3> HIDE DEF a
    <3>5. a.epoch + 1 \in Nat
      BY <1>3, <1>4, <3>3
    <3>6. n \in Process /\ n.pc = a.pc /\ n.stop = a.stop /\ n.epoch = a.epoch + 1
      BY <3>3, <3>5 DEF Process
    <3> HIDE DEF n
    <3>7. Weight(n) <= Weight(q) + 1
      <4>1. CASE q.stop = TRUE
        <5>1. Weight(q) = q.epoch + 1 /\ Weight(n) = q.epoch + 1 + 1
          BY <3>3, <3>6, <4>1, WeightAdds
        <5> QED BY <1>3, <1>4, <5>1
      <4>2. CASE q.stop # TRUE
        <5>1. Weight(q) = q.epoch /\ Weight(n) = q.epoch + 1
          BY <3>3, <3>6, <4>2, WeightAdds
        <5> QED BY <1>3, <1>4, <5>1
      <4> QED BY <4>1, <4>2
    <3> QED BY <3>3, <3>4, <3>6, <3>7
  <2>2. CASE Signal(r)
    <3> DEFINE n == [q EXCEPT !.stop = TRUE]
    <3>1. GoOn(r, n, wire) /\ q.stop # TRUE
      BY <1>1, <2>2 DEF Signal
    <3>2. n \in Process /\ n.stop = TRUE /\ n.epoch = q.epoch
      BY DEF Process
    <3> HIDE DEF n
    <3>3. Weight(q) = q.epoch /\ Weight(n) = q.epoch + 1
      BY <3>1, <3>2, WeightAdds
    <3> QED BY <1>3, <1>4, <3>1, <3>2, <3>3
  <2>3. CASE Crash(r)
    <3>1. PICK dry \in BOOLEAN : GoOn(r, Fresh(q.epoch + 1, dry), wire)
      BY <1>1, <2>3 DEF Crash
    <3> DEFINE n == Fresh(q.epoch + 1, dry)
    <3>2. n \in Process /\ n.pc = "idle" /\ Weight(n) = q.epoch + 1
      BY <1>3, <1>4, FreshProcess
    <3>3. GoOn(r, n, wire)
      BY <3>1
    <3> HIDE DEF n
    <3>4. Weight(n) <= Weight(q) + 1
      BY <1>3, <1>5, <3>2
    <3> QED BY <3>2, <3>3, <3>4
  <2> QED BY <2>1, <2>2, <2>3
<1>7. WeighsOK(n)'
  <2>1. Weight(n) <= Weight(loop[r]) + 1
    BY <1>1, <1>6
  <2> QED BY <1>2, <1>6, <2>1, NextEpoch
<1> QED BY <1>2, <1>6, <1>7, MoveKeepsEpochs

\* The new process has obeyed the stop of the old one.
LEMMA StartKeepsEpochs ==
  ASSUME Types, EpochInv, NEW r \in Replica, StartAgain(r)
  PROVE  EpochInv'
<1>1. PICK q \in Process : q = loop[r] /\ WeighsOK(q) /\ q.pc = "stopped"
  BY DEF Types, EpochInv, StartAgain
<1>2. UNCHANGED <<faults, signals, crashes>> /\ Bounded
  BY DEF StartAgain, EpochInv
<1>3. Bounded' /\ Used' = Used /\ Used <= Used'
  BY <1>2, NothingSpent
<1>4. q.epoch \in Nat /\ Weight(q) = q.epoch + 1 /\ Weight(q) <= Used
  BY <1>1, WeightAdds DEF WeighsOK
<1>5. q.epoch + 1 \in Nat
  BY <1>4
<1>6. PICK dry \in BOOLEAN : GoOn(r, Fresh(q.epoch + 1, dry), wire)
  BY <1>1 DEF StartAgain
<1> DEFINE n == Fresh(q.epoch + 1, dry)
<1>7. n \in Process /\ n.pc = "idle" /\ Weight(n) = q.epoch + 1
  BY <1>5, FreshProcess
<1>8. GoOn(r, n, wire)
  BY <1>6
<1>9. PICK k \in Process : k = n
  BY <1>7
<1> HIDE DEF n
<1>10. WeighsOK(k)'
  BY <1>3, <1>4, <1>7, <1>9 DEF WeighsOK, Weight
<1> QED BY <1>3, <1>8, <1>9, <1>10, MoveKeepsEpochs

LEMMA EpochsKeep ==
  ASSUME ExecInv, EpochInv, [Next]_vars
  PROVE  EpochInv'
<1>1. Types /\ Bounded
  BY DEF ExecInv, EpochInv
<1>2. CASE UNCHANGED vars \/ Others
  <2>1. UNCHANGED <<loop, faults, signals, crashes>>
    BY <1>2 DEF vars, Others
  <2> QED BY <2>1 DEF EpochInv, Bounded, WeighsOK, Weight, Used
<1>3. ASSUME NEW r \in Replica, Proceed(r) \/ TimeOut(r) \/ Signal(r) \/ Crash(r)
      PROVE  EpochInv'
  BY <1>1, <1>3, StepKeepsEpochs, SpendKeepsEpochs, StartKeepsEpochs DEF Proceed
<1>4. ASSUME NEW m \in wire, Answer(m)
      PROVE  EpochInv'
  <2>1. PICK code : Sees(m, code)
    BY <1>4 DEF Answer
  <2>2. UNCHANGED <<faults, signals, crashes>>
    BY <1>4 DEF Answer
  <2>3. Bounded' /\ Used <= Used'
    BY <1>1, <2>2, NothingSpent
  <2> QED BY <1>1, <2>1, <2>3, SeenKeepsEpochs
<1>5. ASSUME NEW m \in wire, AnswerInVain(m) \/ Refuse(m)
      PROVE  EpochInv'
  <2>1. Sees(m, "ERROR") /\ Fault /\ UNCHANGED <<signals, crashes>>
    BY <1>5 DEF AnswerInVain, Refuse
  <2>2. Bounded' /\ Used <= Used'
    BY <1>1, <2>1, OneSpent
  <2> QED BY <1>1, <2>1, <2>2, SeenKeepsEpochs
<1> QED BY <1>2, <1>3, <1>4, <1>5 DEF Next

\* Every process that has been given up, and every stop, has used one of the bounds.
THEOREM EpochInvariance == Spec => []EpochInv
<1>1. Init => EpochInv
  <2> SUFFICES ASSUME Init PROVE EpochInv
    OBVIOUS
  <2>1. Bounded /\ Used = 0
    <3>1. 0 + 0 + 0 = 0 /\ \A n \in Nat : 0 \in 0 .. n
      OBVIOUS
    <3> QED BY <3>1, ExecutorAssumption DEF Init, Bounded, Used
  <2>2. ASSUME NEW r \in Replica
        PROVE  WeighsOK(loop[r])
    <3>1. PICK dry \in BOOLEAN : loop[r] = Fresh(0, dry)
      BY DEF Init
    <3>2. Fresh(0, dry).pc = "idle" /\ Weight(Fresh(0, dry)) = 0
      BY FreshProcess
    <3> QED BY <2>1, <3>1, <3>2 DEF WeighsOK
  <2> QED BY <2>1, <2>2 DEF EpochInv
<1>2. ExecInv /\ EpochInv /\ [Next]_vars => EpochInv'
  BY EpochsKeep
<1> QED BY <1>1, <1>2, ExecInvariance, PTL DEF Spec

\* main.py: processes and requests are well-formed, and no report is tried more often
\* than the limit says.
THEOREM TypeCorrect == Spec => []TypeOK
<1>1. ExecInv /\ EpochInv => TypeOK
  <2> SUFFICES ASSUME ExecInv, EpochInv PROVE TypeOK
    OBVIOUS
  <2>1. Types
    BY DEF ExecInv
  <2> DEFINE M == MaxFaults + MaxSignals + MaxCrashes
             Small == [pc : Waiting \cup {"idle", "looping", "executing", "stopped"},
                       batch : Seq(Mine), id : Mine \cup {None},
                       verdict : {None, "success", "failure"}, attempt : 0 .. ReportAttempts,
                       stop : BOOLEAN, dry : BOOLEAN, epoch : 0 .. M]
  <2>2. Used \in Nat /\ M \in Nat /\ Used <= M
    <3>1. \A a, b, c, x, y, z \in Nat :
            a \in 0 .. x /\ b \in 0 .. y /\ c \in 0 .. z =>
              a + b + c \in Nat /\ x + y + z \in Nat /\ a + b + c <= x + y + z
      OBVIOUS
    <3>2. /\ faults \in Nat /\ signals \in Nat /\ crashes \in Nat
          /\ MaxFaults \in Nat /\ MaxSignals \in Nat /\ MaxCrashes \in Nat
      BY ExecutorAssumption DEF EpochInv, Bounded
    <3> QED BY <3>1, <3>2 DEF EpochInv, Bounded, Used
  <2> HIDE DEF M
  <2>3. ASSUME NEW r \in Replica
        PROVE  loop[r] \in Small
    <3>1. PICK q \in Process : q = loop[r] /\ WeighsOK(q)
      BY <2>1 DEF Types, EpochInv
    <3>2. q.epoch \in Nat /\ Weight(q) \in Nat /\ q.epoch <= Weight(q) /\ Weight(q) <= Used
      BY <3>1, WeightAdds DEF WeighsOK
    <3>3. \A a, b, c, d \in Nat : a <= b /\ b <= c /\ c <= d => a \in 0 .. d
      OBVIOUS
    <3>4. q.epoch \in 0 .. M
      BY <2>2, <3>2, <3>3
    <3> QED BY <3>1, <3>4 DEF Process, Places
  <2>4. loop \in [Replica -> Small]
    BY <2>1, <2>3 DEF Types
  <2> QED BY <2>1, <2>4 DEF TypeOK, Types, Answers, M
<1> QED BY <1>1, ExecInvariance, EpochInvariance, PTL

-----------------------------------------------------------------------------
\* main.py and agent_tickets.py: AWS is asked at most once for a ticket, however many
\* processes poll for it and whatever becomes of their requests.
THEOREM CalledAtMostOnce == Spec => []AtMostOneCall
<1>1. ExecInv => AtMostOneCall
  BY DEF ExecInv, Types, CallsAreCounted, AtMostOneCall
<1> QED BY <1>1, ExecInvariance, PTL

-----------------------------------------------------------------------------
(* The executor and everybody else keep to the contract.                   *)

Facts == INSTANCE GateContractProofs

\* The contract of Executor is the one GateContractProofs is about.
LEMMA SameContract ==
  /\ Gate!Init <=> Facts!Init
  /\ Gate!Next <=> Facts!Next
  /\ [Gate!Next]_gateVars =>
       [Gate!Next]_Gate!contractVars /\ [Facts!Next]_Facts!contractVars
<1>1. Gate!Init <=> Facts!Init
  BY DEF Gate!Init, Facts!Init
<1>2. Gate!Next <=> Facts!Next
  BY DEF Gate!Next, Gate!Propose, Gate!Sign, Gate!MaySign, Gate!Refuse, Gate!MayDecide,
         Gate!Drop, Gate!Run, Gate!Finish, Gate!Inherit, Gate!Move, Gate!Cardinality,
         Facts!Next, Facts!Propose, Facts!Sign, Facts!MaySign, Facts!Refuse, Facts!MayDecide,
         Facts!Drop, Facts!Run, Facts!Finish, Facts!Inherit, Facts!Move, Facts!Cardinality
<1>3. UNCHANGED gateVars => UNCHANGED Gate!contractVars /\ UNCHANGED Facts!contractVars
  BY DEF Gate!contractVars, Facts!contractVars, gateVars
<1> QED BY <1>1, <1>2, <1>3

\* A request is about a proposal of the role, so its handler takes a step of the contract.
LEMMA HandlerKeepsContract ==
  ASSUME ExecInv, NEW m \in wire, NEW code, Handles(m, code)
  PROVE  [Gate!Next]_gateVars
<1>1. Mine \subseteq Proposal /\ RequestIsSound(m)
  BY ExecutorAssumption DEF ExecInv
<1>2. CASE UNCHANGED gateVars
  BY <1>2
<1>3. CASE m.call = "starting" /\ Gate!Run(m.id)
  <2>1. m.id \in Proposal
    BY <1>1, <1>3 DEF RequestIsSound
  <2> QED BY <1>3, <2>1 DEF Gate!Next
<1>4. CASE m.call = "reporting" /\ Gate!Finish(m.id)
  <2>1. m.id \in Proposal
    BY <1>1, <1>4 DEF RequestIsSound, True
  <2> QED BY <1>4, <2>1 DEF Gate!Next
<1> QED BY <1>2, <1>3, <1>4 DEF Handles

LEMMA StepKeepsContract ==
  ASSUME ExecInv, [Next]_vars
  PROVE  [Gate!Next]_gateVars
<1>1. CASE Others
  BY <1>1 DEF Others, Gate!Next
<1>2. ASSUME NEW r \in Replica, Proceed(r) \/ TimeOut(r) \/ Signal(r) \/ Crash(r)
      PROVE  UNCHANGED gateVars
  BY <1>2 DEF Proceed, Poll, Take, Rest, Execute, Exit, StartAgain, TimeOut, Signal, Crash
<1>3. ASSUME NEW m \in wire, Answer(m) \/ AnswerInVain(m)
      PROVE  [Gate!Next]_gateVars
  <2>1. \E code : Handles(m, code)
    BY <1>3 DEF Answer, AnswerInVain
  <2> QED BY <2>1, HandlerKeepsContract
<1>4. ASSUME NEW m \in wire, Refuse(m)
      PROVE  UNCHANGED gateVars
  BY <1>4 DEF Refuse
<1>5. CASE UNCHANGED vars
  BY <1>5 DEF vars
<1> QED BY <1>1, <1>2, <1>3, <1>4, <1>5 DEF Next

\* Whatever becomes of processes, requests and answers, the gate sees one atomic
\* operation of its contract at a time: the executor implements GateContract too.
THEOREM ExecutorKeepsContract == Spec => Gate!Spec
<1>1. Init => Gate!Init
  BY DEF Init
<1>2. ExecInv /\ [Next]_vars => [Gate!Next]_Gate!contractVars
  BY StepKeepsContract, SameContract
<1> QED BY <1>1, <1>2, ExecInvariance, PTL DEF Spec, Gate!Spec

LEMMA ContractIsInvariant == Spec => []Facts!ContractInv
<1>1. Init => Facts!ContractInv
  BY SameContract, Facts!ContractInit DEF Init
<1>2. Facts!ContractInv /\ ExecInv /\ [Next]_vars => Facts!ContractInv'
  BY SameContract, StepKeepsContract, Facts!ContractStep
<1> QED BY <1>1, <1>2, ExecInvariance, PTL DEF Spec

\* process_ticket: what was executed had been cleared and was still wanted; as many
\* people as required had signed it, its author not among them.
THEOREM ClearedBeforeRun == Spec => []OnlyClearedRuns
<1>1. ExecInv /\ Facts!ContractInv => OnlyClearedRuns
  <2> SUFFICES ASSUME ExecInv, Facts!ContractInv, NEW p \in Proposal, answer[p] # "none"
               PROVE  /\ phase[p] \in {"running", "succeeded", "failed"}
                      /\ Cardinality(signers[p]) >= Required
                      /\ AllowSelf \/ author[p] \notin signers[p]
    BY DEF OnlyClearedRuns
  <2>1. phase[p] \in {"running", "succeeded", "failed"}
    BY DEF ExecInv, RunsAreStarted, Started
  <2>2. Facts!Cardinality(signers[p]) >= Required /\ (AllowSelf \/ author[p] \notin signers[p])
    BY <2>1 DEF Facts!ContractInv, Facts!SignedBeforeRun, Facts!Enough
  <2>3. Facts!Cardinality(signers[p]) = Cardinality(signers[p])
    BY DEF Facts!Cardinality, Cardinality
  <2> QED BY <2>1, <2>2, <2>3
<1> QED BY <1>1, ExecInvariance, ContractIsInvariant, PTL

\* agent_tickets.py: an outcome on record is never overwritten, by a late report or by
\* another process; nor who had signed for it.
THEOREM RecordsAreFinal == Spec => Gate!EndsAreFinal
<1>1. Facts!ContractInv /\ ExecInv /\ [Next]_vars =>
        [\A p \in Proposal : Gate!LeavesEnds(p)]_Gate!contractVars
  <2> SUFFICES ASSUME Facts!ContractInv, ExecInv, [Next]_vars, NEW p \in Proposal
               PROVE  Gate!LeavesEnds(p)
    OBVIOUS
  <2>1. Facts!LeavesEnds(p)
    BY SameContract, StepKeepsContract, Facts!StepLeavesEnds
  <2> QED BY <2>1 DEF Gate!LeavesEnds, Facts!LeavesEnds
<1> QED BY <1>1, ExecInvariance, ContractIsInvariant, PTL DEF Spec, Gate!EndsAreFinal

\* _report: the gate's record says what became of the AWS call.
THEOREM RecordsAreTruthful == Spec => []ReportIsTruthful
<1>1. ExecInv => ReportIsTruthful
  BY DEF ExecInv
<1> QED BY <1>1, ExecInvariance, PTL
=============================================================================
