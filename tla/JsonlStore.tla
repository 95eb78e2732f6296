----------------------------- MODULE JsonlStore -----------------------------
(***************************************************************************)
(* The jsonl backend on disk: repo/jsonl_store.py, through crashes in the  *)
(* middle of a write, failed writes and restarts.                          *)
(*                                                                         *)
(* The log file is a sequence of tokens: the JSON text of one event, the   *)
(* newline after it, or what a cut-off write leaves of a JSON text.  The   *)
(* replay splits at the newlines; a line parses when it is exactly one     *)
(* complete JSON text.  Two texts on one line, or a fragment, do not.      *)
(*                                                                         *)
(* Calls are atomic here: the store's methods hold the lock and never      *)
(* suspend.  The events are the ones that matter to the file: creation, a  *)
(* comment, a withdrawal and the two-line supersede.                       *)
(***************************************************************************)
EXTENDS TicketFold, FiniteSets, SequencesExt

CONSTANTS
  Fragment,  \* what may be left of a JSON text: "torn", or "cutCharacter" when
             \* the cut falls inside a multi-byte character
  MaxEvents, \* bound: events per ticket
  MaxCrashes,\* bound: crashes and restarts
  MaxErrors  \* bound: writes that fail without a crash

ASSUME FragmentAssumption == Fragment \subseteq {"torn", "cutCharacter"}

ASSUME BoundsAssumption == MaxCrashes \in Nat /\ MaxErrors \in Nat

VARIABLES
  file,     \* tickets.jsonl
  mode,     \* the gate process: "up", "down", or "aborted" when a boot has failed
  tickets,  \* _tickets
  events,   \* _events
  crashes,
  errors,
  acked,    \* history: the logs as of the last call that returned to its caller
  tornAt    \* history: length of the file after the first cut-off write; 0 if none

vars == <<file, mode, tickets, events, crashes, errors, acked, tornAt>>

NoTickets == [id \in {} |-> None]

Init ==
  /\ file = <<>>
  /\ mode = "up"
  /\ tickets = NoTickets
  /\ events = NoTickets
  /\ crashes = 0
  /\ errors = 0
  /\ acked = NoTickets
  /\ tornAt = 0

-----------------------------------------------------------------------------
(* Replay.                                                                 *)

Text(id, e) == [kind |-> "event", id |-> id, event |-> e]
Newline == [kind |-> "newline"]

AddToken(lines, token) ==
  IF token = Newline THEN Append(lines, <<>>)
  ELSE [lines EXCEPT ![Len(lines)] = Append(@, token)]

\* read_bytes().split(b"\n")
Lines(f) == FoldLeft(AddToken, << <<>> >>, f)

Parses(line) == Len(line) = 1 /\ line[1].kind = "event"

\* json.loads decodes the bytes first: UnicodeDecodeError is no JSONDecodeError.
Undecodable(line) == \E i \in DOMAIN line : line[i].kind = "cutCharacter"

Put(d, k, v) == [x \in DOMAIN d \cup {k} |-> IF x = k THEN v ELSE d[x]]

Failed == [ok |-> FALSE, tickets |-> NoTickets, events |-> NoTickets]

\* Fault: creation forgets the log.
ApplyToStateWithoutLog(s, id, e) ==
  IF e.type = "TICKET_CREATED" THEN [s EXCEPT !.tickets = Put(@, id, e.details)]
  ELSE IF id \in DOMAIN s.events /\ Foldable(s.tickets[id], e)
  THEN [s EXCEPT !.tickets[id] = ApplyEvent(@, e), !.events[id] = Append(@, e)]
  ELSE Failed

\* _apply_to_state
ApplyToState(s, id, e) ==
  IF e.type = "TICKET_CREATED"
  THEN [ok |-> s.ok,
        tickets |-> Put(s.tickets, id, e.details),
        events |-> Put(s.events, id,
                       IF id \in DOMAIN s.events THEN Append(s.events[id], e) ELSE <<e>>)]
  ELSE IF id \in DOMAIN s.tickets /\ Foldable(s.tickets[id], e)
  THEN [ok |-> s.ok,
        tickets |-> [s.tickets EXCEPT ![id] = ApplyEvent(@, e)],
        events |-> [s.events EXCEPT ![id] = Append(@, e)]]
  ELSE Failed

ApplyEntry(s, entry) == ApplyToState(s, entry[1], entry[2])

\* Fault: every line that does not parse is skipped.
ReplayLineLeniently(s, line, last) ==
  IF ~s.ok \/ ~Parses(line) THEN s ELSE ApplyToState(s, line[1].id, line[1].event)

\* Fault: none is.
ReplayLineStrictly(s, line, last) ==
  IF ~s.ok \/ line = <<>> THEN s
  ELSE IF Parses(line) THEN ApplyToState(s, line[1].id, line[1].event)
  ELSE Failed

\* One line of the loop in _replay; only the last line may fail to parse.
ReplayLine(s, line, last) ==
  IF ~s.ok \/ line = <<>> THEN s
  ELSE IF Undecodable(line) THEN Failed
  ELSE IF Parses(line) THEN ApplyToState(s, line[1].id, line[1].event)
  ELSE IF last THEN s ELSE Failed

Dangling(s) ==
  {id \in DOMAIN s.tickets : s.tickets[id].supersededBy # None
                             /\ s.tickets[id].supersededBy \notin DOMAIN s.tickets}

\* Fault: keyed on the status, as the docstring warns.
RepairDeprecated(s) ==
  LET torn == {id \in Dangling(s) : s.tickets[id].status = "DEPRECATED"} IN
  [ok |-> s.ok,
   tickets |-> [id \in DOMAIN s.tickets |->
                  IF id \in torn THEN Refold(Front(s.events[id])) ELSE s.tickets[id]],
   events |-> [id \in DOMAIN s.events |->
                 IF id \in torn THEN Front(s.events[id]) ELSE s.events[id]]]

\* _repair_partial_supersede: in memory only, the file keeps the link event.
Repair(s) ==
  [ok |-> s.ok,
   tickets |-> [id \in DOMAIN s.tickets |->
                  IF id \in Dangling(s) THEN Refold(Front(s.events[id])) ELSE s.tickets[id]],
   events |-> [id \in DOMAIN s.events |->
                 IF id \in Dangling(s) THEN Front(s.events[id]) ELSE s.events[id]]]

Empty == [ok |-> TRUE, tickets |-> NoTickets, events |-> NoTickets]

ReplayEarlierLine(s, line) == ReplayLine(s, line, FALSE)

Replay(f) ==
  LET earlier == FoldLeft(ReplayEarlierLine, Empty, Front(Lines(f)))
  IN  Repair(ReplayLine(earlier, Last(Lines(f)), TRUE))

-----------------------------------------------------------------------------
(* What the calls write: the entries <<id, event>> of one os.write.        *)

\* The ids the log mentions, be it in a write that failed: a ULID is never drawn
\* twice.
Drawn ==
  LET texts == {token \in ToSet(file) : token.kind = "event"}
  IN  {text.id : text \in texts}
      \cup {text.event.details : text \in {x \in texts : x.event.type \in LinkTypes}}

Creations ==
  {<< <<id, CreatedEvent(BuildTicket(id, agent, agent, params, tags, None))>> >> :
     id \in TicketId \ Drawn, agent \in Agent, params \in Params, tags \in Tags}

Appends ==
  {<< <<id, EventAfter(tickets[id], "COMMENT_ADDED", "human", email, tickets[id].status, None)>> >> :
     id \in DOMAIN tickets, email \in Email}
  \cup
  {<< <<id, EventAfter(tickets[id], "CLOSED", "human", email, "CLOSED", None)>> >> :
     id \in {x \in DOMAIN tickets : tickets[x].status = "PENDING_APPROVAL"}, email \in Email}

LinkEvent(t, email, new) ==
  IF t.status = "CLOSED"
  THEN EventAfter(t, "SUPERSEDED", "human", email, t.status, new)
  ELSE EventAfter(t, "DEPRECATED", "human", email, "DEPRECATED", new)

Supersedes ==
  {<< <<id, LinkEvent(tickets[id], email, new)>>,
      <<new, CreatedEvent(BuildSuccessor(new, id, tickets[id], email,
                                         tickets[id].params, tickets[id].tags))>> >> :
     id \in {x \in DOMAIN tickets : tickets[x].supersededBy = None
                                    /\ tickets[x].status \in {"PENDING_APPROVAL", "CLOSED"}},
     email \in Email, new \in TicketId \ Drawn}

\* Nothing is written for a ticket at the bound.
Writes ==
  {w \in Creations \cup Appends \cup Supersedes : w[1][2].seq <= MaxEvents}

\* Fault: the texts are not ended by a newline.
PayloadUnended(w) == [i \in DOMAIN w |-> Text(w[i][1], w[i][2])]

AddEntry(p, entry) == p \o <<Text(entry[1], entry[2]), Newline>>

\* _dump of every entry.
Payload(w) == FoldLeft(AddEntry, <<>>, w)

\* What may have reached the disk when _append_lines did not return: any number
\* of whole tokens, and perhaps a piece of the JSON text that came next.
Cuts(p) ==
  {SubSeq(p, 1, n) : n \in 0..Len(p)}
  \cup {Append(SubSeq(p, 1, n), piece) :
          n \in {m \in 0..(Len(p) - 1) : p[m + 1] # Newline}, piece \in [kind : Fragment]}

-----------------------------------------------------------------------------
\* create_ticket, append_event, transact_supersede that return: the lines are on
\* disk, then memory follows.
Write ==
  /\ mode = "up"
  /\ \E w \in Writes :
       LET s == FoldLeft(ApplyEntry, [ok |-> TRUE, tickets |-> tickets, events |-> events], w)
       IN /\ s.ok
          /\ file' = file \o Payload(w)
          /\ tickets' = s.tickets
          /\ events' = s.events
          /\ acked' = s.events
  /\ UNCHANGED <<mode, crashes, errors, tornAt>>

TornWrite ==
  \E w \in Writes : \E cut \in Cuts(Payload(w)) :
    /\ file' = file \o cut
    /\ tornAt' = IF cut \in {<<>>, Payload(w)} \/ tornAt # 0 THEN tornAt ELSE Len(file')

\* The process dies inside _append_lines, at any point up to the fsync's return.
CrashInWrite ==
  /\ mode = "up" /\ crashes < MaxCrashes
  /\ TornWrite
  /\ mode' = "down"
  /\ tickets' = NoTickets /\ events' = NoTickets
  /\ crashes' = crashes + 1
  /\ UNCHANGED <<errors, acked>>

\* The disk refuses part of the write (it is full, say): the exception leaves the
\* memory as it was and the gate running.
WriteError ==
  /\ mode = "up" /\ errors < MaxErrors
  /\ \E w \in Writes : \E cut \in Cuts(Payload(w)) \ {<<>>} :
       file' = file \o cut
  /\ tornAt' = IF tornAt # 0 THEN tornAt ELSE Len(file')
  /\ errors' = errors + 1
  /\ UNCHANGED <<mode, tickets, events, crashes, acked>>

\* The process stops or dies between two writes.
Restart ==
  /\ mode = "up" /\ crashes < MaxCrashes
  /\ mode' = "down"
  /\ tickets' = NoTickets /\ events' = NoTickets
  /\ crashes' = crashes + 1
  /\ UNCHANGED <<file, errors, acked, tornAt>>

\* JsonlTicketRepository.__init__ of the next process.
Boot ==
  /\ mode = "down"
  /\ LET s == Replay(file) IN
     /\ mode' = IF s.ok THEN "up" ELSE "aborted"
     /\ tickets' = s.tickets
     /\ events' = s.events
  /\ UNCHANGED <<file, crashes, errors, acked, tornAt>>

Next == Write \/ CrashInWrite \/ WriteError \/ Restart \/ Boot

Spec == Init /\ [][Next]_vars

-----------------------------------------------------------------------------
\* The store's memory is made of tickets and logs, kept for the same ids.
TypeOK ==
  /\ mode \in {"up", "down", "aborted"}
  /\ DOMAIN tickets \subseteq TicketId
  /\ tickets \in [DOMAIN tickets -> Ticket]
  /\ events \in [DOMAIN tickets -> Seq(AuditEvent)]
  /\ crashes \in 0..MaxCrashes /\ errors \in 0..MaxErrors
  /\ tornAt \in 0..Len(file)

\* "fsync'd": what a call returned to its caller is in the memory of every later
\* process that comes up, at the same place of the same log, whatever was cut off
\* since.  (A process that does not come up is the matter of the next property.)
NothingAckedIsLost ==
  mode = "up" =>
    \A id \in DOMAIN acked : id \in DOMAIN events /\ IsPrefix(acked[id], events[id])

\* "A torn final line (crash mid-append) is detected as invalid JSON and skipped
\* on replay": a boot on a log of ASCII texts to which nothing was added after the
\* cut-off write succeeds.
FirstBootRecovers == mode = "aborted" => tornAt # 0 /\ Len(file) > tornAt

\* "The pair is torn together or not at all", or repaired: no process ever serves
\* a ticket that points to a successor it does not have, or half a supersede the
\* other way round.
SupersedeIsWhole ==
  \A id \in DOMAIN tickets :
    LET t == tickets[id] IN
    /\ t.supersededBy # None =>
         t.supersededBy \in DOMAIN tickets /\ tickets[t.supersededBy].supersedes = id
    /\ t.supersedes # None =>
         t.supersedes \in DOMAIN tickets /\ tickets[t.supersedes].supersededBy = id

\* As long as no write was cut off, stopping the process now and starting another
\* one changes nothing: the replay gives back exactly the tickets and the logs.
RestartIsInvisible ==
  mode = "up" /\ tornAt = 0 =>
    LET s == Replay(file) IN s.ok /\ s.tickets = tickets /\ s.events = events

\* "A torn final line (crash mid-append) is detected as invalid JSON and skipped on
\* replay", at any boot: the bytes of a crash stay by themselves, so when a boot fails
\* nothing a call has returned is part of the trouble; it stands on lines of its own.
TornTailIsHarmless ==
  mode = "aborted" =>
    \A id \in DOMAIN acked : \A i \in DOMAIN acked[id] :
      <<Text(id, acked[id][i])>> \in ToSet(Lines(file))

\* "A torn final line (crash mid-append) is detected as invalid JSON and skipped on
\* replay": the last line alone never keeps the gate from starting, wherever the cut
\* went through it.
TornLineIsSkipped ==
  LET lines == Lines(file) IN
  mode = "aborted" => \E i \in 1 .. Len(lines) - 1 : lines[i] # <<>> /\ ~Parses(lines[i])

\* "A superseded_by pointing at a successor whose TICKET_CREATED line is missing
\* is repaired on replay": a log all of whose lines are whole always boots.
RepairHolds ==
  mode = "aborted" =>
    \E i \in DOMAIN Lines(file) : LET line == Lines(file)[i] IN line # <<>> /\ ~Parses(line)
=============================================================================
