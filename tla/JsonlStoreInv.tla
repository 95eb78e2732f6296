--------------------------- MODULE JsonlStoreInv ---------------------------
(***************************************************************************)
(* The inductive invariant behind the safety properties of JsonlStore:     *)
(* what the next boot would make of the file, compared with the memory.    *)
(***************************************************************************)
EXTENDS JsonlStore

Event == [kind : {"event"}, id : TicketId, event : AuditEvent]
Token == Event \cup {Newline} \cup [kind : {"torn", "cutCharacter"}]

\* The replay of the lines that a newline ends, the tokens after the last newline,
\* and the replay of all of it, before the repair.
Body(f) == FoldLeft(ReplayEarlierLine, Empty, Front(Lines(f)))
Tip(f) == Last(Lines(f))
Whole(f) == ReplayLine(Body(f), Tip(f), TRUE)

Memory == [ok |-> TRUE, tickets |-> tickets, events |-> events]

-----------------------------------------------------------------------------
\* A log that folds to its ticket, one sequence number per event.
SoundLog(log, t) ==
  /\ log # <<>> /\ log[1].details \in Ticket
  /\ t = Refold(log) /\ t.seq = Len(log)

\* A link to a successor that was never written is the last event of its log, and
\* without it the ticket is one that was never superseded.
Detachable(log, t) ==
  LET before == Front(log) IN
  /\ SoundLog(before, Refold(before))
  /\ Refold(before).supersededBy = None
  /\ Refold(before).supersedes = t.supersedes

LinkBack(s, id) ==
  LET old == s.tickets[id].supersedes IN
  old # None => old \in DOMAIN s.tickets /\ s.tickets[old].supersededBy = id

LinkForth(s, id) ==
  LET new == s.tickets[id].supersededBy IN
  new # None => IF new \in DOMAIN s.tickets THEN s.tickets[new].supersedes = id
                ELSE Detachable(s.events[id], s.tickets[id])

Store(s) ==
  /\ s = [ok |-> TRUE, tickets |-> s.tickets, events |-> s.events]
  /\ DOMAIN s.tickets \subseteq TicketId
  /\ s.tickets \in [DOMAIN s.tickets -> Ticket]
  /\ s.events \in [DOMAIN s.tickets -> Seq(AuditEvent)]

Sound(s) ==
  /\ Store(s)
  /\ \A id \in DOMAIN s.tickets :
       SoundLog(s.events[id], s.tickets[id]) /\ LinkBack(s, id) /\ LinkForth(s, id)

\* The logs are in the store, and stay when the store is repaired.
Keeps(s, logs) ==
  \A id \in DOMAIN logs :
    /\ id \in DOMAIN s.events
    /\ IsPrefix(logs[id], IF id \in Dangling(s) THEN Front(s.events[id]) ELSE s.events[id])

\* The tickets, and the successors they name, are of the ids given.
Within(s, ids) ==
  /\ DOMAIN s.tickets \subseteq ids
  /\ \A id \in DOMAIN s.tickets : s.tickets[id].supersededBy \in ids \cup {None}

\* The replay may fail; when it does not, the state is worth serving.
Sane(s, logs, ids) == s.ok => Sound(s) /\ Keeps(s, logs) /\ Within(s, ids)

-----------------------------------------------------------------------------
FileInv ==
  /\ file \in Seq(Token)
  /\ DOMAIN acked \subseteq TicketId /\ acked \in [DOMAIN acked -> Seq(AuditEvent)]
  /\ Sane(Body(file), acked, Drawn)
  /\ Sane(Whole(file), acked, Drawn)

MemoryInv ==
  /\ mode = "up" =>
       /\ Sound(Memory) /\ Dangling(Memory) = {} /\ Within(Memory, Drawn)
       /\ Keeps(Memory, acked)
       /\ Tip(file) = <<>> /\ Body(file).ok => Keeps(Body(file), events)
  /\ mode # "up" => tickets = NoTickets /\ events = NoTickets

\* Until a write is cut off, the file is the memory.
UntornInv ==
  tornAt = 0 =>
    /\ Tip(file) = <<>> /\ Body(file).ok /\ Dangling(Body(file)) = {}
    /\ mode # "aborted"
    /\ mode = "up" => Body(file) = Memory

\* A first cut-off write, where it leaves no half character, is no obstacle.
FirstTearInv ==
  "cutCharacter" \notin Fragment =>
    /\ tornAt # 0 /\ Len(file) = tornAt => Whole(file).ok
    /\ mode = "aborted" => Len(file) > tornAt

StoreInv == TypeOK /\ FileInv /\ MemoryInv /\ UntornInv /\ FirstTearInv
=============================================================================
