----------------------------- MODULE TimerProofs -----------------------------
(***************************************************************************)
(* What acts by the clock.  The sweep expires no ticket whose approval is  *)
(* recent, whatever is written while it pages through them; the page of a  *)
(* ticket offers what the gate would accept, and a click on a page that is *)
(* up to date is not refused: for any people, any number of tabs, every    *)
(* threshold and any faults.                                               *)
(***************************************************************************)
EXTENDS ExpirySweep, TicketPage, FiniteSetTheorems, SequenceTheorems, TLAPS

-----------------------------------------------------------------------------
(* The expiry sweep.                                                       *)

\* Every approved ticket has a vote, whose date its age is counted from.
ApprovedIsSigned == \A t \in Ticket : tickets[t].status = "APPROVED" => tickets[t].votes > 0

\* A ticket that is not there yet has no events.
AbsentIsEmpty == \A t \in Ticket : tickets[t].status = "ABSENT" => tickets[t].seq = 0

\* A ticket on the page that has the sequence number it was read with is the ticket
\* that was read: every write raises the number.
PageIsFaithful ==
  \A i \in DOMAIN sweep.page :
    LET item == sweep.page[i] IN
    /\ item.read.seq <= tickets[item.id].seq
    /\ item.read.seq = tickets[item.id].seq => item.read = tickets[item.id]

SweepInv == TypeOK /\ ApprovedIsSigned /\ AbsentIsEmpty /\ PageIsFaithful /\ sweep.now <= clock

Item == [id : Ticket, read : Record]

SweepType ==
  [pc : {"asleep", "querying", "writing"}, now : Nat, status : Swept, cursor : Nat,
   page : Seq(Item), more : BOOLEAN]

-----------------------------------------------------------------------------
\* A function on 1..n is a sequence of length n.
LEMMA IsSequence ==
  ASSUME NEW S, NEW n \in Nat, NEW f, f \in [1..n -> S]
  PROVE  f \in Seq(S) /\ Len(f) = n /\ DOMAIN f = 1..n
<1>1. f \in Seq(S)
  BY SeqDef
<1>. QED  BY <1>1, LenProperties

\* What a query of the tickets of one status returns.
LEMMA PageFacts ==
  ASSUME TypeOK, NEW items \in NewestFirst({t \in Ticket : tickets[t].status = sweep.status})
  PROVE  /\ PageOf(items) \in Seq(Item)
         /\ Len(PageOf(items)) <= PageSize
         /\ More(items) \in BOOLEAN
         /\ \A i \in DOMAIN PageOf(items) :
              /\ PageOf(items)[i].read = tickets[PageOf(items)[i].id]
              /\ PageOf(items)[i].read.status = sweep.status
<1>. DEFINE window == SubSeq(items, sweep.cursor + 1, PageEnd(items))
            batch == [i \in DOMAIN window |-> [id |-> window[i], read |-> tickets[window[i]]]]
<1>. DEFINE S == {t \in Ticket : tickets[t].status = sweep.status}
<1>1. Cardinality(S) \in Nat
  BY FS_Subset, FS_CardinalityType, SweepAssumption
<1>2. items \in Seq(S) /\ items \in Seq(Ticket)
  <2>1. items \in [1..Cardinality(S) -> S]
    BY DEF NewestFirst
  <2>2. items \in [1..Cardinality(S) -> Ticket]
    BY <2>1
  <2>. HIDE DEF S
  <2>. QED  BY <1>1, <2>1, <2>2, IsSequence
<1>3. sweep.cursor \in Nat /\ PageSize \in Nat \ {0} /\ Len(items) \in Nat
  BY <1>2, SweepAssumption DEF TypeOK
<1>4. /\ PageEnd(items) \in 0..Len(items)
      /\ PageEnd(items) <= sweep.cursor + PageSize
  BY <1>3 DEF PageEnd, More
<1>5. window \in Seq(S) /\ Len(window) <= PageSize
  <2>. HIDE DEF S
  <2>. DEFINE c == sweep.cursor
              e == PageEnd(items)
  <2>1. c \in Nat /\ e \in 0..Len(items) /\ e <= c + PageSize /\ window = SubSeq(items, c + 1, e)
    BY <1>3, <1>4
  <2>. HIDE DEF c, e
  <2>2. \A i \in (c + 1)..e : items[i] \in S
    BY <1>2, <2>1
  <2>3. /\ window \in Seq(S)
        /\ Len(window) = IF c + 1 <= e THEN e - (c + 1) + 1 ELSE 0
    <3>1. c + 1 \in Int /\ e \in Int
      BY <2>1
    <3>2. /\ SubSeq(items, c + 1, e) \in Seq(S)
          /\ Len(SubSeq(items, c + 1, e)) = IF c + 1 <= e THEN e - (c + 1) + 1 ELSE 0
      BY <2>2, <3>1, SubSeqProperties, Zenon
    <3>. QED  BY <2>1, <3>2
  <2>. QED  BY <1>3, <2>1, <2>3
<1>6. DOMAIN window = 1..Len(window) /\ Len(window) \in Nat
  BY <1>5, LenProperties, Zenon
<1>7. \A i \in DOMAIN window : window[i] \in Ticket /\ tickets[window[i]].status = sweep.status
  <2>1. \A i \in DOMAIN window : window[i] \in S
    <3>. HIDE DEF S
    <3>. QED  BY <1>5, <1>6
  <2>. QED  BY <2>1
<1>8. \A i \in DOMAIN window : [id |-> window[i], read |-> tickets[window[i]]] \in Item
  BY <1>7 DEF TypeOK, Item
<1>9. batch \in Seq(Item) /\ Len(batch) = Len(window) /\ DOMAIN batch = DOMAIN window
  <2>1. batch \in [1..Len(window) -> Item]
    BY <1>6, <1>8
  <2>2. DOMAIN batch = DOMAIN window
    OBVIOUS
  <2>. HIDE DEF batch
  <2>. QED  BY <1>6, <2>1, <2>2, IsSequence
<1>10. \A i \in DOMAIN batch : batch[i] = [id |-> window[i], read |-> tickets[window[i]]]
  BY <1>9
<1>11. \A i \in DOMAIN batch : /\ batch[i].read = tickets[batch[i].id]
                              /\ batch[i].read.status = sweep.status
  BY <1>7, <1>9, <1>10
<1>12. More(items) \in BOOLEAN
  BY <1>3 DEF More
<1>13. PageOf(items) = batch
  BY DEF PageOf
<1>. HIDE DEF batch, window
<1>. QED  BY <1>5, <1>9, <1>11, <1>12, <1>13

-----------------------------------------------------------------------------
(* The invariant.                                                          *)

LEMMA SweepInit == Init => SweepInv
BY SweepAssumption DEF Init, Asleep, Absent, SweepInv, TypeOK, Record, Swept, ApprovedIsSigned,
                       AbsentIsEmpty, PageIsFaithful

\* What a page keeps when tickets are written and items are dropped from it.
LEMMA PageStaysFaithful ==
  ASSUME TypeOK, PageIsFaithful,
         tickets' \in [Ticket -> Record],
         \A t \in Ticket : tickets'[t] = tickets[t] \/ tickets'[t].seq > tickets[t].seq,
         \A i \in DOMAIN sweep'.page :
           \E j \in DOMAIN sweep.page : sweep'.page[i] = sweep.page[j]
  PROVE  PageIsFaithful'
<1>. SUFFICES ASSUME NEW i \in DOMAIN sweep'.page
              PROVE  LET item == sweep'.page[i] IN
                     /\ item.read.seq <= tickets'[item.id].seq
                     /\ item.read.seq = tickets'[item.id].seq => item.read = tickets'[item.id]
  BY DEF PageIsFaithful
<1>1. PICK j \in DOMAIN sweep.page : sweep'.page[i] = sweep.page[j]
  OBVIOUS
<1>. DEFINE item == sweep.page[j]
<1>2. item \in Item
  <2>1. sweep.page \in Seq(Item)
    BY DEF TypeOK, Item
  <2>. QED  BY <2>1
<1>3. /\ item.read.seq <= tickets[item.id].seq
      /\ item.read.seq = tickets[item.id].seq => item.read = tickets[item.id]
  BY DEF PageIsFaithful
<1>. HIDE DEF item
<1>4. /\ item.id \in Ticket /\ item.read.seq \in Nat
      /\ tickets[item.id].seq \in Nat /\ tickets'[item.id].seq \in Nat
  BY <1>2 DEF TypeOK, Item, Record
<1>5. tickets'[item.id] = tickets[item.id] \/ tickets'[item.id].seq > tickets[item.id].seq
  BY <1>4
<1>6. /\ item.read.seq <= tickets'[item.id].seq
      /\ item.read.seq = tickets'[item.id].seq => item.read = tickets'[item.id]
  BY <1>3, <1>4, <1>5
<1>. QED  BY <1>1, <1>6 DEF item

\* A write of a person or an agent: one ticket changes and its number rises.
LEMMA WriteKeepsSweepInv ==
  ASSUME SweepInv, NEW t \in Ticket, NEW new \in Record,
         new.seq > tickets[t].seq, new.status = "APPROVED" => new.votes > 0, new.status # "ABSENT",
         tickets' = [tickets EXCEPT ![t] = new], UNCHANGED <<clock, sweep>>
  PROVE  SweepInv'
<1>1. tickets' \in [Ticket -> Record]
  BY DEF SweepInv, TypeOK
<1>2. \A u \in Ticket : tickets'[u] = IF u = t THEN new ELSE tickets[u]
  BY DEF SweepInv, TypeOK
<1>3. \A u \in Ticket : tickets'[u] = tickets[u] \/ tickets'[u].seq > tickets[u].seq
  BY <1>2
<1>4. PageIsFaithful'
  BY <1>1, <1>3, PageStaysFaithful DEF SweepInv
<1>5. TypeOK' /\ (sweep.now <= clock)'
  BY <1>1 DEF SweepInv, TypeOK
<1>6. ApprovedIsSigned' /\ AbsentIsEmpty'
  BY <1>2 DEF SweepInv, ApprovedIsSigned, AbsentIsEmpty
<1>. QED  BY <1>4, <1>5, <1>6 DEF SweepInv

\* The next item of the page, with or without a write.
LEMMA NextItemFacts ==
  ASSUME TypeOK, sweep.page # <<>>, NextItem
  PROVE  /\ sweep' \in [pc : {"asleep", "querying", "writing"}, now : Nat, status : Swept,
                         cursor : Nat, page : Seq([id : Ticket, read : Record]), more : BOOLEAN]
         /\ sweep'.now = sweep.now
         /\ Len(sweep'.page) <= PageSize
         /\ \A i \in DOMAIN sweep'.page :
              /\ sweep'.page[i].read.status = sweep'.status
              /\ \E j \in DOMAIN sweep.page : sweep'.page[i] = sweep.page[j]
         /\ Head(sweep.page) = sweep.page[1] /\ 1 \in DOMAIN sweep.page
<1>. DEFINE p == sweep.page
<1>1. p \in Seq(Item) /\ p # <<>> /\ Len(p) <= PageSize
  BY DEF TypeOK, Item
<1>2. sweep'.page = Tail(p) /\ sweep'.status = sweep.status /\ sweep'.now = sweep.now
  BY DEF NextItem, TypeOK
<1>3. /\ Tail(p) \in Seq(Item) /\ Len(Tail(p)) = Len(p) - 1 /\ Len(p) \in Nat
      /\ \A i \in DOMAIN Tail(p) : i + 1 \in DOMAIN p /\ Tail(p)[i] = p[i + 1]
      /\ Head(p) = p[1] /\ 1 \in DOMAIN p
  <2>. HIDE DEF p
  <2>. QED  BY <1>1
<1>4. Len(Tail(p)) <= PageSize
  BY <1>1, <1>3, SweepAssumption
<1>5. \A i \in DOMAIN p : p[i].read.status = sweep.status
  BY DEF TypeOK
<1>6. sweep' \in [pc : {"asleep", "querying", "writing"}, now : Nat, status : Swept,
                  cursor : Nat, page : Seq([id : Ticket, read : Record]), more : BOOLEAN]
  BY <1>3 DEF NextItem, TypeOK, Item
<1>. HIDE DEF p
<1>7. \A i \in DOMAIN Tail(p) : /\ Tail(p)[i].read.status = sweep.status
                                /\ \E j \in DOMAIN p : Tail(p)[i] = p[j]
  BY <1>3, <1>5
<1>. QED  BY <1>2, <1>3, <1>4, <1>6, <1>7 DEF p

\* Only a stale ticket is written by Expire, and it is the ticket that was read.
LEMMA ExpireFacts ==
  ASSUME SweepInv, Expire
  PROVE  \E t \in Ticket :
           /\ tickets' = [tickets EXCEPT ![t].status = "EXPIRED", ![t].seq = @ + 1]
           /\ tickets[t].status \in Swept
           /\ Stale(tickets[t], sweep.now)
<1>. DEFINE item == Head(sweep.page)
<1>1. item = sweep.page[1] /\ 1 \in DOMAIN sweep.page
  BY NextItemFacts DEF Expire, SweepInv
<1>2. item \in Item
  <2>1. sweep.page \in Seq(Item)
    BY DEF SweepInv, TypeOK, Item
  <2>. QED  BY <1>1, <2>1
<1>3. item.read = tickets[item.id]
  BY <1>1 DEF SweepInv, PageIsFaithful, Expire, Unmoved
<1>4. item.read.status \in Swept
  BY <1>1 DEF SweepInv, TypeOK
<1>. QED  BY <1>2, <1>3, <1>4 DEF Expire, Item

\* The inductive step, action by action.
LEMMA SweepInductive == SweepInv /\ [Next]_vars => SweepInv'
<1>. SUFFICES ASSUME SweepInv, [Next]_vars
              PROVE  SweepInv'
  OBVIOUS
<1>1. CASE Tick
  BY <1>1 DEF Tick, SweepInv, TypeOK, ApprovedIsSigned, AbsentIsEmpty, PageIsFaithful
<1>2. ASSUME NEW t \in Ticket, Create(t)
      PROVE  SweepInv'
  <2>. DEFINE new == [Absent EXCEPT !.status = "PENDING_APPROVAL", !.created = clock, !.seq = 1]
  <2>1. new \in Record /\ new.seq = 1 /\ new.status = "PENDING_APPROVAL"
    BY DEF SweepInv, TypeOK, Absent, Record, Swept
  <2>2. tickets' = [tickets EXCEPT ![t] = new] /\ UNCHANGED <<clock, sweep>> /\ tickets[t].seq = 0
    BY <1>2 DEF Create, SweepInv, AbsentIsEmpty
  <2>. HIDE DEF new
  <2>3. new.seq > tickets[t].seq /\ new.status # "ABSENT" /\ (new.status = "APPROVED" => new.votes > 0)
    BY <2>1, <2>2
  <2>. QED  BY <2>1, <2>2, <2>3, WriteKeepsSweepInv
<1>3. ASSUME NEW t \in Ticket, NEW old \in Record, Change(t, old),
             old.seq = tickets[t].seq, old.status # "ABSENT",
             old.status = "APPROVED" => old.votes > 0
      PROVE  SweepInv'
  <2>. DEFINE new == [old EXCEPT !.seq = @ + 1]
  <2>1. /\ new \in Record /\ new.seq > tickets[t].seq
        /\ new.status = old.status /\ new.votes = old.votes
    BY <1>3 DEF Record
  <2>2. tickets' = [tickets EXCEPT ![t] = new] /\ UNCHANGED <<clock, sweep>>
    BY <1>3 DEF Change
  <2>. HIDE DEF new
  <2>. QED  BY <1>3, <2>1, <2>2, WriteKeepsSweepInv
<1>4. ASSUME NEW t \in Ticket, Approve(t) \/ Leave(t) \/ Annotate(t)
      PROVE  SweepInv'
  <2>1. tickets[t] \in Record
    BY DEF SweepInv, TypeOK
  <2>2. CASE Approve(t)
    <3>. DEFINE votes == tickets[t].votes + 1
                old == [tickets[t] EXCEPT
                          !.status = IF votes >= Required THEN "APPROVED" ELSE @,
                          !.votes = votes, !.signed = clock]
    <3>1. votes \in Nat /\ votes > 0 /\ clock \in Nat
      BY <2>1 DEF SweepInv, TypeOK, Record
    <3>. HIDE DEF votes
    <3>2. old.status \in {"PENDING_APPROVAL", "APPROVED"}
      BY <2>1, <2>2 DEF Approve, Record
    <3>3. old.votes = votes /\ old.seq = tickets[t].seq
      BY <2>1 DEF Record
    <3>4. old \in Record
      BY <2>1, <2>2, <3>1 DEF Approve, Record, Swept
    <3>5. Change(t, old)
      BY <2>2 DEF Approve, votes
    <3>. HIDE DEF old
    <3>. QED  BY <1>3, <3>1, <3>2, <3>3, <3>4, <3>5
  <2>3. CASE Leave(t)
    <3>. DEFINE old == [tickets[t] EXCEPT !.status = "GONE"]
    <3>1. old \in Record /\ old.seq = tickets[t].seq /\ old.status = "GONE"
      BY <2>1 DEF Record
    <3>2. Change(t, old)
      BY <2>3 DEF Leave
    <3>. HIDE DEF old
    <3>. QED  BY <1>3, <3>1, <3>2
  <2>4. CASE Annotate(t)
    <3>1. Change(t, tickets[t]) /\ tickets[t].status # "ABSENT"
      BY <2>4 DEF Annotate, Change
    <3>. QED  BY <1>3, <2>1, <3>1 DEF SweepInv, ApprovedIsSigned
  <2>. QED  BY <1>4, <2>2, <2>3, <2>4
<1>5. CASE Wake
  <2>1. UNCHANGED <<tickets, clock>> /\ clock \in Nat /\ tickets \in [Ticket -> Record]
    BY <1>5 DEF Wake, SweepInv, TypeOK
  <2>2. /\ sweep' \in SweepType
        /\ sweep'.page = <<>> /\ sweep'.now = clock
    <3>1. Asleep \in SweepType /\ Asleep.page = <<>>
      BY DEF Asleep, Swept, SweepType
    <3>2. sweep' = [Asleep EXCEPT !.pc = "querying", !.now = clock]
      BY <1>5 DEF Wake
    <3>. QED  BY <2>1, <3>1, <3>2 DEF SweepType
  <2>3. TypeOK' /\ (sweep.now <= clock)'
    BY <2>1, <2>2, SweepAssumption DEF TypeOK, Item, SweepType
  <2>4. PageIsFaithful'
    BY <2>2 DEF PageIsFaithful
  <2>. QED  BY <2>1, <2>3, <2>4 DEF SweepInv, ApprovedIsSigned, AbsentIsEmpty
<1>6. CASE Query
  <2>. DEFINE S == {t \in Ticket : tickets[t].status = sweep.status}
  <2>1. PICK items \in NewestFirst(S) :
          sweep' = [sweep EXCEPT !.pc = "writing", !.page = PageOf(items), !.more = More(items)]
    BY <1>6 DEF Query
  <2>. DEFINE batch == PageOf(items)
  <2>2. /\ batch \in Seq(Item) /\ Len(batch) <= PageSize /\ More(items) \in BOOLEAN
        /\ \A i \in DOMAIN batch : /\ batch[i].read = tickets[batch[i].id]
                                  /\ batch[i].read.status = sweep.status
    BY <2>1, PageFacts DEF SweepInv
  <2>3. sweep' = [sweep EXCEPT !.pc = "writing", !.page = batch, !.more = More(items)]
    BY <2>1
  <2>4. UNCHANGED <<tickets, clock>>
    BY <1>6 DEF Query
  <2>. HIDE DEF batch
  <2>5. /\ sweep'.page = batch /\ sweep'.status = sweep.status /\ sweep'.now = sweep.now
        /\ TypeOK'
    BY <2>2, <2>3, <2>4 DEF SweepInv, TypeOK, Item
  <2>6. \A i \in DOMAIN batch : batch[i] \in Item
    BY <2>2
  <2>7. PageIsFaithful'
    BY <2>2, <2>4, <2>5, <2>6 DEF PageIsFaithful, Item, Record, SweepInv, TypeOK
  <2>. QED  BY <2>4, <2>5, <2>7 DEF SweepInv, ApprovedIsSigned, AbsentIsEmpty
<1>7. CASE Expire
  <2>1. PICK t \in Ticket :
          /\ tickets' = [tickets EXCEPT ![t].status = "EXPIRED", ![t].seq = @ + 1]
          /\ tickets[t].status \in Swept
    BY <1>7, ExpireFacts
  <2>2. /\ tickets' \in [Ticket -> Record]
        /\ \A u \in Ticket : u # t => tickets'[u] = tickets[u]
        /\ tickets'[t].status = "EXPIRED" /\ tickets'[t].seq > tickets[t].seq
    <3>. DEFINE new == [tickets[t] EXCEPT !.status = "EXPIRED", !.seq = @ + 1]
    <3>1. tickets[t] \in Record /\ tickets \in [Ticket -> Record]
      BY DEF SweepInv, TypeOK
    <3>2. tickets' = [tickets EXCEPT ![t] = new]
      BY <2>1
    <3>3. new \in Record /\ new.status = "EXPIRED" /\ new.seq > tickets[t].seq
      <4>. DEFINE r == tickets[t]
      <4>1. r \in Record /\ r.seq + 1 \in Nat /\ r.seq + 1 > r.seq
        BY <3>1 DEF Record
      <4>. HIDE DEF r
      <4>2. [r EXCEPT !.status = "EXPIRED", !.seq = r.seq + 1] \in Record
        BY <4>1 DEF Record
      <4>3. [r EXCEPT !.status = "EXPIRED", !.seq = r.seq + 1].seq = r.seq + 1
        BY <4>1 DEF Record
      <4>4. [r EXCEPT !.status = "EXPIRED", !.seq = r.seq + 1].status = "EXPIRED"
        BY <4>1 DEF Record
      <4>5. new = [r EXCEPT !.status = "EXPIRED", !.seq = r.seq + 1]
        BY <4>1 DEF Record, r
      <4>. QED  BY <4>1, <4>2, <4>3, <4>4, <4>5 DEF r
    <3>. HIDE DEF new
    <3>. QED  BY <3>1, <3>2, <3>3
  <2>3. \A u \in Ticket : tickets'[u] = tickets[u] \/ tickets'[u].seq > tickets[u].seq
    BY <2>2
  <2>4. TypeOK /\ PageIsFaithful /\ sweep.page # <<>> /\ NextItem /\ clock' = clock
    BY <1>7 DEF SweepInv, Expire
  <2>5. PageIsFaithful'
    BY <2>2, <2>3, <2>4, NextItemFacts, PageStaysFaithful
  <2>6. TypeOK' /\ (sweep.now <= clock)'
    BY <2>2, <2>4, NextItemFacts DEF SweepInv, TypeOK
  <2>7. ApprovedIsSigned' /\ AbsentIsEmpty'
    BY <2>2 DEF SweepInv, ApprovedIsSigned, AbsentIsEmpty
  <2>. QED  BY <2>5, <2>6, <2>7 DEF SweepInv
<1>8. CASE PassOver
  <2>1. TypeOK /\ PageIsFaithful /\ sweep.page # <<>> /\ NextItem /\ UNCHANGED <<tickets, clock>>
    BY <1>8 DEF SweepInv, PassOver
  <2>2. PageIsFaithful'
    BY <2>1, NextItemFacts, PageStaysFaithful DEF TypeOK
  <2>3. TypeOK' /\ (sweep.now <= clock)'
    BY <2>1, NextItemFacts DEF SweepInv, TypeOK
  <2>. QED  BY <2>1, <2>2, <2>3 DEF SweepInv, ApprovedIsSigned, AbsentIsEmpty
<1>9. CASE Turn \/ CutOff
  <2>1. UNCHANGED <<tickets, clock>>
    BY <1>9 DEF Turn, CutOff
  <2>2. sweep'.page = <<>> /\ sweep'.now <= clock /\ TypeOK'
    <3>1. Asleep \in SweepType /\ Asleep.page = <<>> /\ Asleep.now = 0
      BY DEF Asleep, Swept, SweepType
    <3>2. sweep \in SweepType /\ sweep.now <= clock /\ clock \in Nat
      BY DEF SweepInv, TypeOK, Item, SweepType
    <3>3. sweep' \in SweepType /\ sweep'.page = <<>> /\ sweep'.now <= clock
      <4>1. CASE sweep' = Asleep
        BY <3>1, <3>2, <4>1
      <4>2. CASE /\ sweep.page = <<>>
                 /\ sweep' = [sweep EXCEPT !.pc = "querying", !.cursor = @ + PageSize]
        <5>1. sweep.cursor + PageSize \in Nat
          BY <3>2, SweepAssumption DEF SweepType
        <5>. QED  BY <3>2, <4>2, <5>1 DEF SweepType
      <4>3. CASE /\ sweep.page = <<>>
                 /\ sweep' = [sweep EXCEPT !.pc = "querying", !.status = "APPROVED", !.cursor = 0]
        BY <3>2, <4>3 DEF SweepType, Swept
      <4>. QED  BY <1>9, <4>1, <4>2, <4>3 DEF Turn, CutOff
    <3>. QED  BY <2>1, <3>3, SweepAssumption DEF SweepInv, TypeOK, Item, SweepType
  <2>. QED  BY <2>1, <2>2 DEF SweepInv, ApprovedIsSigned, AbsentIsEmpty, PageIsFaithful
<1>10. CASE UNCHANGED vars
  BY <1>10 DEF vars, SweepInv, TypeOK, ApprovedIsSigned, AbsentIsEmpty, PageIsFaithful
<1>. QED  BY <1>1, <1>2, <1>4, <1>5, <1>6, <1>7, <1>8, <1>9, <1>10 DEF Next, Sweep

\* What the sweep holds is well-formed and was true when it was read, for any number
\* of tickets, writers and failures and any size of the pages.
THEOREM SweepInvariance == Spec => []SweepInv
<1>. QED  BY SweepInit, SweepInductive, PTL DEF Spec

\* Type correctness of every reachable state.
THEOREM SweepTypeCorrect == Spec => []TypeOK
<1>1. SweepInv => TypeOK
  BY DEF SweepInv
<1>. QED  BY <1>1, SweepInvariance, PTL

\* sweep_once: no ticket expires that is not, at the moment of the write, as old as
\* its status requires, however late the write comes after the read.
THEOREM OnlyStaleExpires == Spec => ExpiresOnlyStale
<1>. DEFINE A == \A t \in Ticket :
       tickets[t].status # "EXPIRED" /\ tickets'[t].status = "EXPIRED" => Due(t)
<1>1. SweepInv /\ [Next]_vars => [A]_vars
  <2>. SUFFICES ASSUME SweepInv, Next, NEW t \in Ticket,
                       tickets[t].status # "EXPIRED", tickets'[t].status = "EXPIRED"
                PROVE  Due(t)
    OBVIOUS
  <2>1. ASSUME NEW u \in Ticket, Create(u) \/ Approve(u) \/ Leave(u) \/ Annotate(u)
        PROVE  FALSE
    <3>1. tickets \in [Ticket -> Record]
      BY DEF SweepInv, TypeOK
    <3>2. CASE Create(u)
      BY <3>1, <3>2 DEF Create, Absent, Record
    <3>4. CASE Approve(u)
      BY <3>1, <3>4 DEF Approve, Change, Record
    <3>5. CASE Leave(u)
      BY <3>1, <3>5 DEF Leave, Change, Record
    <3>6. CASE Annotate(u)
      <4>1. tickets[u] \in Record /\ Change(u, tickets[u])
        BY <3>1, <3>6 DEF Annotate
      <4>2. \/ tickets'[t] = tickets[t]
            \/ u = t /\ tickets'[t] = [tickets[t] EXCEPT !.seq = @ + 1]
        BY <3>1, <4>1 DEF Change
      <4>. QED  BY <3>1, <4>2 DEF Record
    <3>. QED  BY <2>1, <3>2, <3>4, <3>5, <3>6
  <2>2. CASE Expire
    <3>1. PICK u \in Ticket :
            /\ tickets' = [tickets EXCEPT ![u].status = "EXPIRED", ![u].seq = @ + 1]
            /\ tickets[u].status \in Swept
            /\ Stale(tickets[u], sweep.now)
      BY <2>2, ExpireFacts
    <3>2. u = t
      BY <3>1 DEF SweepInv, TypeOK
    <3>3. tickets[t] \in Record /\ sweep.now <= clock /\ sweep.now \in Nat /\ clock \in Nat
      BY DEF SweepInv, TypeOK
    <3>. QED  BY <3>1, <3>2, <3>3, SweepAssumption
              DEF Due, Stale, ExpiryStart, Swept, Record, SweepInv, ApprovedIsSigned
  <2>3. tickets' # tickets
    OBVIOUS
  <2>. QED  BY <2>1, <2>2, <2>3 DEF Next, Sweep, Tick, Wake, Query, PassOver, Turn, CutOff
<1>. QED  BY <1>1, SweepInvariance, PTL DEF Spec, ExpiresOnlyStale

-----------------------------------------------------------------------------
(* The page of a ticket.                                                   *)

Copies ==
  [seq : Nat, status : Statuses \cup {"unknown"}, linked : BOOLEAN, votes : SUBSET Person]

Tab == [place : {"away", "front", "hidden"},
        shown : Copies,
        fetch : [state : {"none", "asked", "read"}, attempt : Nat, answer : Copies],
        click : [state : {"none", "sent", "done", "refused"}, act : Act \cup {"none"},
                 seq : Nat]]

PageTypes ==
  /\ ticket \in Copies /\ ticket.seq > 0 /\ ticket.status \in Statuses
  /\ page \in [Watcher -> Tab]

\* What has a successor has come to its end.
LinkedIsOver == ticket.linked => ticket.status \in TerminalStatuses

\* A copy with the ticket's own sequence number is the ticket.
Truthful(copy) == copy.seq <= ticket.seq /\ (copy.seq = ticket.seq => copy = ticket)

\* A click under way was offered by the copy that it was made on.
ClickIsFounded(who, c) ==
  c.state = "sent" =>
    /\ c.act \in Act /\ c.seq <= ticket.seq
    /\ c.seq = ticket.seq => Offers(ticket, who, c.act)

TabIsSound(who, tab) ==
  Truthful(tab.shown) /\ Truthful(tab.fetch.answer) /\ ClickIsFounded(who, tab.click)

TabsAreSound == \A who \in Watcher : TabIsSound(who, page[who])

\* t is what one event makes of the ticket.
Follows(t) ==
  /\ t \in Copies /\ t.seq = ticket.seq + 1 /\ t.status \in Statuses
  /\ t.linked => t.status \in TerminalStatuses

PageInv ==
  /\ PageTypes
  /\ LinkedIsOver
  /\ TabsAreSound
  /\ NoSurprise

-----------------------------------------------------------------------------
\* The rules of the page are not wider than the service's.
LEMMA OffersAreRights ==
  ASSUME PageTypes, LinkedIsOver, NEW who \in Person, NEW act \in Act, Offers(ticket, who, act)
  PROVE  Accepts(who, act)
BY DEF PageTypes, LinkedIsOver, Offers, Accepts, DecisionButtons, CanClose, CanSupersede,
   TerminalStatuses, Act

\* Nor narrower, but for a rejection by somebody who has approved.
LEMMA RightsAreOffered ==
  ASSUME PageTypes, LinkedIsOver, NEW who \in Person, NEW act \in Act, Accepts(who, act)
  PROVE  Offers(ticket, who, act) \/ (act = "reject" /\ who \in ticket.votes)
BY DEF PageTypes, LinkedIsOver, Offers, Accepts, DecisionButtons, CanClose, CanSupersede,
   TerminalStatuses, Act

\* An event is one step, and a ticket that is over stays so.
LEMMA ActsGoOn ==
  ASSUME PageTypes, LinkedIsOver, NEW who \in Person, NEW act \in Act, Accepts(who, act)
  PROVE  Follows(After(who, act))
<1>1. PICK n \in Nat, s \in Statuses, l \in BOOLEAN, v \in SUBSET Person :
        ticket = [seq |-> n, status |-> s, linked |-> l, votes |-> v]
  BY DEF PageTypes, Copies
<1>2. l => s \in TerminalStatuses
  BY <1>1 DEF LinkedIsOver
<1> DEFINE made(status, linked, votes) ==
      [seq |-> n + 1, status |-> status, linked |-> linked, votes |-> votes]
<1>3. ASSUME NEW status \in Statuses, NEW linked \in BOOLEAN, NEW votes \in SUBSET Person,
             linked => status \in TerminalStatuses
      PROVE  Follows(made(status, linked, votes))
  BY <1>1, <1>3 DEF Follows, Copies
<1>4. CASE act = "approve"
  <2>1. \E status \in {"APPROVED", "PENDING_APPROVAL"} :
          After(who, act) = made(status, l, v \cup {who})
    BY <1>1, <1>4 DEF After, StatusAfterApproval
  <2>2. ~l
    BY <1>1, <1>4 DEF Accepts
  <2> QED BY <1>3, <2>1, <2>2 DEF Statuses
<1>5. CASE act = "reject"
  <2>1. After(who, act) = made("REJECTED", l, v)
    BY <1>1, <1>5 DEF After
  <2> QED BY <1>3, <2>1 DEF Statuses, TerminalStatuses
<1>6. CASE act = "close"
  <2>1. After(who, act) = made("CLOSED", l, v)
    BY <1>1, <1>6 DEF After
  <2> QED BY <1>3, <2>1 DEF Statuses, TerminalStatuses
<1>7. CASE act = "supersede"
  <2>1. After(who, act) =
          made(IF s \in TerminalStatuses THEN s ELSE "DEPRECATED", TRUE, v)
    BY <1>1, <1>7 DEF After
  <2> QED BY <1>3, <2>1 DEF Statuses, TerminalStatuses
<1>8. CASE act \in {"tags", "comment"}
  <2>1. After(who, act) = made(s, l, v)
    BY <1>1, <1>8 DEF After
  <2> QED BY <1>2, <1>3, <2>1
<1> QED BY <1>4, <1>5, <1>6, <1>7, <1>8 DEF Act

LEMMA TransitionsGoOn ==
  ASSUME PageTypes, LinkedIsOver, NEW to \in Statuses, NEW kind \in {"agent", "system"},
         CanTransition(ticket.status, to, kind)
  PROVE  Follows([ticket EXCEPT !.seq = @ + 1, !.status = to])
<1>1. ticket.status \notin TerminalStatuses
  BY DEF CanTransition, Allowed, TerminalStatuses
<1>2. ~ticket.linked
  BY <1>1 DEF LinkedIsOver
<1>3. PICK n \in Nat : n = ticket.seq + 1
  BY DEF PageTypes, Copies
<1> DEFINE t == [ticket EXCEPT !.seq = n, !.status = to]
<1>4. t \in Copies /\ t.seq = n /\ t.status = to /\ t.linked = ticket.linked
  BY DEF PageTypes, Copies
<1>5. t = [ticket EXCEPT !.seq = @ + 1, !.status = to]
  BY <1>3
<1> HIDE DEF t
<1>6. Follows(t)
  BY <1>2, <1>3, <1>4 DEF Follows
<1> QED BY <1>5, <1>6

-----------------------------------------------------------------------------
\* Once the ticket has moved on, no copy and no click is up to date.
LEMMA EventKeeps ==
  ASSUME PageTypes, LinkedIsOver, TabsAreSound,
         Follows(ticket'), page' \in [Watcher -> Tab],
         \A who \in Watcher :
           /\ page'[who].shown = page[who].shown
           /\ page'[who].fetch = page[who].fetch
           /\ page'[who].click.state = "sent" => page'[who].click = page[who].click
  PROVE  PageTypes' /\ LinkedIsOver' /\ TabsAreSound'
<1>1. PageTypes' /\ LinkedIsOver'
  BY DEF PageTypes, LinkedIsOver, Copies, Follows
<1>2. ticket.seq \in Nat /\ ticket'.seq = ticket.seq + 1
  BY DEF PageTypes, Copies, Follows
<1>3. ASSUME NEW copy \in Copies, Truthful(copy)
      PROVE  copy.seq <= ticket'.seq /\ copy.seq # ticket'.seq
  BY <1>2, <1>3 DEF Truthful, Copies
<1>4. ASSUME NEW who \in Watcher
      PROVE  TabIsSound(who, page[who])'
  <2>1. page[who] \in Tab /\ TabIsSound(who, page[who])
    BY DEF PageTypes, TabsAreSound
  <2>2. Truthful(page[who].shown)' /\ Truthful(page[who].fetch.answer)'
    BY <1>3, <2>1 DEF Tab, TabIsSound, Truthful
  <2>3. ClickIsFounded(who, page[who].click)'
    <3> SUFFICES ASSUME page'[who].click.state = "sent"
                 PROVE  /\ page'[who].click.act \in Act
                        /\ page'[who].click.seq <= ticket'.seq
                        /\ page'[who].click.seq # ticket'.seq
      BY DEF ClickIsFounded
    <3>1. /\ page'[who].click = page[who].click
          /\ page[who].click.act \in Act /\ page[who].click.seq <= ticket.seq
      BY <2>1 DEF TabIsSound, ClickIsFounded
    <3>2. page[who].click.seq \in Nat
      BY <2>1 DEF Tab
    <3> QED BY <1>2, <3>1, <3>2
  <2> QED BY <2>2, <2>3 DEF TabIsSound
<1> QED BY <1>1, <1>4 DEF TabsAreSound

\* No tab but that of who changes, nor does the ticket.
OnlyTab(who) ==
  /\ page' \in [Watcher -> Tab]
  /\ \A other \in Watcher \ {who} : page'[other] = page[other]
  /\ UNCHANGED ticket

\* A step of one tab.
LEMMA TabKeeps ==
  ASSUME PageTypes, LinkedIsOver, TabsAreSound, NEW who \in Watcher,
         OnlyTab(who), TabIsSound(who, page'[who])
  PROVE  PageTypes' /\ LinkedIsOver' /\ TabsAreSound'
<1>1. PageTypes' /\ LinkedIsOver'
  BY DEF PageTypes, LinkedIsOver, OnlyTab
<1>2. ASSUME NEW other \in Watcher PROVE TabIsSound(other, page[other])'
  <2>1. TabIsSound(other, page'[other])
    BY DEF OnlyTab, TabsAreSound
  <2> QED BY <2>1 DEF OnlyTab, TabIsSound, Truthful, ClickIsFounded, Offers, DecisionButtons,
        MayDecide, CanClose, CanSupersede
<1> QED BY <1>1, <1>2 DEF TabsAreSound

LEMMA Blanks ==
  /\ Blank \in Copies /\ Blank.seq = 0
  /\ NoFetch \in [state : {"none", "asked", "read"}, attempt : Nat, answer : Copies]
  /\ Asked \in [state : {"none", "asked", "read"}, attempt : Nat, answer : Copies]
  /\ NoFetch.answer = Blank /\ Asked.answer = Blank
  /\ NoClick \in [state : {"none", "sent", "done", "refused"}, act : Act \cup {"none"}, seq : Nat]
  /\ NoClick.state = "none"
BY DEF Blank, NoFetch, Asked, NoClick, Copies

LEMMA BlankIsTruthful == PageTypes => Truthful(Blank)
BY Blanks DEF PageTypes, Truthful, Copies

LEMMA PageInitEstablishes == PageInit => PageInv
<1> SUFFICES ASSUME PageInit PROVE PageInv
  OBVIOUS
<1>1. PageTypes /\ LinkedIsOver /\ NoSurprise
  BY Blanks DEF PageInit, PageTypes, LinkedIsOver, NoSurprise, Copies, Tab, Statuses
<1>2. ASSUME NEW who \in Watcher PROVE TabIsSound(who, page[who])
  <2>1. page[who].shown = Blank /\ page[who].fetch = NoFetch /\ page[who].click = NoClick
    BY DEF PageInit
  <2> QED BY <1>1, <2>1, Blanks, BlankIsTruthful DEF TabIsSound, ClickIsFounded
<1> QED BY <1>1, <1>2 DEF PageInv, TabsAreSound

\* The steps of the query: another place, another copy that is the ticket's, or none.
LEMMA QueryKeeps ==
  ASSUME PageInv, NEW who \in Watcher,
         Visit(who) \/ Switch(who) \/ Forget(who) \/ Poll(who) \/ Read(who) \/ Arrive(who)
           \/ Fail(who)
  PROVE  PageInv'
<1> USE DEF PageInv
<1> DEFINE p == page[who]
           Fetches == [state : {"none", "asked", "read"}, attempt : Nat, answer : Copies]
           Shows(shown, fetch) ==
             /\ OnlyTab(who)
             /\ page'[who].shown = shown /\ page'[who].fetch = fetch
             /\ page'[who].click = p.click
<1>1. page \in [Watcher -> Tab] /\ TabIsSound(who, p) /\ p.fetch \in Fetches
  BY DEF PageTypes, TabsAreSound, Tab
<1>2. \E shown \in Copies, fetch \in Fetches :
        Shows(shown, fetch) /\ Truthful(shown) /\ Truthful(fetch.answer)
  <2>1. p.shown \in Copies /\ Truthful(p.shown) /\ Truthful(p.fetch.answer)
    BY <1>1 DEF Tab, TabIsSound
  <2>2. CASE Visit(who)
    <3> DEFINE fetch == IF p.fetch.state = "none" THEN Asked ELSE p.fetch
    <3>1. fetch \in Fetches /\ Truthful(fetch.answer)
      BY <1>1, <2>1, Blanks, BlankIsTruthful
    <3>2. Shows(p.shown, fetch)
      <4>1. page' = [page EXCEPT ![who].place = "front", ![who].fetch = fetch]
            /\ UNCHANGED ticket
        BY <2>2 DEF Visit
      <4> HIDE DEF fetch
      <4> DEFINE q == [p EXCEPT !.place = "front", !.fetch = fetch]
      <4>2. q \in Tab /\ q.shown = p.shown /\ q.fetch = fetch /\ q.click = p.click
        BY <1>1, <3>1 DEF Tab
      <4>3. page' = [page EXCEPT ![who] = q]
        BY <1>1, <4>1
      <4> HIDE DEF q
      <4>4. page' \in [Watcher -> Tab] /\ page'[who] = q
            /\ \A other \in Watcher \ {who} : page'[other] = page[other]
        BY <1>1, <4>2, <4>3
      <4>5. OnlyTab(who)
        BY <4>1, <4>4 DEF OnlyTab
      <4> QED BY <4>2, <4>4, <4>5
    <3> QED BY <2>1, <3>1, <3>2
  <2>3. CASE Switch(who)
    <3>1. Shows(p.shown, p.fetch)
      BY <1>1, <2>3 DEF Switch, Has, Tab, OnlyTab
    <3> QED BY <1>1, <2>1, <3>1
  <2>4. CASE Forget(who)
    <3>1. Shows(Blank, p.fetch)
      BY <1>1, <2>4, Blanks DEF Forget, Has, Tab, OnlyTab
    <3> QED BY <1>1, <2>1, <3>1, Blanks, BlankIsTruthful
  <2>5. CASE Poll(who)
    <3>1. Shows(p.shown, Asked)
      BY <1>1, <2>5, Blanks DEF Poll, Has, Tab, OnlyTab
    <3> QED BY <2>1, <3>1, Blanks, BlankIsTruthful
  <2>6. CASE Read(who)
    <3> DEFINE fetch == [p.fetch EXCEPT !.state = "read", !.answer = ticket]
    <3>1. fetch \in Fetches /\ fetch.answer = ticket
      BY <1>1 DEF PageTypes
    <3>2. Shows(p.shown, fetch)
      <4>1. page' = [page EXCEPT ![who] = [@ EXCEPT !["fetch"] = fetch]] /\ UNCHANGED ticket
        BY <2>6 DEF Read, Has
      <4> HIDE DEF fetch
      <4> QED BY <1>1, <3>1, <4>1 DEF Tab, OnlyTab
    <3>3. Truthful(ticket)
      BY DEF Truthful, PageTypes, Copies
    <3> QED BY <2>1, <3>1, <3>2, <3>3
  <2>7. CASE Arrive(who)
    <3>1. Shows(p.fetch.answer, NoFetch)
      <4> DEFINE tab == [p EXCEPT !.shown = p.fetch.answer, !.fetch = NoFetch]
      <4>1. /\ tab \in Tab /\ tab.shown = p.fetch.answer /\ tab.fetch = NoFetch
            /\ tab.click = p.click
        BY <1>1, Blanks DEF Tab
      <4>2. page \in [Watcher -> Tab] /\ page' = [page EXCEPT ![who] = tab]
        BY <1>1, <2>7 DEF Arrive, Tab
      <4>3. UNCHANGED ticket
        BY <2>7 DEF Arrive
      <4> HIDE DEF tab
      <4>4. /\ page' \in [Watcher -> Tab] /\ page'[who] = tab
            /\ \A other \in Watcher \ {who} : page'[other] = page[other]
        BY <4>1, <4>2
      <4> QED BY <4>1, <4>3, <4>4 DEF OnlyTab
    <3> QED BY <1>1, <2>1, <3>1, Blanks, BlankIsTruthful
  <2>8. CASE Fail(who)
    <3> DEFINE fetch == IF p.fetch.attempt < Attempts /\ p.place # "away"
                        THEN [Asked EXCEPT !.attempt = p.fetch.attempt + 1] ELSE NoFetch
    <3>1. fetch \in Fetches /\ fetch.answer = Blank
      <4> DEFINE again(n) == [Asked EXCEPT !.attempt = n]
      <4>1. ASSUME NEW n \in Nat PROVE again(n) \in Fetches /\ again(n).answer = Blank
        BY Blanks
      <4>2. p.fetch.attempt + 1 \in Nat
        BY <1>1
      <4>3. fetch = again(p.fetch.attempt + 1) \/ fetch = NoFetch
        BY Zenon
      <4> HIDE DEF again, fetch
      <4> QED BY <4>1, <4>2, <4>3, Blanks
    <3>2. Shows(p.shown, fetch)
      <4>1. page' = [page EXCEPT ![who] = [@ EXCEPT !["fetch"] = fetch]] /\ UNCHANGED ticket
        BY <2>8 DEF Fail, Has
      <4> HIDE DEF fetch
      <4> QED BY <1>1, <3>1, <4>1 DEF Tab, OnlyTab
    <3> QED BY <2>1, <3>1, <3>2, BlankIsTruthful
  <2> QED BY <2>2, <2>3, <2>4, <2>5, <2>6, <2>7, <2>8
<1>3. OnlyTab(who) /\ TabIsSound(who, page'[who])
  BY <1>1, <1>2 DEF TabIsSound
<1>4. PageTypes' /\ LinkedIsOver' /\ TabsAreSound'
  BY <1>3, TabKeeps
<1>5. UNCHANGED surprises
  BY DEF Visit, Switch, Forget, Poll, Read, Arrive, Fail
<1> QED BY <1>4, <1>5 DEF NoSurprise

\* The steps of a click, but for the answer of the gate.
LEMMA ClickKeeps ==
  ASSUME PageInv, NEW who \in Watcher,
         (\E act \in Act : Click(who, act)) \/ Return(who) \/ Lose(who)
  PROVE  PageInv'
<1> USE DEF PageInv
<1> DEFINE p == page[who]
           Clicks == [state : {"none", "sent", "done", "refused"}, act : Act \cup {"none"},
                      seq : Nat]
<1>1. page \in [Watcher -> Tab] /\ p \in Tab /\ TabIsSound(who, p)
  BY DEF PageTypes, TabsAreSound
<1>2. UNCHANGED <<ticket, surprises>>
  BY DEF Click, Return, Lose
<1>3. OnlyTab(who) /\ TabIsSound(who, page'[who])
  <2>1. CASE \E act \in Act : Click(who, act)
    <3>1. PICK act \in Act : Click(who, act)
      BY <2>1
    <3> DEFINE click == [state |-> "sent", act |-> act, seq |-> p.shown.seq]
    <3>2. click \in Clicks /\ ClickIsFounded(who, click)
      <4>1. p.shown \in Copies /\ Truthful(p.shown) /\ Offers(p.shown, who, act)
        BY <1>1, <3>1 DEF Tab, TabIsSound, Click
      <4>2. p.shown.seq \in Nat
        BY <4>1 DEF Copies
      <4> QED BY <4>1, <4>2 DEF ClickIsFounded, Truthful
    <3>3. page' = [page EXCEPT ![who] = [@ EXCEPT !["click"] = click]]
      BY <3>1 DEF Click, Has
    <3> HIDE DEF click
    <3>4. /\ OnlyTab(who) /\ page'[who].shown = p.shown /\ page'[who].fetch = p.fetch
          /\ page'[who].click = click
      BY <1>1, <1>2, <3>2, <3>3 DEF Tab, OnlyTab
    <3> QED BY <1>1, <3>2, <3>4 DEF TabIsSound
  <2>2. CASE Return(who) /\ p.click.state = "done"
    <3> DEFINE fetch == Refetched(p)
    <3>1. /\ fetch \in [state : {"none", "asked", "read"}, attempt : Nat, answer : Copies]
          /\ Truthful(fetch.answer)
      BY <1>1, Blanks, BlankIsTruthful DEF Refetched, Tab, TabIsSound
    <3>2. PICK place \in {"away", "front", "hidden"} :
            page' = [page EXCEPT ![who].click = NoClick, ![who].fetch = fetch,
                                 ![who].place = place]
      BY <1>1, <2>2 DEF Return, Tab
    <3> HIDE DEF fetch
    <3>3. /\ OnlyTab(who) /\ page'[who].shown = p.shown /\ page'[who].fetch = fetch
          /\ page'[who].click = NoClick
      BY <1>1, <1>2, <3>1, <3>2, Blanks DEF Tab, OnlyTab
    <3> QED BY <1>1, <3>1, <3>3, Blanks DEF TabIsSound, ClickIsFounded
  <2>3. CASE Lose(who) \/ (Return(who) /\ p.click.state # "done")
    <3>1. page' = [page EXCEPT ![who] = [@ EXCEPT !["click"] = NoClick]]
      BY <2>3 DEF Lose, Return, Has
    <3>2. /\ OnlyTab(who) /\ page'[who].shown = p.shown /\ page'[who].fetch = p.fetch
          /\ page'[who].click = NoClick
      BY <1>1, <1>2, <3>1, Blanks DEF Tab, OnlyTab
    <3> QED BY <1>1, <3>2, Blanks DEF TabIsSound, ClickIsFounded
  <2> QED BY <2>1, <2>2, <2>3
<1>4. PageTypes' /\ LinkedIsOver' /\ TabsAreSound'
  BY <1>3, TabKeeps
<1> QED BY <1>2, <1>4 DEF NoSurprise

\* The gate's answer: a click on a page that is up to date was offered, and so is accepted.
LEMMA HandleKeeps ==
  ASSUME PageInv, NEW who \in Watcher, Handle(who)
  PROVE  PageInv'
<1> USE DEF PageInv
<1> DEFINE p == page[who]
           c == p.click
           Clicks == [state : {"none", "sent", "done", "refused"}, act : Act \cup {"none"},
                      seq : Nat]
<1>1. page \in [Watcher -> Tab] /\ p \in Tab /\ TabIsSound(who, p) /\ c \in Clicks
  BY DEF PageTypes, TabsAreSound, Tab
<1>2. who \in Person
  BY PageAssumption
<1>3. CASE Accepts(who, c.act)
  <2>1. c.act \in Act
    BY <1>1 DEF Handle, TabIsSound, ClickIsFounded
  <2>2. Follows(ticket')
    BY <1>2, <1>3, <2>1, ActsGoOn DEF Handle
  <2> DEFINE click == [c EXCEPT !.state = "done", !.seq = ticket'.seq]
  <2>3. click \in Clicks /\ click.state = "done"
    <3>1. ticket'.seq \in Nat
      BY <2>2 DEF Follows, Copies
    <3> QED BY <1>1, <3>1
  <2>4. page' = [page EXCEPT ![who] = [@ EXCEPT !["click"] = click]] /\ UNCHANGED surprises
    BY <1>3 DEF Handle, Has
  <2> HIDE DEF click
  <2>5. /\ page' \in [Watcher -> Tab] /\ page'[who].click = click
        /\ page'[who].shown = p.shown /\ page'[who].fetch = p.fetch
        /\ \A other \in Watcher \ {who} : page'[other] = page[other]
    BY <1>1, <2>3, <2>4 DEF Tab
  <2>6. PageTypes' /\ LinkedIsOver' /\ TabsAreSound'
    BY <2>2, <2>3, <2>5, EventKeeps
  <2> QED BY <2>4, <2>6 DEF NoSurprise
<1>4. CASE ~Accepts(who, c.act)
  <2>1. c.seq # ticket.seq
    <3> SUFFICES ASSUME c.seq = ticket.seq PROVE FALSE
      OBVIOUS
    <3>1. c.act \in Act /\ Offers(ticket, who, c.act)
      BY <1>1 DEF Handle, TabIsSound, ClickIsFounded
    <3> QED BY <1>2, <1>4, <3>1, OffersAreRights
  <2> DEFINE click == [c EXCEPT !.state = "refused"]
  <2>2. click \in Clicks /\ click.state = "refused"
    BY <1>1
  <2>3. /\ page' = [page EXCEPT ![who] = [@ EXCEPT !["click"] = click]]
        /\ UNCHANGED <<ticket, surprises>>
    BY <1>4, <2>1 DEF Handle, Has
  <2> HIDE DEF click
  <2>4. /\ OnlyTab(who) /\ page'[who].shown = p.shown /\ page'[who].fetch = p.fetch
        /\ page'[who].click = click
    BY <1>1, <2>2, <2>3 DEF Tab, OnlyTab
  <2>5. TabIsSound(who, page'[who])
    BY <1>1, <2>2, <2>4 DEF TabIsSound, ClickIsFounded
  <2>6. PageTypes' /\ LinkedIsOver' /\ TabsAreSound'
    BY <2>4, <2>5, TabKeeps
  <2> QED BY <2>3, <2>6 DEF NoSurprise
<1> QED BY <1>3, <1>4

LEMMA OthersKeep == PageInv /\ Elsewhere => PageInv'
<1> SUFFICES ASSUME PageInv, Elsewhere PROVE PageInv'
  OBVIOUS
<1> USE DEF PageInv
<1>1. Follows(ticket')
  <2>1. CASE \E to \in Statuses, kind \in {"agent", "system"} :
               /\ CanTransition(ticket.status, to, kind)
               /\ ticket' = [ticket EXCEPT !.seq = @ + 1, !.status = to]
    BY <2>1, TransitionsGoOn
  <2>2. CASE \E who \in Person, act \in Act :
               Accepts(who, act) /\ ticket' = After(who, act)
    BY <2>2, ActsGoOn
  <2> QED BY <2>1, <2>2 DEF Elsewhere
<1>2. UNCHANGED <<page, surprises>>
  BY DEF Elsewhere
<1>3. PageTypes' /\ LinkedIsOver' /\ TabsAreSound'
  <2>1. page' \in [Watcher -> Tab]
    BY <1>2 DEF PageTypes
  <2> QED BY <1>1, <1>2, <2>1, EventKeeps
<1> QED BY <1>2, <1>3 DEF NoSurprise

LEMMA PageStutterKeeps == PageInv /\ UNCHANGED pageVars => PageInv'
BY DEF PageInv, pageVars, PageTypes, LinkedIsOver, TabsAreSound, TabIsSound, Truthful,
   ClickIsFounded, Offers, DecisionButtons, MayDecide, CanClose, CanSupersede, NoSurprise

LEMMA PageStepKeeps == PageInv /\ [PageNext]_pageVars => PageInv'
<1> SUFFICES ASSUME PageInv, [PageNext]_pageVars PROVE PageInv'
  OBVIOUS
<1>1. CASE Elsewhere
  BY <1>1, OthersKeep
<1>2. ASSUME NEW who \in Watcher,
             Visit(who) \/ Switch(who) \/ Forget(who) \/ Poll(who) \/ Read(who)
               \/ Arrive(who) \/ Fail(who)
      PROVE  PageInv'
  BY <1>2, QueryKeeps
<1>3. ASSUME NEW who \in Watcher, Handle(who) PROVE PageInv'
  BY <1>3, HandleKeeps
<1>4. ASSUME NEW who \in Watcher,
             (\E act \in Act : Click(who, act)) \/ Return(who) \/ Lose(who)
      PROVE  PageInv'
  BY <1>4, ClickKeeps
<1>5. CASE UNCHANGED pageVars
  BY <1>5, PageStutterKeeps
<1> QED BY <1>1, <1>2, <1>3, <1>4, <1>5 DEF PageNext

\* Copies of the present version are the present version, and clicks on them were offered.
THEOREM PageInvariance == PageSpec => []PageInv
BY PageInitEstablishes, PageStepKeeps, PTL DEF PageSpec

\* A click that the gate refuses was made on a page that was out of date: the rules that
\* the portal's components repeat allow nothing that the service does not.
THEOREM UpToDateClicksSucceed == PageSpec => []NoSurprise
<1>1. PageInv => NoSurprise
  BY DEF PageInv
<1> QED BY <1>1, PageInvariance, PTL

\* A page that is up to date offers all that the gate would accept, but for a rejection by
\* somebody who has approved.
THEOREM RightsAreAlwaysOffered == PageSpec => []EveryRightIsOffered
<1>1. PageInv => EveryRightIsOffered
  BY RightsAreOffered, PageAssumption DEF PageInv, EveryRightIsOffered
<1> QED BY <1>1, PageInvariance, PTL
=============================================================================
