-------------------------- MODULE JsonlStoreProofs --------------------------
(***************************************************************************)
(* Proofs about JsonlStore: what a log file, cut off anywhere and any      *)
(* number of times, still gives back at boot.                              *)
(***************************************************************************)
EXTENDS JsonlStoreInv, TicketFoldProofs, SequenceTheorems, TLAPS

Splitting == INSTANCE FoldTheorems WITH Op <- AddToken
Replaying == INSTANCE FoldTheorems WITH Op <- ReplayEarlierLine
Applying == INSTANCE FoldTheorems WITH Op <- ApplyEntry
Dumping == INSTANCE FoldTheorems WITH Op <- AddEntry

-----------------------------------------------------------------------------
(* Sequences: all but the last element, and prefixes.                      *)

LEMMA FrontLast ==
  ASSUME NEW S, NEW s \in Seq(S), s # <<>>
  PROVE  /\ Len(s) \in Nat \ {0}
         /\ Front(s) \in Seq(S) /\ Len(Front(s)) = Len(s) - 1
         /\ \A i \in 1 .. Len(s) - 1 : Front(s)[i] = s[i]
         /\ Last(s) \in S /\ Last(s) = s[Len(s)]
<1>1. Len(s) \in Nat \ {0} /\ \A i \in 1 .. Len(s) : s[i] \in S
  BY EmptySeq, LenProperties
<1>2. \A i \in 1 .. Len(s) - 1 : s[i] \in S
  BY <1>1
<1> DEFINE n == Len(s) - 1
           u == SubSeq(s, 1, n)
<1>3. n \in Int /\ 1 \in Int
  BY <1>1
<1> HIDE DEF n
<1>4. /\ u \in Seq(S)
      /\ Len(u) = IF 1 <= n THEN n - 1 + 1 ELSE 0
      /\ \A i \in 1 .. n - 1 + 1 : u[i] = s[1 + i - 1]
  BY <1>2, <1>3, SubSeqProperties DEF n
<1> HIDE DEF u
<1>5. Len(u) = n /\ \A i \in 1 .. n : u[i] = s[i]
  <2>1. n \in Nat /\ n - 1 + 1 = n /\ \A i \in 1 .. n : 1 + i - 1 = i
    BY <1>1 DEF n
  <2> QED BY <1>4, <2>1
<1>6. Front(s) = u
  BY DEF Front, u, n
<1>7. s[Len(s)] \in S
  BY <1>1
<1> QED BY <1>1, <1>4, <1>5, <1>6, <1>7 DEF Last, n

LEMMA FrontOfAppend ==
  ASSUME NEW S, NEW s \in Seq(S), NEW e \in S
  PROVE  Front(Append(s, e)) = s /\ Last(Append(s, e)) = e
<1> DEFINE t == Append(s, e)
<1>1. /\ t \in Seq(S) /\ Len(t) = Len(s) + 1 /\ t # <<>>
      /\ t[Len(t)] = e /\ \A i \in 1 .. Len(s) : t[i] = s[i]
  OBVIOUS
<1> HIDE DEF t
<1>2. Front(t) \in Seq(S) /\ Len(Front(t)) = Len(s) /\ \A i \in 1 .. Len(s) : Front(t)[i] = s[i]
  <2>1. Len(s) \in Nat
    OBVIOUS
  <2> QED BY <1>1, <2>1, FrontLast
<1>3. Front(t) = s
  BY <1>2, SeqEqual
<1> QED BY <1>1, <1>3, FrontLast DEF t

LEMMA AppendFrontLast ==
  ASSUME NEW S, NEW s \in Seq(S), s # <<>>
  PROVE  s = Append(Front(s), Last(s))
<1> DEFINE t == Append(Front(s), Last(s))
<1>1. /\ Front(s) \in Seq(S) /\ Len(Front(s)) = Len(s) - 1 /\ Last(s) \in S
      /\ \A i \in 1 .. Len(s) - 1 : Front(s)[i] = s[i]
      /\ Last(s) = s[Len(s)] /\ Len(s) \in Nat \ {0}
  BY FrontLast
<1>2. t \in Seq(S) /\ Len(t) = Len(s)
  BY <1>1
<1>3. \A i \in 1 .. Len(s) : t[i] = IF i <= Len(s) - 1 THEN Front(s)[i] ELSE Last(s)
  BY <1>1
<1>4. \A i \in 1 .. Len(s) : t[i] = s[i]
  BY <1>1, <1>3
<1> HIDE DEF t
<1>5. t = s
  BY <1>2, <1>4, SeqEqual
<1> QED BY <1>5 DEF t

LEMMA PrefixIs ==
  ASSUME NEW S, NEW s \in Seq(S), NEW t \in Seq(S)
  PROVE  IsPrefix(s, t) <=> Len(s) <= Len(t) /\ \A i \in 1 .. Len(s) : s[i] = t[i]
<1>1. Len(s) \in Nat /\ Len(t) \in Nat
  OBVIOUS
<1> SUFFICES ASSUME Len(s) <= Len(t)
             PROVE  SubSeq(s, 1, Len(s)) = SubSeq(t, 1, Len(s)) <=> \A i \in 1 .. Len(s) : s[i] = t[i]
  BY DEF IsPrefix
<1>2. SubSeq(s, 1, Len(s)) = s
  BY SubSeqFull
<1>3. /\ SubSeq(t, 1, Len(s)) \in Seq(S) /\ Len(SubSeq(t, 1, Len(s))) = Len(s)
      /\ \A i \in 1 .. Len(s) : SubSeq(t, 1, Len(s))[i] = t[i]
  <2>1. \A i \in 1 .. Len(s) : t[i] \in S
    BY <1>1, ElementOfSeq
  <2>2. 1 \in Int /\ Len(s) \in Int
    BY <1>1
  <2>3. /\ SubSeq(t, 1, Len(s)) \in Seq(S)
        /\ Len(SubSeq(t, 1, Len(s))) = IF 1 <= Len(s) THEN Len(s) - 1 + 1 ELSE 0
        /\ \A i \in 1 .. Len(s) - 1 + 1 : SubSeq(t, 1, Len(s))[i] = t[1 + i - 1]
    BY <2>1, <2>2, SubSeqProperties
  <2> QED BY <1>1, <2>3
<1>4. (\A i \in 1 .. Len(s) : s[i] = SubSeq(t, 1, Len(s))[i]) => s = SubSeq(t, 1, Len(s))
  <2>1. \A u \in Seq(S) : Len(u) = Len(s) /\ (\A i \in 1 .. Len(s) : s[i] = u[i]) => s = u
    BY SeqEqual
  <2> QED BY <1>3, <2>1
<1> QED BY <1>2, <1>3, <1>4

LEMMA PrefixAppend ==
  ASSUME NEW S, NEW s \in Seq(S), NEW t \in Seq(S), NEW e \in S, IsPrefix(s, t)
  PROVE  IsPrefix(s, Append(t, e))
<1>1. Len(s) \in Nat /\ Len(t) \in Nat /\ Len(s) <= Len(t) /\ \A i \in 1 .. Len(s) : s[i] = t[i]
  BY PrefixIs
<1>2. Append(t, e) \in Seq(S) /\ Len(Append(t, e)) = Len(t) + 1
      /\ \A i \in 1 .. Len(t) : Append(t, e)[i] = t[i]
  OBVIOUS
<1>3. Len(s) <= Len(Append(t, e)) /\ \A i \in 1 .. Len(s) : s[i] = Append(t, e)[i]
  BY <1>1, <1>2
<1> QED BY <1>2, <1>3, PrefixIs

LEMMA PrefixReflexive == ASSUME NEW S, NEW s \in Seq(S) PROVE IsPrefix(s, s)
<1>1. Len(s) <= Len(s) /\ \A i \in 1 .. Len(s) : s[i] = s[i]
  OBVIOUS
<1> QED BY <1>1, PrefixIs

LEMMA PrefixTransitive ==
  ASSUME NEW S, NEW s \in Seq(S), NEW t \in Seq(S), NEW u \in Seq(S),
         IsPrefix(s, t), IsPrefix(t, u)
  PROVE  IsPrefix(s, u)
<1>1. Len(s) \in Nat /\ Len(t) \in Nat /\ Len(u) \in Nat
  OBVIOUS
<1>2. Len(s) <= Len(t) /\ \A i \in 1 .. Len(s) : s[i] = t[i]
  BY PrefixIs
<1>3. Len(t) <= Len(u) /\ \A i \in 1 .. Len(t) : t[i] = u[i]
  BY PrefixIs
<1>4. Len(s) <= Len(u) /\ \A i \in 1 .. Len(s) : s[i] = u[i]
  BY <1>1, <1>2, <1>3
<1> QED BY <1>4, PrefixIs

\* A prefix that is not shorter is the whole.
LEMMA PrefixWhole ==
  ASSUME NEW S, NEW s \in Seq(S), NEW t \in Seq(S), IsPrefix(s, t), Len(t) <= Len(s)
  PROVE  s = t
<1>1. Len(s) \in Nat /\ Len(t) \in Nat
  OBVIOUS
<1>2. Len(s) = Len(t) /\ \A i \in 1 .. Len(s) : s[i] = t[i]
  BY <1>1, PrefixIs
<1> QED BY <1>2, SeqEqual

-----------------------------------------------------------------------------
(* The folds of the module, one element at a time.                         *)

LEMMA SplitStarts == Lines(<<>>) = << <<>> >>
<1>1. Lines(<<>>) = Splitting!FoldLeft(AddToken, << <<>> >>, <<>>)
  BY DEF Lines, FoldLeft, MapThenFoldSet, Max,
         Splitting!FoldLeft, Splitting!MapThenFoldSet, Splitting!Max
<1> QED BY <1>1, Splitting!FoldEmpty

LEMMA SplitGoesOn ==
  ASSUME NEW f \in Seq(Token), NEW token \in Token
  PROVE  Lines(Append(f, token)) = AddToken(Lines(f), token)
<1>1. \A g : Lines(g) = Splitting!FoldLeft(AddToken, << <<>> >>, g)
  BY DEF Lines, FoldLeft, MapThenFoldSet, Max,
         Splitting!FoldLeft, Splitting!MapThenFoldSet, Splitting!Max
<1>2. Splitting!FoldLeft(AddToken, << <<>> >>, Append(f, token))
        = AddToken(Splitting!FoldLeft(AddToken, << <<>> >>, f), token)
  BY Splitting!FoldAppend
<1> QED BY <1>1, <1>2

LEMMA LinesType ==
  ASSUME NEW f \in Seq(Token)
  PROVE  Lines(f) \in Seq(Seq(Token)) /\ Lines(f) # <<>>
<1> DEFINE Some == Seq(Seq(Token)) \ {<<>>}
<1>1. Lines(f) = Splitting!FoldLeft(AddToken, << <<>> >>, f)
  BY DEF Lines, FoldLeft, MapThenFoldSet, Max,
         Splitting!FoldLeft, Splitting!MapThenFoldSet, Splitting!Max
<1>2. << <<>> >> \in Some
  OBVIOUS
<1>3. \A ls \in Some, token \in Token : AddToken(ls, token) \in Some
  <2> SUFFICES ASSUME NEW ls \in Some, NEW token \in Token PROVE AddToken(ls, token) \in Some
    OBVIOUS
  <2>1. CASE token = Newline
    <3>1. ls \in Seq(Seq(Token)) /\ <<>> \in Seq(Token)
      OBVIOUS
    <3>2. Append(ls, <<>>) \in Seq(Seq(Token)) /\ Len(Append(ls, <<>>)) = Len(ls) + 1
      BY <3>1
    <3>3. Append(ls, <<>>) # <<>>
      <4>1. Len(ls) \in Nat /\ Len(<<>>) = 0
        BY <3>1
      <4> QED BY <3>2, <4>1
    <3> QED BY <2>1, <3>2, <3>3 DEF AddToken
  <2>2. CASE token # Newline
    <3>1. Len(ls) \in 1 .. Len(ls) /\ ls[Len(ls)] \in Seq(Token)
      OBVIOUS
    <3>2. Append(ls[Len(ls)], token) \in Seq(Token)
      BY <3>1
    <3>3. AddToken(ls, token) = [ls EXCEPT ![Len(ls)] = Append(ls[Len(ls)], token)]
      BY <2>2 DEF AddToken
    <3> QED BY <3>1, <3>2, <3>3
  <2> QED BY <2>1, <2>2
<1> HIDE DEF Some
<1>4. Splitting!FoldLeft(AddToken, << <<>> >>, f) \in Some
  BY <1>2, <1>3, Splitting!FoldType
<1> QED BY <1>1, <1>4 DEF Some

-----------------------------------------------------------------------------
(* What a boot makes of the file: the lines that are ended by a newline,   *)
(* the tip after the last one, and all of it.                              *)

LEMMA ReplayIs == \A f : Replay(f) = Repair(Whole(f))
BY DEF Replay, Body, Tip, Whole

LEMMA BodyIs == \A f : Body(f) = Replaying!FoldLeft(ReplayEarlierLine, Empty, Front(Lines(f)))
BY DEF Body, FoldLeft, MapThenFoldSet, Max,
       Replaying!FoldLeft, Replaying!MapThenFoldSet, Replaying!Max

LEMMA FileStarts == Body(<<>>) = Empty /\ Tip(<<>>) = <<>> /\ Whole(<<>>) = Empty
<1>1. Front(Lines(<<>>)) = <<>> /\ Last(Lines(<<>>)) = <<>>
  BY SplitStarts DEF Front, Last
<1>2. Body(<<>>) = Empty
  BY <1>1, BodyIs, Replaying!FoldEmpty
<1> QED BY <1>1, <1>2 DEF Tip, Whole, ReplayLine

LEMMA FileGoesOn ==
  ASSUME NEW f \in Seq(Token), NEW token \in Token
  PROVE  /\ Tip(f) \in Seq(Token)
         /\ token # Newline => /\ Body(Append(f, token)) = Body(f)
                               /\ Tip(Append(f, token)) = Append(Tip(f), token)
         /\ token = Newline => /\ Body(Append(f, token)) = ReplayEarlierLine(Body(f), Tip(f))
                               /\ Tip(Append(f, token)) = <<>>
<1>1. PICK lines \in Seq(Seq(Token)) : lines = Lines(f) /\ lines # <<>>
  BY LinesType
<1>2. Len(lines) \in Nat \ {0} /\ Last(lines) \in Seq(Token) /\ Front(lines) \in Seq(Seq(Token))
  BY <1>1, FrontLast
<1>3. CASE token # Newline
  <2>1. Lines(Append(f, token)) = [lines EXCEPT ![Len(lines)] = Append(Last(lines), token)]
    BY <1>1, <1>3, SplitGoesOn DEF AddToken, Last
  <2> DEFINE grown == [lines EXCEPT ![Len(lines)] = Append(Last(lines), token)]
  <2>2. /\ grown \in Seq(Seq(Token)) /\ Len(grown) = Len(lines)
        /\ grown[Len(lines)] = Append(Last(lines), token)
        /\ \A i \in 1 .. Len(lines) - 1 : grown[i] = lines[i]
    <3>1. Append(Last(lines), token) \in Seq(Token) /\ Len(lines) \in 1 .. Len(lines)
      BY <1>2
    <3>2. /\ grown \in Seq(Seq(Token)) /\ Len(grown) = Len(lines)
          /\ \A j \in 1 .. Len(lines) :
               grown[j] = IF j = Len(lines) THEN Append(Last(lines), token) ELSE lines[j]
      BY <3>1, ExceptSeq
    <3>3. Len(lines) \in 1 .. Len(lines)
          /\ \A i \in 1 .. Len(lines) - 1 : i \in 1 .. Len(lines) /\ i # Len(lines)
      BY <1>2
    <3> HIDE DEF grown
    <3> QED BY <3>2, <3>3
  <2> HIDE DEF grown
  <2>3. grown # <<>>
    BY <1>2, <2>2
  <2>4. Last(grown) = Append(Last(lines), token)
    BY <1>2, <2>2 DEF Last
  <2>5. Front(grown) = Front(lines)
    <3>1. /\ Front(grown) \in Seq(Seq(Token)) /\ Len(Front(grown)) = Len(lines) - 1
          /\ \A i \in 1 .. Len(lines) - 1 : Front(grown)[i] = grown[i]
      BY <2>2, <2>3, FrontLast
    <3>2. Len(Front(lines)) = Len(lines) - 1 /\ \A i \in 1 .. Len(lines) - 1 : Front(lines)[i] = lines[i]
      BY <1>1, FrontLast
    <3>3. \A i \in 1 .. Len(Front(grown)) : Front(grown)[i] = Front(lines)[i]
      BY <2>2, <3>1, <3>2
    <3> QED BY <1>2, <3>1, <3>2, <3>3, SeqEqual
  <2> QED BY <1>1, <1>2, <1>3, <2>1, <2>4, <2>5 DEF Body, Tip, grown
<1>4. CASE token = Newline
  <2>1. Lines(Append(f, token)) = Append(lines, <<>>)
    BY <1>1, <1>4, SplitGoesOn DEF AddToken
  <2>2. Front(Append(lines, <<>>)) = lines /\ Last(Append(lines, <<>>)) = <<>>
    <3>1. <<>> \in Seq(Token)
      OBVIOUS
    <3> QED BY <1>1, <3>1, FrontOfAppend
  <2>3. lines = Append(Front(lines), Last(lines))
    BY <1>1, AppendFrontLast
  <2>4. Replaying!FoldLeft(ReplayEarlierLine, Empty, Append(Front(lines), Last(lines)))
          = ReplayEarlierLine(Replaying!FoldLeft(ReplayEarlierLine, Empty, Front(lines)),
                              Last(lines))
    <3>1. Front(lines) \in Seq(Seq(Token)) /\ Last(lines) \in Seq(Token)
      BY <1>2
    <3> QED BY <3>1, Replaying!FoldAppend
  <2>5. Body(Append(f, token)) = ReplayEarlierLine(Body(f), Tip(f))
    BY <1>1, <2>1, <2>2, <2>3, <2>4, BodyIs DEF Tip
  <2> QED BY <1>1, <1>2, <1>4, <2>1, <2>2, <2>5 DEF Tip
<1> QED BY <1>3, <1>4

-----------------------------------------------------------------------------
(* One more token.  A line that is written after a complete newline is     *)
(* replayed; what is written behind a torn line is lost, and the newline   *)
(* that ends it makes the log unreadable for good.                         *)

LEMMA TextToken ==
  ASSUME NEW id \in TicketId, NEW e \in AuditEvent
  PROVE  /\ Text(id, e) \in Token /\ Text(id, e) # Newline
         /\ Text(id, e).kind = "event" /\ Text(id, e).id = id /\ Text(id, e).event = e
<1>1. Text(id, e) \in Token /\ Text(id, e).kind = "event"
      /\ Text(id, e).id = id /\ Text(id, e).event = e
  BY DEF Text, Token, Event
<1>2. Newline.kind = "newline"
  BY DEF Newline
<1> QED BY <1>1, <1>2

LEMMA NewlineToken == Newline \in Token /\ Newline.kind = "newline"
BY DEF Token, Newline

LEMMA FragmentToken ==
  ASSUME NEW piece \in [kind : Fragment]
  PROVE  piece \in Token /\ piece # Newline /\ piece.kind \in Fragment /\ piece.kind # "event"
<1>1. piece \in [kind : {"torn", "cutCharacter"}] /\ piece.kind \in {"torn", "cutCharacter"}
      /\ piece.kind \in Fragment
  BY FragmentAssumption
<1>2. piece \in Token
  BY <1>1 DEF Token
<1>3. Newline.kind = "newline"
  BY DEF Newline
<1> QED BY <1>1, <1>2, <1>3

After(s, id, e) == IF s.ok THEN ApplyToState(s, id, e) ELSE s

LEMMA ReplayText ==
  ASSUME NEW s, NEW id \in TicketId, NEW e \in AuditEvent, NEW last \in BOOLEAN
  PROVE  ReplayLine(s, <<Text(id, e)>>, last) = After(s, id, e)
<1> DEFINE line == <<Text(id, e)>>
<1>1. Len(line) = 1 /\ DOMAIN line = {1} /\ line[1] = Text(id, e) /\ line # <<>>
  OBVIOUS
<1>2. Parses(line) /\ ~Undecodable(line) /\ line[1].id = id /\ line[1].event = e
  BY <1>1, TextToken DEF Parses, Undecodable
<1> HIDE DEF line
<1>3. ReplayLine(s, line, last) = After(s, id, e)
  BY <1>1, <1>2 DEF ReplayLine, After
<1> QED BY <1>3 DEF line

LEMMA LineAdded ==
  ASSUME NEW f \in Seq(Token), Tip(f) = <<>>, NEW id \in TicketId, NEW e \in AuditEvent
  PROVE  LET text == Append(f, Text(id, e))
             line == Append(text, Newline)
             s == After(Body(f), id, e)
         IN  /\ text \in Seq(Token) /\ Body(text) = Body(f) /\ Tip(text) # <<>> /\ Whole(text) = s
             /\ line \in Seq(Token) /\ Body(line) = s /\ Tip(line) = <<>> /\ Whole(line) = s
<1> DEFINE text == Append(f, Text(id, e))
           line == Append(text, Newline)
           s == After(Body(f), id, e)
<1>1. Text(id, e) \in Token /\ Text(id, e) # Newline /\ Newline \in Token
  BY TextToken, NewlineToken
<1>2. text \in Seq(Token) /\ line \in Seq(Token)
  BY <1>1
<1>3. Body(text) = Body(f) /\ Tip(text) = <<Text(id, e)>>
  <2>1. Tip(text) = Append(<<>>, Text(id, e)) /\ Body(text) = Body(f)
    BY <1>1, FileGoesOn
  <2> QED BY <2>1
<1>4. Tip(text) # <<>>
  BY <1>3
<1>5. Whole(text) = s
  BY <1>3, ReplayText DEF Whole
<1> HIDE DEF text
<1>6. Body(line) = ReplayEarlierLine(Body(text), Tip(text)) /\ Tip(line) = <<>>
  BY <1>1, <1>2, FileGoesOn
<1>7. Body(line) = s
  BY <1>3, <1>6, ReplayText DEF ReplayEarlierLine
<1> HIDE DEF line
<1>8. Whole(line) = s
  BY <1>6, <1>7 DEF Whole, ReplayLine
<1> QED BY <1>2, <1>3, <1>4, <1>5, <1>6, <1>7, <1>8 DEF text, line

LEMMA FragmentAdded ==
  ASSUME NEW f \in Seq(Token), Tip(f) = <<>>, NEW piece \in [kind : Fragment]
  PROVE  LET torn == Append(f, piece) IN
         /\ torn \in Seq(Token) /\ Body(torn) = Body(f) /\ Tip(torn) # <<>>
         /\ Whole(torn).ok => Whole(torn) = Body(f)
         /\ Body(f).ok /\ "cutCharacter" \notin Fragment => Whole(torn).ok
<1> DEFINE torn == Append(f, piece)
           tip == <<piece>>
<1>1. piece \in Token /\ piece # Newline /\ piece.kind \in Fragment /\ piece.kind # "event"
  BY FragmentToken
<1>2. torn \in Seq(Token)
  BY <1>1
<1>3. Body(torn) = Body(f) /\ Tip(torn) = tip
  <2>1. Tip(torn) = Append(<<>>, piece) /\ Body(torn) = Body(f)
    BY <1>1, FileGoesOn
  <2> QED BY <2>1
<1>4. tip # <<>> /\ DOMAIN tip = {1} /\ tip[1] = piece
  BY <1>1
<1> HIDE DEF torn, tip
<1>5. ~Parses(tip) /\ (Undecodable(tip) <=> piece.kind = "cutCharacter")
  BY <1>1, <1>4 DEF Parses, Undecodable
<1>6. Whole(torn) = IF Body(f).ok /\ piece.kind = "cutCharacter" THEN Failed ELSE Body(f)
  BY <1>3, <1>4, <1>5 DEF Whole, ReplayLine
<1>7. Failed.ok = FALSE
  BY DEF Failed
<1> QED BY <1>1, <1>2, <1>3, <1>4, <1>6, <1>7 DEF torn

\* A token that comes behind a torn line, other than the newline.
LEMMA BehindTorn ==
  ASSUME NEW f \in Seq(Token), Tip(f) # <<>>, NEW token \in Token, token # Newline
  PROVE  LET more == Append(f, token) IN
         /\ more \in Seq(Token) /\ Body(more) = Body(f) /\ Tip(more) # <<>>
         /\ Whole(more).ok => Whole(more) = Body(f)
         /\ ~Body(Append(more, Newline)).ok
<1> DEFINE more == Append(f, token)
<1>1. more \in Seq(Token)
  OBVIOUS
<1>2. Tip(f) \in Seq(Token) /\ Body(more) = Body(f) /\ Tip(more) = Append(Tip(f), token)
  BY FileGoesOn
<1>3. Len(Tip(more)) # 1 /\ Tip(more) # <<>>
  <2>1. Len(Tip(f)) \in Nat \ {0}
    BY <1>2, EmptySeq
  <2>2. Len(Tip(more)) = Len(Tip(f)) + 1 /\ Tip(more) # <<>>
    BY <1>2, AppendProperties
  <2> QED BY <2>1, <2>2
<1> HIDE DEF more
<1>4. ~Parses(Tip(more))
  BY <1>3 DEF Parses
<1>5. Failed.ok = FALSE
  BY DEF Failed
<1>6. Whole(more) = Body(f) \/ Whole(more) = Failed
  BY <1>2, <1>3, <1>4 DEF Whole, ReplayLine
<1>7. Body(Append(more, Newline)) = ReplayEarlierLine(Body(more), Tip(more))
  BY <1>1, NewlineToken, FileGoesOn
<1>8. ~ReplayEarlierLine(Body(more), Tip(more)).ok
  BY <1>3, <1>4, <1>5 DEF ReplayEarlierLine, ReplayLine
<1> QED BY <1>1, <1>2, <1>3, <1>5, <1>6, <1>7, <1>8 DEF more

\* A log that cannot be read stays so.
LEMMA Unreadable ==
  ASSUME NEW f \in Seq(Token), ~Body(f).ok
  PROVE  /\ ~Whole(f).ok
         /\ \A token \in Token : ~Body(Append(f, token)).ok /\ ~Whole(Append(f, token)).ok
<1>1. \A g : ~Body(g).ok => ~Whole(g).ok
  BY DEF Whole, ReplayLine
<1>2. ASSUME NEW token \in Token PROVE ~Body(Append(f, token)).ok
  <2>1. CASE token = Newline
    <3>1. Body(Append(f, token)) = ReplayEarlierLine(Body(f), Tip(f))
      BY <2>1, FileGoesOn
    <3> QED BY <3>1 DEF ReplayEarlierLine, ReplayLine
  <2>2. CASE token # Newline
    BY <2>2, FileGoesOn
  <2> QED BY <2>1, <2>2
<1> QED BY <1>1, <1>2

-----------------------------------------------------------------------------
(* One more event, folded into a sound state.                              *)

LEMMA ApplyEventLinks ==
  ASSUME NEW t \in Ticket, NEW e \in AuditEvent
  PROVE  /\ ApplyEvent(t, e).supersedes = t.supersedes
         /\ ApplyEvent(t, e).supersededBy =
              IF e.type \in LinkTypes THEN e.details ELSE t.supersededBy
BY DEF ApplyEvent, Bumped, Ticket, AuditEvent, EventOf, ApprovalTypes, LinkTypes, ResultTypes, PlainTypes

LEMMA CreatedEventType ==
  ASSUME NEW t \in Ticket
  PROVE  /\ CreatedEvent(t) \in AuditEvent /\ CreatedEvent(t).type = "TICKET_CREATED"
         /\ CreatedEvent(t).details = t
BY DEF CreatedEvent, Ticket, AuditEvent, EventOf, ActorKinds, Statuses

LEMMA SoundLogAppend ==
  ASSUME NEW t \in Ticket, NEW log \in Seq(AuditEvent), NEW e \in AuditEvent,
         SoundLog(log, t), e.seq = t.seq + 1
  PROVE  SoundLog(Append(log, e), ApplyEvent(t, e))
<1>1. log # <<>> /\ log[1].details \in Ticket /\ t = Refold(log) /\ t.seq = Len(log)
  BY DEF SoundLog
<1>2. Refold(Append(log, e)) = ApplyEvent(t, e)
  BY <1>1, RefoldAppend
<1>3. Len(log) \in Nat \ {0} /\ Append(log, e) # <<>> /\ Len(Append(log, e)) = Len(log) + 1
      /\ Append(log, e)[1] = log[1]
  <2>1. Len(log) \in Nat \ {0}
    BY <1>1, EmptySeq
  <2> QED BY <2>1, AppendProperties
<1>4. ApplyEvent(t, e).seq = e.seq
  BY ApplyEventFreezes
<1> QED BY <1>1, <1>2, <1>3, <1>4 DEF SoundLog

LEMMA SoundLogNew ==
  ASSUME NEW t \in Ticket, t.seq = 1
  PROVE  SoundLog(<<CreatedEvent(t)>>, t)
<1>1. Refold(<<CreatedEvent(t)>>) = t
  BY RefoldCreation, CreatedEventType
<1>2. <<CreatedEvent(t)>> # <<>> /\ Len(<<CreatedEvent(t)>>) = 1 /\ <<CreatedEvent(t)>>[1].details = t
  BY CreatedEventType
<1> QED BY <1>1, <1>2 DEF SoundLog

LEMMA Appended ==
  ASSUME NEW s, Store(s), NEW id \in DOMAIN s.tickets, NEW e \in AuditEvent,
         e.type # "TICKET_CREATED", Foldable(s.tickets[id], e)
  PROVE  LET n == ApplyToState(s, id, e) IN
         /\ Store(n) /\ n.ok
         /\ DOMAIN n.tickets = DOMAIN s.tickets
         /\ n.tickets[id] = ApplyEvent(s.tickets[id], e)
         /\ n.events[id] = Append(s.events[id], e)
         /\ \A x \in DOMAIN s.tickets : x # id => n.tickets[x] = s.tickets[x] /\ n.events[x] = s.events[x]
<1> DEFINE D == DOMAIN s.tickets
           ts == [s.tickets EXCEPT ![id] = ApplyEvent(s.tickets[id], e)]
           es == [s.events EXCEPT ![id] = Append(s.events[id], e)]
           n == [ok |-> TRUE, tickets |-> ts, events |-> es]
<1>1. /\ s = [ok |-> TRUE, tickets |-> s.tickets, events |-> s.events]
      /\ D \subseteq TicketId /\ s.tickets \in [D -> Ticket] /\ s.events \in [D -> Seq(AuditEvent)]
  BY DEF Store
<1>2. ApplyToState(s, id, e) = [ok |-> s.ok, tickets |-> ts, events |-> es]
  BY DEF ApplyToState
<1>3. s.ok = TRUE
  BY <1>1
<1>4. ApplyEvent(s.tickets[id], e) \in Ticket /\ Append(s.events[id], e) \in Seq(AuditEvent)
  <2>1. s.tickets[id] \in Ticket /\ s.events[id] \in Seq(AuditEvent)
    BY <1>1
  <2> QED BY <2>1, ApplyEventType, AppendProperties
<1>5. /\ ts \in [D -> Ticket] /\ es \in [D -> Seq(AuditEvent)] /\ DOMAIN ts = D
      /\ ts[id] = ApplyEvent(s.tickets[id], e) /\ es[id] = Append(s.events[id], e)
      /\ \A x \in D : x # id => ts[x] = s.tickets[x] /\ es[x] = s.events[x]
  BY <1>1, <1>4
<1> HIDE DEF ts, es
<1>6. n.tickets = ts /\ n.events = es /\ n.ok
  OBVIOUS
<1>7. Store(n)
  BY <1>1, <1>5, <1>6 DEF Store
<1>8. ApplyToState(s, id, e) = n
  BY <1>2, <1>3 DEF n
<1> HIDE DEF n, D
<1> QED BY <1>5, <1>6, <1>7, <1>8 DEF D

LEMMA OnlyIfFoldable ==
  ASSUME NEW s, NEW id, NEW e, e.type # "TICKET_CREATED", ApplyToState(s, id, e).ok
  PROVE  id \in DOMAIN s.tickets /\ Foldable(s.tickets[id], e)
<1>1. Failed.ok = FALSE
  BY DEF Failed
<1> QED BY <1>1 DEF ApplyToState

LEMMA Created ==
  ASSUME NEW s, Store(s), NEW id \in TicketId, id \notin DOMAIN s.tickets, NEW t \in Ticket
  PROVE  LET n == ApplyToState(s, id, CreatedEvent(t)) IN
         /\ Store(n) /\ n.ok
         /\ DOMAIN n.tickets = DOMAIN s.tickets \cup {id}
         /\ n.tickets[id] = t
         /\ n.events[id] = <<CreatedEvent(t)>>
         /\ \A x \in DOMAIN s.tickets : n.tickets[x] = s.tickets[x] /\ n.events[x] = s.events[x]
<1> DEFINE D == DOMAIN s.tickets
           ts == Put(s.tickets, id, t)
           es == Put(s.events, id, <<CreatedEvent(t)>>)
           n == [ok |-> TRUE, tickets |-> ts, events |-> es]
<1>1. /\ s = [ok |-> TRUE, tickets |-> s.tickets, events |-> s.events]
      /\ D \subseteq TicketId /\ s.tickets \in [D -> Ticket] /\ s.events \in [D -> Seq(AuditEvent)]
  BY DEF Store
<1>2. id \notin DOMAIN s.events /\ DOMAIN s.events = D
  BY <1>1
<1>3. ApplyToState(s, id, CreatedEvent(t)) = [ok |-> s.ok, tickets |-> ts, events |-> es]
  BY <1>2, CreatedEventType DEF ApplyToState
<1>4. s.ok = TRUE
  BY <1>1
<1>5. <<CreatedEvent(t)>> \in Seq(AuditEvent)
  BY CreatedEventType
<1>6. /\ ts \in [D \cup {id} -> Ticket] /\ es \in [D \cup {id} -> Seq(AuditEvent)]
      /\ ts[id] = t /\ es[id] = <<CreatedEvent(t)>>
      /\ \A x \in D : ts[x] = s.tickets[x] /\ es[x] = s.events[x]
  BY <1>1, <1>2, <1>5 DEF Put
<1> HIDE DEF ts, es
<1>7. n.tickets = ts /\ n.events = es /\ n.ok /\ DOMAIN ts = D \cup {id}
  BY <1>6
<1>8. Store(n)
  BY <1>1, <1>6, <1>7 DEF Store
<1>9. ApplyToState(s, id, CreatedEvent(t)) = n
  BY <1>3, <1>4
<1> HIDE DEF n, D
<1> QED BY <1>6, <1>7, <1>8, <1>9 DEF D

LEMMA TicketLinks ==
  ASSUME NEW s, Store(s), NEW id \in DOMAIN s.tickets
  PROVE  /\ id \in TicketId /\ s.tickets[id] \in Ticket /\ s.events[id] \in Seq(AuditEvent)
         /\ s.tickets[id].supersedes \in TicketId \cup {None}
         /\ s.tickets[id].supersededBy \in TicketId \cup {None}
         /\ id # None
<1>1. id \in TicketId /\ s.tickets[id] \in Ticket /\ s.events[id] \in Seq(AuditEvent)
  BY DEF Store
<1> QED BY <1>1, NoneAssumption DEF Ticket

\* An event that leaves the links alone.
LEMMA PlainSound ==
  ASSUME NEW s, Sound(s), NEW id \in DOMAIN s.tickets, id \notin Dangling(s), NEW e \in AuditEvent,
         e.type \notin LinkTypes \cup {"TICKET_CREATED"}, Foldable(s.tickets[id], e)
  PROVE  LET n == ApplyToState(s, id, e) IN Sound(n) /\ Dangling(n) = Dangling(s)
<1> DEFINE n == ApplyToState(s, id, e)
<1>1. Store(s) /\ \A x \in DOMAIN s.tickets :
        SoundLog(s.events[x], s.tickets[x]) /\ LinkBack(s, x) /\ LinkForth(s, x)
  BY DEF Sound
<1>2. /\ Store(n)
      /\ DOMAIN n.tickets = DOMAIN s.tickets
      /\ n.tickets[id] = ApplyEvent(s.tickets[id], e)
      /\ n.events[id] = Append(s.events[id], e)
      /\ \A x \in DOMAIN s.tickets : x # id => n.tickets[x] = s.tickets[x] /\ n.events[x] = s.events[x]
  BY <1>1, Appended
<1> HIDE DEF n
<1>3. /\ n.tickets[id].supersedes = s.tickets[id].supersedes
      /\ n.tickets[id].supersededBy = s.tickets[id].supersededBy
  BY <1>1, <1>2, TicketLinks, ApplyEventLinks
<1>4. \A x \in DOMAIN s.tickets : /\ n.tickets[x].supersedes = s.tickets[x].supersedes
                                 /\ n.tickets[x].supersededBy = s.tickets[x].supersededBy
  BY <1>2, <1>3
<1>5. Dangling(n) = Dangling(s)
  BY <1>2, <1>4 DEF Dangling
<1>6. ASSUME NEW x \in DOMAIN n.tickets
      PROVE  SoundLog(n.events[x], n.tickets[x]) /\ LinkBack(n, x) /\ LinkForth(n, x)
  <2>1. x \in DOMAIN s.tickets /\ SoundLog(s.events[x], s.tickets[x]) /\ LinkBack(s, x) /\ LinkForth(s, x)
    BY <1>1, <1>2
  <2>2. SoundLog(n.events[x], n.tickets[x])
    <3>1. CASE x = id
      <4>1. s.tickets[id] \in Ticket /\ s.events[id] \in Seq(AuditEvent)
        BY <1>1, TicketLinks
      <4>2. e.seq = s.tickets[id].seq + 1
        BY DEF Foldable
      <4>3. SoundLog(Append(s.events[id], e), ApplyEvent(s.tickets[id], e))
        BY <2>1, <3>1, <4>1, <4>2, SoundLogAppend
      <4> QED BY <1>2, <3>1, <4>3
    <3>2. CASE x # id
      BY <1>2, <2>1, <3>2
    <3> QED BY <3>1, <3>2
  <2>3. LinkBack(n, x)
    <3>1. LET old == s.tickets[x].supersedes IN
          old # None => old \in DOMAIN s.tickets /\ s.tickets[old].supersededBy = x
      BY <2>1 DEF LinkBack
    <3> QED BY <1>2, <1>4, <2>1, <3>1 DEF LinkBack
  <2>4. LinkForth(n, x)
    <3>1. CASE s.tickets[x].supersededBy = None
      BY <1>4, <2>1, <3>1 DEF LinkForth
    <3>2. CASE s.tickets[x].supersededBy \in DOMAIN s.tickets
      BY <1>2, <1>4, <2>1, <3>2 DEF LinkForth
    <3>3. CASE s.tickets[x].supersededBy # None /\ s.tickets[x].supersededBy \notin DOMAIN s.tickets
      <4>1. x # id
        BY <2>1, <3>3 DEF Dangling
      <4>2. Detachable(s.events[x], s.tickets[x])
        BY <2>1, <3>3 DEF LinkForth
      <4> QED BY <1>2, <2>1, <3>3, <4>1, <4>2 DEF LinkForth
    <3> QED BY <3>1, <3>2, <3>3
  <2> QED BY <2>2, <2>3, <2>4
<1> QED BY <1>2, <1>5, <1>6 DEF Sound, n

\* The first half of a supersede.
LEMMA LinkSound ==
  ASSUME NEW s, Sound(s), NEW id \in DOMAIN s.tickets, NEW e \in AuditEvent,
         e.type \in LinkTypes, e.details \in TicketId, e.details \notin DOMAIN s.tickets,
         s.tickets[id].supersededBy = None, Foldable(s.tickets[id], e)
  PROVE  LET n == ApplyToState(s, id, e) IN
         /\ Sound(n) /\ Dangling(n) = Dangling(s) \cup {id}
         /\ n.tickets[id].supersededBy = e.details
<1> DEFINE n == ApplyToState(s, id, e)
<1>0. e.type # "TICKET_CREATED"
  BY DEF LinkTypes
<1>1. Store(s) /\ \A x \in DOMAIN s.tickets :
        SoundLog(s.events[x], s.tickets[x]) /\ LinkBack(s, x) /\ LinkForth(s, x)
  BY DEF Sound
<1>2. /\ Store(n)
      /\ DOMAIN n.tickets = DOMAIN s.tickets
      /\ n.tickets[id] = ApplyEvent(s.tickets[id], e)
      /\ n.events[id] = Append(s.events[id], e)
      /\ \A x \in DOMAIN s.tickets : x # id => n.tickets[x] = s.tickets[x] /\ n.events[x] = s.events[x]
  BY <1>0, <1>1, Appended
<1> HIDE DEF n
<1>3. /\ n.tickets[id].supersedes = s.tickets[id].supersedes
      /\ n.tickets[id].supersededBy = e.details
      /\ e.details # None
  BY <1>1, <1>2, TicketLinks, ApplyEventLinks, NoneAssumption
<1>4. /\ \A x \in DOMAIN s.tickets : n.tickets[x].supersedes = s.tickets[x].supersedes
      /\ \A x \in DOMAIN s.tickets : x # id => n.tickets[x].supersededBy = s.tickets[x].supersededBy
  BY <1>2, <1>3
<1>5. Dangling(n) = Dangling(s) \cup {id}
  BY <1>2, <1>3, <1>4 DEF Dangling
<1>6. ASSUME NEW x \in DOMAIN n.tickets
      PROVE  SoundLog(n.events[x], n.tickets[x]) /\ LinkBack(n, x) /\ LinkForth(n, x)
  <2>1. x \in DOMAIN s.tickets /\ SoundLog(s.events[x], s.tickets[x]) /\ LinkBack(s, x) /\ LinkForth(s, x)
    BY <1>1, <1>2
  <2>2. SoundLog(n.events[x], n.tickets[x])
    <3>1. CASE x = id
      <4>1. s.tickets[id] \in Ticket /\ s.events[id] \in Seq(AuditEvent)
        BY <1>1, TicketLinks
      <4>2. e.seq = s.tickets[id].seq + 1
        BY DEF Foldable
      <4>3. SoundLog(Append(s.events[id], e), ApplyEvent(s.tickets[id], e))
        BY <2>1, <3>1, <4>1, <4>2, SoundLogAppend
      <4> QED BY <1>2, <3>1, <4>3
    <3>2. CASE x # id
      BY <1>2, <2>1, <3>2
    <3> QED BY <3>1, <3>2
  <2>3. LinkBack(n, x)
    <3> DEFINE old == s.tickets[x].supersedes
    <3>1. old # None => old \in DOMAIN s.tickets /\ s.tickets[old].supersededBy = x
      BY <2>1 DEF LinkBack
    <3>2. x # None
      BY <1>1, <2>1, TicketLinks
    <3>3. old # None => old # id
      BY <3>1, <3>2
    <3> QED BY <1>2, <1>4, <2>1, <3>1, <3>3 DEF LinkBack
  <2>4. LinkForth(n, x)
    <3>1. CASE x # id /\ s.tickets[x].supersededBy = None
      BY <1>4, <2>1, <3>1 DEF LinkForth
    <3>2. CASE x # id /\ s.tickets[x].supersededBy \in DOMAIN s.tickets
      <4>1. s.tickets[x].supersededBy # None
        BY <1>1, <3>2, TicketLinks
      <4> QED BY <1>2, <1>4, <2>1, <3>2, <4>1 DEF LinkForth
    <3>3. CASE x # id /\ s.tickets[x].supersededBy # None /\ s.tickets[x].supersededBy \notin DOMAIN s.tickets
      <4>1. Detachable(s.events[x], s.tickets[x])
        BY <2>1, <3>3 DEF LinkForth
      <4> QED BY <1>2, <2>1, <3>3, <4>1 DEF LinkForth
    <3>4. CASE x = id
      <4>1. s.events[id] \in Seq(AuditEvent)
        BY <1>1, TicketLinks
      <4>2. Front(n.events[id]) = s.events[id]
        BY <1>2, <4>1, FrontOfAppend
      <4>3. SoundLog(s.events[id], s.tickets[id]) /\ s.tickets[id] = Refold(s.events[id])
        BY <2>1, <3>4 DEF SoundLog
      <4>4. Detachable(n.events[id], n.tickets[id])
        BY <1>3, <4>2, <4>3 DEF Detachable
      <4> QED BY <1>2, <1>3, <3>4, <4>4 DEF LinkForth
    <3> QED BY <3>1, <3>2, <3>3, <3>4
  <2> QED BY <2>2, <2>3, <2>4
<1> QED BY <1>2, <1>3, <1>5, <1>6 DEF Sound, n

\* A creation, or the second half of a supersede.
LEMMA CreateSound ==
  ASSUME NEW s, Sound(s), NEW id \in TicketId, id \notin DOMAIN s.tickets,
         NEW t \in Ticket, t.seq = 1, t.supersededBy = None,
         \A x \in DOMAIN s.tickets : s.tickets[x].supersededBy = id => x = t.supersedes,
         t.supersedes # None => /\ t.supersedes \in DOMAIN s.tickets
                                /\ s.tickets[t.supersedes].supersededBy = id
  PROVE  LET n == ApplyToState(s, id, CreatedEvent(t)) IN
         Sound(n) /\ Dangling(n) = Dangling(s) \ {t.supersedes} /\ id \notin Dangling(n)
<1> DEFINE n == ApplyToState(s, id, CreatedEvent(t))
<1>1. Store(s) /\ \A x \in DOMAIN s.tickets :
        SoundLog(s.events[x], s.tickets[x]) /\ LinkBack(s, x) /\ LinkForth(s, x)
  BY DEF Sound
<1>2. /\ Store(n)
      /\ DOMAIN n.tickets = DOMAIN s.tickets \cup {id}
      /\ n.tickets[id] = t
      /\ n.events[id] = <<CreatedEvent(t)>>
      /\ \A x \in DOMAIN s.tickets : n.tickets[x] = s.tickets[x] /\ n.events[x] = s.events[x]
  BY <1>1, Created
<1> HIDE DEF n
<1>3. id # None
  BY NoneAssumption
<1>4. Dangling(n) = Dangling(s) \ {t.supersedes} /\ id \notin Dangling(n)
  <2>1. id \notin Dangling(n)
    BY <1>2 DEF Dangling
  <2>2. \A x \in DOMAIN s.tickets : x \in Dangling(n) <=> x \in Dangling(s) /\ s.tickets[x].supersededBy # id
    BY <1>2 DEF Dangling
  <2>3. \A x \in DOMAIN s.tickets : s.tickets[x].supersededBy = id <=> x = t.supersedes
    <3>1. \A x \in DOMAIN s.tickets : x # None
      BY <1>1, TicketLinks
    <3> QED BY <3>1
  <2>4. Dangling(n) \subseteq DOMAIN s.tickets \cup {id} /\ Dangling(s) \subseteq DOMAIN s.tickets
    BY <1>2 DEF Dangling
  <2> QED BY <2>1, <2>2, <2>3, <2>4
<1>5. SoundLog(n.events[id], n.tickets[id]) /\ LinkBack(n, id) /\ LinkForth(n, id)
  BY <1>2, SoundLogNew DEF LinkBack, LinkForth
<1>6. ASSUME NEW x \in DOMAIN s.tickets
      PROVE  SoundLog(n.events[x], n.tickets[x]) /\ LinkBack(n, x) /\ LinkForth(n, x)
  <2>1. SoundLog(s.events[x], s.tickets[x]) /\ LinkBack(s, x) /\ LinkForth(s, x)
    BY <1>1
  <2>2. LinkBack(n, x)
    BY <1>2, <2>1 DEF LinkBack
  <2>3. LinkForth(n, x)
    <3>1. CASE s.tickets[x].supersededBy = None
      BY <1>2, <3>1 DEF LinkForth
    <3>2. CASE s.tickets[x].supersededBy \in DOMAIN s.tickets
      BY <1>1, <1>2, <2>1, <3>2, TicketLinks DEF LinkForth
    <3>3. CASE s.tickets[x].supersededBy = id
      BY <1>2, <3>3 DEF LinkForth
    <3>4. CASE /\ s.tickets[x].supersededBy # None
               /\ s.tickets[x].supersededBy \notin DOMAIN s.tickets \cup {id}
      <4>1. Detachable(s.events[x], s.tickets[x])
        BY <2>1, <3>4 DEF LinkForth
      <4> QED BY <1>2, <3>4, <4>1 DEF LinkForth
    <3> QED BY <3>1, <3>2, <3>3, <3>4
  <2> QED BY <1>2, <2>1, <2>2, <2>3
<1> QED BY <1>2, <1>4, <1>5, <1>6 DEF Sound, n

-----------------------------------------------------------------------------
(* What a new event does to the logs a state keeps.                        *)

Logs(logs) == DOMAIN logs \subseteq TicketId /\ logs \in [DOMAIN logs -> Seq(AuditEvent)]

LEMMA PrefixOfFront ==
  ASSUME NEW S, NEW s \in Seq(S), NEW t \in Seq(S), t # <<>>, IsPrefix(s, Front(t))
  PROVE  IsPrefix(s, t)
<1>1. Front(t) \in Seq(S) /\ Last(t) \in S
  BY FrontLast
<1>2. t = Append(Front(t), Last(t))
  BY AppendFrontLast
<1>3. IsPrefix(s, Append(Front(t), Last(t)))
  BY <1>1, PrefixAppend
<1> QED BY <1>2, <1>3

LEMMA KeepsAppended ==
  ASSUME NEW s, Store(s), NEW n, Store(n), NEW logs, Logs(logs), Keeps(s, logs),
         NEW id \in DOMAIN s.tickets, id \notin Dangling(s), NEW e \in AuditEvent,
         DOMAIN n.tickets = DOMAIN s.tickets, n.events[id] = Append(s.events[id], e),
         \A x \in DOMAIN s.tickets : x # id => n.events[x] = s.events[x],
         \A x \in DOMAIN s.tickets : x # id => (x \in Dangling(n) <=> x \in Dangling(s))
  PROVE  Keeps(n, logs)
<1>1. DOMAIN s.events = DOMAIN s.tickets /\ DOMAIN n.events = DOMAIN n.tickets
  BY DEF Store
<1> SUFFICES ASSUME NEW x \in DOMAIN logs
             PROVE  /\ x \in DOMAIN n.events
                    /\ IsPrefix(logs[x], IF x \in Dangling(n) THEN Front(n.events[x]) ELSE n.events[x])
  BY DEF Keeps
<1>2. /\ x \in DOMAIN s.events
      /\ IsPrefix(logs[x], IF x \in Dangling(s) THEN Front(s.events[x]) ELSE s.events[x])
  BY DEF Keeps
<1>3. CASE x # id
  BY <1>1, <1>2, <1>3
<1>4. CASE x = id
  <2>1. logs[id] \in Seq(AuditEvent) /\ s.events[id] \in Seq(AuditEvent)
    BY <1>4, TicketLinks DEF Logs
  <2>2. IsPrefix(logs[id], s.events[id])
    BY <1>2, <1>4
  <2>3. IsPrefix(logs[id], n.events[id])
    BY <2>1, <2>2, PrefixAppend
  <2>4. Front(n.events[id]) = s.events[id]
    BY <2>1, FrontOfAppend
  <2> QED BY <1>1, <1>4, <2>2, <2>3, <2>4
<1> QED BY <1>3, <1>4

LEMMA KeepsCreated ==
  ASSUME NEW s, Sound(s), NEW n, Store(n), NEW logs, Logs(logs), Keeps(s, logs),
         NEW id, id \notin DOMAIN s.tickets,
         DOMAIN n.tickets = DOMAIN s.tickets \cup {id},
         \A x \in DOMAIN s.tickets : n.events[x] = s.events[x],
         \A x \in DOMAIN s.tickets : x \in Dangling(n) => x \in Dangling(s)
  PROVE  Keeps(n, logs)
<1>1. Store(s) /\ \A x \in DOMAIN s.tickets : SoundLog(s.events[x], s.tickets[x])
  BY DEF Sound
<1>2. DOMAIN s.events = DOMAIN s.tickets /\ DOMAIN n.events = DOMAIN n.tickets
  BY <1>1 DEF Store
<1> SUFFICES ASSUME NEW x \in DOMAIN logs
             PROVE  /\ x \in DOMAIN n.events
                    /\ IsPrefix(logs[x], IF x \in Dangling(n) THEN Front(n.events[x]) ELSE n.events[x])
  BY DEF Keeps
<1>3. /\ x \in DOMAIN s.events
      /\ IsPrefix(logs[x], IF x \in Dangling(s) THEN Front(s.events[x]) ELSE s.events[x])
  BY DEF Keeps
<1>4. logs[x] \in Seq(AuditEvent) /\ s.events[x] \in Seq(AuditEvent) /\ s.events[x] # <<>>
  BY <1>1, <1>2, <1>3, TicketLinks DEF Logs, SoundLog
<1>5. x \in Dangling(s) => IsPrefix(logs[x], s.events[x])
  BY <1>3, <1>4, PrefixOfFront
<1> QED BY <1>2, <1>3, <1>5

\* The logs that have grown are kept too, if the state has them as they are now.
LEMMA KeepsMore ==
  ASSUME NEW n, NEW logs, NEW more, Logs(more), Keeps(n, logs),
         \A x \in DOMAIN more :
           \/ x \in DOMAIN logs /\ more[x] = logs[x]
           \/ x \in DOMAIN n.events /\ x \notin Dangling(n) /\ more[x] = n.events[x]
  PROVE  Keeps(n, more)
<1> SUFFICES ASSUME NEW x \in DOMAIN more
             PROVE  /\ x \in DOMAIN n.events
                    /\ IsPrefix(more[x], IF x \in Dangling(n) THEN Front(n.events[x]) ELSE n.events[x])
  BY DEF Keeps
<1>1. CASE x \in DOMAIN logs /\ more[x] = logs[x]
  BY <1>1 DEF Keeps
<1>2. CASE x \in DOMAIN n.events /\ x \notin Dangling(n) /\ more[x] = n.events[x]
  <2>1. IsPrefix(more[x], more[x])
    BY PrefixReflexive DEF Logs
  <2> QED BY <1>2, <2>1
<1> QED BY <1>1, <1>2

\* What keeps the memory's logs keeps whatever the memory keeps.
LEMMA KeepsLess ==
  ASSUME NEW s, Sound(s), NEW m, Store(m), Dangling(m) = {}, NEW logs, Logs(logs),
         Keeps(m, logs), Keeps(s, m.events)
  PROVE  Keeps(s, logs)
<1>1. Store(s) /\ \A x \in DOMAIN s.tickets : SoundLog(s.events[x], s.tickets[x])
  BY DEF Sound
<1>2. DOMAIN s.events = DOMAIN s.tickets /\ DOMAIN m.events = DOMAIN m.tickets
  BY <1>1 DEF Store
<1> SUFFICES ASSUME NEW x \in DOMAIN logs
             PROVE  /\ x \in DOMAIN s.events
                    /\ IsPrefix(logs[x], IF x \in Dangling(s) THEN Front(s.events[x]) ELSE s.events[x])
  BY DEF Keeps
<1>3. x \in DOMAIN m.events /\ IsPrefix(logs[x], m.events[x])
  BY DEF Keeps
<1> DEFINE kept == IF x \in Dangling(s) THEN Front(s.events[x]) ELSE s.events[x]
<1>4. x \in DOMAIN s.events /\ IsPrefix(m.events[x], kept)
  BY <1>3 DEF Keeps
<1>5. logs[x] \in Seq(AuditEvent) /\ m.events[x] \in Seq(AuditEvent) /\ kept \in Seq(AuditEvent)
  <2>1. s.events[x] \in Seq(AuditEvent) /\ s.events[x] # <<>>
    BY <1>1, <1>2, <1>4, TicketLinks DEF SoundLog
  <2>2. Front(s.events[x]) \in Seq(AuditEvent)
    BY <2>1, FrontLast
  <2>3. m.events[x] \in Seq(AuditEvent)
    BY <1>2, <1>3, TicketLinks
  <2> QED BY <2>1, <2>2, <2>3 DEF Logs
<1> HIDE DEF kept
<1>6. IsPrefix(logs[x], kept)
  BY <1>3, <1>4, <1>5, PrefixTransitive
<1> QED BY <1>4, <1>6 DEF kept

\* An event of the memory fits a state that keeps its logs only where both have the
\* same log: a ticket with a link that the boot took back is never added to again.
LEMMA Aligned ==
  ASSUME NEW s, Sound(s), NEW m, Sound(m), Keeps(s, m.events), Dangling(m) = {},
         NEW id \in DOMAIN m.tickets, NEW e, e.seq = m.tickets[id].seq + 1,
         id \in DOMAIN s.tickets, Foldable(s.tickets[id], e)
  PROVE  s.events[id] = m.events[id] /\ s.tickets[id] = m.tickets[id] /\ id \notin Dangling(s)
<1>1. Store(s) /\ Store(m) /\ SoundLog(s.events[id], s.tickets[id]) /\ SoundLog(m.events[id], m.tickets[id])
  BY DEF Sound
<1>2. /\ s.events[id] \in Seq(AuditEvent) /\ m.events[id] \in Seq(AuditEvent)
      /\ s.tickets[id] \in Ticket /\ m.tickets[id] \in Ticket
  BY <1>1, TicketLinks
<1>3. /\ s.tickets[id].seq = Len(s.events[id]) /\ m.tickets[id].seq = Len(m.events[id])
      /\ s.events[id] # <<>>
      /\ s.tickets[id] = Refold(s.events[id]) /\ m.tickets[id] = Refold(m.events[id])
  BY <1>1 DEF SoundLog
<1>4. Len(s.events[id]) = Len(m.events[id]) /\ Len(m.events[id]) \in Nat
  <2>1. e.seq = s.tickets[id].seq + 1
    BY DEF Foldable
  <2>2. Len(s.events[id]) \in Nat /\ Len(m.events[id]) \in Nat
    BY <1>2
  <2> QED BY <1>3, <2>1, <2>2
<1>5. IsPrefix(m.events[id], IF id \in Dangling(s) THEN Front(s.events[id]) ELSE s.events[id])
  <2>1. id \in DOMAIN m.events
    BY <1>1 DEF Store
  <2> QED BY <2>1 DEF Keeps
<1>6. id \notin Dangling(s)
  <2> SUFFICES ASSUME id \in Dangling(s) PROVE FALSE
    OBVIOUS
  <2>1. Front(s.events[id]) \in Seq(AuditEvent) /\ Len(Front(s.events[id])) = Len(s.events[id]) - 1
    BY <1>2, <1>3, FrontLast
  <2>2. Len(m.events[id]) <= Len(Front(s.events[id]))
    BY <1>2, <1>5, <2>1, PrefixIs
  <2> QED BY <1>4, <2>1, <2>2
<1>7. s.events[id] = m.events[id]
  <2>1. Len(s.events[id]) <= Len(m.events[id])
    BY <1>4
  <2> QED BY <1>2, <1>5, <1>6, <2>1, PrefixWhole
<1> QED BY <1>3, <1>6, <1>7

-----------------------------------------------------------------------------
(* The three kinds of writes, applied to the memory and to any other state *)
(* that keeps the memory's logs.                                           *)

PlainEvent(t, e) ==
  /\ e \in AuditEvent /\ e.type \notin LinkTypes \cup ResultTypes \cup {"TICKET_CREATED"}
  /\ e.seq = t.seq + 1

LinkTo(t, e, new) ==
  /\ e \in AuditEvent /\ e.type \in LinkTypes /\ e.details = new
  /\ e.seq = t.seq + 1 /\ t.supersededBy = None

NewTicket(t, old) ==
  t \in Ticket /\ t.seq = 1 /\ t.supersededBy = None /\ t.supersedes = old

\* m is a memory without a dangling link, s a state that keeps its logs; both name
\* only the given ids.
Follows(s, m, ids) ==
  /\ Sound(m) /\ Dangling(m) = {} /\ Within(m, ids)
  /\ Sound(s) /\ Keeps(s, m.events) /\ Within(s, ids)

LEMMA FollowsTypes ==
  ASSUME NEW s, NEW m, NEW ids, Follows(s, m, ids)
  PROVE  Store(m) /\ Store(s) /\ Logs(m.events) /\ s.ok /\ m.ok /\ DOMAIN s.events = DOMAIN s.tickets
<1>1. Store(m) /\ Store(s)
  BY DEF Follows, Sound
<1>2. DOMAIN s.events = DOMAIN s.tickets
  BY <1>1 DEF Store
<1>3. s.ok
  <2>1. s = [ok |-> TRUE, tickets |-> s.tickets, events |-> s.events]
    BY <1>1 DEF Store
  <2> QED BY <2>1
<1>4. m.ok
  <2>1. m = [ok |-> TRUE, tickets |-> m.tickets, events |-> m.events]
    BY <1>1 DEF Store
  <2> QED BY <2>1
<1> QED BY <1>1, <1>2, <1>3, <1>4 DEF Store, Logs

LEMMA FollowsItself ==
  ASSUME NEW m, NEW ids, Sound(m), Dangling(m) = {}, Within(m, ids)
  PROVE  Follows(m, m, ids)
<1>1. \A x \in DOMAIN m.events : IsPrefix(m.events[x], m.events[x])
  <2>1. DOMAIN m.events = DOMAIN m.tickets /\ \A x \in DOMAIN m.events : m.events[x] \in Seq(AuditEvent)
    BY DEF Sound, Store
  <2> QED BY <2>1, PrefixReflexive
<1>2. Keeps(m, m.events)
  BY <1>1 DEF Keeps
<1> QED BY <1>2 DEF Follows

LEMMA CreationOn ==
  ASSUME NEW s, NEW m, NEW ids, Follows(s, m, ids),
         NEW id \in TicketId, id \notin ids, NEW t, NewTicket(t, None)
  PROVE  LET n == ApplyToState(s, id, CreatedEvent(t))
             mm == ApplyToState(m, id, CreatedEvent(t))
         IN  /\ n.ok /\ Sound(n) /\ Within(n, ids \cup {id}) /\ Dangling(n) = Dangling(s)
             /\ Keeps(n, m.events)
             /\ Store(mm) => Keeps(n, mm.events)
<1> DEFINE n == ApplyToState(s, id, CreatedEvent(t))
           mm == ApplyToState(m, id, CreatedEvent(t))
<1>1. Store(m) /\ Store(s) /\ Logs(m.events) /\ DOMAIN s.events = DOMAIN s.tickets
  BY FollowsTypes
<1>2. /\ Sound(s) /\ Keeps(s, m.events)
      /\ id \notin DOMAIN s.tickets /\ id \notin DOMAIN m.tickets
      /\ \A x \in DOMAIN s.tickets : s.tickets[x].supersededBy # id
  BY NoneAssumption DEF Follows, Within
<1>3. t \in Ticket /\ t.seq = 1 /\ t.supersededBy = None /\ t.supersedes = None
  BY DEF NewTicket
<1>4. /\ Store(n) /\ n.ok
      /\ DOMAIN n.tickets = DOMAIN s.tickets \cup {id}
      /\ n.tickets[id] = t /\ n.events[id] = <<CreatedEvent(t)>>
      /\ \A x \in DOMAIN s.tickets : n.tickets[x] = s.tickets[x] /\ n.events[x] = s.events[x]
  BY <1>1, <1>2, <1>3, Created
<1>5. /\ Store(mm) /\ DOMAIN mm.tickets = DOMAIN m.tickets \cup {id}
      /\ mm.events[id] = <<CreatedEvent(t)>>
      /\ \A x \in DOMAIN m.tickets : mm.events[x] = m.events[x]
  BY <1>1, <1>2, <1>3, Created
<1>6. Sound(n) /\ Dangling(n) = Dangling(s) \ {None} /\ id \notin Dangling(n)
  BY <1>2, <1>3, CreateSound
<1>7. Dangling(n) = Dangling(s)
  <2>1. None \notin Dangling(s)
    BY <1>1, TicketLinks DEF Dangling
  <2> QED BY <1>6, <2>1
<1> HIDE DEF n, mm
<1>8. Within(n, ids \cup {id})
  <2>1. Within(s, ids)
    BY DEF Follows
  <2> QED BY <1>3, <1>4, <2>1 DEF Within
<1>9. Keeps(n, m.events)
  BY <1>1, <1>2, <1>4, <1>7, KeepsCreated
<1>10. Keeps(n, mm.events)
  <2>1. /\ DOMAIN mm.events = DOMAIN m.tickets \cup {id} /\ DOMAIN m.events = DOMAIN m.tickets
        /\ id \in DOMAIN n.events
    BY <1>1, <1>4, <1>5 DEF Store
  <2>2. Logs(mm.events)
    BY <1>5 DEF Store, Logs
  <2>3. \A x \in DOMAIN mm.events :
          \/ x \in DOMAIN m.events /\ mm.events[x] = m.events[x]
          \/ x \in DOMAIN n.events /\ x \notin Dangling(n) /\ mm.events[x] = n.events[x]
    BY <1>4, <1>5, <1>6, <2>1
  <2> QED BY <1>9, <2>2, <2>3, KeepsMore
<1> QED BY <1>4, <1>6, <1>7, <1>8, <1>9, <1>10 DEF n, mm

LEMMA PlainOn ==
  ASSUME NEW s, NEW m, NEW ids, Follows(s, m, ids),
         NEW id \in DOMAIN m.tickets, NEW e, PlainEvent(m.tickets[id], e)
  PROVE  LET n == ApplyToState(s, id, e)
             mm == ApplyToState(m, id, e)
         IN  /\ n.ok => /\ Sound(n) /\ Within(n, ids) /\ Dangling(n) = Dangling(s)
                        /\ Keeps(n, m.events) /\ Keeps(n, mm.events)
             /\ s = m => n.ok
<1> DEFINE n == ApplyToState(s, id, e)
           mm == ApplyToState(m, id, e)
<1>1. Store(m) /\ Store(s) /\ Logs(m.events) /\ DOMAIN s.events = DOMAIN s.tickets
  BY FollowsTypes
<1>2. Sound(m) /\ Dangling(m) = {} /\ Sound(s) /\ Keeps(s, m.events) /\ Within(s, ids)
  BY DEF Follows
<1>3. e \in AuditEvent /\ e.type \notin LinkTypes \cup {"TICKET_CREATED"} /\ e.type # "TICKET_CREATED"
      /\ e.seq = m.tickets[id].seq + 1
  BY DEF PlainEvent
<1>4. Foldable(m.tickets[id], e)
  BY DEF Foldable, PlainEvent
<1>5. s = m => n.ok
  BY <1>1, <1>3, <1>4, Appended
<1>6. ASSUME n.ok
      PROVE  /\ Sound(n) /\ Within(n, ids) /\ Dangling(n) = Dangling(s)
             /\ Keeps(n, m.events) /\ Keeps(n, mm.events)
  <2>1. id \in DOMAIN s.tickets /\ Foldable(s.tickets[id], e)
    BY <1>3, <1>6, OnlyIfFoldable
  <2>2. s.events[id] = m.events[id] /\ s.tickets[id] = m.tickets[id] /\ id \notin Dangling(s)
    BY <1>2, <1>3, <2>1, Aligned
  <2>3. /\ Store(n) /\ DOMAIN n.tickets = DOMAIN s.tickets
        /\ n.tickets[id] = ApplyEvent(s.tickets[id], e)
        /\ n.events[id] = Append(s.events[id], e)
        /\ \A x \in DOMAIN s.tickets : x # id => n.tickets[x] = s.tickets[x] /\ n.events[x] = s.events[x]
    BY <1>1, <1>3, <2>1, Appended
  <2>4. /\ Store(mm) /\ DOMAIN mm.tickets = DOMAIN m.tickets
        /\ mm.events[id] = Append(m.events[id], e)
        /\ \A x \in DOMAIN m.tickets : x # id => mm.events[x] = m.events[x]
    BY <1>1, <1>3, <1>4, Appended
  <2>5. Sound(n) /\ Dangling(n) = Dangling(s)
    BY <1>2, <1>3, <2>1, <2>2, PlainSound
  <2>6. n.tickets[id].supersededBy = s.tickets[id].supersededBy
    BY <1>1, <1>3, <2>1, <2>3, TicketLinks, ApplyEventLinks
  <2> HIDE DEF n, mm
  <2>7. Within(n, ids)
    <3>1. \A x \in DOMAIN n.tickets : n.tickets[x].supersededBy = s.tickets[x].supersededBy
      BY <2>3, <2>6
    <3> QED BY <1>2, <2>3, <3>1 DEF Within
  <2>8. Keeps(n, m.events)
    BY <1>1, <1>2, <1>3, <2>1, <2>2, <2>3, <2>5, KeepsAppended
  <2>9. Keeps(n, mm.events)
    <3>1. /\ DOMAIN mm.events = DOMAIN m.events /\ DOMAIN m.events = DOMAIN m.tickets
          /\ id \in DOMAIN n.events
      BY <1>1, <2>1, <2>3, <2>4 DEF Store
    <3>2. Logs(mm.events)
      BY <2>4 DEF Store, Logs
    <3>3. \A x \in DOMAIN mm.events :
            \/ x \in DOMAIN m.events /\ mm.events[x] = m.events[x]
            \/ x \in DOMAIN n.events /\ x \notin Dangling(n) /\ mm.events[x] = n.events[x]
      BY <2>2, <2>3, <2>4, <2>5, <3>1
    <3> QED BY <2>8, <3>2, <3>3, KeepsMore
  <2> QED BY <2>5, <2>7, <2>8, <2>9 DEF n, mm
<1> QED BY <1>5, <1>6

\* n is the state s with the first half of a supersede of m's ticket folded in.
Linked(n, s, m, ids, id, e) ==
  /\ Sound(n) /\ Within(n, ids \cup {e.details}) /\ Keeps(n, m.events)
  /\ Dangling(n) = Dangling(s) \cup {id} /\ id \notin Dangling(s)
  /\ id \in DOMAIN n.tickets /\ e.details \notin DOMAIN n.tickets
  /\ n.tickets[id].supersededBy = e.details
  /\ n.events[id] = Append(m.events[id], e)
  /\ \A x \in DOMAIN n.tickets : n.tickets[x].supersededBy = e.details => x = id

LEMMA LinkOn ==
  ASSUME NEW s, NEW m, NEW ids, Follows(s, m, ids),
         NEW id \in DOMAIN m.tickets, NEW new \in TicketId, new \notin ids,
         NEW e, LinkTo(m.tickets[id], e, new), ApplyToState(s, id, e).ok
  PROVE  Linked(ApplyToState(s, id, e), s, m, ids, id, e)
<1> DEFINE n == ApplyToState(s, id, e)
<1>1. Store(m) /\ Store(s) /\ Logs(m.events) /\ DOMAIN s.events = DOMAIN s.tickets
  BY FollowsTypes
<1>2. Sound(m) /\ Dangling(m) = {} /\ Sound(s) /\ Keeps(s, m.events) /\ Within(s, ids)
  BY DEF Follows
<1>3. e \in AuditEvent /\ e.type \in LinkTypes /\ e.type # "TICKET_CREATED" /\ e.details = new
      /\ e.seq = m.tickets[id].seq + 1 /\ m.tickets[id].supersededBy = None
  BY DEF LinkTo, LinkTypes
<1>4. id \in DOMAIN s.tickets /\ Foldable(s.tickets[id], e)
  BY <1>3, OnlyIfFoldable
<1>5. s.events[id] = m.events[id] /\ s.tickets[id] = m.tickets[id] /\ id \notin Dangling(s)
  BY <1>2, <1>3, <1>4, Aligned
<1>6. /\ Store(n) /\ DOMAIN n.tickets = DOMAIN s.tickets
      /\ n.events[id] = Append(s.events[id], e)
      /\ \A x \in DOMAIN s.tickets : x # id => n.tickets[x] = s.tickets[x] /\ n.events[x] = s.events[x]
  BY <1>1, <1>3, <1>4, Appended
<1>7. new \notin DOMAIN s.tickets /\ \A x \in DOMAIN s.tickets : s.tickets[x].supersededBy # new
  BY <1>2, NoneAssumption DEF Within
<1>8. Sound(n) /\ Dangling(n) = Dangling(s) \cup {id} /\ n.tickets[id].supersededBy = new
  BY <1>2, <1>3, <1>4, <1>5, <1>7, LinkSound
<1> HIDE DEF n
<1>9. Within(n, ids \cup {new})
  BY <1>2, <1>4, <1>6, <1>8 DEF Within
<1>10. Keeps(n, m.events)
  <2>1. \A x \in DOMAIN s.tickets : x # id => (x \in Dangling(n) <=> x \in Dangling(s))
    BY <1>8
  <2>2. Store(n)
    BY <1>6
  <2> QED BY <1>1, <1>2, <1>3, <1>4, <1>5, <1>6, <2>1, <2>2, KeepsAppended
<1>11. Linked(n, s, m, ids, id, e)
  BY <1>3, <1>4, <1>5, <1>6, <1>7, <1>8, <1>9, <1>10 DEF Linked
<1> QED BY <1>11 DEF n

LEMMA LinkOnMemory ==
  ASSUME NEW m, Store(m), NEW id \in DOMAIN m.tickets, NEW new, NEW e, LinkTo(m.tickets[id], e, new)
  PROVE  LET n == ApplyToState(m, id, e) IN
         /\ n.ok /\ DOMAIN n.tickets = DOMAIN m.tickets
         /\ \A x \in DOMAIN m.tickets : x # id => n.events[x] = m.events[x]
<1>1. e \in AuditEvent /\ e.type # "TICKET_CREATED" /\ Foldable(m.tickets[id], e)
  BY DEF LinkTo, LinkTypes, Foldable, ResultTypes
<1> QED BY <1>1, Appended

\* n is the state s with the whole supersede folded in, mm the memory with it.
Superseded(n, mm, s, m, ids) ==
  /\ n.ok /\ Sound(n) /\ Within(n, ids) /\ Dangling(n) = Dangling(s)
  /\ Keeps(n, m.events) /\ Keeps(n, mm.events)

LEMMA SupersedeOn ==
  ASSUME NEW s, NEW m, NEW ids, Follows(s, m, ids),
         NEW id \in DOMAIN m.tickets, NEW new \in TicketId, new \notin ids,
         NEW e, LinkTo(m.tickets[id], e, new), NEW t, NewTicket(t, id),
         ApplyToState(s, id, e).ok
  PROVE  Superseded(ApplyToState(ApplyToState(s, id, e), new, CreatedEvent(t)),
                    ApplyToState(ApplyToState(m, id, e), new, CreatedEvent(t)),
                    s, m, ids \cup {new})
<1> DEFINE s1 == ApplyToState(s, id, e)
           m1 == ApplyToState(m, id, e)
           n == ApplyToState(s1, new, CreatedEvent(t))
           mm == ApplyToState(m1, new, CreatedEvent(t))
<1>1. Store(m) /\ Logs(m.events)
  BY FollowsTypes
<1>2. /\ Sound(s1) /\ Within(s1, ids \cup {new}) /\ Keeps(s1, m.events)
      /\ Dangling(s1) = Dangling(s) \cup {id} /\ id \notin Dangling(s)
      /\ id \in DOMAIN s1.tickets /\ new \notin DOMAIN s1.tickets
      /\ s1.tickets[id].supersededBy = new
      /\ s1.events[id] = Append(m.events[id], e)
      /\ \A x \in DOMAIN s1.tickets : s1.tickets[x].supersededBy = new => x = id
  <2>1. Linked(s1, s, m, ids, id, e)
    BY LinkOn
  <2>2. e.details = new
    BY DEF LinkTo
  <2> HIDE DEF s1
  <2> QED BY <2>1, <2>2 DEF Linked
<1>3. /\ Sound(m1) /\ m1.events[id] = Append(m.events[id], e) /\ new \notin DOMAIN m1.tickets
      /\ DOMAIN m1.tickets = DOMAIN m.tickets
      /\ \A x \in DOMAIN m.tickets : x # id => m1.events[x] = m.events[x]
  <2>1. Follows(m, m, ids)
    BY FollowsItself DEF Follows
  <2>2. /\ m1.ok /\ DOMAIN m1.tickets = DOMAIN m.tickets
        /\ \A x \in DOMAIN m.tickets : x # id => m1.events[x] = m.events[x]
    BY <1>1, LinkOnMemory
  <2>3. Linked(m1, m, m, ids, id, e) /\ e.details = new
    BY <2>1, <2>2, LinkOn DEF LinkTo
  <2> HIDE DEF m1
  <2>4. Sound(m1) /\ m1.events[id] = Append(m.events[id], e) /\ new \notin DOMAIN m1.tickets
    BY <2>3 DEF Linked
  <2> QED BY <2>2, <2>4
<1>4. t \in Ticket /\ t.seq = 1 /\ t.supersededBy = None /\ t.supersedes = id
  BY DEF NewTicket
<1>5. Store(s1) /\ Store(m1)
  BY <1>2, <1>3 DEF Sound
<1> HIDE DEF s1, m1
<1>6. /\ Store(n) /\ n.ok
      /\ DOMAIN n.tickets = DOMAIN s1.tickets \cup {new}
      /\ n.tickets[new] = t /\ n.events[new] = <<CreatedEvent(t)>>
      /\ \A x \in DOMAIN s1.tickets : n.tickets[x] = s1.tickets[x] /\ n.events[x] = s1.events[x]
  BY <1>2, <1>4, <1>5, Created
<1>7. /\ Store(mm) /\ DOMAIN mm.tickets = DOMAIN m.tickets \cup {new}
      /\ mm.events[new] = <<CreatedEvent(t)>>
      /\ \A x \in DOMAIN m.tickets : mm.events[x] = m1.events[x]
  BY <1>3, <1>4, <1>5, Created
<1>8. Sound(n) /\ Dangling(n) = Dangling(s1) \ {id} /\ new \notin Dangling(n)
  <2>1. t.supersedes # None => /\ t.supersedes \in DOMAIN s1.tickets
                               /\ s1.tickets[t.supersedes].supersededBy = new
    BY <1>2, <1>4
  <2>2. \A x \in DOMAIN s1.tickets : s1.tickets[x].supersededBy = new => x = t.supersedes
    BY <1>2, <1>4
  <2> QED BY <1>2, <1>4, <2>1, <2>2, CreateSound
<1>9. Dangling(n) = Dangling(s)
  BY <1>2, <1>8
<1> HIDE DEF n, mm
<1>10. Within(n, ids \cup {new})
  BY <1>2, <1>4, <1>6 DEF Within
<1>11. Keeps(n, m.events)
  <2>1. \A x \in DOMAIN s1.tickets : x \in Dangling(n) => x \in Dangling(s1)
    BY <1>2, <1>9
  <2> QED BY <1>1, <1>2, <1>6, <2>1, KeepsCreated
<1>12. Keeps(n, mm.events)
  <2>1. /\ DOMAIN mm.events = DOMAIN m.tickets \cup {new} /\ DOMAIN m.events = DOMAIN m.tickets
        /\ DOMAIN n.events = DOMAIN n.tickets
    BY <1>1, <1>6, <1>7 DEF Store
  <2>2. Logs(mm.events)
    BY <1>7 DEF Store, Logs
  <2>3. /\ n.events[id] = Append(m.events[id], e) /\ mm.events[id] = Append(m.events[id], e)
        /\ \A x \in DOMAIN m.tickets : x # id => mm.events[x] = m.events[x]
    BY <1>2, <1>3, <1>6, <1>7
  <2>4. \A x \in DOMAIN mm.events :
          \/ x \in DOMAIN m.events /\ mm.events[x] = m.events[x]
          \/ x \in DOMAIN n.events /\ x \notin Dangling(n) /\ mm.events[x] = n.events[x]
    <3>1. id \in DOMAIN n.events /\ id \notin Dangling(n) /\ new \in DOMAIN n.events
      BY <1>2, <1>6, <1>9, <2>1
    <3> QED BY <1>6, <1>7, <1>8, <2>1, <2>3, <3>1
  <2> QED BY <1>11, <2>2, <2>4, KeepsMore
<1>13. Superseded(n, mm, s, m, ids \cup {new})
  BY <1>6, <1>8, <1>9, <1>10, <1>11, <1>12 DEF Superseded
<1> QED BY <1>13 DEF n, mm, s1, m1

-----------------------------------------------------------------------------
(* The writes of the code are of these kinds.                              *)

LEMMA WritesAre ==
  ASSUME Sound(Memory), NEW w \in Writes
  PROVE  \/ \E id \in TicketId \ Drawn, t \in Ticket :
              w = << <<id, CreatedEvent(t)>> >> /\ NewTicket(t, None)
         \/ \E id \in DOMAIN tickets, e \in AuditEvent :
              w = << <<id, e>> >> /\ PlainEvent(tickets[id], e)
         \/ \E id \in DOMAIN tickets, e \in AuditEvent, new \in TicketId \ Drawn, t \in Ticket :
              /\ w = << <<id, e>>, <<new, CreatedEvent(t)>> >>
              /\ LinkTo(tickets[id], e, new) /\ NewTicket(t, id)
<1>1. DOMAIN tickets \subseteq TicketId /\ \A id \in DOMAIN tickets : tickets[id] \in Ticket
  BY DEF Sound, Store, Memory
<1>2. ASSUME w \in Creations
      PROVE  \E id \in TicketId \ Drawn, t \in Ticket :
               w = << <<id, CreatedEvent(t)>> >> /\ NewTicket(t, None)
  <2>1. PICK id \in TicketId \ Drawn, agent \in Agent, params \in Params, tags \in Tags :
          w = << <<id, CreatedEvent(BuildTicket(id, agent, agent, params, tags, None))>> >>
    BY <1>2 DEF Creations
  <2> DEFINE t == BuildTicket(id, agent, agent, params, tags, None)
  <2>2. t \in Ticket /\ NewTicket(t, None)
    BY DEF BuildTicket, NewTicket, Ticket, Statuses, Executions
  <2> HIDE DEF t
  <2>3. w = << <<id, CreatedEvent(t)>> >>
    BY <2>1 DEF t
  <2> QED BY <2>2, <2>3
<1>3. ASSUME w \in Appends
      PROVE  \E id \in DOMAIN tickets, e \in AuditEvent :
               w = << <<id, e>> >> /\ PlainEvent(tickets[id], e)
  <2>1. PICK id \in DOMAIN tickets, email \in Email :
          \/ w = << <<id, EventAfter(tickets[id], "COMMENT_ADDED", "human", email, tickets[id].status, None)>> >>
          \/ w = << <<id, EventAfter(tickets[id], "CLOSED", "human", email, "CLOSED", None)>> >>
    BY <1>3 DEF Appends
  <2>2. ASSUME NEW type \in {"COMMENT_ADDED", "CLOSED"}, NEW to \in Statuses
        PROVE  LET e == EventAfter(tickets[id], type, "human", email, to, None) IN
               e \in AuditEvent /\ PlainEvent(tickets[id], e)
    <3> DEFINE e == EventAfter(tickets[id], type, "human", email, to, None)
    <3>1. type \in PlainTypes /\ "human" \in ActorKinds /\ tickets[id] \in Ticket
      BY <1>1 DEF PlainTypes, ActorKinds
    <3>2. e \in EventOf(PlainTypes, {None})
      BY <3>1, EventAfterType
    <3>3. e \in AuditEvent /\ e.type = type /\ e.seq = tickets[id].seq + 1
      BY <3>2 DEF AuditEvent, EventAfter
    <3> HIDE DEF e
    <3>4. PlainEvent(tickets[id], e)
      BY <3>3 DEF PlainEvent, LinkTypes, ResultTypes
    <3> QED BY <3>3, <3>4 DEF e
  <2>3. tickets[id].status \in Statuses /\ "CLOSED" \in Statuses
    BY <1>1 DEF Ticket, Statuses
  <2> QED BY <2>1, <2>2, <2>3
<1>4. ASSUME w \in Supersedes
      PROVE  \E id \in DOMAIN tickets, e \in AuditEvent, new \in TicketId \ Drawn, t \in Ticket :
               /\ w = << <<id, e>>, <<new, CreatedEvent(t)>> >>
               /\ LinkTo(tickets[id], e, new) /\ NewTicket(t, id)
  <2>1. PICK id \in DOMAIN tickets, email \in Email, new \in TicketId \ Drawn :
          /\ tickets[id].supersededBy = None
          /\ w = << <<id, LinkEvent(tickets[id], email, new)>>,
                   <<new, CreatedEvent(BuildSuccessor(new, id, tickets[id], email,
                                                      tickets[id].params, tickets[id].tags))>> >>
    BY <1>4 DEF Supersedes
  <2> DEFINE e == LinkEvent(tickets[id], email, new)
             t == BuildSuccessor(new, id, tickets[id], email, tickets[id].params, tickets[id].tags)
  <2>2. tickets[id] \in Ticket /\ id \in TicketId
    BY <1>1
  <2>3. e \in AuditEvent /\ LinkTo(tickets[id], e, new)
    <3>1. \A type \in LinkTypes, to \in Statuses :
            EventAfter(tickets[id], type, "human", email, to, new) \in EventOf(LinkTypes, TicketId)
      BY <2>2, EventAfterType DEF ActorKinds
    <3>2. e \in EventOf(LinkTypes, TicketId)
      BY <2>2, <3>1 DEF LinkEvent, LinkTypes, Ticket, Statuses
    <3>3. e.details = new /\ e.seq = tickets[id].seq + 1
      BY DEF LinkEvent, EventAfter
    <3> HIDE DEF e
    <3>4. e.type \in LinkTypes /\ e \in AuditEvent
      BY <3>2 DEF EventOf, AuditEvent
    <3> QED BY <2>1, <3>3, <3>4 DEF LinkTo
  <2>4. t \in Ticket /\ NewTicket(t, id)
    <3> DEFINE fresh == BuildTicket(new, tickets[id].assignee, email,
                                    tickets[id].params, tickets[id].tags, None)
    <3>1. /\ tickets[id].assignee \in Agent /\ tickets[id].lineageRoot \in TicketId
          /\ tickets[id].params \in Params /\ tickets[id].tags \in Tags
      BY <2>2 DEF Ticket
    <3>2. fresh \in Ticket /\ fresh.seq = 1 /\ fresh.supersededBy = None
      BY <3>1 DEF BuildTicket, Ticket, Statuses, Executions
    <3>3. t = [fresh EXCEPT !.supersedes = id, !.lineageRoot = tickets[id].lineageRoot]
      BY DEF BuildSuccessor
    <3> HIDE DEF fresh, t
    <3> QED BY <2>2, <3>1, <3>2, <3>3 DEF NewTicket, Ticket
  <2> HIDE DEF e, t
  <2>5. w = << <<id, e>>, <<new, CreatedEvent(t)>> >>
    BY <2>1 DEF e, t
  <2> QED BY <2>3, <2>4, <2>5
<1> QED BY <1>2, <1>3, <1>4 DEF Writes

-----------------------------------------------------------------------------
(* What is left of a write on the disk.                                    *)

DrawnIn(f) ==
  LET texts == {token \in ToSet(f) : token.kind = "event"}
  IN  {text.id : text \in texts}
      \cup {text.event.details : text \in {x \in texts : x.event.type \in LinkTypes}}

LEMMA DrawnGrows ==
  ASSUME NEW f \in Seq(Token), NEW token \in Token
  PROVE  DrawnIn(f) \subseteq DrawnIn(Append(f, token))
<1>1. ToSet(f) \subseteq ToSet(Append(f, token))
  <2>1. /\ DOMAIN f = 1 .. Len(f) /\ DOMAIN Append(f, token) = 1 .. Len(f) + 1 /\ Len(f) \in Nat
        /\ \A i \in 1 .. Len(f) : Append(f, token)[i] = f[i]
    OBVIOUS
  <2> QED BY <2>1 DEF ToSet
<1> QED BY <1>1 DEF DrawnIn

LEMMA DrawnText ==
  ASSUME NEW f \in Seq(Token), NEW id \in TicketId, NEW e \in AuditEvent
  PROVE  LET g == Append(f, Text(id, e)) IN
         id \in DrawnIn(g) /\ (e.type \in LinkTypes => e.details \in DrawnIn(g))
<1> DEFINE g == Append(f, Text(id, e))
<1>1. Text(id, e) \in ToSet(g)
  <2>1. DOMAIN g = 1 .. Len(f) + 1 /\ g[Len(f) + 1] = Text(id, e) /\ Len(f) + 1 \in 1 .. Len(f) + 1
    <3>1. Text(id, e) \in Token /\ Len(f) \in Nat
      BY TextToken
    <3> QED BY <3>1
  <2> QED BY <2>1 DEF ToSet
<1> HIDE DEF g
<1>2. Text(id, e).kind = "event" /\ Text(id, e).id = id /\ Text(id, e).event = e
  BY TextToken
<1> QED BY <1>1, <1>2 DEF DrawnIn, g

LEMMA FoldPayload ==
  /\ Payload(<<>>) = <<>>
  /\ \A S : \A w \in Seq(S), entry \in S : Payload(Append(w, entry)) = AddEntry(Payload(w), entry)
<1>1. \A w : Payload(w) = Dumping!FoldLeft(AddEntry, <<>>, w)
  BY DEF Payload, FoldLeft, MapThenFoldSet, Max,
         Dumping!FoldLeft, Dumping!MapThenFoldSet, Dumping!Max
<1> SUFFICES ASSUME NEW S, NEW w \in Seq(S), NEW entry \in S
             PROVE  Payload(Append(w, entry)) = AddEntry(Payload(w), entry)
  BY <1>1, Dumping!FoldEmpty
<1>2. Dumping!FoldLeft(AddEntry, <<>>, Append(w, entry))
        = AddEntry(Dumping!FoldLeft(AddEntry, <<>>, w), entry)
  BY Dumping!FoldAppend
<1> QED BY <1>1, <1>2

LEMMA PayloadOne ==
  ASSUME NEW id \in TicketId, NEW e \in AuditEvent
  PROVE  LET p == Payload(<< <<id, e>> >>) IN
         p \in Seq(Token) /\ Len(p) = 2 /\ p[1] = Text(id, e) /\ p[2] = Newline
<1> DEFINE entry == <<id, e>>
           p == Payload(<<entry>>)
<1>1. <<>> \in Seq({entry}) /\ entry \in {entry} /\ Append(<<>>, entry) = <<entry>>
  <2> HIDE DEF entry
  <2> QED OBVIOUS
<1>2. p = AddEntry(<<>>, entry)
  <2> HIDE DEF entry
  <2> QED BY <1>1, FoldPayload
<1>3. AddEntry(<<>>, entry) = <<Text(id, e), Newline>>
  BY DEF AddEntry
<1> DEFINE line == <<Text(id, e), Newline>>
<1>4. Text(id, e) \in Token /\ Newline \in Token
  BY TextToken, NewlineToken
<1>5. line \in Seq(Token) /\ Len(line) = 2 /\ line[1] = Text(id, e) /\ line[2] = Newline
  BY <1>4
<1> QED BY <1>2, <1>3, <1>5

LEMMA PayloadTwo ==
  ASSUME NEW id \in TicketId, NEW e \in AuditEvent, NEW new \in TicketId, NEW c \in AuditEvent
  PROVE  LET p == Payload(<< <<id, e>>, <<new, c>> >>) IN
         /\ p \in Seq(Token) /\ Len(p) = 4
         /\ p[1] = Text(id, e) /\ p[2] = Newline /\ p[3] = Text(new, c) /\ p[4] = Newline
<1> DEFINE first == <<id, e>>
           second == <<new, c>>
           w == <<first, second>>
           head == Payload(<<first>>)
           p == Payload(w)
           tail == <<Text(new, c), Newline>>
<1>1. head \in Seq(Token) /\ Len(head) = 2 /\ head[1] = Text(id, e) /\ head[2] = Newline
  BY PayloadOne
<1>2. w = Append(<<first>>, second)
  <2> HIDE DEF first, second
  <2>1. /\ Append(<<first>>, second) \in Seq({first, second}) /\ Len(Append(<<first>>, second)) = 2
        /\ Append(<<first>>, second)[1] = first /\ Append(<<first>>, second)[2] = second
    <3>1. <<first>> \in Seq({first, second}) /\ Len(<<first>>) = 1 /\ <<first>>[1] = first
      OBVIOUS
    <3> QED BY <3>1, AppendProperties
  <2>2. w \in Seq({first, second}) /\ Len(w) = 2 /\ w[1] = first /\ w[2] = second
    OBVIOUS
  <2>3. \A i \in 1 .. 2 : i = 1 \/ i = 2
    OBVIOUS
  <2> HIDE DEF w
  <2>4. \A i \in 1 .. Len(w) : w[i] = Append(<<first>>, second)[i]
    BY <2>1, <2>2, <2>3
  <2> QED BY <2>1, <2>2, <2>4, SeqEqual
<1>3. p = AddEntry(head, second)
  <2>1. <<first>> \in Seq({first, second}) /\ second \in {first, second}
    OBVIOUS
  <2> HIDE DEF first, second, w
  <2> QED BY <1>2, <2>1, FoldPayload DEF p, head
<1>4. p = head \o tail
  BY <1>3 DEF AddEntry
<1>5. tail \in Seq(Token) /\ Len(tail) = 2 /\ tail[1] = Text(new, c) /\ tail[2] = Newline
  <2>1. Text(new, c) \in Token /\ Newline \in Token
    BY TextToken, NewlineToken
  <2> QED BY <2>1
<1> HIDE DEF p, head, tail
<1>6. /\ p \in Seq(Token) /\ Len(p) = 2 + 2
      /\ \A i \in 1 .. 2 + 2 : p[i] = IF i <= 2 THEN head[i] ELSE tail[i - 2]
  <2>1. head \in Seq(Token) /\ tail \in Seq(Token)
    BY <1>1, <1>5
  <2>2. /\ head \o tail \in Seq(Token) /\ Len(head \o tail) = Len(head) + Len(tail)
        /\ \A i \in 1 .. Len(head) + Len(tail) :
             (head \o tail)[i] = IF i <= Len(head) THEN head[i] ELSE tail[i - Len(head)]
    BY ONLY <2>1, ConcatProperties, Zenon
  <2>3. Len(head) = 2 /\ Len(tail) = 2
    BY <1>1, <1>5
  <2> QED BY ONLY <1>4, <2>2, <2>3, Zenon
<1>7. p[1] = head[1] /\ p[2] = head[2] /\ p[3] = tail[1] /\ p[4] = tail[2]
  BY <1>6
<1>8. /\ p \in Seq(Token) /\ Len(p) = 4
      /\ p[1] = Text(id, e) /\ p[2] = Newline /\ p[3] = Text(new, c) /\ p[4] = Newline
  BY <1>1, <1>5, <1>6, <1>7
<1> QED BY <1>8 DEF p, w, first, second

\* The file once n tokens of p have been added to it.
Reached(f, p, n) == f \o SubSeq(p, 1, n)

LEMMA ReachedSteps ==
  ASSUME NEW f \in Seq(Token), NEW p \in Seq(Token)
  PROVE  /\ Reached(f, p, 0) = f
         /\ Reached(f, p, Len(p)) = f \o p
         /\ \A n \in 0 .. Len(p) - 1 : Reached(f, p, n + 1) = Append(Reached(f, p, n), p[n + 1])
<1>1. Reached(f, p, 0) = f
  <2>1. SubSeq(p, 1, 0) = <<>>
    BY SubSeqEmpty
  <2> QED BY <2>1, ConcatEmptySeq DEF Reached
<1>2. Reached(f, p, Len(p)) = f \o p
  BY SubSeqFull DEF Reached
<1>3. ASSUME NEW n \in 0 .. Len(p) - 1
      PROVE  Reached(f, p, n + 1) = Append(Reached(f, p, n), p[n + 1])
  <2> DEFINE u == SubSeq(p, 1, n)
             x == p[n + 1]
  <2>1. /\ Len(p) \in Nat /\ n \in Int /\ 1 \in 1 .. Len(p) /\ n + 1 \in 1 .. Len(p)
        /\ n + 1 - 1 = n /\ \A i \in 1 .. n : i \in 1 .. Len(p)
    OBVIOUS
  <2>2. SubSeq(p, 1, n + 1) = u \o <<x>>
    BY <2>1, SubSeqRecursiveSecond
  <2>3. u \in Seq(Token) /\ x \in Token
    <3>1. \A i \in 1 .. n : p[i] \in Token
      BY <2>1, ElementOfSeq
    <3> QED BY <2>1, <3>1, SubSeqProperties, ElementOfSeq
  <2> HIDE DEF u, x
  <2>4. <<x>> \in Seq(Token) /\ f \o u \in Seq(Token)
    BY <2>3
  <2>5. f \o (u \o <<x>>) = (f \o u) \o <<x>>
    BY <2>3, <2>4, ConcatAssociative
  <2>6. (f \o u) \o <<x>> = Append(f \o u, x)
    BY <2>3, <2>4, AppendIsConcat
  <2> QED BY <2>2, <2>5, <2>6 DEF Reached, u, x
<1> QED BY <1>1, <1>2, <1>3

LEMMA CutReached ==
  ASSUME NEW f \in Seq(Token), NEW p \in Seq(Token), NEW cut \in Cuts(p)
  PROVE  \/ \E n \in 0 .. Len(p) : f \o cut = Reached(f, p, n)
         \/ \E n \in 0 .. Len(p) - 1, piece \in [kind : Fragment] :
              p[n + 1] # Newline /\ f \o cut = Append(Reached(f, p, n), piece)
<1> DEFINE Gaps == {m \in 0 .. (Len(p) - 1) : p[m + 1] # Newline}
<1>1. CASE \E n \in 0 .. Len(p) : cut = SubSeq(p, 1, n)
  BY <1>1 DEF Reached
<1>2. CASE \E n \in Gaps, piece \in [kind : Fragment] : cut = Append(SubSeq(p, 1, n), piece)
  <2>1. PICK n \in 0 .. Len(p) - 1, piece \in [kind : Fragment] :
          p[n + 1] # Newline /\ cut = Append(SubSeq(p, 1, n), piece)
    BY <1>2
  <2> DEFINE u == SubSeq(p, 1, n)
  <2>2. u \in Seq(Token)
    <3>1. n \in Int /\ \A i \in 1 .. n : i \in 1 .. Len(p)
      OBVIOUS
    <3>2. \A i \in 1 .. n : p[i] \in Token
      BY <3>1, ElementOfSeq
    <3> QED BY <3>1, <3>2, SubSeqProperties
  <2>3. piece \in Token
    BY FragmentToken
  <2> HIDE DEF u
  <2>4. f \o (u \o <<piece>>) = (f \o u) \o <<piece>> /\ f \o u \in Seq(Token)
    <3>1. <<piece>> \in Seq(Token) /\ f \o u \in Seq(Token)
      BY <2>2, <2>3
    <3> QED BY <2>2, <3>1, ConcatAssociative
  <2>5. Append(u, piece) = u \o <<piece>> /\ Append(f \o u, piece) = (f \o u) \o <<piece>>
    BY <2>2, <2>3, <2>4, AppendIsConcat
  <2>6. f \o cut = Append(f \o u, piece)
    BY <2>1, <2>4, <2>5 DEF u
  <2> QED BY <2>1, <2>6 DEF Reached, u
<1>3. (\E n \in 0 .. Len(p) : cut = SubSeq(p, 1, n))
      \/ \E n \in Gaps, piece \in [kind : Fragment] : cut = Append(SubSeq(p, 1, n), piece)
  BY DEF Cuts
<1> QED BY <1>1, <1>2, <1>3

-----------------------------------------------------------------------------
(* The states a write passes through, whichever state it is applied to.    *)

OneEntry(id, e) ==
  \/ id \in TicketId \ Drawn /\ \E t \in Ticket : e = CreatedEvent(t) /\ NewTicket(t, None)
  \/ id \in DOMAIN tickets /\ PlainEvent(tickets[id], e)

TwoEntries(id, e, new, c) ==
  /\ id \in DOMAIN tickets /\ new \in TicketId \ Drawn /\ LinkTo(tickets[id], e, new)
  /\ \E t \in Ticket : c = CreatedEvent(t) /\ NewTicket(t, id)

LEMMA WriteForms ==
  ASSUME Sound(Memory), NEW w \in Writes
  PROVE  \/ \E id \in TicketId, e \in AuditEvent : w = << <<id, e>> >> /\ OneEntry(id, e)
         \/ \E id \in TicketId, e \in AuditEvent, new \in TicketId, c \in AuditEvent :
              w = << <<id, e>>, <<new, c>> >> /\ TwoEntries(id, e, new, c)
<1>1. DOMAIN tickets \subseteq TicketId
  BY DEF Sound, Store, Memory
<1>2. CASE \E id \in TicketId \ Drawn, t \in Ticket :
             w = << <<id, CreatedEvent(t)>> >> /\ NewTicket(t, None)
  <2>1. PICK id \in TicketId \ Drawn, t \in Ticket :
          w = << <<id, CreatedEvent(t)>> >> /\ NewTicket(t, None)
    BY <1>2
  <2>2. CreatedEvent(t) \in AuditEvent
    BY CreatedEventType
  <2>3. OneEntry(id, CreatedEvent(t))
    BY <2>1 DEF OneEntry
  <2> QED BY <2>1, <2>2, <2>3
<1>3. CASE \E id \in DOMAIN tickets, e \in AuditEvent :
             w = << <<id, e>> >> /\ PlainEvent(tickets[id], e)
  BY <1>1, <1>3 DEF OneEntry
<1>4. CASE \E id \in DOMAIN tickets, e \in AuditEvent, new \in TicketId \ Drawn, t \in Ticket :
             /\ w = << <<id, e>>, <<new, CreatedEvent(t)>> >>
             /\ LinkTo(tickets[id], e, new) /\ NewTicket(t, id)
  <2>1. PICK id \in DOMAIN tickets, e \in AuditEvent, new \in TicketId \ Drawn, t \in Ticket :
             /\ w = << <<id, e>>, <<new, CreatedEvent(t)>> >>
             /\ LinkTo(tickets[id], e, new) /\ NewTicket(t, id)
    BY <1>4
  <2>2. CreatedEvent(t) \in AuditEvent
    BY CreatedEventType
  <2>3. TwoEntries(id, e, new, CreatedEvent(t))
    BY <2>1 DEF TwoEntries
  <2> QED BY <1>1, <2>1, <2>2, <2>3
<1> QED BY <1>2, <1>3, <1>4, WritesAre

LEMMA WithinMore ==
  ASSUME NEW s, NEW ids, NEW more, Within(s, ids), ids \subseteq more PROVE Within(s, more)
BY DEF Within

\* n, which comes of s as mm comes of the memory, keeps what both memories hold.
Advance(n, s, mm, ids) ==
  /\ Sound(n) /\ Within(n, ids) /\ Dangling(n) = Dangling(s)
  /\ Keeps(n, events) /\ Keeps(n, mm.events)

LEMMA OneEntryOn ==
  ASSUME file \in Seq(Token), NEW s, Follows(s, Memory, Drawn),
         NEW id \in TicketId, NEW e \in AuditEvent, OneEntry(id, e)
  PROVE  LET n == ApplyToState(s, id, e) IN
         /\ n.ok => Advance(n, s, ApplyToState(Memory, id, e), DrawnIn(Append(file, Text(id, e))))
         /\ s = Memory => n.ok
<1> DEFINE ids == DrawnIn(Append(file, Text(id, e)))
           n == ApplyToState(s, id, e)
           mm == ApplyToState(Memory, id, e)
<1>1. Drawn \cup {id} \subseteq ids
  <2>1. Drawn = DrawnIn(file)
    BY DEF Drawn, DrawnIn
  <2> QED BY <2>1, TextToken, DrawnGrows, DrawnText
<1>2. Memory.events = events /\ Memory.tickets = tickets
  BY DEF Memory
<1> HIDE DEF ids
<1>3. CASE id \in TicketId \ Drawn /\ \E t \in Ticket : e = CreatedEvent(t) /\ NewTicket(t, None)
  <2>1. PICK t \in Ticket : e = CreatedEvent(t) /\ NewTicket(t, None)
    BY <1>3
  <2>2. Store(mm)
    <3>1. Store(Memory) /\ id \notin DOMAIN Memory.tickets
      BY <1>3 DEF Follows, Sound, Within
    <3> QED BY <2>1, <3>1, Created
  <2>3. /\ n.ok /\ Sound(n) /\ Within(n, Drawn \cup {id}) /\ Dangling(n) = Dangling(s)
        /\ Keeps(n, Memory.events) /\ Keeps(n, mm.events)
    BY <1>3, <2>1, <2>2, CreationOn
  <2> HIDE DEF n, mm
  <2>4. Within(n, ids)
    BY <1>1, <2>3, WithinMore
  <2>5. n.ok /\ Advance(n, s, mm, ids)
    BY <1>2, <2>3, <2>4 DEF Advance
  <2> QED BY <2>5 DEF n, mm, ids
<1>4. CASE id \in DOMAIN tickets /\ PlainEvent(tickets[id], e)
  <2>1. /\ n.ok => /\ Sound(n) /\ Within(n, Drawn) /\ Dangling(n) = Dangling(s)
                   /\ Keeps(n, Memory.events) /\ Keeps(n, mm.events)
        /\ s = Memory => n.ok
    BY <1>2, <1>4, PlainOn
  <2> HIDE DEF n, mm
  <2>2. Within(n, Drawn) => Within(n, ids)
    BY <1>1, WithinMore
  <2>3. (n.ok => Advance(n, s, mm, ids)) /\ (s = Memory => n.ok)
    BY <1>2, <2>1, <2>2 DEF Advance
  <2> QED BY <2>3 DEF n, mm, ids
<1> QED BY <1>3, <1>4 DEF OneEntry

LEMMA TwoEntriesOn ==
  ASSUME file \in Seq(Token), NEW s, Follows(s, Memory, Drawn),
         NEW id \in TicketId, NEW e \in AuditEvent, NEW new \in TicketId, NEW c \in AuditEvent,
         TwoEntries(id, e, new, c)
  PROVE  LET half == ApplyToState(s, id, e)
             n == ApplyToState(half, new, c)
             mm == ApplyToState(ApplyToState(Memory, id, e), new, c)
             ids == DrawnIn(Append(file, Text(id, e)))
         IN  /\ half.ok => /\ Sound(half) /\ Within(half, ids) /\ Keeps(half, events)
                           /\ n.ok /\ Advance(n, s, mm, ids)
             /\ s = Memory => half.ok
<1> DEFINE ids == DrawnIn(Append(file, Text(id, e)))
           half == ApplyToState(s, id, e)
           n == ApplyToState(half, new, c)
           mm == ApplyToState(ApplyToState(Memory, id, e), new, c)
<1>1. PICK t \in Ticket : c = CreatedEvent(t) /\ NewTicket(t, id)
  BY DEF TwoEntries
<1>2. /\ id \in DOMAIN Memory.tickets /\ new \notin Drawn /\ LinkTo(Memory.tickets[id], e, new)
      /\ Memory.events = events
  BY DEF TwoEntries, Memory
<1>3. e.type \in LinkTypes /\ e.details = new
  BY <1>2 DEF LinkTo
<1>4. Drawn \cup {new} \subseteq ids
  <2>1. Drawn = DrawnIn(file)
    BY DEF Drawn, DrawnIn
  <2> QED BY <1>3, <2>1, TextToken, DrawnGrows, DrawnText
<1> HIDE DEF ids
<1>5. s = Memory => half.ok
  <2>1. Store(Memory)
    BY DEF Follows, Sound
  <2> QED BY <1>2, <2>1, LinkOnMemory
<1>6. ASSUME half.ok
      PROVE  /\ Sound(half) /\ Within(half, ids) /\ Keeps(half, events)
             /\ n.ok /\ Advance(n, s, mm, ids)
  <2>1. Linked(half, s, Memory, Drawn, id, e)
    BY <1>2, <1>6, LinkOn
  <2>2. Superseded(n, mm, s, Memory, Drawn \cup {new})
    BY <1>1, <1>2, <1>6, SupersedeOn
  <2> HIDE DEF half, n, mm
  <2>3. Sound(half) /\ Within(half, Drawn \cup {new}) /\ Keeps(half, events)
    BY <1>2, <1>3, <2>1 DEF Linked
  <2>4. Within(half, ids) /\ Within(n, ids)
    BY <1>4, <2>2, <2>3, WithinMore DEF Superseded
  <2> QED BY <1>2, <2>2, <2>3, <2>4 DEF Advance, Superseded
<1> QED BY <1>5, <1>6 DEF ids

-----------------------------------------------------------------------------
(* One more line in the file, or a part of one.                            *)

\* The next boot on g fails, or keeps the logs.
Fits(g, logs) ==
  /\ g \in Seq(Token)
  /\ Sane(Body(g), logs, DrawnIn(g)) /\ Sane(Whole(g), logs, DrawnIn(g))

\* Nothing that is written to f any more will be read.
Spoiled(f) == ~Body(f).ok \/ Tip(f) # <<>>

LEMMA SaneMore ==
  ASSUME NEW s, NEW logs, NEW ids, NEW more, Sane(s, logs, ids), ids \subseteq more
  PROVE  Sane(s, logs, more)
BY WithinMore DEF Sane

LEMMA UnreadableFits ==
  ASSUME NEW g \in Seq(Token), ~Body(g).ok, NEW logs
  PROVE  Fits(g, logs) /\ Spoiled(g)
BY Unreadable DEF Fits, Spoiled, Sane

LEMMA SpoiledToken ==
  ASSUME NEW f, NEW logs, Fits(f, logs), Spoiled(f), NEW token \in Token, token # Newline
  PROVE  LET g == Append(f, token) IN
         Fits(g, logs) /\ Spoiled(g) /\ ~Body(Append(g, Newline)).ok
<1> DEFINE g == Append(f, token)
<1>1. f \in Seq(Token) /\ g \in Seq(Token) /\ Newline \in Token
  BY NewlineToken DEF Fits
<1>2. CASE ~Body(f).ok
  <2>1. ~Body(g).ok
    BY <1>1, <1>2, Unreadable
  <2> HIDE DEF g
  <2>2. ~Body(Append(g, Newline)).ok
    BY <1>1, <2>1, Unreadable
  <2>3. Fits(g, logs) /\ Spoiled(g)
    BY <1>1, <2>1, UnreadableFits
  <2> QED BY <2>2, <2>3 DEF g
<1>3. CASE Tip(f) # <<>>
  <2>1. /\ Body(g) = Body(f) /\ Tip(g) # <<>>
        /\ Whole(g).ok => Whole(g) = Body(f)
        /\ ~Body(Append(g, Newline)).ok
    BY <1>1, <1>3, BehindTorn
  <2>2. DrawnIn(f) \subseteq DrawnIn(g)
    BY <1>1, DrawnGrows
  <2> HIDE DEF g
  <2>3. Sane(Body(f), logs, DrawnIn(g))
    BY <2>2, SaneMore DEF Fits
  <2>4. Fits(g, logs)
    BY <1>1, <2>1, <2>3 DEF Fits, Sane
  <2> QED BY <2>1, <2>4 DEF Spoiled, g
<1> QED BY <1>2, <1>3 DEF Spoiled

LEMMA SpoiledLine ==
  ASSUME NEW f, NEW logs, Fits(f, logs), Spoiled(f), NEW id \in TicketId, NEW e \in AuditEvent
  PROVE  LET text == Append(f, Text(id, e))
             line == Append(text, Newline)
         IN  /\ Fits(text, logs) /\ Spoiled(text)
             /\ line \in Seq(Token) /\ ~Body(line).ok
<1> DEFINE text == Append(f, Text(id, e))
<1>1. Fits(text, logs) /\ Spoiled(text) /\ ~Body(Append(text, Newline)).ok
  BY TextToken, SpoiledToken
<1> HIDE DEF text
<1>2. Append(text, Newline) \in Seq(Token)
  BY <1>1, NewlineToken DEF Fits
<1> QED BY <1>1, <1>2 DEF text

LEMMA CleanFragment ==
  ASSUME NEW f, NEW logs, Fits(f, logs), Tip(f) = <<>>, NEW piece \in [kind : Fragment]
  PROVE  LET torn == Append(f, piece) IN
         /\ Fits(torn, logs) /\ Spoiled(torn) /\ Tip(torn) # <<>>
         /\ Body(f).ok /\ "cutCharacter" \notin Fragment => Whole(torn).ok
<1> DEFINE torn == Append(f, piece)
<1>1. f \in Seq(Token) /\ piece \in Token
  BY FragmentToken DEF Fits
<1>2. /\ torn \in Seq(Token) /\ Body(torn) = Body(f) /\ Tip(torn) # <<>>
      /\ Whole(torn).ok => Whole(torn) = Body(f)
      /\ Body(f).ok /\ "cutCharacter" \notin Fragment => Whole(torn).ok
  BY <1>1, FragmentAdded
<1>3. DrawnIn(f) \subseteq DrawnIn(torn)
  BY <1>1, DrawnGrows
<1> HIDE DEF torn
<1>4. Sane(Body(f), logs, DrawnIn(torn))
  BY <1>3, SaneMore DEF Fits
<1>5. Fits(torn, logs) /\ Spoiled(torn)
  BY <1>2, <1>4 DEF Fits, Sane, Spoiled
<1> QED BY <1>2, <1>5 DEF torn

LEMMA CleanLine ==
  ASSUME NEW f, NEW logs, Fits(f, logs), Tip(f) = <<>>, NEW id \in TicketId, NEW e \in AuditEvent,
         Sane(After(Body(f), id, e), logs, DrawnIn(Append(f, Text(id, e))))
  PROVE  LET text == Append(f, Text(id, e))
             line == Append(text, Newline)
             s == After(Body(f), id, e)
         IN  /\ Fits(text, logs) /\ Tip(text) # <<>> /\ Whole(text) = s
             /\ Fits(line, logs) /\ Tip(line) = <<>> /\ Body(line) = s /\ Whole(line) = s
             /\ DrawnIn(text) \subseteq DrawnIn(line)
<1> DEFINE text == Append(f, Text(id, e))
           line == Append(text, Newline)
           s == After(Body(f), id, e)
<1>1. f \in Seq(Token) /\ Text(id, e) \in Token
  BY TextToken DEF Fits
<1>2. /\ text \in Seq(Token) /\ Body(text) = Body(f) /\ Tip(text) # <<>> /\ Whole(text) = s
      /\ line \in Seq(Token) /\ Body(line) = s /\ Tip(line) = <<>> /\ Whole(line) = s
  BY <1>1, LineAdded
<1>3. DrawnIn(f) \subseteq DrawnIn(text)
  BY <1>1, DrawnGrows
<1>4. Sane(s, logs, DrawnIn(text))
  OBVIOUS
<1> HIDE DEF text, s
<1>5. DrawnIn(text) \subseteq DrawnIn(line)
  BY <1>2, NewlineToken, DrawnGrows
<1> HIDE DEF line
<1>6. Sane(Body(f), logs, DrawnIn(text)) /\ Sane(s, logs, DrawnIn(line))
  BY <1>3, <1>4, <1>5, SaneMore DEF Fits
<1>7. Fits(text, logs) /\ Fits(line, logs)
  BY <1>2, <1>4, <1>6 DEF Fits
<1> QED BY <1>2, <1>5, <1>7 DEF text, line, s

-----------------------------------------------------------------------------
(* The file after a write that was cut off, and after a whole one.         *)

\* The file is the memory.
Clean == Tip(file) = <<>> /\ Body(file) = Memory

\* What a process that is up relies on.
Ready ==
  /\ Fits(file, acked) /\ Logs(acked)
  /\ Sound(Memory) /\ Dangling(Memory) = {} /\ Within(Memory, Drawn) /\ Keeps(Memory, acked)
  /\ Tip(file) = <<>> /\ Body(file).ok => Keeps(Body(file), events)

\* g is a file that a cut-off write may leave.
Cutoff(g) ==
  /\ Fits(g, acked) /\ Drawn \subseteq DrawnIn(g)
  /\ Tip(g) = <<>> /\ Body(g).ok => Keeps(Body(g), events)
  /\ Clean /\ "cutCharacter" \notin Fragment => Whole(g).ok

\* g is the file, mm the memory that a whole write leaves.
Written(g, mm) ==
  /\ Fits(g, mm.events) /\ Drawn \subseteq DrawnIn(g)
  /\ mm.ok /\ Sound(mm) /\ Dangling(mm) = {} /\ Within(mm, DrawnIn(g))
  /\ Clean => Tip(g) = <<>> /\ Body(g) = mm

LEMMA DrawnIs == Drawn = DrawnIn(file)
BY DEF Drawn, DrawnIn

LEMMA CleanReads == ASSUME Clean PROVE ~Spoiled(file)
<1>1. Memory.ok
  BY DEF Memory
<1> QED BY <1>1 DEF Clean, Spoiled

LEMMA CutoffSpoiled ==
  ASSUME NEW g, Fits(g, acked), Spoiled(g), Drawn \subseteq DrawnIn(g),
         Clean /\ "cutCharacter" \notin Fragment => Whole(g).ok
  PROVE  Cutoff(g)
BY DEF Cutoff, Spoiled

LEMMA CutoffKept ==
  ASSUME Ready, NEW g, Fits(g, events), Drawn \subseteq DrawnIn(g),
         Clean /\ "cutCharacter" \notin Fragment => Whole(g).ok
  PROVE  Cutoff(g)
<1>1. Memory.events = events
  BY DEF Memory
<1>2. ASSUME NEW s, Sane(s, events, DrawnIn(g)) PROVE Sane(s, acked, DrawnIn(g))
  <2> SUFFICES ASSUME s.ok PROVE Keeps(s, acked)
    BY <1>2 DEF Sane
  <2>1. Sound(s) /\ Keeps(s, events)
    BY <1>2 DEF Sane
  <2>2. Store(Memory) /\ Dangling(Memory) = {} /\ Keeps(Memory, acked) /\ Logs(acked)
    BY DEF Ready, Sound
  <2> QED BY <1>1, <2>1, <2>2, KeepsLess
<1>3. Fits(g, acked)
  BY <1>2 DEF Fits
<1>4. Body(g).ok => Keeps(Body(g), events)
  BY DEF Fits, Sane
<1> QED BY <1>3, <1>4 DEF Cutoff

\* While the file can be written to, it has what the memory has.
LEMMA ReadyFollows ==
  ASSUME Ready, ~Spoiled(file)
  PROVE  /\ Body(file).ok /\ Tip(file) = <<>> /\ Fits(file, events)
         /\ Follows(Body(file), Memory, Drawn)
<1>1. Body(file).ok /\ Tip(file) = <<>>
  BY DEF Spoiled
<1>2. Memory.events = events
  BY DEF Memory
<1>3. Keeps(Body(file), events) /\ Sane(Body(file), acked, DrawnIn(file)) /\ file \in Seq(Token)
  BY <1>1 DEF Ready, Fits
<1>4. Sane(Body(file), events, DrawnIn(file))
  BY <1>1, <1>3 DEF Sane
<1>5. Whole(file) = Body(file)
  BY <1>1 DEF Whole, ReplayLine
<1>6. Fits(file, events)
  BY <1>3, <1>4, <1>5 DEF Fits
<1>7. Follows(Body(file), Memory, Drawn)
  BY <1>1, <1>2, <1>4, DrawnIs DEF Ready, Follows, Sane
<1> QED BY <1>1, <1>6, <1>7

LEMMA CutoffNothing == ASSUME Ready PROVE Cutoff(file)
<1>1. Clean => Whole(file).ok
  <2>1. Memory.ok
    BY DEF Memory
  <2> QED BY <2>1 DEF Clean, Whole, ReplayLine
<1> QED BY <1>1, DrawnIs DEF Ready, Cutoff

LEMMA CutoffFragment ==
  ASSUME Ready, NEW piece \in [kind : Fragment]
  PROVE  Cutoff(Append(file, piece))
<1> DEFINE g == Append(file, piece)
<1>1. piece \in Token /\ piece # Newline
  BY FragmentToken
<1>2. Drawn \subseteq DrawnIn(g)
  BY <1>1, DrawnGrows, DrawnIs DEF Ready, Fits
<1>3. CASE Spoiled(file)
  <2>1. Fits(g, acked) /\ Spoiled(g)
    BY <1>1, <1>3, SpoiledToken DEF Ready
  <2> HIDE DEF g
  <2>2. Cutoff(g)
    BY <1>2, <1>3, <2>1, CutoffSpoiled, CleanReads
  <2> QED BY <2>2 DEF g
<1>4. CASE ~Spoiled(file)
  <2>1. Body(file).ok /\ Tip(file) = <<>> /\ Fits(file, events)
    BY <1>4, ReadyFollows
  <2>2. Fits(g, events) /\ ("cutCharacter" \notin Fragment => Whole(g).ok)
    BY <2>1, CleanFragment
  <2> HIDE DEF g
  <2>3. Cutoff(g)
    BY <1>2, <2>2, CutoffKept
  <2> QED BY <2>3 DEF g
<1> QED BY <1>3, <1>4

LEMMA MemoryFollows == ASSUME Ready PROVE Follows(Memory, Memory, Drawn)
BY FollowsItself DEF Ready

\* The memory after a write, and a file whose replay has the write or fails.
LEMMA WrittenSpoiled ==
  ASSUME NEW g, g \in Seq(Token), ~Body(g).ok, ~Clean, NEW ids, ids \subseteq DrawnIn(g),
         Drawn \subseteq DrawnIn(g), NEW mm, mm.ok, Advance(mm, Memory, mm, ids), Ready
  PROVE  Written(g, mm)
<1>1. Fits(g, mm.events)
  BY UnreadableFits
<1>2. Sound(mm) /\ Dangling(mm) = {} /\ Within(mm, DrawnIn(g))
  BY WithinMore DEF Advance, Ready
<1> QED BY <1>1, <1>2 DEF Written

LEMMA WrittenKept ==
  ASSUME NEW g, g \in Seq(Token), NEW s, Body(g) = s, Whole(g) = s, Tip(g) = <<>>,
         NEW ids, ids \subseteq DrawnIn(g), Drawn \subseteq DrawnIn(g),
         NEW mm, mm.ok, Advance(mm, Memory, mm, ids), Ready,
         NEW base, s.ok => Advance(s, base, mm, ids), Clean => s = mm
  PROVE  Written(g, mm)
<1>1. Sane(s, mm.events, ids)
  BY DEF Sane, Advance
<1>2. Sane(s, mm.events, DrawnIn(g))
  BY <1>1, SaneMore
<1>3. Fits(g, mm.events)
  BY <1>2 DEF Fits
<1>4. Sound(mm) /\ Dangling(mm) = {} /\ Within(mm, DrawnIn(g))
  BY WithinMore DEF Advance, Ready
<1> QED BY <1>3, <1>4 DEF Written

LEMMA OneEntryWritten ==
  ASSUME Ready, NEW id \in TicketId, NEW e \in AuditEvent, OneEntry(id, e)
  PROVE  LET text == Append(file, Text(id, e))
             line == Append(text, Newline)
         IN  /\ Cutoff(text) /\ Cutoff(line)
             /\ Written(line, ApplyToState(Memory, id, e))
<1> DEFINE text == Append(file, Text(id, e))
           line == Append(text, Newline)
           mm == ApplyToState(Memory, id, e)
           s == ApplyToState(Body(file), id, e)
<1>1. file \in Seq(Token) /\ text \in Seq(Token) /\ line \in Seq(Token)
  BY TextToken, NewlineToken DEF Ready, Fits
<1>2. mm.ok /\ Advance(mm, Memory, mm, DrawnIn(text))
  BY <1>1, MemoryFollows, OneEntryOn
<1>3. Drawn \subseteq DrawnIn(text)
  BY <1>1, TextToken, DrawnGrows, DrawnIs
<1>4. CASE Spoiled(file)
  <2>1. Fits(text, acked) /\ Spoiled(text) /\ ~Body(line).ok
    BY <1>4, SpoiledLine DEF Ready
  <2>2. ~Clean
    BY <1>4, CleanReads
  <2> HIDE DEF text, mm
  <2>3. DrawnIn(text) \subseteq DrawnIn(line)
    BY <1>1, NewlineToken, DrawnGrows
  <2> HIDE DEF line
  <2>4. Fits(line, acked) /\ Spoiled(line)
    BY <1>1, <2>1, UnreadableFits
  <2>5. Cutoff(text) /\ Cutoff(line)
    BY <1>3, <2>1, <2>2, <2>3, <2>4, CutoffSpoiled
  <2>6. Written(line, mm)
    BY <1>1, <1>2, <1>3, <2>1, <2>2, <2>3, WrittenSpoiled
  <2> QED BY <2>5, <2>6 DEF text, line, mm
<1>5. CASE ~Spoiled(file)
  <2>1. Body(file).ok /\ Tip(file) = <<>> /\ Fits(file, events) /\ Follows(Body(file), Memory, Drawn)
    BY <1>5, ReadyFollows
  <2>2. After(Body(file), id, e) = s
    BY <2>1 DEF After
  <2>3. /\ s.ok => Advance(s, Body(file), mm, DrawnIn(text))
        /\ Body(file) = Memory => s.ok
    BY <1>1, <2>1, OneEntryOn
  <2>4. Sane(s, events, DrawnIn(text))
    <3> HIDE DEF s, mm, text
    <3> QED BY <2>3 DEF Sane, Advance
  <2>5. /\ Fits(text, events) /\ Tip(text) # <<>> /\ Whole(text) = s
        /\ Fits(line, events) /\ Tip(line) = <<>> /\ Body(line) = s /\ Whole(line) = s
        /\ DrawnIn(text) \subseteq DrawnIn(line)
    BY <2>1, <2>2, <2>4, CleanLine
  <2>6. Clean => s = mm
    BY DEF Clean
  <2> HIDE DEF s, mm, text, line
  <2>7. Cutoff(text) /\ Cutoff(line)
    BY <1>2, <1>3, <2>5, <2>6, CutoffKept
  <2>8. Written(line, mm)
    BY <1>1, <1>2, <1>3, <2>3, <2>5, <2>6, WrittenKept
  <2> QED BY <2>7, <2>8 DEF text, line, mm
<1> QED BY <1>4, <1>5

LEMMA TwoEntriesWritten ==
  ASSUME Ready, NEW id \in TicketId, NEW e \in AuditEvent, NEW new \in TicketId, NEW c \in AuditEvent,
         TwoEntries(id, e, new, c)
  PROVE  LET half == Append(Append(file, Text(id, e)), Newline)
             text == Append(half, Text(new, c))
             line == Append(text, Newline)
         IN  /\ Cutoff(Append(file, Text(id, e))) /\ Cutoff(half)
             /\ \A piece \in [kind : Fragment] : Cutoff(Append(half, piece))
             /\ Cutoff(text) /\ Cutoff(line)
             /\ Written(line, ApplyToState(ApplyToState(Memory, id, e), new, c))
<1> DEFINE first == Append(file, Text(id, e))
           half == Append(first, Newline)
           text == Append(half, Text(new, c))
           line == Append(text, Newline)
           mm == ApplyToState(ApplyToState(Memory, id, e), new, c)
           s1 == ApplyToState(Body(file), id, e)
           s2 == ApplyToState(s1, new, c)
<1>1. file \in Seq(Token) /\ first \in Seq(Token)
  BY TextToken DEF Ready, Fits
<1>2. half \in Seq(Token) /\ Drawn \subseteq DrawnIn(first) /\ DrawnIn(first) \subseteq DrawnIn(half)
  <2>1. Drawn \subseteq DrawnIn(first)
    BY <1>1, TextToken, DrawnGrows, DrawnIs
  <2> HIDE DEF first
  <2> QED BY <1>1, <2>1, NewlineToken, DrawnGrows
<1>3. text \in Seq(Token) /\ DrawnIn(half) \subseteq DrawnIn(text)
  <2> HIDE DEF half
  <2> QED BY <1>2, TextToken, DrawnGrows
<1>4. line \in Seq(Token) /\ DrawnIn(text) \subseteq DrawnIn(line)
  <2> HIDE DEF text
  <2> QED BY <1>3, NewlineToken, DrawnGrows
<1>5. mm.ok /\ Advance(mm, Memory, mm, DrawnIn(first))
  BY <1>1, MemoryFollows, TwoEntriesOn
<1>6. \A piece \in [kind : Fragment] :
        Append(half, piece) \in Seq(Token) /\ DrawnIn(half) \subseteq DrawnIn(Append(half, piece))
  <2> HIDE DEF half
  <2> QED BY <1>2, FragmentToken, DrawnGrows
<1>7. CASE Spoiled(file)
  <2>1. Fits(first, acked) /\ Spoiled(first) /\ ~Body(half).ok
    BY <1>7, SpoiledLine DEF Ready
  <2>2. ~Clean
    BY <1>7, CleanReads
  <2> HIDE DEF mm, half, first
  <2>3. Fits(half, acked) /\ Spoiled(half)
    BY <1>2, <2>1, UnreadableFits
  <2>4. \A piece \in [kind : Fragment] : Fits(Append(half, piece), acked) /\ Spoiled(Append(half, piece))
    BY <2>3, FragmentToken, SpoiledToken
  <2>5. Fits(text, acked) /\ Spoiled(text) /\ ~Body(line).ok
    BY <2>3, SpoiledLine
  <2> HIDE DEF text, line
  <2>6. Fits(line, acked) /\ Spoiled(line)
    BY <1>4, <2>5, UnreadableFits
  <2>7. Cutoff(first) /\ Cutoff(half) /\ Cutoff(text) /\ Cutoff(line)
    BY <1>2, <1>3, <1>4, <2>1, <2>2, <2>3, <2>5, <2>6, CutoffSpoiled
  <2>8. \A piece \in [kind : Fragment] : Cutoff(Append(half, piece))
    BY <1>2, <1>6, <2>2, <2>4, CutoffSpoiled
  <2>9. Written(line, mm)
    BY <1>2, <1>3, <1>4, <1>5, <2>2, <2>5, WrittenSpoiled
  <2> QED BY <2>7, <2>8, <2>9 DEF line, text, half, first, mm
<1>8. CASE ~Spoiled(file)
  <2>1. Body(file).ok /\ Tip(file) = <<>> /\ Fits(file, events) /\ Follows(Body(file), Memory, Drawn)
    BY <1>8, ReadyFollows
  <2>2. After(Body(file), id, e) = s1
    BY <2>1 DEF After
  <2>3. /\ s1.ok => /\ Sound(s1) /\ Within(s1, DrawnIn(first)) /\ Keeps(s1, events)
                    /\ s2.ok /\ Advance(s2, Body(file), mm, DrawnIn(first))
        /\ Body(file) = Memory => s1.ok
    BY <1>1, <2>1, TwoEntriesOn
  <2>4. Sane(s1, events, DrawnIn(first))
    <3> HIDE DEF s1, s2, mm, first
    <3> QED BY <2>3 DEF Sane
  <2>5. /\ Fits(first, events) /\ Tip(first) # <<>> /\ Whole(first) = s1
        /\ Fits(half, events) /\ Tip(half) = <<>> /\ Body(half) = s1 /\ Whole(half) = s1
    BY <2>1, <2>2, <2>4, CleanLine
  <2>6. Clean => s2 = mm
    BY DEF Clean
  <2> DEFINE end == After(s1, new, c)
  <2>7. /\ end.ok => Advance(end, Body(file), mm, DrawnIn(first))
        /\ s1.ok => end.ok
        /\ Clean => s1.ok /\ end = mm
    <3>1. Body(file) = Memory <=> Clean
      BY <2>1 DEF Clean
    <3> HIDE DEF mm, s1, s2
    <3>2. s1.ok => end = s2
      BY DEF After, s2
    <3>3. ~s1.ok => end = s1
      BY DEF After
    <3> HIDE DEF end
    <3> QED BY <2>3, <2>6, <3>1, <3>2, <3>3
  <2> HIDE DEF s1, s2, mm, first, half
  <2>8. Sane(end, events, DrawnIn(text))
    <3>1. Sane(end, events, DrawnIn(first))
      BY <2>7 DEF Sane, Advance
    <3> HIDE DEF end, text
    <3> QED BY <1>2, <1>3, <3>1, SaneMore
  <2>9. /\ Fits(text, events) /\ Tip(text) # <<>> /\ Whole(text) = end
        /\ Fits(line, events) /\ Tip(line) = <<>> /\ Body(line) = end /\ Whole(line) = end
    BY <2>5, <2>8, CleanLine
  <2>10. \A piece \in [kind : Fragment] :
           /\ Fits(Append(half, piece), events)
           /\ s1.ok /\ "cutCharacter" \notin Fragment => Whole(Append(half, piece)).ok
    BY <2>5, CleanFragment
  <2> HIDE DEF end, text, line
  <2>11. Cutoff(first) /\ Cutoff(half)
    BY <1>2, <2>5, <2>7, CutoffKept
  <2>12. Cutoff(text) /\ Cutoff(line)
    BY <1>2, <1>3, <1>4, <2>7, <2>9, CutoffKept
  <2>13. \A piece \in [kind : Fragment] : Cutoff(Append(half, piece))
    BY <1>2, <1>6, <2>7, <2>10, CutoffKept
  <2>14. Written(line, mm)
    <3>1. DrawnIn(first) \subseteq DrawnIn(line) /\ Drawn \subseteq DrawnIn(line)
      BY <1>2, <1>3, <1>4
    <3> QED BY <1>4, <1>5, <2>7, <2>9, <3>1, WrittenKept
  <2> QED BY <2>11, <2>12, <2>13, <2>14 DEF line, text, half, first, mm
<1> QED BY <1>7, <1>8

\* Memory after a write of one entry, or two.
LEMMA AppliedOne ==
  ASSUME NEW id, NEW e
  PROVE  FoldLeft(ApplyEntry, Memory, << <<id, e>> >>) = ApplyToState(Memory, id, e)
<1> DEFINE entry == <<id, e>>
<1>1. FoldLeft(ApplyEntry, Memory, <<entry>>) = Applying!FoldLeft(ApplyEntry, Memory, <<entry>>)
  BY DEF FoldLeft, MapThenFoldSet, Max,
         Applying!FoldLeft, Applying!MapThenFoldSet, Applying!Max
<1>2. entry[1] = id /\ entry[2] = e
  OBVIOUS
<1> HIDE DEF entry
<1>3. <<>> \in Seq({entry}) /\ entry \in {entry} /\ Append(<<>>, entry) = <<entry>>
  OBVIOUS
<1>4. Applying!FoldLeft(ApplyEntry, Memory, <<entry>>) = ApplyEntry(Memory, entry)
  <2>1. Applying!FoldLeft(ApplyEntry, Memory, <<>>) = Memory
    BY Applying!FoldEmpty
  <2>2. Applying!FoldLeft(ApplyEntry, Memory, Append(<<>>, entry))
          = ApplyEntry(Applying!FoldLeft(ApplyEntry, Memory, <<>>), entry)
    BY <1>3, Applying!FoldAppend
  <2> QED BY <1>3, <2>1, <2>2
<1> QED BY <1>1, <1>2, <1>4 DEF ApplyEntry, entry

LEMMA AppliedTwo ==
  ASSUME NEW id, NEW e, NEW new, NEW c
  PROVE  FoldLeft(ApplyEntry, Memory, << <<id, e>>, <<new, c>> >>)
           = ApplyToState(ApplyToState(Memory, id, e), new, c)
<1> DEFINE first == <<id, e>>
           second == <<new, c>>
           w == <<first, second>>
<1>1. \A v : FoldLeft(ApplyEntry, Memory, v) = Applying!FoldLeft(ApplyEntry, Memory, v)
  BY DEF FoldLeft, MapThenFoldSet, Max,
         Applying!FoldLeft, Applying!MapThenFoldSet, Applying!Max
<1>2. second[1] = new /\ second[2] = c
  OBVIOUS
<1>3. w = Append(<<first>>, second)
  <2> HIDE DEF first, second
  <2>1. /\ Append(<<first>>, second) \in Seq({first, second}) /\ Len(Append(<<first>>, second)) = 2
        /\ Append(<<first>>, second)[1] = first /\ Append(<<first>>, second)[2] = second
    <3>1. <<first>> \in Seq({first, second}) /\ Len(<<first>>) = 1 /\ <<first>>[1] = first
      OBVIOUS
    <3> QED BY <3>1, AppendProperties
  <2>2. w \in Seq({first, second}) /\ Len(w) = 2 /\ w[1] = first /\ w[2] = second
    OBVIOUS
  <2>3. \A i \in 1 .. 2 : i = 1 \/ i = 2
    OBVIOUS
  <2> HIDE DEF w
  <2>4. \A i \in 1 .. Len(w) : w[i] = Append(<<first>>, second)[i]
    BY <2>1, <2>2, <2>3
  <2> QED BY <2>1, <2>2, <2>4, SeqEqual
<1>4. <<first>> \in Seq({first, second}) /\ second \in {first, second}
  OBVIOUS
<1>5. FoldLeft(ApplyEntry, Memory, <<first>>) = ApplyToState(Memory, id, e)
  BY AppliedOne
<1> HIDE DEF first, second, w
<1>6. Applying!FoldLeft(ApplyEntry, Memory, Append(<<first>>, second))
        = ApplyEntry(Applying!FoldLeft(ApplyEntry, Memory, <<first>>), second)
  BY <1>4, Applying!FoldAppend
<1>7. FoldLeft(ApplyEntry, Memory, w) = ApplyEntry(ApplyToState(Memory, id, e), second)
  BY <1>1, <1>3, <1>5, <1>6
<1> QED BY <1>2, <1>7 DEF ApplyEntry, w, first, second

LEMMA WriteOutcome ==
  ASSUME Ready, NEW w \in Writes
  PROVE  /\ \A cut \in Cuts(Payload(w)) : Cutoff(file \o cut)
         /\ Payload(w) \in Seq(Token) /\ Payload(w) # <<>>
         /\ Written(file \o Payload(w), FoldLeft(ApplyEntry, Memory, w))
<1> DEFINE p == Payload(w)
           mm == FoldLeft(ApplyEntry, Memory, w)
<1>0. Sound(Memory) /\ file \in Seq(Token)
  BY DEF Ready, Fits
<1>1. CASE \E id \in TicketId, e \in AuditEvent : w = << <<id, e>> >> /\ OneEntry(id, e)
  <2>1. PICK id \in TicketId, e \in AuditEvent : w = << <<id, e>> >> /\ OneEntry(id, e)
    BY <1>1
  <2>2. p \in Seq(Token) /\ Len(p) = 2 /\ p[1] = Text(id, e) /\ p[2] = Newline
    BY <2>1, PayloadOne
  <2>3. mm = ApplyToState(Memory, id, e)
    BY <2>1, AppliedOne
  <2> HIDE DEF p, mm
  <2> DEFINE text == Append(file, Text(id, e))
             line == Append(text, Newline)
  <2>4. Cutoff(file) /\ Cutoff(text) /\ Cutoff(line) /\ Written(line, mm)
        /\ \A piece \in [kind : Fragment] : Cutoff(Append(file, piece))
    BY <2>1, <2>3, OneEntryWritten, CutoffNothing, CutoffFragment
  <2>5. Reached(file, p, 0) = file /\ Reached(file, p, 1) = text
        /\ Reached(file, p, 2) = line /\ file \o p = line
    <3>1. /\ Reached(file, p, 0) = file /\ Reached(file, p, Len(p)) = file \o p
          /\ \A n \in 0 .. Len(p) - 1 : Reached(file, p, n + 1) = Append(Reached(file, p, n), p[n + 1])
      BY <1>0, <2>2, ReachedSteps
    <3>2. Reached(file, p, 0 + 1) = Append(Reached(file, p, 0), p[0 + 1])
      BY <2>2, <3>1
    <3>3. Reached(file, p, 1 + 1) = Append(Reached(file, p, 1), p[1 + 1])
      BY <2>2, <3>1
    <3>4. 0 + 1 = 1 /\ 1 + 1 = 2
      OBVIOUS
    <3> QED BY <2>2, <3>1, <3>2, <3>3, <3>4
  <2> HIDE DEF text, line
  <2>6. ASSUME NEW cut \in Cuts(p) PROVE Cutoff(file \o cut)
    <3>1. CASE \E n \in 0 .. Len(p) : file \o cut = Reached(file, p, n)
      <4>1. PICK n \in 0 .. Len(p) : file \o cut = Reached(file, p, n)
        BY <3>1
      <4>2. n \in {0, 1, 2}
        BY <2>2
      <4> QED BY <2>4, <2>5, <4>1, <4>2
    <3>2. CASE \E n \in 0 .. Len(p) - 1, piece \in [kind : Fragment] :
                 p[n + 1] # Newline /\ file \o cut = Append(Reached(file, p, n), piece)
      <4>1. PICK n \in 0 .. Len(p) - 1, piece \in [kind : Fragment] :
                 p[n + 1] # Newline /\ file \o cut = Append(Reached(file, p, n), piece)
        BY <3>2
      <4>2. n = 0
        <5>1. n \in {0, 1} /\ 1 + 1 = 2
          BY <2>2
        <5> QED BY <2>2, <4>1, <5>1
      <4> QED BY <2>4, <2>5, <4>1, <4>2
    <3> QED BY <1>0, <2>2, <3>1, <3>2, CutReached
  <2>7. p # <<>>
    BY <2>2
  <2> QED BY <2>2, <2>4, <2>5, <2>6, <2>7 DEF p, mm
<1>2. CASE \E id \in TicketId, e \in AuditEvent, new \in TicketId, c \in AuditEvent :
              w = << <<id, e>>, <<new, c>> >> /\ TwoEntries(id, e, new, c)
  <2>1. PICK id \in TicketId, e \in AuditEvent, new \in TicketId, c \in AuditEvent :
              w = << <<id, e>>, <<new, c>> >> /\ TwoEntries(id, e, new, c)
    BY <1>2
  <2>2. /\ p \in Seq(Token) /\ Len(p) = 4
        /\ p[1] = Text(id, e) /\ p[2] = Newline /\ p[3] = Text(new, c) /\ p[4] = Newline
    BY <2>1, PayloadTwo
  <2>3. mm = ApplyToState(ApplyToState(Memory, id, e), new, c)
    BY <2>1, AppliedTwo
  <2> HIDE DEF p, mm
  <2> DEFINE first == Append(file, Text(id, e))
             half == Append(first, Newline)
             text == Append(half, Text(new, c))
             line == Append(text, Newline)
  <2>4. /\ Cutoff(file) /\ Cutoff(first) /\ Cutoff(half) /\ Cutoff(text) /\ Cutoff(line)
        /\ Written(line, mm)
        /\ \A piece \in [kind : Fragment] : Cutoff(Append(file, piece)) /\ Cutoff(Append(half, piece))
    BY <2>1, <2>3, TwoEntriesWritten, CutoffNothing, CutoffFragment
  <2>5. /\ Reached(file, p, 0) = file /\ Reached(file, p, 1) = first
        /\ Reached(file, p, 2) = half /\ Reached(file, p, 3) = text
        /\ Reached(file, p, 4) = line /\ file \o p = line
    <3>1. /\ Reached(file, p, 0) = file /\ Reached(file, p, Len(p)) = file \o p
          /\ \A n \in 0 .. Len(p) - 1 : Reached(file, p, n + 1) = Append(Reached(file, p, n), p[n + 1])
      BY <1>0, <2>2, ReachedSteps
    <3>2. /\ Reached(file, p, 0 + 1) = Append(Reached(file, p, 0), p[0 + 1])
          /\ Reached(file, p, 1 + 1) = Append(Reached(file, p, 1), p[1 + 1])
          /\ Reached(file, p, 2 + 1) = Append(Reached(file, p, 2), p[2 + 1])
          /\ Reached(file, p, 3 + 1) = Append(Reached(file, p, 3), p[3 + 1])
      <4>1. 0 \in 0 .. Len(p) - 1 /\ 1 \in 0 .. Len(p) - 1 /\ 2 \in 0 .. Len(p) - 1 /\ 3 \in 0 .. Len(p) - 1
        BY <2>2
      <4> QED BY <3>1, <4>1
    <3>3. 0 + 1 = 1 /\ 1 + 1 = 2 /\ 2 + 1 = 3 /\ 3 + 1 = 4
      OBVIOUS
    <3>4. Reached(file, p, 1) = first /\ Reached(file, p, 2) = half
      BY <2>2, <3>1, <3>2, <3>3
    <3>5. Reached(file, p, 3) = text /\ Reached(file, p, 4) = line
      <4> HIDE DEF half
      <4> QED BY <2>2, <3>2, <3>3, <3>4
    <3> QED BY <2>2, <3>1, <3>4, <3>5
  <2> HIDE DEF first, half, text, line
  <2>6. ASSUME NEW cut \in Cuts(p) PROVE Cutoff(file \o cut)
    <3>1. CASE \E n \in 0 .. Len(p) : file \o cut = Reached(file, p, n)
      <4>1. PICK n \in 0 .. Len(p) : file \o cut = Reached(file, p, n)
        BY <3>1
      <4>2. n \in {0, 1, 2, 3, 4}
        BY <2>2
      <4> QED BY <2>4, <2>5, <4>1, <4>2
    <3>2. CASE \E n \in 0 .. Len(p) - 1, piece \in [kind : Fragment] :
                 p[n + 1] # Newline /\ file \o cut = Append(Reached(file, p, n), piece)
      <4>1. PICK n \in 0 .. Len(p) - 1, piece \in [kind : Fragment] :
                 p[n + 1] # Newline /\ file \o cut = Append(Reached(file, p, n), piece)
        BY <3>2
      <4>2. n \in {0, 2}
        <5>1. n \in {0, 1, 2, 3} /\ 1 + 1 = 2 /\ 3 + 1 = 4
          BY <2>2
        <5> QED BY <2>2, <4>1, <5>1
      <4> QED BY <2>4, <2>5, <4>1, <4>2
    <3> QED BY <1>0, <2>2, <3>1, <3>2, CutReached
  <2>7. p # <<>>
    BY <2>2
  <2> QED BY <2>2, <2>4, <2>5, <2>6, <2>7 DEF p, mm
<1> QED BY <1>0, <1>1, <1>2, WriteForms

-----------------------------------------------------------------------------
(* The repair at the end of a boot.                                        *)

LEMMA Repaired ==
  ASSUME NEW s, Sound(s)
  PROVE  LET r == Repair(s) IN
         /\ Store(r) /\ r.ok /\ DOMAIN r.tickets = DOMAIN s.tickets /\ DOMAIN r.events = DOMAIN s.tickets
         /\ \A id \in DOMAIN s.tickets :
              /\ id \in Dangling(s) => /\ r.events[id] = Front(s.events[id])
                                       /\ SoundLog(r.events[id], r.tickets[id])
                                       /\ r.tickets[id].supersededBy = None
                                       /\ r.tickets[id].supersedes = s.tickets[id].supersedes
              /\ id \notin Dangling(s) => r.events[id] = s.events[id] /\ r.tickets[id] = s.tickets[id]
<1> DEFINE D == DOMAIN s.tickets
           ts == [id \in D |-> IF id \in Dangling(s) THEN Refold(Front(s.events[id])) ELSE s.tickets[id]]
           es == [id \in D |-> IF id \in Dangling(s) THEN Front(s.events[id]) ELSE s.events[id]]
           r == [ok |-> TRUE, tickets |-> ts, events |-> es]
<1>1. /\ s = [ok |-> TRUE, tickets |-> s.tickets, events |-> s.events]
      /\ D \subseteq TicketId /\ s.tickets \in [D -> Ticket] /\ s.events \in [D -> Seq(AuditEvent)]
      /\ \A id \in D : SoundLog(s.events[id], s.tickets[id]) /\ LinkForth(s, id)
  BY DEF Sound, Store
<1>2. ASSUME NEW id \in D, id \in Dangling(s)
      PROVE  LET before == Front(s.events[id]) IN
             /\ before \in Seq(AuditEvent) /\ Refold(before) \in Ticket
             /\ SoundLog(before, Refold(before)) /\ Refold(before).supersededBy = None
             /\ Refold(before).supersedes = s.tickets[id].supersedes
  <2> DEFINE before == Front(s.events[id])
  <2>1. Detachable(s.events[id], s.tickets[id])
    BY <1>1, <1>2 DEF Dangling, LinkForth
  <2>2. before \in Seq(AuditEvent)
    <3>1. s.events[id] \in Seq(AuditEvent) /\ s.events[id] # <<>>
      BY <1>1 DEF SoundLog
    <3> QED BY <3>1, FrontLast
  <2>3. /\ SoundLog(before, Refold(before)) /\ Refold(before).supersededBy = None
        /\ Refold(before).supersedes = s.tickets[id].supersedes
    BY <2>1 DEF Detachable
  <2> HIDE DEF before
  <2>4. Refold(before) \in Ticket
    BY <2>2, <2>3, RefoldType DEF SoundLog
  <2> QED BY <2>2, <2>3, <2>4 DEF before
<1>3. /\ ts \in [D -> Ticket] /\ es \in [D -> Seq(AuditEvent)]
      /\ DOMAIN ts = D /\ DOMAIN es = D
  <2>1. \A id \in D : ts[id] \in Ticket /\ es[id] \in Seq(AuditEvent)
    BY <1>1, <1>2
  <2> QED BY <2>1
<1>4. \A id \in D :
        /\ id \in Dangling(s) => /\ es[id] = Front(s.events[id])
                                 /\ SoundLog(es[id], ts[id])
                                 /\ ts[id].supersededBy = None
                                 /\ ts[id].supersedes = s.tickets[id].supersedes
        /\ id \notin Dangling(s) => es[id] = s.events[id] /\ ts[id] = s.tickets[id]
  BY <1>2
<1>5. Repair(s) = r
  <2>1. s.ok = TRUE /\ DOMAIN s.events = D
    BY <1>1
  <2> QED BY <2>1 DEF Repair
<1> HIDE DEF ts, es
<1>6. r.tickets = ts /\ r.events = es /\ r.ok
  OBVIOUS
<1>7. Store(r)
  BY <1>1, <1>3, <1>6 DEF Store
<1> HIDE DEF r, D
<1> QED BY <1>3, <1>4, <1>5, <1>6, <1>7 DEF D

LEMMA RepairSound ==
  ASSUME NEW s, Sound(s)
  PROVE  LET r == Repair(s) IN Sound(r) /\ Dangling(r) = {} /\ Keeps(s, r.events)
<1> DEFINE r == Repair(s)
<1>1. /\ Store(s)
      /\ \A id \in DOMAIN s.tickets : SoundLog(s.events[id], s.tickets[id]) /\ LinkBack(s, id) /\ LinkForth(s, id)
  BY DEF Sound
<1>2. /\ Store(r) /\ DOMAIN r.tickets = DOMAIN s.tickets /\ DOMAIN r.events = DOMAIN s.tickets
      /\ \A id \in DOMAIN s.tickets :
              /\ id \in Dangling(s) => /\ r.events[id] = Front(s.events[id])
                                       /\ SoundLog(r.events[id], r.tickets[id])
                                       /\ r.tickets[id].supersededBy = None
                                       /\ r.tickets[id].supersedes = s.tickets[id].supersedes
              /\ id \notin Dangling(s) => r.events[id] = s.events[id] /\ r.tickets[id] = s.tickets[id]
  BY Repaired
<1> HIDE DEF r
<1>3. \A id \in DOMAIN s.tickets : r.tickets[id].supersedes = s.tickets[id].supersedes
  BY <1>2
<1>4. ASSUME NEW id \in DOMAIN r.tickets
      PROVE  SoundLog(r.events[id], r.tickets[id]) /\ LinkBack(r, id) /\ LinkForth(r, id)
  <2>1. id \in DOMAIN s.tickets /\ SoundLog(s.events[id], s.tickets[id]) /\ LinkBack(s, id) /\ LinkForth(s, id)
    BY <1>1, <1>2
  <2>2. SoundLog(r.events[id], r.tickets[id])
    BY <1>2, <2>1
  <2>3. LinkBack(r, id)
    <3> DEFINE old == s.tickets[id].supersedes
    <3>1. old # None => old \in DOMAIN s.tickets /\ s.tickets[old].supersededBy = id
      BY <2>1 DEF LinkBack
    <3>2. old # None => old \notin Dangling(s)
      BY <2>1, <3>1 DEF Dangling
    <3> QED BY <1>2, <1>3, <2>1, <3>1, <3>2 DEF LinkBack
  <2>4. LinkForth(r, id)
    <3>1. CASE id \in Dangling(s)
      BY <1>2, <2>1, <3>1 DEF LinkForth
    <3>2. CASE id \notin Dangling(s)
      <4>1. s.tickets[id].supersededBy # None => s.tickets[id].supersededBy \in DOMAIN s.tickets
        BY <2>1, <3>2 DEF Dangling
      <4> QED BY <1>2, <1>3, <2>1, <3>2, <4>1 DEF LinkForth
    <3> QED BY <3>1, <3>2
  <2> QED BY <2>2, <2>3, <2>4
<1>5. Dangling(r) = {}
  <2> SUFFICES ASSUME NEW id \in Dangling(r) PROVE FALSE
    OBVIOUS
  <2>1. id \in DOMAIN s.tickets /\ r.tickets[id].supersededBy # None
        /\ r.tickets[id].supersededBy \notin DOMAIN s.tickets
    BY <1>2 DEF Dangling
  <2>2. id \notin Dangling(s)
    BY <1>2, <2>1
  <2> QED BY <1>2, <2>1, <2>2 DEF Dangling
<1>6. Keeps(s, r.events)
  <2> SUFFICES ASSUME NEW id \in DOMAIN r.events
               PROVE  /\ id \in DOMAIN s.events
                      /\ IsPrefix(r.events[id], IF id \in Dangling(s) THEN Front(s.events[id]) ELSE s.events[id])
    BY DEF Keeps
  <2>1. r.events[id] \in Seq(AuditEvent) /\ id \in DOMAIN s.events
    BY <1>1, <1>2 DEF Store
  <2>2. IsPrefix(r.events[id], r.events[id])
    BY <2>1, PrefixReflexive
  <2> QED BY <1>2, <2>1, <2>2
<1> QED BY <1>2, <1>4, <1>5, <1>6 DEF Sound, r

LEMMA RepairKeeps ==
  ASSUME NEW s, Sound(s), NEW logs, Keeps(s, logs), NEW ids, Within(s, ids)
  PROVE  Keeps(Repair(s), logs) /\ Within(Repair(s), ids)
<1> DEFINE r == Repair(s)
<1>1. /\ DOMAIN r.tickets = DOMAIN s.tickets /\ DOMAIN r.events = DOMAIN s.tickets
      /\ \A id \in DOMAIN s.tickets :
              /\ id \in Dangling(s) => r.events[id] = Front(s.events[id]) /\ r.tickets[id].supersededBy = None
              /\ id \notin Dangling(s) => r.events[id] = s.events[id] /\ r.tickets[id] = s.tickets[id]
  BY Repaired
<1>2. Dangling(r) = {} /\ DOMAIN s.events = DOMAIN s.tickets
  BY RepairSound DEF Sound, Store
<1> HIDE DEF r
<1>3. Keeps(r, logs)
  BY <1>1, <1>2 DEF Keeps
<1>4. Within(r, ids)
  BY <1>1 DEF Within
<1> QED BY <1>3, <1>4 DEF r

LEMMA RepairNothing ==
  ASSUME NEW s, Store(s), Dangling(s) = {}
  PROVE  Repair(s) = s
<1> DEFINE D == DOMAIN s.tickets
<1>1. /\ s = [ok |-> TRUE, tickets |-> s.tickets, events |-> s.events]
      /\ s.tickets \in [D -> Ticket] /\ s.events \in [D -> Seq(AuditEvent)]
  BY DEF Store
<1>2. s.ok = TRUE /\ DOMAIN s.events = D
  BY <1>1
<1>3. [id \in D |-> IF id \in Dangling(s) THEN Refold(Front(s.events[id])) ELSE s.tickets[id]] = s.tickets
  BY <1>1
<1>4. [id \in D |-> IF id \in Dangling(s) THEN Front(s.events[id]) ELSE s.events[id]] = s.events
  BY <1>1
<1> QED BY <1>1, <1>2, <1>3, <1>4 DEF Repair

LEMMA ReplayGoesOn ==
  ASSUME NEW lines \in Seq(Seq(Token)), NEW line \in Seq(Token)
  PROVE  Replaying!FoldLeft(ReplayEarlierLine, Empty, Append(lines, line))
           = ReplayEarlierLine(Replaying!FoldLeft(ReplayEarlierLine, Empty, lines), line)
BY Replaying!FoldAppend

\* A replay that fails leaves nothing in memory.
LEMMA FailedOrNot ==
  ASSUME NEW f \in Seq(Token)
  PROVE  Whole(f).ok \/ Whole(f) = Failed
<1> DEFINE Fold(lines) == Replaying!FoldLeft(ReplayEarlierLine, Empty, lines)
           Fine(s) == s.ok \/ s = Failed
           Some == {n \in Nat : \A lines \in Seq(Seq(Token)) : Len(lines) = n => Fine(Fold(lines))}
<1>1. \A s, line, last : Fine(s) => Fine(ReplayLine(s, line, last))
  <2> TAKE s, line, last
  <2>1. ASSUME NEW id, NEW e, s.ok PROVE Fine(ApplyToState(s, id, e))
    BY <2>1 DEF ApplyToState
  <2> QED BY <2>1 DEF ReplayLine
<1>2. 0 \in Some
  <2> SUFFICES ASSUME NEW lines \in Seq(Seq(Token)), Len(lines) = 0 PROVE Fine(Fold(lines))
    OBVIOUS
  <2>1. lines = <<>>
    BY EmptySeq
  <2>2. Fold(<<>>) = Empty
    BY Replaying!FoldEmpty
  <2>3. Empty.ok
    BY DEF Empty
  <2> QED BY <2>1, <2>2, <2>3
<1>3. \A n \in Nat : n \in Some => n + 1 \in Some
  <2> SUFFICES ASSUME NEW n \in Nat, n \in Some, NEW lines \in Seq(Seq(Token)), Len(lines) = n + 1
               PROVE  Fine(Fold(lines))
    OBVIOUS
  <2>1. lines # <<>> /\ Len(lines) - 1 = n
    OBVIOUS
  <2>2. /\ Front(lines) \in Seq(Seq(Token)) /\ Len(Front(lines)) = n /\ Last(lines) \in Seq(Token)
        /\ lines = Append(Front(lines), Last(lines))
    BY <2>1, FrontLast, AppendFrontLast
  <2>3. Fine(Fold(Front(lines)))
    BY <2>2
  <2>4. Fold(Append(Front(lines), Last(lines))) = ReplayEarlierLine(Fold(Front(lines)), Last(lines))
    BY <2>2, ReplayGoesOn
  <2>5. Fine(ReplayLine(Fold(Front(lines)), Last(lines), FALSE))
    <3> HIDE DEF Fine, Fold
    <3> QED BY <1>1, <2>3
  <2>6. Fold(lines) = ReplayLine(Fold(Front(lines)), Last(lines), FALSE)
    <3> HIDE DEF Fold
    <3> QED BY <2>2, <2>4 DEF ReplayEarlierLine
  <2> QED BY <2>5, <2>6
<1> HIDE DEF Some
<1>4. Nat \subseteq Some
  BY <1>2, <1>3, Replaying!SetInduction
<1>5. Lines(f) \in Seq(Seq(Token)) /\ Lines(f) # <<>>
  BY LinesType
<1>6. Front(Lines(f)) \in Seq(Seq(Token)) /\ Len(Front(Lines(f))) \in Nat
  <2>1. Front(Lines(f)) \in Seq(Seq(Token))
    BY <1>5, FrontLast
  <2> QED BY <2>1
<1>7. Fine(Body(f))
  <2>1. Len(Front(Lines(f))) \in Some
    BY <1>4, <1>6
  <2>2. Fine(Fold(Front(Lines(f))))
    <3> HIDE DEF Fine, Fold
    <3> QED BY <1>6, <2>1 DEF Some
  <2>3. Body(f) = Fold(Front(Lines(f)))
    BY BodyIs
  <2> HIDE DEF Fine, Fold
  <2> QED BY <2>2, <2>3
<1> HIDE DEF Fine
<1>8. Fine(Whole(f))
  BY <1>1, <1>7 DEF Whole
<1> QED BY <1>8 DEF Fine

LEMMA RepairOfFailed == Repair(Failed) = Failed
<1>1. Failed.ok = FALSE /\ DOMAIN Failed.tickets = {} /\ DOMAIN Failed.events = {}
      /\ Failed.tickets = [id \in {} |-> None] /\ Failed.events = [id \in {} |-> None]
  BY DEF Failed, NoTickets
<1>2. \A E : [id \in {} |-> E] = [id \in {} |-> None]
  OBVIOUS
<1> QED BY <1>1, <1>2 DEF Repair, Failed, NoTickets

-----------------------------------------------------------------------------
(* The invariant holds initially, and every action keeps it.               *)

LEMMA StoreMemory == Memory.ok /\ Memory.tickets = tickets /\ Memory.events = events
BY DEF Memory

LEMMA NothingSound ==
  /\ Empty.ok /\ Empty.tickets = NoTickets /\ Empty.events = NoTickets
  /\ DOMAIN NoTickets = {} /\ Logs(NoTickets)
  /\ Sound(Empty) /\ Dangling(Empty) = {}
  /\ \A ids : Within(Empty, ids)
  /\ \A s : Keeps(s, NoTickets)
<1>1. Empty.ok /\ Empty.tickets = NoTickets /\ Empty.events = NoTickets
  BY DEF Empty
<1>2. DOMAIN NoTickets = {} /\ \A S : NoTickets \in [{} -> S]
  BY DEF NoTickets
<1>3. Empty = [ok |-> TRUE, tickets |-> Empty.tickets, events |-> Empty.events]
  BY DEF Empty
<1> QED BY <1>1, <1>2, <1>3 DEF Logs, Sound, Store, Dangling, Within, Keeps

LEMMA InitEstablishes == Init => StoreInv
<1> SUFFICES ASSUME Init PROVE StoreInv
  OBVIOUS
<1>1. /\ file = <<>> /\ mode = "up" /\ tickets = NoTickets /\ events = NoTickets
      /\ crashes = 0 /\ errors = 0 /\ acked = NoTickets /\ tornAt = 0
  BY DEF Init
<1>2. Memory = Empty
  BY <1>1 DEF Memory, Empty
<1>3. Body(file) = Empty /\ Tip(file) = <<>> /\ Whole(file) = Empty /\ file \in Seq(Token)
  BY <1>1, FileStarts
<1>4. TypeOK
  BY <1>1, NothingSound, BoundsAssumption DEF TypeOK, Sound, Store
<1>5. FileInv
  BY <1>1, <1>3, NothingSound DEF FileInv, Sane, Logs
<1>6. MemoryInv
  BY <1>1, <1>2, <1>3, NothingSound DEF MemoryInv
<1>7. UntornInv
  BY <1>1, <1>2, <1>3, NothingSound DEF UntornInv
<1>8. FirstTearInv
  BY <1>1 DEF FirstTearInv
<1> QED BY <1>4, <1>5, <1>6, <1>7, <1>8 DEF StoreInv

LEMMA UpIsReady ==
  ASSUME StoreInv, mode = "up"
  PROVE  Ready /\ (tornAt = 0 => Clean)
BY DrawnIs DEF StoreInv, FileInv, MemoryInv, UntornInv, Ready, Clean, Fits, Logs

LEMMA CutIsSequence ==
  ASSUME NEW p \in Seq(Token), NEW cut \in Cuts(p)
  PROVE  cut \in Seq(Token)
<1>1. \A n \in 0 .. Len(p) : SubSeq(p, 1, n) \in Seq(Token)
  <2> SUFFICES ASSUME NEW n \in 0 .. Len(p) PROVE SubSeq(p, 1, n) \in Seq(Token)
    OBVIOUS
  <2>1. n \in Int /\ \A i \in 1 .. n : i \in 1 .. Len(p)
    OBVIOUS
  <2>2. \A i \in 1 .. n : p[i] \in Token
    BY <2>1, ElementOfSeq
  <2> QED BY <2>1, <2>2, SubSeqProperties
<1>2. CASE \E n \in 0 .. Len(p) : cut = SubSeq(p, 1, n)
  BY <1>1, <1>2
<1>3. CASE \E n \in 0 .. Len(p) - 1, piece \in [kind : Fragment] : cut = Append(SubSeq(p, 1, n), piece)
  <2>1. PICK n \in 0 .. Len(p) - 1, piece \in [kind : Fragment] : cut = Append(SubSeq(p, 1, n), piece)
    BY <1>3
  <2>2. SubSeq(p, 1, n) \in Seq(Token) /\ piece \in Token
    BY <1>1, FragmentToken
  <2> QED BY <2>1, <2>2, AppendProperties
<1> DEFINE Gaps == {m \in 0 .. (Len(p) - 1) : p[m + 1] # Newline}
<1>4. (\E n \in 0 .. Len(p) : cut = SubSeq(p, 1, n))
      \/ \E n \in Gaps, piece \in [kind : Fragment] : cut = Append(SubSeq(p, 1, n), piece)
  BY DEF Cuts
<1> QED BY <1>2, <1>3, <1>4

LEMMA Longer ==
  ASSUME NEW f \in Seq(Token), NEW cut \in Seq(Token)
  PROVE  /\ f \o cut \in Seq(Token) /\ Len(f \o cut) = Len(f) + Len(cut)
         /\ Len(f) \in Nat /\ Len(cut) \in Nat /\ (Len(cut) = 0 <=> cut = <<>>)
         /\ cut = <<>> => f \o cut = f
<1>1. f \o cut \in Seq(Token) /\ Len(f \o cut) = Len(f) + Len(cut)
  BY ConcatProperties
<1>2. Len(f) \in Nat /\ Len(cut) \in Nat /\ (Len(cut) = 0 <=> cut = <<>>)
  BY EmptySeq
<1>3. f \o <<>> = f
  BY ConcatEmptySeq
<1> QED BY <1>1, <1>2, <1>3

LEMMA WriteKeeps == ASSUME StoreInv, Write PROVE StoreInv'
<1> USE DEF StoreInv
<1>1. PICK w \in Writes :
        LET s == FoldLeft(ApplyEntry, Memory, w) IN
        /\ file' = file \o Payload(w)
        /\ tickets' = s.tickets /\ events' = s.events /\ acked' = s.events
  BY DEF Write, Memory
<1>2. mode = "up" /\ UNCHANGED <<mode, crashes, errors, tornAt>>
  BY DEF Write
<1> DEFINE s == FoldLeft(ApplyEntry, Memory, w)
<1>3. Ready /\ (tornAt = 0 => Clean)
  BY <1>2, UpIsReady
<1>4. Written(file', s) /\ Payload(w) \in Seq(Token) /\ Payload(w) # <<>> /\ file \in Seq(Token)
  BY <1>1, <1>3, WriteOutcome DEF FileInv
<1>5. tickets' = s.tickets /\ events' = s.events /\ acked' = s.events
  BY <1>1
<1> HIDE DEF s
<1>6. Store(s) /\ Sound(s) /\ s = Memory'
  <2>1. s = [ok |-> TRUE, tickets |-> s.tickets, events |-> s.events] /\ Store(s) /\ Sound(s)
    BY <1>4 DEF Written, Sound, Store
  <2> QED BY <1>5, <2>1 DEF Memory
<1>7. Drawn' = DrawnIn(file')
  BY DEF Drawn, DrawnIn
<1>8. Len(file') > Len(file) /\ Len(file) \in Nat /\ Len(file') \in Nat
  BY <1>1, <1>4, Longer
<1>9. TypeOK'
  <2>1. DOMAIN tickets' \subseteq TicketId /\ tickets' \in [DOMAIN tickets' -> Ticket]
        /\ events' \in [DOMAIN tickets' -> Seq(AuditEvent)]
    BY <1>5, <1>6 DEF Store
  <2> QED BY <1>2, <1>8, <2>1 DEF TypeOK
<1>10. FileInv'
  <2>1. Fits(file', acked') /\ Logs(acked')
    BY <1>4, <1>5, <1>6 DEF Written, Store, Logs
  <2> QED BY <1>7, <2>1 DEF FileInv, Fits, Logs
<1>11. MemoryInv'
  <2>1. Keeps(Memory', acked')
    <3>1. Follows(s, s, DrawnIn(file'))
      BY <1>4, FollowsItself DEF Written
    <3> QED BY <1>5, <1>6, <3>1 DEF Follows
  <2>2. Body(file').ok => Keeps(Body(file'), events')
    BY <1>4, <1>5 DEF Written, Fits, Sane
  <2>3. Sound(Memory') /\ Dangling(Memory') = {} /\ Within(Memory', Drawn')
    BY <1>4, <1>6, <1>7 DEF Written
  <2> QED BY <1>2, <2>1, <2>2, <2>3 DEF MemoryInv
<1>12. UntornInv'
  <2> SUFFICES ASSUME tornAt = 0
               PROVE  Tip(file') = <<>> /\ Body(file').ok /\ Dangling(Body(file')) = {} /\ Body(file') = Memory'
    BY <1>2 DEF UntornInv
  <2> QED BY <1>3, <1>4, <1>6 DEF Written
<1>13. FirstTearInv'
  <2>1. tornAt \in Nat /\ tornAt <= Len(file)
    BY <1>8 DEF TypeOK
  <2> QED BY <1>2, <1>8, <2>1 DEF FirstTearInv
<1> QED BY <1>9, <1>10, <1>11, <1>12, <1>13

\* What a process finds that was cut off in a write, or stopped.
LEMMA CutoffFile ==
  ASSUME NEW w \in Writes, NEW cut \in Cuts(Payload(w)), file' = file \o cut,
         StoreInv, mode = "up"
  PROVE  /\ Cutoff(file') /\ Drawn' = DrawnIn(file')
         /\ Len(file') \in Nat /\ Len(file) \in Nat /\ Len(file) <= Len(file')
         /\ Len(file') = Len(file) => file' = file
         /\ cut = <<>> => file' = file
         /\ cut # <<>> => Len(file') > 0
         /\ cut = Payload(w) /\ tornAt = 0 =>
              Tip(file') = <<>> /\ Body(file').ok /\ Dangling(Body(file')) = {}
<1>1. Ready /\ (tornAt = 0 => Clean)
  BY UpIsReady
<1>2. /\ Cutoff(file \o cut) /\ Payload(w) \in Seq(Token)
      /\ Written(file \o Payload(w), FoldLeft(ApplyEntry, Memory, w))
  BY <1>1, WriteOutcome
<1>3. file \in Seq(Token) /\ cut \in Seq(Token)
  BY <1>1, <1>2, CutIsSequence DEF Ready, Fits
<1>4. /\ Len(file \o cut) = Len(file) + Len(cut) /\ Len(file) \in Nat /\ Len(cut) \in Nat
      /\ (Len(cut) = 0 <=> cut = <<>>) /\ (cut = <<>> => file \o cut = file)
  BY <1>3, Longer
<1>5. Drawn' = DrawnIn(file')
  BY DEF Drawn, DrawnIn
<1>6. ASSUME cut = Payload(w), tornAt = 0
      PROVE  Tip(file') = <<>> /\ Body(file').ok /\ Dangling(Body(file')) = {}
  BY <1>1, <1>2, <1>6 DEF Written
<1> QED BY <1>2, <1>4, <1>5, <1>6

LEMMA FileAfterCutoff ==
  ASSUME StoreInv, Cutoff(file'), Drawn' = DrawnIn(file'), acked' = acked
  PROVE  FileInv'
<1>1. Logs(acked)
  BY DEF StoreInv, FileInv, Logs
<1> QED BY <1>1 DEF FileInv, Cutoff, Fits, Logs

\* The log is only read again where nothing was added to it.
LEMMA TearsStay ==
  ASSUME StoreInv, Cutoff(file'), tornAt' # 0,
         tornAt = 0 => Clean, tornAt # 0 => tornAt' = tornAt,
         Len(file') \in Nat, Len(file) \in Nat, Len(file) <= Len(file'),
         Len(file') = Len(file) => file' = file,
         "cutCharacter" \notin Fragment, Len(file') = tornAt'
  PROVE  Whole(file').ok
<1>1. CASE tornAt = 0
  BY <1>1 DEF Cutoff
<1>2. CASE tornAt # 0
  <2>1. tornAt \in Nat /\ tornAt <= Len(file)
    BY DEF StoreInv, TypeOK
  <2>2. Len(file) = tornAt /\ file' = file
    BY <1>2, <2>1
  <2> QED BY <1>2, <2>2 DEF StoreInv, FirstTearInv
<1> QED BY <1>1, <1>2

LEMMA CrashInWriteKeeps == ASSUME StoreInv, CrashInWrite PROVE StoreInv'
<1>0. PICK w \in Writes : \E cut \in Cuts(Payload(w)) :
        /\ file' = file \o cut
        /\ tornAt' = IF cut \in {<<>>, Payload(w)} \/ tornAt # 0 THEN tornAt ELSE Len(file')
  BY DEF CrashInWrite, TornWrite
<1>1. PICK cut \in Cuts(Payload(w)) :
        /\ file' = file \o cut
        /\ tornAt' = IF cut \in {<<>>, Payload(w)} \/ tornAt # 0 THEN tornAt ELSE Len(file')
  BY <1>0
<1>2. /\ mode = "up" /\ crashes < MaxCrashes /\ mode' = "down"
      /\ tickets' = NoTickets /\ events' = NoTickets
      /\ crashes' = crashes + 1 /\ errors' = errors /\ acked' = acked
  BY DEF CrashInWrite
<1>3. Ready /\ (tornAt = 0 => Clean)
  BY <1>2, UpIsReady
<1>4. /\ Cutoff(file') /\ Drawn' = DrawnIn(file')
      /\ Len(file') \in Nat /\ Len(file) \in Nat /\ Len(file) <= Len(file')
      /\ Len(file') = Len(file) => file' = file
      /\ cut = <<>> => file' = file
      /\ cut # <<>> => Len(file') > 0
      /\ cut = Payload(w) /\ tornAt = 0 =>
           Tip(file') = <<>> /\ Body(file').ok /\ Dangling(Body(file')) = {}
  BY <1>1, <1>2, CutoffFile
<1>5. TypeOK /\ UntornInv
  BY DEF StoreInv
<1>6. TypeOK'
  <2>1. DOMAIN tickets' \subseteq TicketId /\ tickets' \in [DOMAIN tickets' -> Ticket]
        /\ events' \in [DOMAIN tickets' -> Seq(AuditEvent)]
    BY <1>2, NothingSound DEF Sound, Store
  <2>2. tornAt' \in 0 .. Len(file')
    BY <1>1, <1>4, <1>5 DEF TypeOK
  <2> QED BY <1>2, <1>5, <2>1, <2>2, BoundsAssumption DEF TypeOK
<1>7. FileInv'
  BY <1>2, <1>4, FileAfterCutoff
<1>8. MemoryInv'
  BY <1>2 DEF MemoryInv
<1>9. UntornInv'
  <2> SUFFICES ASSUME tornAt' = 0
               PROVE  Tip(file') = <<>> /\ Body(file').ok /\ Dangling(Body(file')) = {}
    BY <1>2 DEF UntornInv
  <2>1. tornAt = 0 /\ cut \in {<<>>, Payload(w)}
    BY <1>1, <1>4
  <2>2. CASE cut = <<>>
    BY <1>4, <1>5, <2>1, <2>2 DEF UntornInv
  <2>3. CASE cut = Payload(w)
    BY <1>4, <2>1, <2>3
  <2> QED BY <2>1, <2>2, <2>3
<1>10. FirstTearInv'
  <2> SUFFICES ASSUME "cutCharacter" \notin Fragment, tornAt' # 0, Len(file') = tornAt'
               PROVE  Whole(file').ok
    BY <1>2 DEF FirstTearInv
  <2>1. tornAt # 0 => tornAt' = tornAt
    BY <1>1
  <2> QED BY <1>3, <1>4, <2>1, TearsStay
<1> QED BY <1>6, <1>7, <1>8, <1>9, <1>10 DEF StoreInv

LEMMA WriteErrorKeeps == ASSUME StoreInv, WriteError PROVE StoreInv'
<1>0. PICK w \in Writes : \E cut \in Cuts(Payload(w)) \ {<<>>} : file' = file \o cut
  BY DEF WriteError
<1>1. PICK cut \in Cuts(Payload(w)) \ {<<>>} : file' = file \o cut
  BY <1>0
<1>2. /\ mode = "up" /\ errors < MaxErrors /\ errors' = errors + 1
      /\ tornAt' = IF tornAt # 0 THEN tornAt ELSE Len(file')
      /\ UNCHANGED <<mode, tickets, events, crashes, acked>>
  BY DEF WriteError
<1>3. Ready /\ (tornAt = 0 => Clean)
  BY <1>2, UpIsReady
<1>4. /\ Cutoff(file') /\ Drawn' = DrawnIn(file')
      /\ Len(file') \in Nat /\ Len(file) \in Nat /\ Len(file) <= Len(file')
      /\ Len(file') = Len(file) => file' = file
      /\ Len(file') > 0
  BY <1>1, <1>2, CutoffFile
<1>5. TypeOK
  BY DEF StoreInv
<1>6. TypeOK' /\ tornAt' # 0
  <2>1. tornAt' \in 0 .. Len(file') /\ tornAt' # 0
    BY <1>2, <1>4, <1>5 DEF TypeOK
  <2> QED BY <1>2, <1>5, <2>1, BoundsAssumption DEF TypeOK
<1>7. FileInv'
  BY <1>2, <1>4, FileAfterCutoff
<1>8. MemoryInv'
  <2>1. Memory' = Memory
    BY <1>2 DEF Memory
  <2>2. Within(Memory, Drawn')
    BY <1>3, <1>4, WithinMore DEF Ready, Cutoff
  <2> QED BY <1>2, <1>3, <1>4, <2>1, <2>2 DEF MemoryInv, Ready, Cutoff
<1>9. UntornInv'
  BY <1>6 DEF UntornInv
<1>10. FirstTearInv'
  <2> SUFFICES ASSUME "cutCharacter" \notin Fragment, Len(file') = tornAt'
               PROVE  Whole(file').ok
    BY <1>2 DEF FirstTearInv
  <2>1. tornAt # 0 => tornAt' = tornAt
    BY <1>2
  <2> QED BY <1>3, <1>4, <1>6, <2>1, TearsStay
<1> QED BY <1>6, <1>7, <1>8, <1>9, <1>10 DEF StoreInv

LEMMA RestartKeeps == ASSUME StoreInv, Restart PROVE StoreInv'
<1>1. /\ mode = "up" /\ crashes < MaxCrashes /\ mode' = "down"
      /\ tickets' = NoTickets /\ events' = NoTickets /\ crashes' = crashes + 1
      /\ UNCHANGED <<file, errors, acked, tornAt>>
  BY DEF Restart
<1>2. Drawn' = Drawn
  BY <1>1 DEF Drawn
<1>3. TypeOK'
  <2>1. DOMAIN tickets' \subseteq TicketId /\ tickets' \in [DOMAIN tickets' -> Ticket]
        /\ events' \in [DOMAIN tickets' -> Seq(AuditEvent)]
    BY <1>1, NothingSound DEF Sound, Store
  <2> QED BY <1>1, <2>1, BoundsAssumption DEF StoreInv, TypeOK
<1>4. FileInv'
  BY <1>1, <1>2 DEF StoreInv, FileInv
<1>5. MemoryInv'
  BY <1>1 DEF MemoryInv
<1>6. UntornInv'
  BY <1>1 DEF StoreInv, UntornInv
<1>7. FirstTearInv'
  BY <1>1 DEF StoreInv, FirstTearInv
<1> QED BY <1>3, <1>4, <1>5, <1>6, <1>7 DEF StoreInv

LEMMA BootKeeps == ASSUME StoreInv, Boot PROVE StoreInv'
<1> DEFINE s == Whole(file)
           r == Repair(s)
<1>1. /\ mode = "down" /\ mode' = (IF r.ok THEN "up" ELSE "aborted")
      /\ tickets' = r.tickets /\ events' = r.events
      /\ UNCHANGED <<file, crashes, errors, acked, tornAt>>
  BY ReplayIs DEF Boot
<1>2. file \in Seq(Token) /\ Sane(s, acked, Drawn) /\ Drawn' = Drawn
  BY <1>1 DEF StoreInv, FileInv, Drawn
<1>3. TypeOK /\ FileInv /\ UntornInv /\ FirstTearInv
  BY DEF StoreInv
<1>4. FileInv'
  BY <1>1, <1>2, <1>3 DEF FileInv
<1>5. Tip(file) = <<>> => s = Body(file)
  BY DEF Whole, ReplayLine
<1>6. tornAt = 0 => s.ok /\ s = Body(file) /\ Dangling(s) = {}
  BY <1>3, <1>5 DEF UntornInv
<1>7. CASE s.ok
  <2>1. Sound(s) /\ Keeps(s, acked) /\ Within(s, Drawn)
    BY <1>2, <1>7 DEF Sane
  <2>2. Sound(r) /\ Dangling(r) = {} /\ Keeps(s, r.events) /\ Keeps(r, acked) /\ Within(r, Drawn)
    BY <2>1, RepairSound, RepairKeeps
  <2>3. Dangling(s) = {} => r = s
    BY <2>1, RepairNothing DEF Sound
  <2>4. r = Memory' /\ r.ok
    <3> HIDE DEF r
    <3>1. r = [ok |-> TRUE, tickets |-> r.tickets, events |-> r.events]
      BY <2>2 DEF Sound, Store
    <3>2. r.ok
      BY <3>1
    <3> QED BY <1>1, <3>1, <3>2 DEF Memory
  <2>5. mode' = "up"
    BY <1>1, <2>4
  <2> HIDE DEF r
  <2>6. TypeOK'
    <3>1. DOMAIN tickets' \subseteq TicketId /\ tickets' \in [DOMAIN tickets' -> Ticket]
          /\ events' \in [DOMAIN tickets' -> Seq(AuditEvent)]
      BY <1>1, <2>2 DEF Sound, Store
    <3> QED BY <1>1, <1>3, <2>5, <3>1 DEF TypeOK
  <2>7. MemoryInv'
    <3>1. Tip(file) = <<>> => Keeps(Body(file), events')
      BY <1>1, <1>5, <2>2
    <3> QED BY <1>1, <1>2, <2>2, <2>4, <2>5, <3>1 DEF MemoryInv
  <2>8. UntornInv'
    <3> HIDE DEF s
    <3> QED BY <1>1, <1>3, <1>6, <2>3, <2>4, <2>5 DEF UntornInv
  <2>9. FirstTearInv'
    BY <1>1, <1>3, <2>5 DEF FirstTearInv
  <2> QED BY <1>4, <2>6, <2>7, <2>8, <2>9 DEF StoreInv
<1>8. CASE ~s.ok
  <2>1. s = Failed /\ r = Failed
    BY <1>2, <1>8, FailedOrNot, RepairOfFailed
  <2>2. mode' = "aborted" /\ tickets' = NoTickets /\ events' = NoTickets
    BY <1>1, <2>1 DEF Failed
  <2>3. TypeOK'
    <3>1. DOMAIN tickets' \subseteq TicketId /\ tickets' \in [DOMAIN tickets' -> Ticket]
          /\ events' \in [DOMAIN tickets' -> Seq(AuditEvent)]
      BY <2>2, NothingSound DEF Sound, Store
    <3> QED BY <1>1, <1>3, <2>2, <3>1 DEF TypeOK
  <2>4. MemoryInv'
    BY <2>2 DEF MemoryInv
  <2>5. tornAt # 0
    BY <1>6, <1>8
  <2>6. UntornInv'
    BY <1>1, <2>5 DEF UntornInv
  <2>7. FirstTearInv'
    <3>1. "cutCharacter" \notin Fragment => Len(file) # tornAt
      BY <1>3, <1>8, <2>5 DEF FirstTearInv
    <3>2. tornAt \in 0 .. Len(file) /\ Len(file) \in Nat
      BY <1>2, <1>3 DEF TypeOK
    <3> QED BY <1>1, <2>5, <3>1, <3>2 DEF FirstTearInv
  <2> QED BY <1>4, <2>3, <2>4, <2>6, <2>7 DEF StoreInv
<1> QED BY <1>7, <1>8

LEMMA InvariantIsInductive == StoreInv /\ [Next]_vars => StoreInv'
<1> SUFFICES ASSUME StoreInv, [Next]_vars PROVE StoreInv'
  OBVIOUS
<1>1. CASE Write
  BY <1>1, WriteKeeps
<1>2. CASE CrashInWrite
  BY <1>2, CrashInWriteKeeps
<1>3. CASE WriteError
  BY <1>3, WriteErrorKeeps
<1>4. CASE Restart
  BY <1>4, RestartKeeps
<1>5. CASE Boot
  BY <1>5, BootKeeps
<1>6. CASE UNCHANGED vars
  <2>1. UNCHANGED <<file, mode, tickets, events, crashes, errors, acked, tornAt>>
    BY <1>6 DEF vars
  <2>2. Memory' = Memory /\ Drawn' = Drawn
    BY <2>1 DEF Memory, Drawn
  <2>3. TypeOK'
    BY <2>1 DEF StoreInv, TypeOK
  <2>4. FileInv'
    BY <2>1, <2>2 DEF StoreInv, FileInv
  <2>5. MemoryInv'
    BY <2>1, <2>2 DEF StoreInv, MemoryInv
  <2>6. UntornInv'
    BY <2>1, <2>2 DEF StoreInv, UntornInv
  <2>7. FirstTearInv'
    BY <2>1 DEF StoreInv, FirstTearInv
  <2> QED BY <2>3, <2>4, <2>5, <2>6, <2>7 DEF StoreInv
<1> QED BY <1>1, <1>2, <1>3, <1>4, <1>5, <1>6 DEF Next

\* The file, the memory and what the next boot would make of the file agree, through
\* every write, cut-off write, failed write, stop and boot of repo/jsonl_store.py.
THEOREM StoreIsSound == Spec => []StoreInv
BY InitEstablishes, InvariantIsInductive, PTL DEF Spec

\* The memory of the store stays typed (repo/jsonl_store.py, all of it).
THEOREM TypeCorrect == Spec => []TypeOK
<1>1. StoreInv => TypeOK
  BY DEF StoreInv
<1> QED BY <1>1, StoreIsSound, PTL

\* What create_ticket, append_event or transact_supersede returned to its caller is in
\* the memory of every process that comes up, at the same place of the same log: the
\* fsync and the replay lose nothing, however often a write is cut off or fails.
THEOREM AckedIsKept == Spec => []NothingAckedIsLost
<1>1. StoreInv => NothingAckedIsLost
  <2> SUFFICES ASSUME StoreInv, mode = "up", NEW id \in DOMAIN acked
               PROVE  id \in DOMAIN events /\ IsPrefix(acked[id], events[id])
    BY DEF NothingAckedIsLost
  <2>1. Keeps(Memory, acked) /\ Dangling(Memory) = {}
    BY DEF StoreInv, MemoryInv
  <2> QED BY <2>1, StoreMemory DEF Keeps
<1> QED BY <1>1, StoreIsSound, PTL

\* No process ever serves half a supersede: transact_supersede writes both lines at
\* once, and _repair_partial_supersede takes back a link whose successor was cut off.
THEOREM SupersedesAreWhole == Spec => []SupersedeIsWhole
<1>1. StoreInv => SupersedeIsWhole
  <2> SUFFICES ASSUME StoreInv, NEW id \in DOMAIN tickets
               PROVE  LET t == tickets[id] IN
                      /\ t.supersededBy # None =>
                           t.supersededBy \in DOMAIN tickets /\ tickets[t.supersededBy].supersedes = id
                      /\ t.supersedes # None =>
                           t.supersedes \in DOMAIN tickets /\ tickets[t.supersedes].supersededBy = id
    BY DEF SupersedeIsWhole
  <2>1. mode = "up"
    BY NothingSound DEF StoreInv, MemoryInv
  <2>2. Sound(Memory) /\ Dangling(Memory) = {}
    BY <2>1 DEF StoreInv, MemoryInv
  <2>3. LinkBack(Memory, id) /\ LinkForth(Memory, id)
    BY <2>2, StoreMemory DEF Sound
  <2> QED BY <2>2, <2>3, StoreMemory DEF LinkBack, LinkForth, Dangling
<1> QED BY <1>1, StoreIsSound, PTL

\* As long as no write was cut off, stopping the process and starting the next one
\* gives back exactly the tickets and the logs there were: _replay undoes nothing.
THEOREM RestartsAreInvisible == Spec => []RestartIsInvisible
<1>1. StoreInv => RestartIsInvisible
  <2> SUFFICES ASSUME StoreInv, mode = "up", tornAt = 0
               PROVE  LET s == Replay(file) IN s.ok /\ s.tickets = tickets /\ s.events = events
    BY DEF RestartIsInvisible
  <2>1. Tip(file) = <<>> /\ Body(file) = Memory
    BY DEF StoreInv, UntornInv
  <2>2. Whole(file) = Memory
    BY <2>1 DEF Whole, ReplayLine
  <2>3. Store(Memory) /\ Dangling(Memory) = {}
    BY DEF StoreInv, MemoryInv, Sound
  <2>4. Replay(file) = Memory
    BY <2>2, <2>3, ReplayIs, RepairNothing
  <2> QED BY <2>4, StoreMemory
<1> QED BY <1>1, StoreIsSound, PTL

\* A boot fails only when something was added behind the line that a crash or a full
\* disk cut off, as long as no cut falls inside a character: the tolerance for a torn
\* final line in _replay is enough for the first boot after a crash.
THEOREM FirstBootsRecover ==
  ASSUME "cutCharacter" \notin Fragment
  PROVE  Spec => []FirstBootRecovers
<1>1. StoreInv => FirstBootRecovers
  BY DEF StoreInv, UntornInv, FirstTearInv, FirstBootRecovers
<1> QED BY <1>1, StoreIsSound, PTL
=============================================================================
