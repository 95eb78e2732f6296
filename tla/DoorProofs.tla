----------------------------- MODULE DoorProofs -----------------------------
(***************************************************************************)
(* The ways into the gate.  An envelope is accepted once at most, and none *)
(* is refused for that of another second or, with a nonce, of another      *)
(* call, for all windows and lifetimes that fit together, any signers,     *)
(* clients, requests and restarts; the limiter lets through as many as it  *)
(* may; who may vote and how often a link counts, for any proposals and    *)
(* people and any order of configurations; what the gate's caches remember *)
(* of others is no older than they take it to be, with any lifetimes and   *)
(* any latency of who is asked; and a stored call is acceptable, tagged    *)
(* and its proposal's only one, for any operations, calls and tags.        *)
(***************************************************************************)
EXTENDS AgentDoor, ReportPace, HumanDoor, TokenVerifier, Discovery, TicketParameters,
        FiniteSetTheorems, SequenceTheorems, WellFoundedInduction, TLAPS

-----------------------------------------------------------------------------
(* The envelopes of the agents.                                            *)

\* What SingleUse does not say: the parts of the state it depends on.
Types ==
  /\ now \in Nat
  /\ signed \subseteq [id : CallId, envelope : Envelope]
  /\ seen \in [DOMAIN seen -> Nat]
  /\ waiting \in [Request -> Envelope \cup {None}]
  /\ accepted \subseteq Envelope

\* The envelope is at STS, or has been accepted.
Spent(e) == e \in accepted \/ \E r \in Request : waiting[r] = e

\* The envelope cannot come through again: it is out of date, or its signature
\* is remembered until it will be.
Blocked(e) ==
  \/ now > e.stamp + Window
  \/ Signature(e) \in DOMAIN seen /\ seen[Signature(e)] > e.stamp + Window

\* No signer's clock is further ahead than assumed.
DatesAreNear == \A c \in signed : c.envelope.stamp <= now + Ahead

SpentAreBlocked == \A e \in Envelope : Spent(e) => Blocked(e)

\* No envelope waits twice, or waits again after it has been accepted.
WaitingAreFresh ==
  /\ \A r, q \in Request : waiting[r] # None /\ waiting[r] = waiting[q] => r = q
  /\ \A r \in Request : waiting[r] # None => waiting[r] \notin accepted

DoorInv ==
  /\ Types
  /\ DatesAreNear
  /\ SpentAreBlocked
  /\ WaitingAreFresh
  /\ SingleUse

LEMMA ConstantsAreNat ==
  Window \in Nat /\ Ttl \in Nat /\ Ahead \in Nat /\ Behind \in Nat /\ MaxClock \in Nat
BY DoorAssumption

LEMMA StampIsInt == \A e \in Envelope : e.stamp \in Int
BY ConstantsAreNat DEF Envelope

LEMMA SignaturesDiffer ==
  ASSUME NEW e \in Envelope, NEW f \in Envelope, Signature(e) = Signature(f)
  PROVE  e = f
BY DEF Envelope, Signature

LEMMA DoorInit == Init => DoorInv
<1> SUFFICES ASSUME Init PROVE DoorInv
  OBVIOUS
<1>1. accepted = {} /\ again = {}
  BY DEF Init, Booted
<1>2. \A r \in Request : waiting[r] = None
  BY DEF Init, Booted
<1>3. Types
  <2>1. now \in Nat /\ signed \subseteq [id : CallId, envelope : Envelope]
    BY DEF Init
  <2>2. seen \in [DOMAIN seen -> Nat]
    BY DEF Init, Booted
  <2>3. waiting \in [Request -> Envelope \cup {None}]
    BY DEF Init, Booted
  <2>4. accepted \subseteq Envelope
    BY <1>1
  <2> QED BY <2>1, <2>2, <2>3, <2>4 DEF Types
<1>4. DatesAreNear /\ SpentAreBlocked
  BY <1>1, <1>2, NoneAssumption DEF Init, DatesAreNear, SpentAreBlocked, Spent
<1>5. SingleUse
  BY <1>1 DEF SingleUse
<1>6. WaitingAreFresh
  BY <1>2 DEF WaitingAreFresh
<1> QED BY <1>3, <1>4, <1>5, <1>6 DEF DoorInv

\* A step that changes none of the variables DoorInv reads.
LEMMA UnseenStep ==
  ASSUME DoorInv, UNCHANGED <<now, signed, seen, waiting, accepted, again>>
  PROVE  DoorInv'
<1> USE DEF DoorInv
<1>1. Types' BY DEF Types
<1>2. DatesAreNear' BY DEF DatesAreNear
<1>3. SpentAreBlocked' BY DEF SpentAreBlocked, Spent, Blocked
<1>5. WaitingAreFresh' BY DEF WaitingAreFresh
<1>6. SingleUse' BY DEF SingleUse
<1> QED BY <1>1, <1>2, <1>3, <1>5, <1>6

\* The call that Sign adds.
LEMMA SignedIs ==
  ASSUME DoorInv, NEW s \in Signer, NEW g \in GateId, Sign(s, g), now \in 0 .. MaxClock
  PROVE  \E id \in CallId, e \in Envelope :
           /\ signed' = signed \cup {[id |-> id, envelope |-> e]}
           /\ e.signer = s /\ e.stamp <= now + Ahead
           /\ s \in Drawing => e.nonce = id
           /\ s \notin Drawing => e.nonce = NoNonce
           /\ \A c \in signed : c.id # id
<1> PICK stamp \in (now - Behind) .. (now + Ahead), id \in CallId \ {c.id : c \in signed} :
      signed' = signed \cup
        {[id |-> id, envelope |-> [signer |-> s, gate |-> g, stamp |-> stamp,
                                   nonce |-> IF s \in Drawing THEN id ELSE NoNonce]]}
  BY DEF Sign
<1> DEFINE e == [signer |-> s, gate |-> g, stamp |-> stamp,
                 nonce |-> IF s \in Drawing THEN id ELSE NoNonce]
<1>1. stamp \in (-Behind) .. (MaxClock + Ahead) /\ stamp <= now + Ahead
  BY ConstantsAreNat
<1>2. e \in Envelope
  BY <1>1 DEF Envelope
<1>3. /\ e.signer = s /\ e.stamp <= now + Ahead
      /\ s \in Drawing => e.nonce = id
      /\ s \notin Drawing => e.nonce = NoNonce
  BY <1>1
<1>4. \A c \in signed : c.id # id
  OBVIOUS
<1> HIDE DEF e
<1>5. signed' = signed \cup {[id |-> id, envelope |-> e]}
  BY DEF e
<1> QED BY <1>2, <1>3, <1>4, <1>5

LEMMA SignKeeps ==
  ASSUME DoorInv, NEW s \in Signer, NEW g \in GateId, Sign(s, g), now \in 0 .. MaxClock
  PROVE  DoorInv'
<1> USE DEF DoorInv
<1>1. PICK id \in CallId, e \in Envelope :
        signed' = signed \cup {[id |-> id, envelope |-> e]} /\ e.stamp <= now + Ahead
  BY SignedIs
<1>2. UNCHANGED <<now, seen, waiting, accepted, again>>
  BY DEF Sign
<1>3. Types'
  BY <1>1, <1>2 DEF Types
<1>4. DatesAreNear'
  BY <1>1, <1>2 DEF DatesAreNear
<1>5. SpentAreBlocked'
  BY <1>2 DEF SpentAreBlocked, Spent, Blocked
<1>6. WaitingAreFresh' /\ SingleUse'
  BY <1>2 DEF WaitingAreFresh, SingleUse
<1> QED BY <1>3, <1>4, <1>5, <1>6

\* What is forgotten by Unexpired did not matter any more.
LEMMA PruningKeepsBlocked ==
  ASSUME Types, NEW e \in Envelope, Blocked(e)
  PROVE  \/ now > e.stamp + Window
         \/ /\ Signature(e) \in DOMAIN Unexpired
            /\ Unexpired[Signature(e)] > e.stamp + Window
<1>1. CASE now > e.stamp + Window
  BY <1>1
<1>2. CASE /\ now <= e.stamp + Window
           /\ Signature(e) \in DOMAIN seen
           /\ seen[Signature(e)] > e.stamp + Window
  <2>1. seen[Signature(e)] > now
    BY <1>2, StampIsInt, ConstantsAreNat DEF Types
  <2> QED BY <1>2, <2>1 DEF Unexpired
<1> QED BY <1>1, <1>2, StampIsInt, ConstantsAreNat DEF Blocked, Types

LEMMA ReplayKeeps ==
  ASSUME DoorInv, seen' = Unexpired, UNCHANGED <<now, signed, waiting, accepted, again>>
  PROVE  DoorInv'
<1> USE DEF DoorInv
<1>1. Types'
  BY DEF Types, Unexpired
<1>2. SpentAreBlocked'
  <2> SUFFICES ASSUME NEW e \in Envelope, Spent(e)' PROVE Blocked(e)'
    BY DEF SpentAreBlocked
  <2>1. Spent(e)
    BY DEF Spent
  <2>2. Blocked(e)
    BY <2>1 DEF SpentAreBlocked
  <2> QED BY <2>1, <2>2, PruningKeepsBlocked DEF Blocked
<1>3. DatesAreNear' /\ WaitingAreFresh' /\ SingleUse'
  BY DEF DatesAreNear, WaitingAreFresh, SingleUse
<1> QED BY <1>1, <1>2, <1>3

LEMMA ForwardKeeps ==
  ASSUME DoorInv, NEW r \in Request, NEW c \in Client, NEW call \in signed,
         Forward(r, c, call)
  PROVE  DoorInv'
<1> USE DEF DoorInv
<1> PICK e \in Envelope : e = call.envelope
  BY DEF Types
<1>1. /\ waiting[r] = None /\ Plausible(e) /\ Signature(e) \notin DOMAIN Unexpired
      /\ seen' = Remember(Signature(e)) /\ waiting' = [waiting EXCEPT ![r] = e]
      /\ UNCHANGED <<now, signed, accepted, again>>
  BY DEF Forward, Admit
<1>2. e # None /\ e.stamp \in Int /\ e.stamp <= now + Ahead /\ now \in Nat
  BY StampIsInt, NoneAssumption DEF Types, DatesAreNear
<1>3. now <= e.stamp + Window
  BY <1>1, <1>2, ConstantsAreNat DEF Plausible, Abs
<1>4. ~ Spent(e)
  <2> SUFFICES ASSUME Spent(e) PROVE FALSE
    OBVIOUS
  <2>1. Signature(e) \in DOMAIN seen /\ seen[Signature(e)] > e.stamp + Window
    BY <1>2, <1>3, ConstantsAreNat DEF SpentAreBlocked, Blocked
  <2>2. seen[Signature(e)] > now
    BY <1>2, <1>3, <2>1, ConstantsAreNat DEF Types
  <2> QED BY <1>1, <2>1, <2>2 DEF Unexpired
<1>5. e \notin accepted
  BY <1>2, <1>4 DEF Spent, Types
<1>6. \A q \in Request : waiting[q] # e
  BY <1>4 DEF Spent
<1>7. Types'
  BY <1>1, <1>2, ConstantsAreNat DEF Types, Remember, Unexpired
<1>8. SpentAreBlocked'
  <2> SUFFICES ASSUME NEW d \in Envelope, Spent(d)' PROVE Blocked(d)'
    BY DEF SpentAreBlocked
  <2>1. d.stamp \in Int
    BY StampIsInt
  <2>2. CASE Signature(d) = Signature(e)
    <3>0. d = e
      BY <2>2, SignaturesDiffer
    <3>1. Signature(d) \in DOMAIN seen' /\ seen'[Signature(d)] = now + Ttl
      BY <1>1, <2>2 DEF Remember
    <3>2. now + Ttl > d.stamp + Window
      BY <1>2, <3>0, ConstantsAreNat, ClocksAssumption
    <3> QED BY <3>1, <3>2 DEF Blocked
  <2>3. CASE Signature(d) # Signature(e)
    <3>1. d # e
      BY <2>3
    <3>2. Spent(d)
      BY <1>1, <3>1 DEF Spent, Types
    <3>3. Blocked(d)
      BY <3>2 DEF SpentAreBlocked
    <3>4. \/ now > d.stamp + Window
          \/ /\ Signature(d) \in DOMAIN Unexpired
             /\ Unexpired[Signature(d)] > d.stamp + Window
      BY <2>1, <3>3, PruningKeepsBlocked
    <3>5. Signature(d) \in DOMAIN Unexpired =>
            /\ Signature(d) \in DOMAIN seen'
            /\ seen'[Signature(d)] = Unexpired[Signature(d)]
      BY <1>1, <2>3 DEF Remember, Unexpired
    <3> QED BY <1>1, <3>4, <3>5 DEF Blocked
  <2> QED BY <2>2, <2>3
<1>9. WaitingAreFresh'
  BY <1>1, <1>2, <1>5, <1>6 DEF WaitingAreFresh, Types
<1>10. DatesAreNear' /\ SingleUse'
  BY <1>1 DEF DatesAreNear, SingleUse
<1> QED BY <1>7, <1>8, <1>9, <1>10

LEMMA AnswerKeeps ==
  ASSUME DoorInv, NEW r \in Request, StsAnswers(r) \/ StsRefuses(r)
  PROVE  DoorInv'
<1> USE DEF DoorInv
<1> DEFINE e == waiting[r]
<1>1. /\ e # None /\ e \in Envelope
      /\ waiting' = [waiting EXCEPT ![r] = None]
      /\ accepted' = accepted \/ accepted' = accepted \cup {e}
      /\ again' = again \/ again' = again \cup ({e} \cap accepted)
      /\ UNCHANGED <<now, signed, seen>>
  BY DEF StsAnswers, StsRefuses, Types
<1>2. e \notin accepted
  BY <1>1 DEF WaitingAreFresh
<1>3. \A d \in Envelope \ {e} : d \in accepted' <=> d \in accepted
  BY <1>1
<1>5. Types'
  BY <1>1 DEF Types
<1>6. SpentAreBlocked'
  <2> SUFFICES ASSUME NEW d \in Envelope, Spent(d)' PROVE Blocked(d)'
    BY DEF SpentAreBlocked
  <2>1. Spent(d)
    <3>1. CASE d = e
      BY <3>1 DEF Spent
    <3>2. CASE d # e
      BY <1>1, <1>3, <3>2, NoneAssumption DEF Spent, Types
    <3> QED BY <3>1, <3>2
  <2> QED BY <1>1, <2>1 DEF SpentAreBlocked, Blocked
<1>8. WaitingAreFresh'
  BY <1>1, <1>3 DEF WaitingAreFresh, Types
<1>9. SingleUse'
  BY <1>1, <1>2 DEF SingleUse
<1>10. DatesAreNear'
  BY <1>1 DEF DatesAreNear
<1> QED BY <1>5, <1>6, <1>8, <1>9, <1>10

LEMMA DoorRestartKeeps ==
  ASSUME DoorInv, Restart
  PROVE  DoorInv'
<1> USE DEF DoorInv
<1>1. accepted' = {} /\ again' = {}
  BY DEF Restart
<1>2. \A r \in Request : waiting'[r] = None
  BY DEF Restart
<1>3. Types'
  BY DEF Restart, Types
<1>4. SpentAreBlocked'
  <2> SUFFICES ASSUME NEW e \in Envelope PROVE ~ Spent(e)'
    BY DEF SpentAreBlocked
  <2> QED BY <1>1, <1>2, NoneAssumption DEF Spent
<1>5. SingleUse'
  BY <1>1 DEF SingleUse
<1>6. WaitingAreFresh'
  BY <1>2 DEF WaitingAreFresh
<1>7. DatesAreNear'
  BY DEF Restart, DatesAreNear
<1> QED BY <1>3, <1>4, <1>5, <1>6, <1>7

LEMMA TickKeeps ==
  ASSUME DoorInv, Tick
  PROVE  DoorInv'
<1> USE DEF DoorInv
<1>1. now' = now + 1 /\ now \in Nat /\ UNCHANGED <<signed, seen, waiting, accepted, again>>
  BY DEF Tick, Types
<1>2. \A e \in Envelope : e.stamp \in Int
  BY StampIsInt
<1>3. Types'
  BY <1>1 DEF Types
<1>4. DatesAreNear'
  BY <1>1, <1>2, ConstantsAreNat DEF DatesAreNear, Types
<1>5. SpentAreBlocked'
  BY <1>1, <1>2, ConstantsAreNat DEF SpentAreBlocked, Spent, Blocked
<1>6. WaitingAreFresh' /\ SingleUse'
  BY <1>1 DEF WaitingAreFresh, SingleUse
<1> QED BY <1>3, <1>4, <1>5, <1>6

\* The clock stays below its bound, which Sign needs for the dates it writes.
ClockInv == now \in 0 .. MaxClock /\ DoorInv

LEMMA DoorStep == ClockInv /\ [Next]_vars => ClockInv'
<1> SUFFICES ASSUME ClockInv, [Next]_vars PROVE ClockInv'
  OBVIOUS
<1>1. (now \in 0 .. MaxClock)'
  BY ConstantsAreNat DEF ClockInv, Next, vars, Sign, RateLimit, ByLink, Present, Refuse,
     RefuseReplay, Forward, Admit, StsAnswers, StsRefuses, Restart, Tick
<1>2. DoorInv'
  <2> USE DEF ClockInv
  <2>1. ASSUME NEW s \in Signer, NEW g \in GateId, Sign(s, g) PROVE DoorInv'
    BY <2>1, SignKeeps
  <2>2. ASSUME NEW c \in Client, RateLimit(c) PROVE DoorInv'
    BY <2>2, UnseenStep DEF RateLimit
  <2>3. ASSUME NEW c \in Client, NEW e, Refuse(c, e) \/ ByLink(c) PROVE DoorInv'
    BY <2>3, UnseenStep DEF Refuse, ByLink, Admit
  <2>4. ASSUME NEW c \in Client, NEW call \in signed, RefuseReplay(c, call) PROVE DoorInv'
    BY <2>4, ReplayKeeps DEF RefuseReplay, Admit
  <2>5. ASSUME NEW c \in Client, NEW call \in signed, NEW r \in Request, Forward(r, c, call)
        PROVE  DoorInv'
    BY <2>5, ForwardKeeps
  <2>6. ASSUME NEW r \in Request, StsAnswers(r) \/ StsRefuses(r) PROVE DoorInv'
    BY <2>6, AnswerKeeps
  <2>7. CASE Restart
    BY <2>7, DoorRestartKeeps
  <2>8. CASE Tick
    BY <2>8, TickKeeps
  <2>9. CASE UNCHANGED vars
    BY <2>9, UnseenStep DEF vars
  <2> QED BY <2>1, <2>2, <2>3, <2>4, <2>5, <2>6, <2>7, <2>8, <2>9 DEF Next, Present
<1> QED BY <1>1, <1>2 DEF ClockInv

\* The door keeps its invariant: what has been spent cannot come through again.
THEOREM DoorInvariance == Spec => []ClockInv
<1>1. Init => ClockInv
  BY DoorInit, ConstantsAreNat DEF Init, ClockInv
<1> QED BY <1>1, DoorStep, PTL DEF Spec

\* "Each signed envelope is single-use": an envelope is accepted once at most by one
\* process of the gate, if no signer's clock is so far ahead that the envelope stays
\* valid longer than its signature is remembered (replay_cache.py, agent_auth.py).
THEOREM EnvelopesAreSingleUse == Spec => []SingleUse
<1>1. ClockInv => SingleUse
  BY DEF ClockInv, DoorInv
<1> QED BY <1>1, DoorInvariance, PTL

-----------------------------------------------------------------------------
(* The limiter.                                                            *)

LEMMA LimitsAreNat == HitWindow \in Nat /\ MaxHits \in Nat \ {0} /\ MaxClock \in Nat
BY DoorAssumption

LEMMA StaleIs ==
  ASSUME NEW times \in Seq(Nat), NEW edge \in Int
  PROVE  /\ Stale(times, edge) \in 0 .. Len(times)
         /\ \A i \in 1 .. Stale(times, edge) : times[i] <= edge
         /\ Stale(times, edge) < Len(times) => times[Stale(times, edge) + 1] > edge
<1> DEFINE Less == {pair \in Nat \X Nat : pair[1] < pair[2]}
           Ends == {n \in 0 .. Len(times) :
                      n < Len(times) => times[n + 1] > edge}
<1>1. IsWellFoundedOn(Less, Nat)
  BY NatLessThanWellFounded DEF OpToRel
<1>2. Len(times) \in Ends /\ Ends \subseteq Nat
  OBVIOUS
<1>3. PICK n \in Ends : \A m \in Ends : <<m, n>> \notin Less
  <2> HIDE DEF Less, Ends
  <2>1. IsWellFoundedOn(Less, Ends)
    BY <1>1, <1>2, IsWellFoundedOnSubset
  <2> QED BY <1>2, <2>1, WFMin
<1>4. ASSUME NEW i \in 1 .. n PROVE times[i] <= edge
  <2>1. i - 1 \in 0 .. Len(times) /\ i - 1 < n /\ i - 1 \in Nat /\ n \in Nat
    OBVIOUS
  <2>2. <<i - 1, n>> \in Less
    BY <2>1
  <2>3. i - 1 \notin Ends
    BY <1>3, <2>2
  <2>4. i - 1 < Len(times) /\ ~(times[(i - 1) + 1] > edge)
    BY <2>1, <2>3
  <2>5. (i - 1) + 1 = i /\ times[i] \in Nat
    BY <2>1
  <2> QED BY <2>4, <2>5
<1> QED BY <1>3, <1>4 DEF Stale

LEMMA InWindowIs ==
  ASSUME NEW times \in Seq(Nat), NEW edge \in Int
  PROVE  /\ InWindow(times, edge) \in Seq(Nat)
         /\ Len(InWindow(times, edge)) = Len(times) - Stale(times, edge)
         /\ \A i \in 1 .. Len(times) - Stale(times, edge) :
              InWindow(times, edge)[i] = times[Stale(times, edge) + i]
<1>1. PICK n \in 0 .. Len(times) : n = Stale(times, edge)
  BY StaleIs
<1>2. PICK m \in Nat : m = Len(times) /\ times \in [1 .. m -> Nat] /\ n \in 0 .. m
  OBVIOUS
<1> DEFINE rest == SubSeq(times, n + 1, m)
<1>3. n + 1 \in Int /\ m \in Int /\ \A i \in n + 1 .. m : times[i] \in Nat
  <2>1. n \in Int /\ n >= 0 /\ n <= m
    BY ONLY <1>2
  <2>2. \A i \in n + 1 .. m : i \in 1 .. m
    BY ONLY <2>1, m \in Nat
  <2>3. \A i \in 1 .. m : times[i] \in Nat
    BY ONLY <1>2
  <2>4. n + 1 \in Int /\ m \in Int
    BY ONLY <2>1, m \in Nat
  <2>5. ASSUME NEW i \in n + 1 .. m PROVE times[i] \in Nat
    <3>1. i \in 1 .. m
      BY <2>2
    <3> QED BY ONLY <2>3, <3>1
  <2> QED BY ONLY <2>4, <2>5
<1>4. /\ rest \in Seq(Nat)
      /\ Len(rest) = IF n + 1 <= m THEN m - (n + 1) + 1 ELSE 0
      /\ \A i \in 1 .. m - (n + 1) + 1 : rest[i] = times[(n + 1) + i - 1]
  BY ONLY <1>3, SubSeqProperties
<1>5. /\ (IF n + 1 <= m THEN m - (n + 1) + 1 ELSE 0) = m - n
      /\ m - (n + 1) + 1 = m - n
      /\ \A i \in 1 .. m - n : (n + 1) + i - 1 = n + i
  <2>1. n \in Int /\ n <= m
    BY ONLY <1>2
  <2> QED BY ONLY <2>1, m \in Nat
<1> HIDE DEF rest
<1>6. /\ rest \in Seq(Nat) /\ Len(rest) = m - n
      /\ \A i \in 1 .. m - n : rest[i] = times[n + i]
  BY ONLY <1>4, <1>5
<1> QED BY <1>1, <1>2, <1>6 DEF InWindow, rest

\* The hits are the last of the passes, all others are out of the window, and passes
\* that are MaxHits apart are HitWindow apart.
Counted(h, p, time) ==
  /\ h \in Seq(Nat) /\ p \in Seq(Nat) /\ Len(h) <= Len(p)
  /\ \A i \in 1 .. Len(h) : h[i] = p[Len(p) - Len(h) + i]
  /\ \A i \in 1 .. Len(p) - Len(h) : p[i] <= time - HitWindow
  /\ \A i \in 1 .. Len(p) - MaxHits : p[i + MaxHits] >= p[i] + HitWindow

LEMMA DroppingCounts ==
  ASSUME NEW h, NEW p, now \in Nat, Counted(h, p, now)
  PROVE  Counted(InWindow(h, now - HitWindow), p, now)
<1>1. /\ h \in Seq(Nat) /\ p \in Seq(Nat) /\ Len(h) \in Nat /\ Len(p) \in Nat
      /\ Len(h) <= Len(p) /\ now - HitWindow \in Int
  BY LimitsAreNat DEF Counted
<1>2. PICK a \in Nat, b \in Nat : a = Len(h) /\ b = Len(p) /\ a <= b
  BY <1>1
<1>3. \A i \in 1 .. a : h[i] = p[b - a + i]
  BY <1>2 DEF Counted
<1>4. \A i \in 1 .. b - a : p[i] <= now - HitWindow
  BY <1>2 DEF Counted
<1>5. PICK n \in 0 .. a : n = Stale(h, now - HitWindow) /\ \A i \in 1 .. n : h[i] <= now - HitWindow
  BY <1>1, <1>2, StaleIs
<1> DEFINE g == InWindow(h, now - HitWindow)
<1>6. g \in Seq(Nat) /\ Len(g) = a - n /\ \A i \in 1 .. a - n : g[i] = h[n + i]
  BY <1>1, <1>2, <1>5, InWindowIs
<1> HIDE DEF g
<1>7. ASSUME NEW i \in 1 .. a - n PROVE g[i] = p[b - (a - n) + i]
  <2>1. n + i \in 1 .. a /\ b - a + (n + i) = b - (a - n) + i
    BY ONLY a \in Nat, b \in Nat, n \in 0 .. a, i \in 1 .. a - n
  <2>2. g[i] = h[n + i] /\ h[n + i] = p[b - a + (n + i)]
    BY <1>3, <1>6, <2>1
  <2> QED BY <2>1, <2>2
<1>8. ASSUME NEW i \in 1 .. b - (a - n) PROVE p[i] <= now - HitWindow
  <2>1. CASE i <= b - a
    <3>1. i \in 1 .. b - a
      BY ONLY <2>1, a \in Nat, b \in Nat, n \in 0 .. a, i \in 1 .. b - (a - n)
    <3> QED BY <1>4, <3>1
  <2>2. CASE ~(i <= b - a)
    <3>1. PICK k \in 1 .. n : k \in 1 .. a /\ b - a + k = i
      <4>1. /\ i - (b - a) \in 1 .. n /\ i - (b - a) \in 1 .. a
            /\ b - a + (i - (b - a)) = i
        BY ONLY <2>2, a \in Nat, b \in Nat, n \in 0 .. a, i \in 1 .. b - (a - n)
      <4> QED BY ONLY <4>1
    <3>2. h[k] = p[b - a + k] /\ h[k] <= now - HitWindow
      BY <1>3, <1>5, <3>1
    <3> QED BY <3>1, <3>2
  <2> QED BY <2>1, <2>2
<1>9. Len(g) <= Len(p) /\ Len(p) - Len(g) = b - (a - n)
  BY <1>2, <1>6
<1>10. Counted(g, p, now)
  <2>1. \A i \in 1 .. Len(g) : g[i] = p[Len(p) - Len(g) + i]
    BY <1>6, <1>7, <1>9
  <2>2. \A i \in 1 .. Len(p) - Len(g) : p[i] <= now - HitWindow
    BY <1>8, <1>9
  <2>3. \A i \in 1 .. Len(p) - MaxHits : p[i + MaxHits] >= p[i] + HitWindow
    BY DEF Counted
  <2> QED BY <1>1, <1>6, <1>9, <2>1, <2>2, <2>3 DEF Counted
<1> QED BY <1>10 DEF g

LEMMA PassingCounts ==
  ASSUME NEW h, NEW p, now \in Nat, Counted(h, p, now), Len(h) < MaxHits
  PROVE  Counted(Append(h, now), Append(p, now), now)
<1>1. /\ h \in Seq(Nat) /\ p \in Seq(Nat) /\ Len(h) \in Nat /\ Len(p) \in Nat
      /\ Len(h) <= Len(p) /\ now \in Nat /\ HitWindow \in Nat /\ MaxHits \in Nat \ {0}
  BY LimitsAreNat DEF Counted
<1>2. PICK a \in Nat, b \in Nat : a = Len(h) /\ b = Len(p) /\ a <= b /\ a < MaxHits
  BY <1>1
<1>3. \A i \in 1 .. a : h[i] = p[b - a + i]
  BY <1>2 DEF Counted
<1>4. \A i \in 1 .. b - a : p[i] <= now - HitWindow
  BY <1>2 DEF Counted
<1>5. \A i \in 1 .. b - MaxHits : p[i + MaxHits] >= p[i] + HitWindow
  BY <1>2 DEF Counted
<1> DEFINE g == Append(h, now)
           q == Append(p, now)
<1>6. g \in Seq(Nat) /\ Len(g) = a + 1 /\ g[a + 1] = now /\ \A i \in 1 .. a : g[i] = h[i]
  BY <1>1, <1>2
<1>7. q \in Seq(Nat) /\ Len(q) = b + 1 /\ q[b + 1] = now /\ \A i \in 1 .. b : q[i] = p[i]
  BY <1>1, <1>2
<1> HIDE DEF g, q
<1>8. ASSUME NEW i \in 1 .. a + 1 PROVE g[i] = q[b - a + i]
  <2>1. CASE i = a + 1
    <3>1. b - a + i = b + 1
      BY ONLY <2>1, a \in Nat, b \in Nat
    <3> QED BY <1>6, <1>7, <2>1, <3>1
  <2>2. CASE i # a + 1
    <3>1. i \in 1 .. a /\ b - a + i \in 1 .. b
      BY ONLY <1>2, <2>2, a \in Nat, b \in Nat, i \in 1 .. a + 1
    <3> QED BY <1>3, <1>6, <1>7, <3>1
  <2> QED BY <2>1, <2>2
<1>9. ASSUME NEW i \in 1 .. b - a PROVE q[i] <= now - HitWindow
  <2>1. i \in 1 .. b
    BY ONLY a \in Nat, b \in Nat, i \in 1 .. b - a
  <2> QED BY <1>4, <1>7, <2>1
<1>10. ASSUME NEW i \in 1 .. (b + 1) - MaxHits PROVE q[i + MaxHits] >= q[i] + HitWindow
  <2>0. MaxHits \in Nat \ {0}
    BY <1>1
  <2>1. CASE i + MaxHits <= b
    <3>1. i \in 1 .. b /\ i + MaxHits \in 1 .. b /\ i \in 1 .. b - MaxHits
      BY ONLY <2>0, <2>1, b \in Nat, i \in 1 .. (b + 1) - MaxHits
    <3> QED BY <1>5, <1>7, <3>1
  <2>2. CASE ~(i + MaxHits <= b)
    <3>1. i + MaxHits = b + 1 /\ i \in 1 .. b - a /\ i \in 1 .. b
      BY ONLY <1>2, <2>0, <2>2, a \in Nat, b \in Nat, i \in 1 .. (b + 1) - MaxHits
    <3>2. p[i] <= now - HitWindow /\ q[i] = p[i] /\ p[i] \in Nat /\ q[i + MaxHits] = now
      BY <1>1, <1>2, <1>4, <1>7, <3>1
    <3> QED BY ONLY <1>1, <3>2
  <2> QED BY <2>1, <2>2
<1>11. Len(g) <= Len(q) /\ Len(q) - Len(g) = b - a
  BY ONLY <1>2, <1>6, <1>7, a \in Nat, b \in Nat
<1>12. Counted(g, q, now)
  <2>1. \A i \in 1 .. Len(g) : g[i] = q[Len(q) - Len(g) + i]
    BY <1>6, <1>8, <1>11
  <2>2. \A i \in 1 .. Len(q) - Len(g) : q[i] <= now - HitWindow
    BY <1>9, <1>11
  <2>3. \A i \in 1 .. Len(q) - MaxHits : q[i + MaxHits] >= q[i] + HitWindow
    BY <1>7, <1>10
  <2> QED BY <1>6, <1>7, <1>11, <2>1, <2>2, <2>3 DEF Counted
<1> QED BY <1>12 DEF g, q

\* The first entry that is not stale is the same in both.
LEMMA WindowsAgree ==
  ASSUME NEW h, NEW p, now \in Nat, Counted(h, p, now)
  PROVE  InWindow(p, now - HitWindow) = InWindow(h, now - HitWindow)
<1>0. /\ h \in Seq(Nat) /\ p \in Seq(Nat) /\ Len(h) \in Nat /\ Len(p) \in Nat
      /\ Len(h) <= Len(p) /\ now - HitWindow \in Int
  BY LimitsAreNat DEF Counted
<1>1. PICK a \in Nat, b \in Nat, k \in Nat : a = Len(h) /\ b = Len(p) /\ b - a = k
  <2>1. Len(p) - Len(h) \in Nat
    BY <1>0
  <2> QED BY <1>0, <2>1
<1>2. PICK edge \in Int : edge = now - HitWindow
  BY <1>0
<1>3. \A i \in 1 .. a : h[i] = p[k + i]
  BY <1>1 DEF Counted
<1>4. \A i \in 1 .. k : p[i] <= edge
  BY <1>1, <1>2 DEF Counted
<1>5. PICK n \in 0 .. a :
        n = Stale(h, now - HitWindow) /\ (\A i \in 1 .. n : h[i] <= edge) /\ (n < a => h[n + 1] > edge)
  BY <1>0, <1>1, <1>2, StaleIs
<1>6. PICK m \in 0 .. b :
        m = Stale(p, now - HitWindow) /\ (\A i \in 1 .. m : p[i] <= edge) /\ (m < b => p[m + 1] > edge)
  BY <1>0, <1>1, <1>2, StaleIs
<1>7. \A i \in 1 .. b : p[i] \in Nat
  BY <1>0, <1>1
<1>8. m = k + n
  <2>0. b = k + a
    BY ONLY <1>1, a \in Nat, b \in Nat, k \in Nat
  <2>1. CASE m < k
    <3>1. m + 1 \in 1 .. k /\ m < b /\ m + 1 \in 1 .. b
      BY ONLY <2>0, <2>1, a \in Nat, k \in Nat, m \in 0 .. b
    <3>2. p[m + 1] <= edge /\ p[m + 1] > edge /\ p[m + 1] \in Nat
      BY <1>4, <1>6, <1>7, <3>1
    <3> QED BY ONLY <3>2, edge \in Int
  <2>2. CASE m >= k /\ m < k + n
    <3>1. /\ m + 1 - k \in 1 .. n /\ m + 1 - k \in 1 .. a /\ k + (m + 1 - k) = m + 1
          /\ m < b /\ m + 1 \in 1 .. b
      BY ONLY <2>0, <2>2, a \in Nat, k \in Nat, m \in 0 .. b, n \in 0 .. a
    <3>2. h[m + 1 - k] = p[m + 1] /\ h[m + 1 - k] <= edge
      BY <1>3, <1>5, <3>1
    <3>3. p[m + 1] > edge /\ p[m + 1] \in Nat
      BY <1>6, <1>7, <3>1
    <3> QED BY ONLY <3>2, <3>3, edge \in Int
  <2>3. CASE m > k + n
    <3>1. n < a /\ n + 1 \in 1 .. a /\ k + (n + 1) \in 1 .. m /\ k + (n + 1) \in 1 .. b
      BY ONLY <2>0, <2>3, a \in Nat, k \in Nat, m \in 0 .. b, n \in 0 .. a
    <3>2. h[n + 1] = p[k + (n + 1)] /\ h[n + 1] > edge
      BY <1>3, <1>5, <3>1
    <3>3. p[k + (n + 1)] <= edge /\ p[k + (n + 1)] \in Nat
      BY <1>6, <1>7, <3>1
    <3> QED BY ONLY <3>2, <3>3, edge \in Int
  <2> QED BY ONLY <2>1, <2>2, <2>3, a \in Nat, b \in Nat, k \in Nat, m \in 0 .. b, n \in 0 .. a
<1>9. a - n = b - m
  BY ONLY <1>1, <1>8, a \in Nat, b \in Nat, k \in Nat, n \in 0 .. a
<1>10. /\ InWindow(p, now - HitWindow) \in Seq(Nat) /\ Len(InWindow(p, now - HitWindow)) = a - n
       /\ \A i \in 1 .. a - n : InWindow(p, now - HitWindow)[i] = p[m + i]
  BY <1>0, <1>1, <1>6, <1>9, InWindowIs
<1>11. /\ InWindow(h, now - HitWindow) \in Seq(Nat) /\ Len(InWindow(h, now - HitWindow)) = a - n
       /\ \A i \in 1 .. a - n : InWindow(h, now - HitWindow)[i] = h[n + i]
  BY <1>0, <1>1, <1>5, InWindowIs
<1>12. ASSUME NEW i \in 1 .. a - n PROVE InWindow(p, now - HitWindow)[i] = InWindow(h, now - HitWindow)[i]
  <2>1. n + i \in 1 .. a /\ k + (n + i) = m + i
    BY ONLY <1>8, a \in Nat, k \in Nat, n \in 0 .. a, i \in 1 .. a - n
  <2>2. h[n + i] = p[k + (n + i)]
    BY <1>3, <2>1
  <2> QED BY <1>10, <1>11, <2>1, <2>2
<1> QED BY <1>10, <1>11, <1>12, SeqEqual

Limited ==
  /\ hits = [c \in Client |-> hits[c]] /\ passes = [c \in Client |-> passes[c]]
  /\ \A c \in Client : Counted(hits[c], passes[c], now)

LEMMA LimitInit == Init => Limited
<1> SUFFICES ASSUME Init PROVE Limited
  OBVIOUS
<1>1. hits = [c \in Client |-> <<>>] /\ passes = [c \in Client |-> <<>>] /\ now = 0
  BY DEF Init, Booted
<1>2. Counted(<<>>, <<>>, now)
  BY LimitsAreNat DEF Counted
<1> QED BY <1>1, <1>2 DEF Limited

LEMMA AdmitCounts ==
  ASSUME NEW c \in Client, Admit(c), Limited, now \in Nat, now' = now
  PROVE  Limited'
<1>1. Len(Recent(c)) < MaxHits
  BY DEF Admit
<1>2. /\ hits' = [hits EXCEPT ![c] = Append(Recent(c), now)]
      /\ passes' = [passes EXCEPT ![c] = Append(passes[c], now)]
  BY DEF Admit
<1>3. Counted(Append(Recent(c), now), Append(passes[c], now), now)
  BY <1>1, DroppingCounts, PassingCounts DEF Limited, Recent
<1>4. ASSUME NEW d \in Client PROVE Counted(hits'[d], passes'[d], now)
  <2>1. CASE d = c
    BY <1>2, <1>3, <2>1 DEF Limited
  <2>2. CASE d # c
    BY <1>2, <2>2 DEF Limited
  <2> QED BY <2>1, <2>2
<1> QED BY <1>2, <1>4 DEF Limited

LEMMA RefusingCounts ==
  ASSUME NEW c \in Client, RateLimit(c), Limited, now \in Nat
  PROVE  Limited'
<1>1. hits' = [hits EXCEPT ![c] = Recent(c)] /\ passes' = passes /\ now' = now
  BY DEF RateLimit
<1>2. Counted(Recent(c), passes[c], now)
  BY DroppingCounts DEF Limited, Recent
<1>3. ASSUME NEW d \in Client PROVE Counted(hits'[d], passes'[d], now)
  <2>1. CASE d = c
    BY <1>1, <1>2, <2>1 DEF Limited
  <2>2. CASE d # c
    BY <1>1, <2>2 DEF Limited
  <2> QED BY <2>1, <2>2
<1> QED BY <1>1, <1>3 DEF Limited

LEMMA LimitStep == ClockInv /\ Limited /\ [Next]_vars => Limited'
<1> SUFFICES ASSUME ClockInv, Limited, [Next]_vars PROVE Limited'
  OBVIOUS
<1>0. now \in Nat
  BY LimitsAreNat DEF ClockInv
<1>1. CASE UNCHANGED <<hits, passes, now>>
  BY <1>1 DEF Limited
<1>2. ASSUME NEW c \in Client, RateLimit(c) PROVE Limited'
  BY <1>0, <1>2, RefusingCounts
<1>3. ASSUME NEW c \in Client, ByLink(c) \/ \E call \in signed : Present(c, call)
      PROVE  Limited'
  <2>1. Admit(c)
    BY <1>3 DEF ByLink, Present, Refuse, RefuseReplay, Forward
  <2>2. now' = now
    BY <2>1 DEF Admit
  <2> QED BY <1>0, <2>1, <2>2, AdmitCounts
<1>4. CASE Restart
  <2>1. hits' = [c \in Client |-> <<>>] /\ passes' = [c \in Client |-> <<>>] /\ now' = now
    BY <1>4 DEF Restart
  <2>2. Counted(<<>>, <<>>, now)
    BY LimitsAreNat DEF Counted
  <2> QED BY <2>1, <2>2 DEF Limited
<1>5. CASE Tick
  <2>1. now' = now + 1 /\ UNCHANGED <<hits, passes>>
    BY <1>5 DEF Tick
  <2>2. ASSUME NEW c \in Client PROVE Counted(hits[c], passes[c], now + 1)
    <3>1. Counted(hits[c], passes[c], now)
      BY DEF Limited
    <3>2. \A i \in 1 .. Len(passes[c]) - Len(hits[c]) :
            passes[c][i] <= (now + 1) - HitWindow
      <4>1. \A t \in Nat : t <= now - HitWindow => t <= (now + 1) - HitWindow
        BY <1>0, LimitsAreNat
      <4>2. \A i \in 1 .. Len(passes[c]) - Len(hits[c]) :
              passes[c][i] \in Nat /\ passes[c][i] <= now - HitWindow
        BY <3>1 DEF Counted
      <4> QED BY <4>1, <4>2
    <3> QED BY <3>1, <3>2 DEF Counted
  <2> QED BY <2>1, <2>2 DEF Limited
<1>6. ASSUME \/ \E s \in Signer, g \in GateId : Sign(s, g)
             \/ \E r \in Request : StsAnswers(r) \/ StsRefuses(r)
             \/ UNCHANGED vars
      PROVE  Limited'
  <2>1. UNCHANGED <<hits, passes, now>>
    BY <1>6 DEF Sign, StsAnswers, StsRefuses, vars
  <2> QED BY <1>1, <2>1
<1> QED BY <1>2, <1>3, <1>4, <1>5, <1>6 DEF Next

\* A client is let through MaxHits times at most in any HitWindow seconds, and what the
\* limiter has counted are exactly the passes of those seconds: popleft drops no other,
\* and a refusal is not counted (SlidingWindowLimiter.allow).
THEOREM RatesAreExact == Spec => []RateIsExact
<1>1. ClockInv /\ Limited => RateIsExact
  <2> SUFFICES ASSUME ClockInv, Limited, NEW c \in Client
               PROVE  /\ InWindow(passes[c], now - HitWindow) =
                           InWindow(hits[c], now - HitWindow)
                      /\ \A i \in 1 .. Len(passes[c]) - MaxHits :
                           passes[c][i + MaxHits] >= passes[c][i] + HitWindow
    BY DEF RateIsExact
  <2>1. Counted(hits[c], passes[c], now) /\ now \in Nat
    BY LimitsAreNat DEF Limited, ClockInv
  <2> QED BY <2>1, WindowsAgree DEF Counted
<1>2. Init => Limited
  BY LimitInit
<1> QED BY <1>1, <1>2, LimitStep, DoorInvariance, PTL DEF Spec

-----------------------------------------------------------------------------
(* First uses.                                                             *)

\* What an agent signs: an id of its own for every call, and the same for a nonce.
CallsAreOwn ==
  /\ \A c, d \in signed : c.id = d.id => c = d
  /\ \A c \in signed : LET e == c.envelope IN
       e.nonce = IF e.signer \in Drawing THEN c.id ELSE NoNonce

LEMMA CallsStep == ClockInv /\ CallsAreOwn /\ [Next]_vars => CallsAreOwn'
<1> SUFFICES ASSUME ClockInv, CallsAreOwn, [Next]_vars PROVE CallsAreOwn'
  OBVIOUS
<1>1. ASSUME NEW s \in Signer, NEW g \in GateId, Sign(s, g) PROVE CallsAreOwn'
  <2>1. PICK id \in CallId, e \in Envelope :
          /\ signed' = signed \cup {[id |-> id, envelope |-> e]}
          /\ e.signer = s
          /\ s \in Drawing => e.nonce = id
          /\ s \notin Drawing => e.nonce = NoNonce
          /\ \A c \in signed : c.id # id
    BY <1>1, SignedIs DEF ClockInv
  <2> QED BY <2>1 DEF CallsAreOwn
<1>2. CASE UNCHANGED signed
  BY <1>2 DEF CallsAreOwn
<1> QED
  BY <1>1, <1>2 DEF Next, vars, RateLimit, ByLink, Present, Refuse, RefuseReplay, Forward, Admit,
     StsAnswers, StsRefuses, Restart, Tick

\* What is remembered has been presented.
SeenArePresented ==
  presented \subseteq signed /\ \A s \in DOMAIN seen : \E c \in presented : s = Signature(c.envelope)

LEMMA SeenStep == ClockInv /\ SeenArePresented /\ [Next]_vars => SeenArePresented'
<1> SUFFICES ASSUME ClockInv, SeenArePresented, [Next]_vars PROVE SeenArePresented'
  OBVIOUS
<1>1. ASSUME NEW c \in Client, NEW e, Refuse(c, e) \/ ByLink(c) PROVE SeenArePresented'
  BY <1>1 DEF Refuse, ByLink, Admit, SeenArePresented
<1>2. ASSUME NEW c \in Client, NEW call \in signed, RefuseReplay(c, call)
      PROVE  SeenArePresented'
  <2>1. seen' = Unexpired /\ presented' = presented \cup {call} /\ signed' = signed
    BY <1>2 DEF RefuseReplay, Admit
  <2>2. DOMAIN seen' \subseteq DOMAIN seen
    BY <2>1 DEF Unexpired
  <2> QED BY <2>1, <2>2 DEF SeenArePresented
<1>3. ASSUME NEW c \in Client, NEW call \in signed, NEW r \in Request, Forward(r, c, call)
      PROVE  SeenArePresented'
  <2>1. /\ seen' = Remember(Signature(call.envelope))
        /\ presented' = presented \cup {call} /\ signed' = signed
    BY <1>3 DEF Forward, Admit
  <2>2. DOMAIN seen' \subseteq DOMAIN seen \cup {Signature(call.envelope)}
    BY <2>1 DEF Remember, Unexpired
  <2> QED BY <2>1, <2>2 DEF SeenArePresented
<1>4. CASE Restart
  BY <1>4 DEF Restart, SeenArePresented
<1>5. ASSUME NEW s \in Signer, NEW g \in GateId, Sign(s, g) PROVE SeenArePresented'
  BY <1>5 DEF Sign, SeenArePresented
<1>6. ASSUME \/ \E c \in Client : RateLimit(c)
             \/ \E r \in Request : StsAnswers(r) \/ StsRefuses(r)
             \/ Tick
             \/ UNCHANGED vars
      PROVE  SeenArePresented'
  <2>1. UNCHANGED <<seen, presented, signed>>
    BY <1>6 DEF RateLimit, StsAnswers, StsRefuses, Tick, vars
  <2> QED BY <2>1 DEF SeenArePresented
<1> QED BY <1>1, <1>2, <1>3, <1>4, <1>5, <1>6 DEF Next, Present

\* "Without the nonce any two calls in the same clock second collide", and no others: a
\* call that nobody has presented is taken for a replay only if its signer draws no nonce
\* and another call of its second has come (gate_client.py, agent_auth.py, replay_cache.py).
\* What is remembered is what has come, through all forgetting and restarts; and two calls
\* share a signature only if neither has a nonce.
THEOREM OthersDoNotCollide == Spec => []OnlyTwinsCollide
<1>1. ASSUME ClockInv, SeenArePresented, CallsAreOwn PROVE OnlyTwinsCollide
  <2> SUFFICES ASSUME NEW c \in signed \ presented, Signature(c.envelope) \in DOMAIN seen
               PROVE  /\ c.envelope.signer \notin Drawing
                      /\ \E d \in presented : Twins(c, d)
    BY DEF OnlyTwinsCollide
  <2>1. PICK d \in presented : Signature(c.envelope) = Signature(d.envelope)
    BY <1>1 DEF SeenArePresented
  <2>2. /\ c \in signed /\ d \in signed /\ c # d
        /\ c.envelope \in Envelope /\ d.envelope \in Envelope
    BY <1>1, <2>1 DEF SeenArePresented, ClockInv, DoorInv, Types
  <2>3. c.envelope = d.envelope
    BY <2>1, <2>2, SignaturesDiffer
  <2>4. Twins(c, d)
    BY <2>2, <2>3 DEF Twins
  <2>5. c.envelope.signer \notin Drawing
    BY <1>1, <2>2, <2>3 DEF CallsAreOwn
  <2> QED BY <2>4, <2>5
<1>2. Init => SeenArePresented /\ CallsAreOwn
  BY DEF Init, Booted, SeenArePresented, CallsAreOwn
<1> QED BY <1>1, <1>2, CallsStep, SeenStep, DoorInvariance, PTL DEF Spec

-----------------------------------------------------------------------------
(* The reports of an executor.                                             *)

\* Half the number of pairs: the sum of the numbers below k.
Below(k) == (k * (k - 1)) \div 2

\* What LostReportWasCrowdedOut needs: the limiter's list is sorted, and while a report
\* is repeated nothing is added to it and the pauses add up.
PaceInv ==
  /\ moment \in Nat /\ counted \in Seq(Nat) /\ firstTry \in Nat
  /\ attempt \in 1 .. ReportAttempts /\ resting \in Nat
  /\ \A i, j \in 1 .. Len(counted) : i <= j => counted[i] <= counted[j]
  /\ \A i \in 1 .. Len(counted) : counted[i] <= moment
  /\ doing = "report" /\ attempt > 1 =>
       /\ \A i \in 1 .. Len(counted) : counted[i] <= firstTry
       /\ ~stopping => moment + resting >= firstTry + Backoff * Below(attempt)

LEMMA PaceNumbers ==
  /\ RateWindow \in Nat /\ Backoff \in Nat /\ PollPause \in Nat
  /\ RateMax \in Nat \ {0} /\ ReportAttempts \in Nat \ {0, 1}
BY PaceAssumption

LEMMA BelowGrows ==
  ASSUME NEW k \in Nat
  PROVE  Below(k) \in Int /\ Below(k + 1) = Below(k) + k
<1>1. PICK j \in Nat : k = 2 * j \/ k = 2 * j + 1
  <2>1. k = 2 * (k \div 2) \/ k = 2 * (k \div 2) + 1
    OBVIOUS
  <2> QED BY <2>1
<1>2. CASE k = 2 * j
  <2>1. k * (k - 1) = 2 * (j * (2 * j - 1)) /\ (k + 1) * ((k + 1) - 1) = 2 * (j * (2 * j + 1))
    BY <1>2
  <2>2. Below(k) = j * (2 * j - 1) /\ Below(k + 1) = j * (2 * j + 1)
    BY <2>1 DEF Below
  <2> QED BY <1>2, <2>2
<1>3. CASE k = 2 * j + 1
  <2>1. /\ k * (k - 1) = 2 * ((2 * j + 1) * j)
        /\ (k + 1) * ((k + 1) - 1) = 2 * ((j + 1) * (2 * j + 1))
    BY <1>3
  <2>2. Below(k) = (2 * j + 1) * j /\ Below(k + 1) = (j + 1) * (2 * j + 1)
    BY <2>1 DEF Below
  <2> QED BY <1>3, <2>2
<1> QED BY <1>1, <1>2, <1>3

\* What is current is the end of what is counted.
LEMMA CurrentIs ==
  ASSUME PaceInv
  PROVE  /\ Current \in Seq(Nat)
         /\ \A i, j \in 1 .. Len(Current) : i <= j => Current[i] <= Current[j]
         /\ \A i \in 1 .. Len(Current) :
              /\ \E m \in 1 .. Len(counted) : Current[i] = counted[m]
              /\ Current[i] <= moment /\ Current[i] > moment - RateWindow
<1>1. counted \in Seq(Nat) /\ moment \in Nat /\ moment - RateWindow \in Int
  BY PaceNumbers DEF PaceInv
<1>2. PICK n \in 0 .. Len(counted) :
        /\ Len(Current) = Len(counted) - n /\ Current \in Seq(Nat)
        /\ \A i \in 1 .. Len(counted) - n : Current[i] = counted[n + i]
        /\ n < Len(counted) => counted[n + 1] > moment - RateWindow
  BY <1>1, StaleIs, InWindowIs DEF Current
<1>3. ASSUME NEW i \in 1 .. Len(Current)
      PROVE  /\ n + i \in 1 .. Len(counted) /\ n + 1 \in 1 .. Len(counted) /\ n + 1 <= n + i
             /\ n < Len(counted)
  BY <1>1, <1>2
<1>4. ASSUME NEW i \in 1 .. Len(Current)
      PROVE  /\ Current[i] = counted[n + i] /\ Current[i] \in Nat
             /\ Current[i] <= moment /\ Current[i] > moment - RateWindow
  <2>1. Current[i] = counted[n + i]
    BY <1>2
  <2>2. counted[n + i] \in Nat /\ counted[n + 1] \in Nat
    BY <1>1, <1>3
  <2>3. counted[n + 1] <= counted[n + i] /\ counted[n + i] <= moment
    BY <1>3 DEF PaceInv
  <2>4. counted[n + 1] > moment - RateWindow
    BY <1>2, <1>3
  <2> QED BY <1>1, <2>1, <2>2, <2>3, <2>4
<1>5. ASSUME NEW i \in 1 .. Len(Current), NEW j \in 1 .. Len(Current), i <= j
      PROVE  Current[i] <= Current[j]
  <2>1. n + i <= n + j
    BY <1>2, <1>5
  <2>2. counted[n + i] <= counted[n + j]
    BY <1>3, <2>1 DEF PaceInv
  <2> QED BY <1>4, <2>2
<1> QED BY <1>2, <1>3, <1>4, <1>5

\* The list stays a sorted list of past moments, and one that has only been cut has
\* nothing in it that was not there.
LEMMA CountingKeeps ==
  ASSUME PaceInv, LetThrough \/ TurnedAway
  PROVE  /\ counted' \in Seq(Nat)
         /\ \A i, j \in 1 .. Len(counted') : i <= j => counted'[i] <= counted'[j]
         /\ \A i \in 1 .. Len(counted') : counted'[i] <= moment
         /\ TurnedAway => \A i \in 1 .. Len(counted') :
                            \E m \in 1 .. Len(counted) : counted'[i] = counted[m]
<1>1. CASE TurnedAway
  BY <1>1, CurrentIs DEF TurnedAway
<1>2. CASE LetThrough
  <2>1. Current \in Seq(Nat) /\ moment \in Nat /\ counted' = Append(Current, moment)
    BY <1>2, CurrentIs DEF LetThrough, PaceInv
  <2>2. /\ counted' \in Seq(Nat) /\ Len(counted') = Len(Current) + 1
        /\ counted'[Len(Current) + 1] = moment
        /\ \A i \in 1 .. Len(Current) : counted'[i] = Current[i]
    BY <2>1
  <2>3. \A i \in 1 .. Len(counted') : i \in 1 .. Len(Current) \/ i = Len(Current) + 1
    BY <2>1, <2>2
  <2>4. \A i \in 1 .. Len(counted') : counted'[i] <= moment
    BY <2>1, <2>2, <2>3, CurrentIs
  <2>5. ASSUME NEW i \in 1 .. Len(counted'), NEW j \in 1 .. Len(counted'), i <= j
        PROVE  counted'[i] <= counted'[j]
    <3>1. CASE j = Len(Current) + 1
      BY <2>2, <2>4, <3>1
    <3>2. CASE j \in 1 .. Len(Current)
      <4>1. i \in 1 .. Len(Current)
        BY <2>1, <2>3, <2>5, <3>2
      <4> QED BY <2>2, <2>5, <3>2, <4>1, CurrentIs
    <3> QED BY <2>3, <3>1, <3>2
  <2>6. ~TurnedAway
    BY <1>2, <2>1, PaceNumbers DEF LetThrough, TurnedAway
  <2> QED BY <2>2, <2>4, <2>5, <2>6
<1> QED BY <1>1, <1>2

\* A step of the loop over the batch after which no report is due.
LEMMA NoReportKeeps ==
  ASSUME PaceInv, LetThrough \/ TurnedAway, UNCHANGED moment,
         firstTry' \in Nat, attempt' \in 1 .. ReportAttempts, resting' \in Nat,
         doing' # "report" \/ attempt' = 1
  PROVE  PaceInv'
BY CountingKeeps DEF PaceInv

LEMMA NextOfBatchRests ==
  ASSUME PaceInv, NextOfBatch
  PROVE  /\ firstTry' \in Nat /\ attempt' \in 1 .. ReportAttempts /\ resting' \in Nat
         /\ doing' # "report"
<1>1. resting' \in Nat /\ doing' # "report"
  BY PaceNumbers DEF NextOfBatch
<1> QED BY <1>1 DEF NextOfBatch, PaceInv

LEMMA ReportKeeps ==
  ASSUME PaceInv, ReportOne
  PROVE  PaceInv'
<1>1. doing = "report" /\ resting = 0 /\ moment' = moment /\ stopping' = stopping
  BY DEF ReportOne
<1>2. CASE (LetThrough \/ TurnedAway) /\ NextOfBatch
  BY <1>1, <1>2, NextOfBatchRests, NoReportKeeps
<1>3. CASE /\ TurnedAway /\ attempt < ReportAttempts
           /\ attempt' = attempt + 1
           /\ resting' = IF stopping THEN 0 ELSE PauseAfter(attempt)
           /\ firstTry' = IF attempt = 1 THEN moment ELSE firstTry
  <2>1. attempt \in Nat /\ attempt >= 1 /\ attempt' \in 1 .. ReportAttempts
    BY <1>3, PaceNumbers DEF PaceInv
  <2>2. PauseAfter(attempt) \in Nat /\ PauseAfter(attempt) = Backoff * attempt
    BY <2>1, PaceNumbers DEF PauseAfter
  <2>3. resting' \in Nat /\ firstTry' \in Nat /\ moment \in Nat
    BY <1>3, <2>2 DEF PaceInv
  <2>4. \A i \in 1 .. Len(counted') : counted'[i] <= firstTry'
    <3>1. CASE attempt = 1
      BY <1>3, <3>1, CountingKeeps
    <3>2. CASE attempt > 1
      <4>1. \A m \in 1 .. Len(counted) : counted[m] <= firstTry
        BY <1>1, <3>2 DEF PaceInv
      <4>2. firstTry' = firstTry
        BY <1>3, <2>1, <3>2
      <4> QED BY <1>3, <4>1, <4>2, CountingKeeps
    <3> QED BY <2>1, <3>1, <3>2
  <2>5. ASSUME ~stopping
        PROVE  moment + resting' >= firstTry' + Backoff * Below(attempt + 1)
    <3>1. Below(attempt) \in Int /\ Below(attempt + 1) = Below(attempt) + attempt
      BY <2>1, BelowGrows
    <3>2. Backoff * Below(attempt + 1) = Backoff * Below(attempt) + Backoff * attempt
      BY <2>1, <3>1, PaceNumbers
    <3>3. moment >= firstTry' + Backoff * Below(attempt)
      <4>1. CASE attempt = 1
        <5>1. Below(1) = 0
          BY DEF Below
        <5> QED BY <1>3, <2>3, <4>1, <5>1, PaceNumbers
      <4>2. CASE attempt > 1
        <5>1. moment + 0 >= firstTry + Backoff * Below(attempt)
          BY <1>1, <2>5, <4>2 DEF PaceInv
        <5> QED BY <1>3, <2>1, <2>3, <4>2, <5>1
      <4> QED BY <2>1, <4>1, <4>2
    <3>4. resting' = Backoff * attempt
      BY <1>3, <2>2, <2>5
    <3>5. Backoff * Below(attempt) \in Int /\ Backoff * attempt \in Int
      BY <2>1, <3>1, PaceNumbers
    <3> QED BY <2>3, <3>2, <3>3, <3>4, <3>5
  <2> QED BY <1>1, <1>3, <2>1, <2>3, <2>4, <2>5, CountingKeeps DEF PaceInv
<1> QED BY <1>2, <1>3 DEF ReportOne

LEMMA PassMomentKeeps ==
  ASSUME PaceInv, PassMoment
  PROVE  PaceInv'
<1>1. /\ moment \in Nat /\ resting \in Nat /\ moment' = moment + 1
      /\ resting' = IF resting = 0 THEN 0 ELSE resting - 1
      /\ UNCHANGED <<counted, doing, attempt, stopping, firstTry>>
  BY DEF PassMoment, PaceInv
<1>2. resting' \in Nat /\ moment' + resting' >= moment + resting
  BY <1>1
<1>3. \A i \in 1 .. Len(counted) : counted[i] \in Nat
  BY DEF PaceInv
<1>4. \A i \in 1 .. Len(counted') : counted'[i] <= moment'
  BY <1>1, <1>3 DEF PaceInv
<1>5. Backoff * Below(attempt) \in Int
  BY BelowGrows, PaceNumbers DEF PaceInv
<1> QED BY <1>1, <1>2, <1>4, <1>5 DEF PaceInv

LEMMA PaceSteps == PaceInv /\ [PaceNext]_paceVars => PaceInv'
<1> SUFFICES ASSUME PaceInv, [PaceNext]_paceVars PROVE PaceInv'
  OBVIOUS
<1>1. CASE PollGate
  <2>1. /\ LetThrough \/ TurnedAway
        /\ moment' = moment /\ firstTry' = firstTry
        /\ attempt' = attempt /\ doing' # "report"
    BY <1>1 DEF PollGate
  <2>2. resting' \in Nat
    BY <1>1, PaceNumbers DEF PollGate, PaceInv
  <2> QED BY <2>1, <2>2, NoReportKeeps DEF PaceInv
<1>2. CASE StartOne
  <2>1. moment' = moment /\ (LetThrough \/ TurnedAway)
    BY <1>2 DEF StartOne
  <2>2. CASE attempt' = 1 /\ UNCHANGED <<resting, firstTry>>
    BY <2>1, <2>2, NoReportKeeps, PaceNumbers DEF PaceInv
  <2>3. CASE NextOfBatch
    BY <2>1, <2>3, NextOfBatchRests, NoReportKeeps
  <2> QED BY <1>2, <2>2, <2>3 DEF StartOne
<1>3. CASE ReportOne
  BY <1>3, ReportKeeps
<1>4. CASE SignalStop
  <2>1. resting' \in Nat /\ stopping' /\ UNCHANGED <<moment, counted, doing, attempt, firstTry>>
    BY <1>4 DEF SignalStop, PaceInv
  <2> QED BY <2>1 DEF PaceInv
<1>5. CASE StartAnew
  BY <1>5, PaceNumbers DEF StartAnew, PaceInv
<1>6. CASE ForgetCounts
  BY <1>6 DEF ForgetCounts, PaceInv
<1>7. CASE PassMoment
  BY <1>7, PassMomentKeeps
<1>8. CASE UNCHANGED paceVars
  BY <1>8 DEF paceVars, PaceInv
<1> QED BY <1>1, <1>2, <1>3, <1>4, <1>5, <1>6, <1>7, <1>8 DEF PaceNext

\* Whatever the window, the limit, the number of attempts and the pause: the limiter
\* makes an executor lose a report only when the executor's own requests of the last
\* RateWindow - Patience fill the window (main.py's _report, middleware.py's allow).
THEOREM ReportsAreCrowdedOut == PaceSpec => []LostReportWasCrowdedOut
<1>1. PaceInit => PaceInv
  BY PaceNumbers DEF PaceInit, PaceInv
<1>2. PaceInv => LostReportWasCrowdedOut
  <2> SUFFICES ASSUME PaceInv, GivesUp, NEW i \in 1 .. Len(Current)
               PROVE  Current[i] <= firstTry /\ Current[i] > firstTry + Patience - RateWindow
    BY DEF LostReportWasCrowdedOut
  <2>1. doing = "report" /\ attempt = ReportAttempts /\ attempt > 1 /\ resting = 0 /\ ~stopping
    BY PaceNumbers DEF GivesUp
  <2>2. PICK m \in 1 .. Len(counted) : Current[i] = counted[m]
    BY CurrentIs
  <2>3. counted[m] <= firstTry /\ moment + 0 >= firstTry + Patience
    BY <2>1 DEF PaceInv, Patience, Below
  <2>4. Patience \in Int
    BY BelowGrows, PaceNumbers DEF Patience, Below
  <2>5. /\ Current[i] \in Nat /\ Current[i] > moment - RateWindow
        /\ firstTry \in Nat /\ moment \in Nat /\ RateWindow \in Nat
    BY CurrentIs, PaceNumbers DEF PaceInv
  <2> QED BY <2>2, <2>3, <2>4, <2>5
<1> QED BY <1>1, <1>2, PaceSteps, PTL DEF PaceSpec

-----------------------------------------------------------------------------
(* Sessions and links.                                                     *)

Phase == {"absent", "proposed", "cleared", "running", "succeeded", "failed",
          "refused", "withdrawn", "expired", "replaced"}

DoorTypes ==
  /\ phase \in [Proposal -> Phase]
  /\ signers \in [Proposal -> SUBSET Person]
  /\ approvers \in SUBSET Person /\ grouped \in SUBSET Person
  /\ sessions \in [Person -> SUBSET Role]
  /\ uses \in [Link -> Nat]

\* A session that lets its holder approve comes from a login as one of a group or of the
\* list under the present secret.
SessionsAreFounded == \A who \in Person : MayApprove(who) => who \in founded

\* A link that has been used has left what keeps it from being used again.
UsesLeaveTraces ==
  \A p \in Proposal, who \in Person :
    /\ uses[<<p, who, "approve">>] \in {0, 1} /\ uses[<<p, who, "reject">>] \in {0, 1}
    /\ uses[<<p, who, "approve">>] = 1 => who \in signers[p]
    /\ uses[<<p, who, "reject">>] = 1 => phase[p] = "refused"

PeopleInv == DoorTypes /\ SessionsAreFounded /\ UsesLeaveTraces

\* A step that is no vote: no signature is added, nothing becomes refused, and what
\* was refused stays so.
NoVote ==
  /\ phase' \in [Proposal -> Phase]
  /\ signers' = signers
  /\ \A p \in Proposal : phase[p] = "refused" <=> phase'[p] = "refused"

\* A vote of one person on one proposal.
Vote(p, who, action) ==
  /\ phase[p] = "proposed"
  /\ AllowSelf \/ author[p] # who
  /\ \/ /\ action = "approve"
        /\ who \notin signers[p]
        /\ signers' = [signers EXCEPT ![p] = @ \cup {who}]
        /\ \E to \in {"proposed", "cleared"} : phase' = [phase EXCEPT ![p] = to]
     \/ /\ action = "reject"
        /\ UNCHANGED signers
        /\ phase' = [phase EXCEPT ![p] = "refused"]

-----------------------------------------------------------------------------
(* The steps of the gate.                                                  *)

LEMMA StillIsNoVote ==
  ASSUME DoorTypes, UNCHANGED <<phase, signers>>
  PROVE  NoVote
BY DEF NoVote, DoorTypes

LEMMA OpeningIsNoVote ==
  ASSUME DoorTypes, NEW p \in Proposal, NEW who, Tickets!Propose(p, who)
  PROVE  NoVote
BY DEF NoVote, DoorTypes, Phase, Tickets!Propose, Tickets!Move

LEMMA EditingIsNoVote ==
  ASSUME DoorTypes, NEW p \in Proposal, NEW new \in Proposal, NEW who,
         Tickets!Inherit(p, new, who)
  PROVE  NoVote
BY DEF NoVote, DoorTypes, Phase, Tickets!Inherit

LEMMA DroppingIsNoVote ==
  ASSUME DoorTypes, NEW p \in Proposal, Tickets!Drop(p)
  PROVE  NoVote
BY DEF NoVote, DoorTypes, Phase, Tickets!Drop, Tickets!Move

LEMMA RunningIsNoVote ==
  ASSUME DoorTypes, NEW p \in Proposal, Tickets!Run(p) \/ Tickets!Finish(p)
  PROVE  NoVote
BY DEF NoVote, DoorTypes, Phase, Tickets!Run, Tickets!Finish, Tickets!Move

LEMMA SigningIsAVote ==
  ASSUME NEW p \in Proposal, NEW who \in Person, Tickets!Sign(p, who)
  PROVE  Vote(p, who, "approve")
BY DEF Vote, Tickets!Sign, Tickets!MaySign, Tickets!MayDecide, Tickets!Move

LEMMA RefusingIsAVote ==
  ASSUME NEW p \in Proposal, NEW who \in Person, Tickets!Refuse(p, who)
  PROVE  Vote(p, who, "reject")
BY DEF Vote, Tickets!Refuse, Tickets!MayDecide, Tickets!Move

-----------------------------------------------------------------------------
LEMMA PeopleInit == HumanInit => PeopleInv
<1> SUFFICES ASSUME HumanInit PROVE PeopleInv
  OBVIOUS
<1> USE DEF HumanInit, Tickets!Init
<1>1. DoorTypes
  BY PeopleAssumption DEF DoorTypes, Phase
<1>2. SessionsAreFounded
  BY DEF SessionsAreFounded, MayApprove
<1>3. UsesLeaveTraces
  BY DEF UsesLeaveTraces, Link, LinkAction
<1> QED BY <1>1, <1>2, <1>3 DEF PeopleInv

\* The registers change, no vote is cast.
LEMMA NoVoteKeeps ==
  ASSUME PeopleInv, NoVote, UNCHANGED uses,
         approvers' \in SUBSET Person, grouped' \in SUBSET Person,
         sessions' \in [Person -> SUBSET Role],
         SessionsAreFounded'
  PROVE  PeopleInv'
<1> USE DEF PeopleInv
<1>1. DoorTypes'
  BY DEF DoorTypes, NoVote
<1>2. UsesLeaveTraces'
  BY DEF UsesLeaveTraces, NoVote
<1> QED BY <1>1, <1>2

LEMMA LoginKeeps ==
  ASSUME PeopleInv, NEW who \in Person, Login(who)
  PROVE  PeopleInv'
<1> USE DEF PeopleInv
<1>1. /\ sessions' = [sessions EXCEPT ![who] = @ \cup {RoleOf(who)}]
      /\ founded' = founded \cup ({who} \cap (grouped \cup approvers))
      /\ UNCHANGED <<phase, signers, approvers, grouped, uses>>
  BY DEF Login, ticketVars
<1>2. sessions' \in [Person -> SUBSET Role]
  BY <1>1 DEF DoorTypes, RoleOf, Role
<1>3. SessionsAreFounded'
  <2> SUFFICES ASSUME NEW x \in Person, "approver" \in sessions'[x]
               PROVE  x \in founded'
    BY DEF SessionsAreFounded, MayApprove
  <2>1. CASE x = who
    BY <1>1, <2>1 DEF SessionsAreFounded, MayApprove, RoleOf, DoorTypes
  <2>2. CASE x # who
    BY <1>1, <2>2 DEF SessionsAreFounded, MayApprove, DoorTypes
  <2> QED BY <2>1, <2>2
<1> QED BY <1>1, <1>2, <1>3, StillIsNoVote, NoVoteKeeps DEF DoorTypes

LEMMA SessionEndKeeps ==
  ASSUME PeopleInv, NEW who \in Person, NEW role \in Role, SessionEnds(who, role)
  PROVE  PeopleInv'
<1> USE DEF PeopleInv
<1>1. /\ sessions' = [sessions EXCEPT ![who] = @ \ {role}]
      /\ founded' = IF role = "approver" THEN founded \ {who} ELSE founded
      /\ UNCHANGED <<phase, signers, approvers, grouped, uses>>
  BY DEF SessionEnds, ticketVars
<1>2. sessions' \in [Person -> SUBSET Role]
  BY <1>1 DEF DoorTypes
<1>3. SessionsAreFounded'
  BY <1>1 DEF SessionsAreFounded, MayApprove, DoorTypes
<1> QED BY <1>1, <1>2, <1>3, StillIsNoVote, NoVoteKeeps DEF DoorTypes

LEMMA RegroupKeeps ==
  ASSUME PeopleInv, NEW people \in Groups, Regroup(people)
  PROVE  PeopleInv'
<1> USE DEF PeopleInv
<1>1. /\ grouped' = people /\ people \in SUBSET Person
      /\ UNCHANGED <<phase, signers, approvers, sessions, founded, uses>>
  BY PeopleAssumption DEF Regroup, ticketVars
<1>2. SessionsAreFounded'
  BY <1>1 DEF SessionsAreFounded, MayApprove
<1> QED BY <1>1, <1>2, StillIsNoVote, NoVoteKeeps DEF DoorTypes

LEMMA ReconfigureKeeps ==
  ASSUME PeopleInv, NEW list \in Lists, NEW newSecret \in BOOLEAN,
         Reconfigure(list, newSecret)
  PROVE  PeopleInv'
<1> USE DEF PeopleInv
<1>1. /\ approvers' = list /\ list \in SUBSET Person
      /\ UNCHANGED <<phase, signers, grouped, uses>>
  BY PeopleAssumption DEF Reconfigure, ticketVars
<1>2. sessions' \in [Person -> SUBSET Role] /\ SessionsAreFounded'
  <2>1. CASE newSecret
    BY <2>1 DEF Reconfigure, SessionsAreFounded, MayApprove
  <2>2. CASE ~newSecret
    BY <2>2 DEF Reconfigure, SessionsAreFounded, MayApprove, DoorTypes
  <2> QED BY <2>1, <2>2
<1> QED BY <1>1, <1>2, StillIsNoVote, NoVoteKeeps DEF DoorTypes

LEMMA TicketStepKeeps ==
  ASSUME PeopleInv, NoVote, UNCHANGED <<approvers, grouped, sessions, founded, uses>>
  PROVE  PeopleInv'
<1>1. SessionsAreFounded'
  BY DEF PeopleInv, SessionsAreFounded, MayApprove
<1> QED BY <1>1, NoVoteKeeps DEF PeopleInv, DoorTypes

\* A vote in the portal, or one by a link that is counted.
LEMMA VoteKeeps ==
  ASSUME PeopleInv, NEW p \in Proposal, NEW who \in Person, NEW action \in LinkAction,
         Vote(p, who, action), UNCHANGED <<approvers, grouped, sessions, founded>>,
         uses' = uses \/ Used(p, who, action)
  PROVE  PeopleInv'
<1> USE DEF PeopleInv
<1>1. phase[p] = "proposed"
  BY DEF Vote
<1>2. <<p, who, action>> \in Link /\ uses[<<p, who, action>>] = 0
  BY <1>1 DEF Link, UsesLeaveTraces, Vote, LinkAction
<1>3. /\ uses'[<<p, who, action>>] \in {0, 1}
      /\ uses' \in [Link -> Nat]
      /\ \A l \in Link : l # <<p, who, action>> => uses'[l] = uses[l]
  BY <1>2 DEF Used, DoorTypes
<1>4. DoorTypes'
  BY <1>3 DEF DoorTypes, Vote, Phase
<1>5. SessionsAreFounded'
  BY DEF SessionsAreFounded, MayApprove
<1>6. UsesLeaveTraces'
  <2> SUFFICES ASSUME NEW q \in Proposal, NEW x \in Person
      PROVE  /\ uses'[<<q, x, "approve">>] \in {0, 1} /\ uses'[<<q, x, "reject">>] \in {0, 1}
             /\ uses'[<<q, x, "approve">>] = 1 => x \in signers'[q]
             /\ uses'[<<q, x, "reject">>] = 1 => phase'[q] = "refused"
    BY DEF UsesLeaveTraces
  <2>1. <<q, x, "approve">> \in Link /\ <<q, x, "reject">> \in Link
    BY DEF Link, LinkAction
  <2>2. /\ uses[<<q, x, "approve">>] \in {0, 1} /\ uses[<<q, x, "reject">>] \in {0, 1}
        /\ uses[<<q, x, "approve">>] = 1 => x \in signers[q]
        /\ uses[<<q, x, "reject">>] = 1 => phase[q] = "refused"
    BY DEF UsesLeaveTraces
  <2>3. CASE action = "approve"
    <3>1. uses'[<<q, x, "reject">>] = uses[<<q, x, "reject">>]
      BY <1>3, <2>1, <2>3
    <3>2. uses'[<<q, x, "approve">>] \in {0, 1}
      BY <1>3, <2>1, <2>2, <2>3
    <3>3. uses'[<<q, x, "approve">>] = 1 => x \in signers'[q]
      BY <1>3, <2>1, <2>2, <2>3 DEF Vote, DoorTypes
    <3>4. uses'[<<q, x, "reject">>] = 1 => phase'[q] = "refused"
      BY <1>1, <2>2, <2>3, <3>1 DEF Vote, DoorTypes
    <3> QED BY <2>2, <3>1, <3>2, <3>3, <3>4
  <2>4. CASE action = "reject"
    <3>1. uses'[<<q, x, "approve">>] = uses[<<q, x, "approve">>] /\ signers' = signers
      BY <1>3, <2>1, <2>4 DEF Vote
    <3>2. uses'[<<q, x, "reject">>] \in {0, 1}
      BY <1>3, <2>1, <2>2, <2>4
    <3>3. uses'[<<q, x, "reject">>] = 1 => phase'[q] = "refused"
      BY <1>3, <2>1, <2>2, <2>4 DEF Vote, DoorTypes
    <3> QED BY <2>2, <3>1, <3>2, <3>3
  <2> QED BY <2>3, <2>4 DEF LinkAction
<1> QED BY <1>4, <1>5, <1>6

-----------------------------------------------------------------------------
\* Every step casts no vote, or one vote of one entitled person.
VotesOf ==
  \/ NoVote
  \/ \E p \in Proposal, who \in Person, action \in LinkAction :
       Vote(p, who, action) /\ Entitled(p, who, action)

LEMMA PeopleStepKeeps ==
  ASSUME PeopleInv, [HumanNext]_humanVars
  PROVE  PeopleInv' /\ VotesOf
<1> USE DEF PeopleInv
<1>1. ASSUME NEW who \in Person, Login(who) PROVE PeopleInv' /\ VotesOf
  BY <1>1, LoginKeeps, StillIsNoVote DEF Login, ticketVars, VotesOf
<1>2. ASSUME NEW who \in Person, NEW role \in Role, SessionEnds(who, role)
      PROVE  PeopleInv' /\ VotesOf
  BY <1>2, SessionEndKeeps, StillIsNoVote DEF SessionEnds, ticketVars, VotesOf
<1>12. ASSUME NEW people \in Groups, Regroup(people) PROVE PeopleInv' /\ VotesOf
  BY <1>12, RegroupKeeps, StillIsNoVote DEF Regroup, ticketVars, VotesOf
<1>3. ASSUME NEW list \in Lists, NEW newSecret \in BOOLEAN, Reconfigure(list, newSecret)
      PROVE  PeopleInv' /\ VotesOf
  BY <1>3, ReconfigureKeeps, StillIsNoVote DEF Reconfigure, ticketVars, VotesOf
<1>4. ASSUME NEW p \in Proposal, NEW who, Open(p, who) PROVE PeopleInv' /\ VotesOf
  BY <1>4, OpeningIsNoVote, TicketStepKeeps DEF Open, VotesOf
<1>5. ASSUME NEW p \in Proposal, NEW new \in Proposal, NEW who, Edit(p, new, who)
      PROVE  PeopleInv' /\ VotesOf
  BY <1>5, EditingIsNoVote, TicketStepKeeps DEF Edit, doorVars, VotesOf
<1>6. ASSUME NEW p \in Proposal, Withdraw(p) PROVE PeopleInv' /\ VotesOf
  BY <1>6, DroppingIsNoVote, TicketStepKeeps DEF Withdraw, doorVars, VotesOf
<1>7. ASSUME NEW p \in Proposal, NEW who \in Person,
             ApproveInPortal(p, who) \/ RejectInPortal(p, who)
      PROVE  PeopleInv' /\ VotesOf
  <2>1. MayApprove(who) /\ UNCHANGED <<approvers, grouped, sessions, founded, uses>>
    BY <1>7 DEF ApproveInPortal, RejectInPortal, doorVars
  <2>3. PICK action \in LinkAction : Vote(p, who, action)
    BY <1>7, SigningIsAVote, RefusingIsAVote DEF ApproveInPortal, RejectInPortal, LinkAction
  <2>2. Entitled(p, who, action)
    BY <2>1 DEF Entitled, EntitledBySession, MayApprove, SessionsAreFounded
  <2> QED BY <2>1, <2>2, <2>3, VoteKeeps DEF VotesOf
<1>8. ASSUME NEW p \in Proposal, NEW who \in Person, NEW action \in LinkAction,
             ActByLink(p, who, action)
      PROVE  PeopleInv' /\ VotesOf
  <2>1. /\ UNCHANGED <<approvers, grouped, sessions, founded>> /\ Used(p, who, action)
        /\ EntitledByLink(p, who)
    BY <1>8 DEF ActByLink, LinkHolds, doorVars, EntitledByLink
  <2>2. Vote(p, who, action)
    BY <1>8, SigningIsAVote, RefusingIsAVote DEF ActByLink, LinkAction
  <2>3. uses'[<<p, who, action>>] = uses[<<p, who, action>>] + 1
    BY <2>1 DEF Used, DoorTypes, Link
  <2>4. uses[<<p, who, action>>] \in Nat
    BY DEF DoorTypes, Link
  <2>5. Entitled(p, who, action)
    BY <2>1, <2>3, <2>4 DEF Entitled
  <2> QED BY <2>1, <2>2, <2>5, VoteKeeps DEF VotesOf
<1>9. CASE Elsewhere
  BY <1>9, DroppingIsNoVote, RunningIsNoVote, TicketStepKeeps DEF Elsewhere, doorVars, VotesOf
<1>10. CASE UNCHANGED humanVars
  BY <1>10, StillIsNoVote, TicketStepKeeps DEF humanVars, ticketVars, doorVars, VotesOf
<1>11. CASE HumanNext
  BY <1>1, <1>2, <1>3, <1>4, <1>5, <1>6, <1>7, <1>8, <1>9, <1>11, <1>12
     DEF HumanNext, OpenInPortal, OpenByMcp, OpenByAgent, EditInPortal, EditByMcp,
         CloseInPortal, CloseByMcp
<1> QED BY <1>10, <1>11

\* Sessions and used links are always accounted for.
THEOREM PeopleInvariance == HumanSpec => []PeopleInv
<1>1. PeopleInv /\ [HumanNext]_humanVars => PeopleInv'
  BY PeopleStepKeeps
<1> QED BY <1>1, PeopleInit, PTL DEF HumanSpec

\* "Re-use is naturally blocked by service.py's own status/duplicate-approver guards"
\* (auth/approval_links.py): a link changes its ticket once at most, through any
\* sequence of edits, withdrawals, new lists and new secrets.
THEOREM LinksDecideOnce == HumanSpec => []LinkDecidesOnce
<1>1. ASSUME PeopleInv, NEW l \in Link
      PROVE  uses[l] <= 1
  <2>1. PICK p \in Proposal, who \in Person, action \in LinkAction : l = <<p, who, action>>
    BY DEF Link
  <2>2. /\ uses[<<p, who, "approve">>] \in {0, 1}
        /\ uses[<<p, who, "reject">>] \in {0, 1}
    BY <1>1 DEF PeopleInv, UsesLeaveTraces
  <2>3. CASE action = "approve"
    BY <2>1, <2>2, <2>3
  <2>4. CASE action = "reject"
    BY <2>1, <2>2, <2>4
  <2> QED BY <2>3, <2>4 DEF LinkAction
<1>2. PeopleInv => LinkDecidesOnce
  BY <1>1 DEF LinkDecidesOnce
<1> QED BY <1>2, PeopleInvariance, PTL

\* Every signature and every rejection is that of a person who was entitled to it at
\* that moment (api/auth.py, api/approval_link_actions.py).
THEOREM AllVotesAreEntitled == HumanSpec => VotesAreEntitled
<1>1. ASSUME PeopleInv, [HumanNext]_humanVars
      PROVE  [\A p \in Proposal :
                /\ \A who \in signers'[p] \ signers[p] : Entitled(p, who, "approve")
                /\ phase[p] = "proposed" /\ phase'[p] = "refused" =>
                     \E who \in Person :
                       Entitled(p, who, "reject") /\ (AllowSelf \/ author[p] # who)]_humanVars
  <2>1. VotesOf
    BY <1>1, PeopleStepKeeps
  <2>2. CASE NoVote
    BY <2>2 DEF NoVote
  <2>3. ASSUME NEW q \in Proposal, NEW x \in Person, NEW action \in LinkAction,
               Vote(q, x, action), Entitled(q, x, action)
        PROVE  \A p \in Proposal :
                 /\ \A who \in signers'[p] \ signers[p] : Entitled(p, who, "approve")
                 /\ phase[p] = "proposed" /\ phase'[p] = "refused" =>
                      \E who \in Person :
                        Entitled(p, who, "reject") /\ (AllowSelf \/ author[p] # who)
    BY <1>1, <2>3 DEF Vote, PeopleInv, DoorTypes
  <2> QED BY <2>1, <2>2, <2>3 DEF VotesOf
<1> QED BY <1>1, PeopleInvariance, PTL DEF HumanSpec, VotesAreEntitled

-----------------------------------------------------------------------------
(* The doors and the contract of the gate.                                 *)

Facts == INSTANCE GateContractProofs WITH None <- Nobody

\* The contract of HumanDoor is the one GateContractProofs is about.
LEMMA SameContract ==
  /\ Tickets!Init <=> Facts!Init
  /\ [Tickets!Next]_ticketVars =>
       [Tickets!Next]_Tickets!contractVars /\ [Facts!Next]_Facts!contractVars
<1>1. Tickets!Init <=> Facts!Init
  BY DEF Tickets!Init, Facts!Init
<1>2. Tickets!Next <=> Facts!Next
  BY DEF Tickets!Next, Tickets!Propose, Tickets!Sign, Tickets!MaySign, Tickets!Refuse,
         Tickets!MayDecide, Tickets!Drop, Tickets!Run, Tickets!Finish, Tickets!Inherit,
         Tickets!Move, Tickets!Cardinality,
         Facts!Next, Facts!Propose, Facts!Sign, Facts!MaySign, Facts!Refuse, Facts!MayDecide,
         Facts!Drop, Facts!Run, Facts!Finish, Facts!Inherit, Facts!Move, Facts!Cardinality
<1>3. UNCHANGED ticketVars => UNCHANGED Tickets!contractVars /\ UNCHANGED Facts!contractVars
  BY DEF Tickets!contractVars, Facts!contractVars, ticketVars
<1> QED BY <1>1, <1>2, <1>3

LEMMA DoorsTakeContractSteps ==
  ASSUME [HumanNext]_humanVars
  PROVE  [Tickets!Next]_ticketVars
<1>1. ASSUME NEW who \in Person, Login(who) \/ \E role \in Role : SessionEnds(who, role)
      PROVE  UNCHANGED ticketVars
  BY <1>1 DEF Login, SessionEnds
<1>2. ASSUME \/ \E people \in Groups : Regroup(people)
             \/ \E list \in Lists, newSecret \in BOOLEAN : Reconfigure(list, newSecret)
      PROVE  UNCHANGED ticketVars
  BY <1>2 DEF Regroup, Reconfigure
<1>3. ASSUME NEW p \in Proposal, NEW who \in Author, Open(p, who)
      PROVE  Tickets!Next
  BY <1>3 DEF Open, Tickets!Next
<1>4. ASSUME NEW p \in Proposal, NEW who \in Person, OpenInPortal(p, who) \/ OpenByMcp(p, who)
      PROVE  Tickets!Next
  BY <1>3, <1>4, PeopleAssumption DEF OpenInPortal, OpenByMcp
<1>5. ASSUME NEW p \in Proposal, NEW who \in Author, OpenByAgent(p, who)
      PROVE  Tickets!Next
  BY <1>3, <1>5 DEF OpenByAgent
<1>6. ASSUME NEW p \in Proposal, NEW new \in Proposal, NEW who \in Person,
             EditInPortal(p, new, who) \/ EditByMcp(p, new, who)
      PROVE  Tickets!Next
  BY <1>6 DEF EditInPortal, EditByMcp, Edit, Tickets!Next
<1>7. ASSUME NEW p \in Proposal, Withdraw(p)
      PROVE  Tickets!Next
  BY <1>7 DEF Withdraw, Tickets!Next
<1>8. ASSUME NEW p \in Proposal, NEW who \in Person,
             ApproveInPortal(p, who) \/ RejectInPortal(p, who) \/
               \E action \in LinkAction : ActByLink(p, who, action)
      PROVE  Tickets!Next
  <2>1. Tickets!Sign(p, who) \/ Tickets!Refuse(p, who)
    BY <1>8 DEF ApproveInPortal, RejectInPortal, ActByLink
  <2> QED BY <2>1 DEF Tickets!Next
<1>9. CASE Elsewhere
  BY <1>9 DEF Elsewhere, Tickets!Next
<1>10. CASE UNCHANGED humanVars
  BY <1>10 DEF humanVars
<1> QED BY <1>1, <1>2, <1>4, <1>5, <1>6, <1>7, <1>8, <1>9, <1>10
        DEF HumanNext, CloseInPortal, CloseByMcp

\* Whatever people do in the portal, by an IDE or by a link, the tickets take one step of
\* their contract at a time: the doors add no way of their own around it.
THEOREM DoorsKeepContract == HumanSpec => Tickets!Spec
<1>1. HumanInit => Tickets!Init
  BY DEF HumanInit
<1>2. [HumanNext]_humanVars => [Tickets!Next]_Tickets!contractVars
  BY DoorsTakeContractSteps, SameContract
<1> QED BY <1>1, <1>2, PTL DEF HumanSpec, Tickets!Spec

LEMMA ContractIsInvariant == HumanSpec => []Facts!ContractInv
<1>1. HumanInit => Facts!ContractInv
  BY SameContract, Facts!ContractInit DEF HumanInit
<1>2. Facts!ContractInv /\ [HumanNext]_humanVars => Facts!ContractInv'
  BY SameContract, DoorsTakeContractSteps, Facts!ContractStep
<1> QED BY <1>1, <1>2, PTL DEF HumanSpec

\* Through all the doors, nothing is cleared without enough signatures of others than its
\* author: who may use several of them has one vote.
THEOREM ClearedIsSigned == HumanSpec => []Tickets!SignedBeforeRun
<1>1. Facts!ContractInv => Tickets!SignedBeforeRun
  BY DEF Facts!ContractInv, Facts!SignedBeforeRun, Tickets!SignedBeforeRun,
         Facts!Enough, Tickets!Enough, Facts!Cardinality, Tickets!Cardinality
<1> QED BY <1>1, ContractIsInvariant, PTL

\* A click is its guard and one assignment to each variable: LinkCounts says when it may
\* be taken, whatever the state.
LEMMA ClickIsGuarded ==
  ASSUME NEW p \in Proposal, NEW who \in Person, NEW action \in LinkAction
  PROVE  ActByLink(p, who, action) <=>
           LET all == signers[p] \cup {who} IN
           /\ LinkCounts(p, who, action)
           /\ phase' = [phase EXCEPT ![p] =
                          IF action = "reject" THEN "refused"
                          ELSE IF Tickets!Cardinality(all) >= Required THEN "cleared"
                          ELSE "proposed"]
           /\ signers' = IF action = "approve" THEN [signers EXCEPT ![p] = all] ELSE signers
           /\ author' = author
           /\ heir' = heir
           /\ uses' = [uses EXCEPT ![<<p, who, action>>] = @ + 1]
           /\ UNCHANGED doorVars
<1>1. CASE action = "approve"
  BY <1>1 DEF ActByLink, LinkCounts, Used, Tickets!Sign, Tickets!Move
<1>2. CASE action = "reject"
  BY <1>2 DEF ActByLink, LinkCounts, Used, Tickets!Refuse, Tickets!Move
<1> QED BY <1>1, <1>2 DEF LinkAction

\* "The same checks approve_ticket/reject_ticket and the live-approver recheck would
\* apply" (approval_link_actions.py): the page of a link says what the click would do.
\* It looks for a successor, which the contract does not: what waits for votes has none.
THEOREM PreviewsAreHonest == HumanSpec => []PreviewIsHonest
<1>1. ASSUME Facts!ContractInv, NEW p \in Proposal, NEW who \in mailed[p],
             NEW action \in LinkAction
      PROVE  BlockedReason(p, who, action) = "none" <=> LinkCounts(p, who, action)
  <2>1. phase[p] = "proposed" => heir[p] = Nobody
    BY <1>1 DEF Facts!ContractInv, Facts!HeirsAreOwn
  <2>2. BlockedReason(p, who, action) = "none" <=>
          /\ heir[p] = Nobody /\ phase[p] = "proposed" /\ who \in approvers
          /\ AllowSelf \/ author[p] # who
          /\ action = "approve" => who \notin signers[p]
    BY DEF BlockedReason
  <2>3. LinkCounts(p, who, action) <=>
          /\ phase[p] = "proposed" /\ who \in approvers
          /\ AllowSelf \/ author[p] # who
          /\ action = "approve" => who \notin signers[p]
    BY DEF LinkCounts, LinkHolds, Tickets!MaySign, Tickets!MayDecide
  <2> QED BY <2>1, <2>2, <2>3
<1>2. Facts!ContractInv => PreviewIsHonest
  BY <1>1 DEF PreviewIsHonest
<1> QED BY <1>2, ContractIsInvariant, PTL

-----------------------------------------------------------------------------
(* The token verifier.                                                     *)

Age == 0 .. Aged
Waited == 0 .. MaxWait

KeyAsk == [state : {"keys"}, token : Token, wait : Waited]
KeyRead == [state : {"keysRead"}, token : Token, wait : Waited, keys : SUBSET Key]
UserAsk == [state : {"user"}, token : Opaque, wait : Waited]
UserRead == [state : {"userRead"}, token : Opaque, wait : Waited,
             address : Address \cup {NoAddress}]
UnderWay == KeyAsk \cup KeyRead \cup UserAsk \cup UserRead

Accepted == [state : {"accepted"}, token : Token, address : Address, wait : Waited]

TokenTypes ==
  /\ jwks \in [keys : SUBSET Key, age : Age]
  /\ DOMAIN addresses \subseteq Opaque
  /\ addresses \in [DOMAIN addresses -> [address : Address, age : Age]]
  /\ calls \in [Call -> {NoCall} \cup UnderWay]
  /\ published \in SUBSET Key
  /\ directory \in [Opaque -> Address \cup {NoAddress}]
  /\ keySince \in [Key -> Age]
  /\ nameSince \in [Opaque -> [Address -> Age]]
  /\ verdicts \in [Call -> {NoVerdict} \cup Accepted]

\* What the provider says now it has said this moment.
PresentIsNow ==
  /\ \A k \in published : keySince[k] = 0
  /\ \A t \in Opaque : directory[t] \in Address => nameSince[t][directory[t]] = 0

\* What is cached is not older than its time stamp makes it.
CachesAreTrue ==
  /\ \A k \in jwks.keys : keySince[k] <= jwks.age
  /\ \A t \in DOMAIN addresses : nameSince[t][addresses[t].address] <= addresses[t].age

\* What an answer brings is not older than the wait for it; a token whose address is
\* awaited was judged under keys of at most their lifetime when the wait began.
CallIsTrue(q) ==
  /\ q.state = "keysRead" => \A k \in q.keys : keySince[k] <= q.wait
  /\ q.state \in {"user", "userRead"} => keySince[KeyOf[q.token]] <= JwksTtl + q.wait
  /\ (q.state = "userRead" /\ q.address # NoAddress) =>
       nameSince[q.token][q.address] <= q.wait

CallsAreTrue == \A c \in Call : CallIsTrue(calls[c])

\* The two properties, of one verdict.
VerdictIsTrue(v) ==
  v # NoVerdict =>
    /\ keySince[KeyOf[v.token]] <= JwksTtl + v.wait
    /\ IF v.token \in Opaque
       THEN \/ nameSince[v.token][v.address] <= UserTtl
            \/ nameSince[v.token][v.address] <= v.wait
       ELSE v.address = Claim[v.token]

VerdictsAreTrue == \A c \in Call : VerdictIsTrue(verdicts[c])

TokenInv ==
  /\ TokenTypes
  /\ PresentIsNow
  /\ CachesAreTrue
  /\ CallsAreTrue
  /\ VerdictsAreTrue

-----------------------------------------------------------------------------
LEMMA Lifetimes ==
  /\ JwksTtl \in Nat /\ UserTtl \in Nat /\ MaxWait \in Nat /\ Aged \in Nat
  /\ UserTtl <= JwksTtl /\ MaxWait <= JwksTtl /\ JwksTtl + MaxWait < Aged
BY TokenAssumption DEF Aged

\* An age is a number, and time adds one to it at most.
LEMMA AgesGrow ==
  /\ \A n \in Age : n \in Nat /\ Aging(n) \in Age /\ Aging(n) <= n + 1
  /\ \A n, m \in Age : n <= m => Aging(n) <= Aging(m)
  /\ 0 \in Age
  /\ \A w \in Waited : w \in Nat /\ w \in Age
  /\ 0 \in Waited
BY Lifetimes DEF Age, Aging, Waited, Aged

LEMMA TokensHaveKeys ==
  /\ \A t \in Token : KeyOf[t] \in Key
  /\ Opaque \subseteq Token
  /\ \A t \in Token : t \notin Opaque => Claim[t] \in Address
  /\ NoAddress \notin Address
BY TokenAssumption DEF Opaque

LEMMA CallsDiffer ==
  /\ NoCall.state = "idle"
  /\ \A q \in KeyAsk : q.state = "keys"
  /\ \A q \in KeyRead : q.state = "keysRead"
  /\ \A q \in UserAsk : q.state = "user"
  /\ \A q \in UserRead : q.state = "userRead"
  /\ \A q \in UnderWay : q # NoCall
<1>1. NoCall.state = "idle"
  BY DEF NoCall
<1>2. \A q \in KeyAsk : q.state = "keys"
  BY DEF KeyAsk
<1>3. \A q \in KeyRead : q.state = "keysRead"
  BY DEF KeyRead
<1>4. \A q \in UserAsk : q.state = "user"
  BY DEF UserAsk
<1>5. \A q \in UserRead : q.state = "userRead"
  BY DEF UserRead
<1> QED BY <1>1, <1>2, <1>3, <1>4, <1>5 DEF UnderWay

LEMMA VerdictsDiffer ==
  /\ NoVerdict.state = "none"
  /\ \A v \in Accepted : v # NoVerdict
BY DEF NoVerdict, Accepted

\* What a call under way is, by its state.
LEMMA CallOf ==
  ASSUME TokenTypes, NEW c \in Call
  PROVE  /\ calls[c].state = "keys" => calls[c] \in KeyAsk
         /\ calls[c].state = "keysRead" => calls[c] \in KeyRead
         /\ calls[c].state = "user" => calls[c] \in UserAsk
         /\ calls[c].state = "userRead" => calls[c] \in UserRead
<1>1. calls[c] \in {NoCall} \cup UnderWay
  BY DEF TokenTypes
<1> QED BY <1>1, CallsDiffer DEF UnderWay

-----------------------------------------------------------------------------
(* One call changes, one verdict is given, and the provider and the clock  *)
(* stand still.                                                            *)

LEMMA NoCallIsTrue == CallIsTrue(NoCall)
BY CallsDiffer DEF CallIsTrue

LEMMA OneCall ==
  ASSUME TokenTypes, CallsAreTrue, NEW c \in Call, NEW q \in {NoCall} \cup UnderWay,
         CallIsTrue(q), calls' = [calls EXCEPT ![c] = q],
         UNCHANGED <<keySince, nameSince>>
  PROVE  /\ calls' \in [Call -> {NoCall} \cup UnderWay]
         /\ CallsAreTrue'
<1>1. calls' \in [Call -> {NoCall} \cup UnderWay]
  BY DEF TokenTypes
<1>2. \A d \in Call : calls'[d] = IF d = c THEN q ELSE calls[d]
  BY DEF TokenTypes
<1>3. \A d \in Call : CallIsTrue(calls[d])'
  BY <1>2 DEF CallsAreTrue, CallIsTrue
<1> QED BY <1>1, <1>3 DEF CallsAreTrue

LEMMA OneVerdict ==
  ASSUME TokenTypes, VerdictsAreTrue, NEW c \in Call, NEW v \in Accepted,
         VerdictIsTrue(v), verdicts' = [verdicts EXCEPT ![c] = v],
         UNCHANGED <<keySince, nameSince>>
  PROVE  /\ verdicts' \in [Call -> {NoVerdict} \cup Accepted]
         /\ VerdictsAreTrue'
<1>1. verdicts' \in [Call -> {NoVerdict} \cup Accepted]
  BY DEF TokenTypes
<1>2. \A d \in Call : verdicts'[d] = IF d = c THEN v ELSE verdicts[d]
  BY DEF TokenTypes
<1>3. \A d \in Call : VerdictIsTrue(verdicts[d])'
  BY <1>2 DEF VerdictsAreTrue, VerdictIsTrue
<1> QED BY <1>1, <1>3 DEF VerdictsAreTrue

LEMMA SameVerdicts ==
  ASSUME TokenTypes, VerdictsAreTrue, UNCHANGED <<verdicts, keySince, nameSince>>
  PROVE  /\ verdicts' \in [Call -> {NoVerdict} \cup Accepted]
         /\ VerdictsAreTrue'
BY DEF TokenTypes, VerdictsAreTrue, VerdictIsTrue

\* A token judged under keys that are not older than their lifetime.
LEMMA JudgeKeeps ==
  ASSUME TokenInv, NEW c \in Call, NEW t \in Token, NEW keys \in SUBSET Key,
         \A k \in keys : keySince[k] <= JwksTtl,
         Judge(c, t, keys), UNCHANGED <<keySince, nameSince>>
  PROVE  /\ calls' \in [Call -> {NoCall} \cup UnderWay]
         /\ verdicts' \in [Call -> {NoVerdict} \cup Accepted]
         /\ CallsAreTrue' /\ VerdictsAreTrue'
<1> USE DEF TokenInv
<1> DEFINE Given(address) == [state |-> "accepted", token |-> t, address |-> address, wait |-> 0]
<1>1. CASE Finish(c) /\ UNCHANGED verdicts
  BY <1>1, NoCallIsTrue, OneCall, SameVerdicts DEF Finish
<1>2. ASSUME NEW address \in Address, Decodes(t, keys), Accept(c, t, address, 0), Finish(c),
             t \in Opaque => nameSince[t][address] <= UserTtl,
             t \notin Opaque => address = Claim[t]
      PROVE  /\ calls' \in [Call -> {NoCall} \cup UnderWay]
             /\ verdicts' \in [Call -> {NoVerdict} \cup Accepted]
             /\ CallsAreTrue' /\ VerdictsAreTrue'
  <2>1. Given(address) \in Accepted
    BY AgesGrow DEF Accepted
  <2>2. VerdictIsTrue(Given(address))
    <3>1. keySince[KeyOf[t]] <= JwksTtl
      BY <1>2 DEF Decodes
    <3>2. keySince[KeyOf[t]] <= JwksTtl + 0
      BY <3>1, Lifetimes
    <3> QED BY <1>2, <3>2 DEF VerdictIsTrue
  <2>3. verdicts' = [verdicts EXCEPT ![c] = Given(address)]
    BY <1>2 DEF Accept
  <2>4. calls' = [calls EXCEPT ![c] = NoCall]
    BY <1>2 DEF Finish
  <2> HIDE DEF Given
  <2>5. verdicts' \in [Call -> {NoVerdict} \cup Accepted] /\ VerdictsAreTrue'
    BY <2>1, <2>2, <2>3, OneVerdict
  <2>6. calls' \in [Call -> {NoCall} \cup UnderWay] /\ CallsAreTrue'
    BY <2>4, NoCallIsTrue, OneCall
  <2> QED BY <2>5, <2>6
<1>3. CASE Decodes(t, keys) /\ t \notin Opaque /\ Accept(c, t, Claim[t], 0) /\ Finish(c)
  BY <1>2, <1>3, TokensHaveKeys
<1>4. CASE /\ Decodes(t, keys) /\ t \in Opaque /\ AddressIsFresh(t)
           /\ Accept(c, t, addresses[t].address, 0) /\ Finish(c)
  <2>1. /\ addresses[t] \in [address : Address, age : Age]
        /\ addresses[t].age <= UserTtl
        /\ nameSince[t][addresses[t].address] <= addresses[t].age
    BY <1>4 DEF AddressIsFresh, TokenTypes, CachesAreTrue
  <2>2. addresses[t].address \in Address /\ addresses[t].age \in Nat
    BY <2>1, AgesGrow
  <2>3. nameSince[t][addresses[t].address] \in Nat
    BY <1>4, <2>2, AgesGrow DEF TokenTypes
  <2>4. nameSince[t][addresses[t].address] <= UserTtl
    BY <2>1, <2>2, <2>3, Lifetimes
  <2> QED BY <1>2, <1>4, <2>2, <2>4
<1>5. CASE /\ Decodes(t, keys) /\ t \in Opaque
           /\ calls' = [calls EXCEPT ![c] = [state |-> "user", token |-> t, wait |-> 0]]
           /\ UNCHANGED verdicts
  <2> DEFINE q == [state |-> "user", token |-> t, wait |-> 0]
  <2>1. q \in UserAsk
    BY <1>5, AgesGrow DEF UserAsk
  <2>2. CallIsTrue(q)
    <3>1. keySince[KeyOf[t]] <= JwksTtl
      BY <1>5 DEF Decodes
    <3>2. keySince[KeyOf[t]] <= JwksTtl + 0
      BY <3>1, Lifetimes
    <3> QED BY <3>2 DEF CallIsTrue
  <2>3. calls' = [calls EXCEPT ![c] = q]
    BY <1>5
  <2> HIDE DEF q
  <2>4. calls' \in [Call -> {NoCall} \cup UnderWay] /\ CallsAreTrue'
    BY <2>1, <2>2, <2>3, OneCall DEF UnderWay
  <2> QED BY <1>5, <2>4, SameVerdicts
<1> QED BY <1>1, <1>3, <1>4, <1>5 DEF Judge

-----------------------------------------------------------------------------
LEMMA TokenInitEstablishes == TokenInit => TokenInv
<1> SUFFICES ASSUME TokenInit PROVE TokenInv
  OBVIOUS
<1> USE DEF TokenInit, FreshProcess
<1>1. TokenTypes
  <2>1. Aged \in Age /\ 0 \in Age
    BY Lifetimes DEF Age
  <2>2. keySince \in [Key -> Age] /\ nameSince \in [Opaque -> [Address -> Age]]
    BY <2>1
  <2> QED BY <2>1, <2>2 DEF TokenTypes
<1>2. PresentIsNow
  BY DEF PresentIsNow
<1>3. CachesAreTrue
  BY DEF CachesAreTrue
<1>4. CallsAreTrue
  BY NoCallIsTrue DEF CallsAreTrue
<1>5. VerdictsAreTrue
  BY DEF VerdictsAreTrue, VerdictIsTrue
<1> QED BY <1>1, <1>2, <1>3, <1>4, <1>5 DEF TokenInv

LEMMA VerifyKeeps ==
  ASSUME TokenInv, NEW c \in Call, NEW t \in Token, Verify(c, t)
  PROVE  TokenInv'
<1> USE DEF TokenInv
<1>1. /\ jwks.age <= JwksTtl /\ Judge(c, t, jwks.keys)
      /\ UNCHANGED <<jwks, addresses, published, directory, keySince, nameSince>>
  BY DEF Verify, KeysAreFresh
<1>2. jwks.keys \in SUBSET Key /\ jwks.age \in Nat
  BY AgesGrow DEF TokenTypes
<1>3. \A k \in jwks.keys : keySince[k] <= JwksTtl
  <2> TAKE k \in jwks.keys
  <2>1. keySince[k] \in Nat
    BY <1>2, AgesGrow DEF TokenTypes
  <2> QED BY <1>1, <1>2, <2>1, Lifetimes DEF CachesAreTrue
<1>4. /\ calls' \in [Call -> {NoCall} \cup UnderWay]
      /\ verdicts' \in [Call -> {NoVerdict} \cup Accepted]
      /\ CallsAreTrue' /\ VerdictsAreTrue'
  BY <1>1, <1>2, <1>3, JudgeKeeps
<1>5. TokenTypes'
  BY <1>1, <1>4 DEF TokenTypes
<1>6. PresentIsNow' /\ CachesAreTrue'
  BY <1>1 DEF PresentIsNow, CachesAreTrue
<1> QED BY <1>4, <1>5, <1>6

LEMMA FetchKeeps ==
  ASSUME TokenInv, NEW c \in Call, NEW t \in Token, FetchKeys(c, t)
  PROVE  TokenInv'
<1> USE DEF TokenInv
<1> DEFINE q == [state |-> "keys", token |-> t, wait |-> 0]
<1>1. /\ calls' = [calls EXCEPT ![c] = q]
      /\ UNCHANGED <<jwks, addresses, published, directory, keySince, nameSince, verdicts>>
  BY DEF FetchKeys
<1>2. q \in KeyAsk /\ CallIsTrue(q)
  BY AgesGrow DEF KeyAsk, CallIsTrue
<1> HIDE DEF q
<1>3. calls' \in [Call -> {NoCall} \cup UnderWay] /\ CallsAreTrue'
  BY <1>1, <1>2, OneCall DEF UnderWay
<1>4. TokenTypes' /\ VerdictsAreTrue'
  BY <1>1, <1>3, SameVerdicts DEF TokenTypes
<1>5. PresentIsNow' /\ CachesAreTrue'
  BY <1>1 DEF PresentIsNow, CachesAreTrue
<1> QED BY <1>3, <1>4, <1>5

LEMMA ReadKeeps ==
  ASSUME TokenInv, NEW c \in Call, ProviderReads(c)
  PROVE  TokenInv'
<1> USE DEF TokenInv
<1>1. UNCHANGED <<jwks, addresses, published, directory, keySince, nameSince, verdicts>>
  BY DEF ProviderReads
<1>2. PICK q \in UnderWay : CallIsTrue(q) /\ calls' = [calls EXCEPT ![c] = q]
  <2>1. CASE calls[c].state = "keys"
    <3> DEFINE q == [state |-> "keysRead", token |-> calls[c].token,
                     wait |-> calls[c].wait, keys |-> published]
    <3>1. calls[c] \in KeyAsk
      BY <2>1, CallOf
    <3>2. q \in KeyRead
      BY <3>1 DEF KeyAsk, KeyRead, TokenTypes
    <3>3. CallIsTrue(q)
      <4>1. calls[c].wait \in Nat
        BY <3>1, AgesGrow DEF KeyAsk
      <4> QED BY <4>1 DEF CallIsTrue, PresentIsNow
    <3>4. calls' = [calls EXCEPT ![c] = q]
      BY <2>1 DEF ProviderReads
    <3> QED BY <3>2, <3>3, <3>4 DEF UnderWay
  <2>2. CASE calls[c].state = "user"
    <3> DEFINE q == [state |-> "userRead", token |-> calls[c].token,
                     wait |-> calls[c].wait, address |-> directory[calls[c].token]]
    <3>1. calls[c] \in UserAsk
      BY <2>2, CallOf
    <3>2. /\ q \in UserRead /\ calls[c].wait \in Nat /\ calls[c].token \in Opaque
          /\ directory[calls[c].token] \in Address \cup {NoAddress}
      BY <3>1, AgesGrow DEF UserAsk, UserRead, TokenTypes
    <3>3. CallIsTrue(q)
      <4>1. keySince[KeyOf[calls[c].token]] <= JwksTtl + calls[c].wait
        BY <2>2 DEF CallsAreTrue, CallIsTrue
      <4>2. q.address # NoAddress => nameSince[q.token][q.address] <= q.wait
        <5>1. /\ q.token = calls[c].token /\ q.wait = calls[c].wait
              /\ q.address = directory[calls[c].token]
          OBVIOUS
        <5> HIDE DEF q
        <5> HAVE q.address # NoAddress
        <5>2. q.address \in Address
          BY <3>2, <5>1
        <5>3. nameSince[q.token][q.address] = 0
          BY <3>2, <5>1, <5>2 DEF PresentIsNow
        <5> QED BY <3>2, <5>1, <5>3
      <4> QED BY <4>1, <4>2 DEF CallIsTrue
    <3>4. calls' = [calls EXCEPT ![c] = q]
      BY <2>2 DEF ProviderReads
    <3> QED BY <3>2, <3>3, <3>4 DEF UnderWay
  <2> QED BY <2>1, <2>2 DEF ProviderReads
<1>3. calls' \in [Call -> {NoCall} \cup UnderWay] /\ CallsAreTrue'
  BY <1>1, <1>2, OneCall
<1>4. TokenTypes' /\ VerdictsAreTrue'
  BY <1>1, <1>3, SameVerdicts DEF TokenTypes
<1>5. PresentIsNow' /\ CachesAreTrue'
  BY <1>1 DEF PresentIsNow, CachesAreTrue
<1> QED BY <1>3, <1>4, <1>5

\* Older keys may overwrite newer ones, but their time stamp comes with them.
LEMMA KeysKeep ==
  ASSUME TokenInv, NEW c \in Call, KeysArrive(c)
  PROVE  TokenInv'
<1> USE DEF TokenInv
<1> DEFINE q == calls[c]
<1>1. /\ q.state = "keysRead" /\ jwks' = [keys |-> q.keys, age |-> q.wait]
      /\ Judge(c, q.token, q.keys)
      /\ UNCHANGED <<addresses, published, directory, keySince, nameSince>>
  BY DEF KeysArrive
<1>2. q \in KeyRead
  BY <1>1, CallOf
<1>3. q.token \in Token /\ q.keys \in SUBSET Key /\ q.wait \in Waited
  BY <1>2 DEF KeyRead
<1>4. \A k \in q.keys : keySince[k] <= q.wait
  BY <1>1 DEF CallsAreTrue, CallIsTrue
<1>5. \A k \in q.keys : keySince[k] <= JwksTtl
  <2> TAKE k \in q.keys
  <2>1. keySince[k] \in Nat
    BY <1>3, AgesGrow DEF TokenTypes
  <2>2. q.wait \in Nat /\ q.wait <= MaxWait
    BY <1>3, Lifetimes DEF Waited
  <2> QED BY <1>4, <2>1, <2>2, Lifetimes
<1>6. /\ calls' \in [Call -> {NoCall} \cup UnderWay]
      /\ verdicts' \in [Call -> {NoVerdict} \cup Accepted]
      /\ CallsAreTrue' /\ VerdictsAreTrue'
  BY <1>1, <1>3, <1>5, JudgeKeeps
<1> HIDE DEF q
<1>7. TokenTypes'
  <2>1. jwks' \in [keys : SUBSET Key, age : Age]
    BY <1>1, <1>3, AgesGrow
  <2> QED BY <1>1, <1>6, <2>1 DEF TokenTypes
<1>8. PresentIsNow'
  BY <1>1 DEF PresentIsNow
<1>9. CachesAreTrue'
  BY <1>1, <1>4 DEF CachesAreTrue
<1> QED BY <1>6, <1>7, <1>8, <1>9

LEMMA AddressKeeps ==
  ASSUME TokenInv, NEW c \in Call, AddressArrives(c)
  PROVE  TokenInv'
<1> USE DEF TokenInv
<1> DEFINE q == calls[c]
           given == [state |-> "accepted", token |-> q.token, address |-> q.address,
                     wait |-> q.wait]
<1>1. /\ q.state = "userRead" /\ calls' = [calls EXCEPT ![c] = NoCall]
      /\ UNCHANGED <<jwks, published, directory, keySince, nameSince>>
  BY DEF AddressArrives, Finish
<1>2. q \in UserRead
  BY <1>1, CallOf
<1>3. /\ q.token \in Opaque /\ q.token \in Token /\ q.wait \in Waited
      /\ q.address \in Address \cup {NoAddress}
  BY <1>2, TokensHaveKeys DEF UserRead
<1>4. calls' \in [Call -> {NoCall} \cup UnderWay] /\ CallsAreTrue'
  BY <1>1, NoCallIsTrue, OneCall
<1>5. PresentIsNow'
  BY <1>1 DEF PresentIsNow
<1>6. CASE q.address # NoAddress
  <2>1. /\ addresses' = Cached(q.token, q.address, q.wait)
        /\ verdicts' = [verdicts EXCEPT ![c] = given]
    BY <1>6 DEF AddressArrives, Accept
  <2>2. q.address \in Address /\ q.wait \in Age
    BY <1>3, <1>6, AgesGrow
  <2>3. nameSince[q.token][q.address] <= q.wait
    BY <1>1, <1>6 DEF CallsAreTrue, CallIsTrue
  <2>4. given \in Accepted
    BY <1>3, <2>2 DEF Accepted
  <2>5. VerdictIsTrue(given)
    <3>1. keySince[KeyOf[q.token]] <= JwksTtl + q.wait
      BY <1>1 DEF CallsAreTrue, CallIsTrue
    <3> QED BY <1>3, <2>3, <3>1 DEF VerdictIsTrue
  <2> HIDE DEF given, q
  <2>6. verdicts' \in [Call -> {NoVerdict} \cup Accepted] /\ VerdictsAreTrue'
    BY <1>1, <2>1, <2>4, <2>5, OneVerdict
  <2>7. /\ DOMAIN addresses' = DOMAIN addresses \cup {q.token}
        /\ \A t \in DOMAIN addresses' :
             addresses'[t] = IF t = q.token THEN [address |-> q.address, age |-> q.wait]
                             ELSE addresses[t]
    BY <2>1 DEF Cached
  <2>8. TokenTypes'
    <3>1. DOMAIN addresses' \subseteq Opaque
      BY <1>3, <2>7 DEF TokenTypes
    <3>2. \A t \in DOMAIN addresses' : addresses'[t] \in [address : Address, age : Age]
      BY <2>2, <2>7 DEF TokenTypes
    <3>3. addresses' \in [DOMAIN addresses' -> [address : Address, age : Age]]
      BY <2>1, <2>7, <3>2 DEF Cached
    <3> QED BY <1>1, <1>4, <2>6, <3>1, <3>3 DEF TokenTypes
  <2>9. CachesAreTrue'
    <3>1. \A k \in jwks'.keys : keySince'[k] <= jwks'.age
      BY <1>1 DEF CachesAreTrue
    <3>2. \A t \in DOMAIN addresses' :
            nameSince'[t][addresses'[t].address] <= addresses'[t].age
      <4> TAKE t \in DOMAIN addresses'
      <4>1. CASE t = q.token
        <5>1. addresses'[t].address = q.address /\ addresses'[t].age = q.wait
          BY <2>7, <4>1
        <5> QED BY <1>1, <2>3, <4>1, <5>1
      <4>2. CASE t # q.token
        BY <1>1, <2>7, <4>2 DEF CachesAreTrue
      <4> QED BY <4>1, <4>2
    <3> QED BY <3>1, <3>2 DEF CachesAreTrue
  <2> QED BY <1>4, <1>5, <2>6, <2>8, <2>9
<1>7. CASE q.address = NoAddress
  <2>1. UNCHANGED <<addresses, verdicts>>
    BY <1>7 DEF AddressArrives
  <2>2. TokenTypes' /\ VerdictsAreTrue'
    BY <1>1, <1>4, <2>1, SameVerdicts DEF TokenTypes
  <2>3. CachesAreTrue'
    BY <1>1, <2>1 DEF CachesAreTrue
  <2> QED BY <1>4, <1>5, <2>2, <2>3
<1> QED BY <1>6, <1>7

LEMMA FailKeeps ==
  ASSUME TokenInv, NEW c \in Call, ProviderFails(c)
  PROVE  TokenInv'
<1> USE DEF TokenInv
<1>1. /\ calls' = [calls EXCEPT ![c] = NoCall]
      /\ UNCHANGED <<jwks, addresses, published, directory, keySince, nameSince, verdicts>>
  BY DEF ProviderFails, Finish
<1>2. calls' \in [Call -> {NoCall} \cup UnderWay] /\ CallsAreTrue'
  BY <1>1, NoCallIsTrue, OneCall
<1>3. TokenTypes' /\ VerdictsAreTrue'
  BY <1>1, <1>2, SameVerdicts DEF TokenTypes
<1>4. PresentIsNow' /\ CachesAreTrue'
  BY <1>1 DEF PresentIsNow, CachesAreTrue
<1> QED BY <1>2, <1>3, <1>4

-----------------------------------------------------------------------------
(* The provider, the clock and the process.                                *)

\* Whatever the provider publishes or says anew makes what is known no older.
LEMMA NewsKeeps ==
  ASSUME TokenInv, UNCHANGED <<jwks, addresses, calls, verdicts>>,
         keySince' \in [Key -> Age], nameSince' \in [Opaque -> [Address -> Age]],
         \A k \in Key : keySince'[k] <= keySince[k],
         \A t \in Opaque, a \in Address : nameSince'[t][a] <= nameSince[t][a]
  PROVE  CachesAreTrue' /\ CallsAreTrue' /\ VerdictsAreTrue'
<1> USE DEF TokenInv
<1>1. \A k \in Key : keySince[k] \in Nat /\ keySince'[k] \in Nat
  BY AgesGrow DEF TokenTypes
<1>2. \A t \in Opaque, a \in Address : nameSince[t][a] \in Nat /\ nameSince'[t][a] \in Nat
  BY AgesGrow DEF TokenTypes
<1>3. \A k \in Key : \A n \in Nat : keySince[k] <= n => keySince'[k] <= n
  BY <1>1
<1>4. \A t \in Opaque, a \in Address : \A n \in Nat :
        nameSince[t][a] <= n => nameSince'[t][a] <= n
  BY <1>2
<1>5. CachesAreTrue'
  <2>1. jwks.keys \subseteq Key /\ jwks.age \in Nat
    BY AgesGrow DEF TokenTypes
  <2>2. \A t \in DOMAIN addresses :
          t \in Opaque /\ addresses[t].address \in Address /\ addresses[t].age \in Nat
    BY AgesGrow DEF TokenTypes
  <2> QED BY <1>3, <1>4, <2>1, <2>2 DEF CachesAreTrue
<1>6. CallsAreTrue'
  <2> SUFFICES ASSUME NEW c \in Call PROVE CallIsTrue(calls[c])'
    BY DEF CallsAreTrue
  <2>1. CallIsTrue(calls[c]) /\ calls'[c] = calls[c]
    BY DEF CallsAreTrue
  <2>2. calls[c].state = "keysRead" => \A k \in calls[c].keys : keySince'[k] <= calls[c].wait
    <3> HAVE calls[c].state = "keysRead"
    <3>1. calls[c] \in KeyRead
      BY CallOf
    <3>2. calls[c].keys \subseteq Key /\ calls[c].wait \in Nat
      BY <3>1, AgesGrow DEF KeyRead
    <3> QED BY <1>3, <2>1, <3>2 DEF CallIsTrue
  <2>3. calls[c].state \in {"user", "userRead"} =>
          /\ calls[c].token \in Opaque /\ KeyOf[calls[c].token] \in Key
          /\ calls[c].wait \in Nat /\ JwksTtl + calls[c].wait \in Nat
    <3> HAVE calls[c].state \in {"user", "userRead"}
    <3>1. calls[c] \in UserAsk \cup UserRead
      BY CallOf
    <3>2. calls[c].token \in Opaque /\ calls[c].wait \in Nat
      BY <3>1, AgesGrow DEF UserAsk, UserRead
    <3>3. \A n \in Nat : JwksTtl + n \in Nat
      BY Lifetimes
    <3> QED BY <3>2, <3>3, TokensHaveKeys
  <2>4. calls[c].state \in {"user", "userRead"} =>
          keySince'[KeyOf[calls[c].token]] <= JwksTtl + calls[c].wait
    BY <1>3, <2>1, <2>3 DEF CallIsTrue
  <2>5. (calls[c].state = "userRead" /\ calls[c].address # NoAddress) =>
          nameSince'[calls[c].token][calls[c].address] <= calls[c].wait
    <3> HAVE calls[c].state = "userRead" /\ calls[c].address # NoAddress
    <3>1. calls[c].address \in Address
      BY CallOf DEF UserRead
    <3> QED BY <1>4, <2>1, <2>3, <3>1 DEF CallIsTrue
  <2> QED BY <2>1, <2>2, <2>4, <2>5 DEF CallIsTrue
<1>7. VerdictsAreTrue'
  <2> SUFFICES ASSUME NEW c \in Call, verdicts[c] # NoVerdict
               PROVE  VerdictIsTrue(verdicts[c])'
    BY DEF VerdictsAreTrue, VerdictIsTrue
  <2>1. VerdictIsTrue(verdicts[c]) /\ verdicts'[c] = verdicts[c] /\ verdicts[c] \in Accepted
    BY DEF VerdictsAreTrue, TokenTypes
  <2>2. /\ verdicts[c].address \in Address /\ KeyOf[verdicts[c].token] \in Key
        /\ verdicts[c].wait \in Nat /\ JwksTtl + verdicts[c].wait \in Nat
    BY <2>1, AgesGrow, TokensHaveKeys, Lifetimes DEF Accepted
  <2>3. keySince'[KeyOf[verdicts[c].token]] <= JwksTtl + verdicts[c].wait
    BY <1>3, <2>1, <2>2 DEF VerdictIsTrue
  <2>4. CASE verdicts[c].token \in Opaque
    <3>1. \/ nameSince'[verdicts[c].token][verdicts[c].address] <= UserTtl
          \/ nameSince'[verdicts[c].token][verdicts[c].address] <= verdicts[c].wait
      BY <1>4, <2>1, <2>2, <2>4, Lifetimes DEF VerdictIsTrue
    <3> QED BY <2>1, <2>3, <2>4, <3>1 DEF VerdictIsTrue
  <2>5. CASE verdicts[c].token \notin Opaque
    BY <2>1, <2>3, <2>5 DEF VerdictIsTrue
  <2> QED BY <2>4, <2>5
<1> QED BY <1>5, <1>6, <1>7

LEMMA RotateKeeps ==
  ASSUME TokenInv, NEW keys \in SUBSET Key, Rotate(keys)
  PROVE  TokenInv'
<1> USE DEF TokenInv
<1>1. /\ published' = keys
      /\ keySince' = [k \in Key |-> IF k \in keys THEN 0 ELSE keySince[k]]
      /\ UNCHANGED <<jwks, addresses, calls, directory, nameSince, verdicts>>
  BY DEF Rotate
<1>2. keySince' \in [Key -> Age]
  BY <1>1, AgesGrow DEF TokenTypes
<1>3. \A k \in Key : keySince'[k] <= keySince[k]
  BY <1>1, AgesGrow DEF TokenTypes
<1>4. \A t \in Opaque, a \in Address : nameSince'[t][a] <= nameSince[t][a]
  BY <1>1, AgesGrow DEF TokenTypes
<1>5. TokenTypes'
  BY <1>1, <1>2 DEF TokenTypes
<1>6. PresentIsNow'
  BY <1>1 DEF PresentIsNow
<1>7. CachesAreTrue' /\ CallsAreTrue' /\ VerdictsAreTrue'
  <2>1. nameSince' \in [Opaque -> [Address -> Age]]
    BY <1>5 DEF TokenTypes
  <2> QED BY <1>1, <1>2, <1>3, <1>4, <2>1, NewsKeeps
<1> QED BY <1>5, <1>6, <1>7

LEMMA RenameKeeps ==
  ASSUME TokenInv, NEW t \in Opaque, NEW address \in Address \cup {NoAddress},
         Rename(t, address)
  PROVE  TokenInv'
<1> USE DEF TokenInv
<1>1. /\ directory' = [directory EXCEPT ![t] = address]
      /\ nameSince' = [nameSince EXCEPT ![t] =
           [a \in Address |-> IF a = address THEN 0 ELSE nameSince[t][a]]]
      /\ UNCHANGED <<jwks, addresses, calls, published, keySince, verdicts>>
  BY DEF Rename
<1>2. nameSince' \in [Opaque -> [Address -> Age]]
  <2>1. [a \in Address |-> IF a = address THEN 0 ELSE nameSince[t][a]] \in [Address -> Age]
    BY AgesGrow DEF TokenTypes
  <2> QED BY <1>1, <2>1 DEF TokenTypes
<1>3. \A u \in Opaque, a \in Address :
        nameSince'[u][a] = IF u = t /\ a = address THEN 0 ELSE nameSince[u][a]
  BY <1>1 DEF TokenTypes
<1>4. \A u \in Opaque, a \in Address : nameSince'[u][a] <= nameSince[u][a]
  <2>1. \A u \in Opaque, a \in Address : nameSince[u][a] \in Nat
    BY AgesGrow DEF TokenTypes
  <2> QED BY <1>3, <2>1
<1>5. \A k \in Key : keySince'[k] <= keySince[k]
  <2>1. \A k \in Key : keySince[k] \in Nat /\ keySince'[k] = keySince[k]
    BY <1>1, AgesGrow DEF TokenTypes
  <2> QED BY <2>1
<1>6. TokenTypes'
  BY <1>1, <1>2 DEF TokenTypes
<1>7. PresentIsNow'
  <2>1. \A k \in published' : keySince'[k] = 0
    BY <1>1 DEF PresentIsNow
  <2>2. \A u \in Opaque : directory'[u] = IF u = t THEN address ELSE directory[u]
    BY <1>1 DEF TokenTypes
  <2>3. \A u \in Opaque : directory'[u] \in Address => nameSince'[u][directory'[u]] = 0
    BY <1>3, <2>2 DEF PresentIsNow
  <2> QED BY <2>1, <2>3 DEF PresentIsNow
<1>8. CachesAreTrue' /\ CallsAreTrue' /\ VerdictsAreTrue'
  <2>1. keySince' \in [Key -> Age]
    BY <1>6 DEF TokenTypes
  <2> QED BY <1>1, <1>2, <1>4, <1>5, <2>1, NewsKeeps
<1> QED BY <1>6, <1>7, <1>8

\* A call that waits for one more unit of time.
LEMMA CallWaits ==
  ASSUME TokenTypes, NEW c \in Call, Wait, calls[c] # NoCall
  PROVE  /\ calls'[c].state = calls[c].state /\ calls'[c].token = calls[c].token
         /\ calls'[c].wait = calls[c].wait + 1 /\ calls'[c] \in UnderWay
         /\ calls[c].wait \in Nat
         /\ calls[c].state = "keysRead" => calls'[c].keys = calls[c].keys
         /\ calls[c].state = "userRead" => calls'[c].address = calls[c].address
<1>1. calls'[c] = [calls[c] EXCEPT !.wait = @ + 1] /\ calls[c].wait < MaxWait
  BY DEF Wait
<1>2. \A w \in Waited : w < MaxWait => w \in Nat /\ w + 1 \in Waited
  BY Lifetimes DEF Waited
<1>3. CASE calls[c] \in KeyAsk
  <2>1. PICK t \in Token, w \in Waited : calls[c] = [state |-> "keys", token |-> t, wait |-> w]
    BY <1>3 DEF KeyAsk
  <2>2. calls'[c] = [state |-> "keys", token |-> t, wait |-> w + 1] /\ w < MaxWait
    BY <1>1, <2>1
  <2> QED BY <1>2, <2>1, <2>2 DEF UnderWay, KeyAsk
<1>4. CASE calls[c] \in KeyRead
  <2>1. PICK t \in Token, w \in Waited, keys \in SUBSET Key :
          calls[c] = [state |-> "keysRead", token |-> t, wait |-> w, keys |-> keys]
    BY <1>4 DEF KeyRead
  <2>2. /\ calls'[c] = [state |-> "keysRead", token |-> t, wait |-> w + 1, keys |-> keys]
        /\ w < MaxWait
    BY <1>1, <2>1
  <2> QED BY <1>2, <2>1, <2>2 DEF UnderWay, KeyRead
<1>5. CASE calls[c] \in UserAsk
  <2>1. PICK t \in Opaque, w \in Waited : calls[c] = [state |-> "user", token |-> t, wait |-> w]
    BY <1>5 DEF UserAsk
  <2>2. calls'[c] = [state |-> "user", token |-> t, wait |-> w + 1] /\ w < MaxWait
    BY <1>1, <2>1
  <2> QED BY <1>2, <2>1, <2>2 DEF UnderWay, UserAsk
<1>6. CASE calls[c] \in UserRead
  <2>1. PICK t \in Opaque, w \in Waited, a \in Address \cup {NoAddress} :
          calls[c] = [state |-> "userRead", token |-> t, wait |-> w, address |-> a]
    BY <1>6 DEF UserRead
  <2>2. /\ calls'[c] = [state |-> "userRead", token |-> t, wait |-> w + 1, address |-> a]
        /\ w < MaxWait
    BY <1>1, <2>1
  <2> QED BY <1>2, <2>1, <2>2 DEF UnderWay, UserRead
<1> QED BY <1>3, <1>4, <1>5, <1>6 DEF TokenTypes, UnderWay

LEMMA WaitKeeps ==
  ASSUME TokenInv, Wait
  PROVE  TokenInv'
<1> USE DEF TokenInv
<1>1. \A k \in Key : /\ keySince[k] \in Age /\ keySince'[k] \in Age
                     /\ keySince'[k] <= Aging(keySince[k])
                     /\ keySince'[k] <= keySince[k] + 1
  <2> TAKE k \in Key
  <2>1. keySince[k] \in Age
    BY DEF TokenTypes
  <2>2. keySince'[k] = IF k \in published THEN 0 ELSE Aging(keySince[k])
    BY DEF Wait
  <2>3. Aging(keySince[k]) \in Nat
    BY <2>1, AgesGrow
  <2> QED BY <2>1, <2>2, <2>3, AgesGrow
<1>2. \A t \in Opaque, a \in Address :
        /\ nameSince[t][a] \in Age /\ nameSince'[t][a] \in Age
        /\ nameSince'[t][a] <= Aging(nameSince[t][a])
        /\ nameSince'[t][a] <= nameSince[t][a] + 1
  <2> TAKE t \in Opaque, a \in Address
  <2>1. nameSince[t][a] \in Age
    BY DEF TokenTypes
  <2>2. nameSince'[t][a] = IF directory[t] = a THEN 0 ELSE Aging(nameSince[t][a])
    BY DEF Wait
  <2>3. Aging(nameSince[t][a]) \in Nat
    BY <2>1, AgesGrow
  <2> QED BY <2>1, <2>2, <2>3, AgesGrow
<1>3. \A m, n, k \in Age : (k <= Aging(m) /\ m <= n) => k <= Aging(n)
  <2> TAKE m, n, k \in Age
  <2>1. Aging(m) \in Nat /\ Aging(n) \in Nat /\ k \in Nat
    BY AgesGrow
  <2>2. m <= n => Aging(m) <= Aging(n)
    BY AgesGrow
  <2> QED BY <2>1, <2>2
<1>4. jwks'.keys = jwks.keys /\ jwks'.age = Aging(jwks.age) /\ jwks.age \in Age
      /\ jwks.keys \subseteq Key
  BY DEF Wait, TokenTypes
<1>5. /\ DOMAIN addresses' = DOMAIN addresses
      /\ \A t \in DOMAIN addresses :
           /\ addresses'[t].address = addresses[t].address
           /\ addresses'[t].age = Aging(addresses[t].age)
           /\ addresses[t].address \in Address /\ addresses[t].age \in Age
           /\ t \in Opaque
  BY DEF Wait, TokenTypes
<1>6. TokenTypes'
  <2>1. jwks' \in [keys : SUBSET Key, age : Age]
    BY AgesGrow DEF Wait, TokenTypes
  <2>2. addresses' \in [DOMAIN addresses' -> [address : Address, age : Age]]
    BY AgesGrow DEF Wait, TokenTypes
  <2>3. calls' \in [Call -> {NoCall} \cup UnderWay]
    <3>1. \A c \in Call : calls'[c] \in {NoCall} \cup UnderWay
      <4> TAKE c \in Call
      <4>1. CASE calls[c] = NoCall
        BY <4>1 DEF Wait
      <4>2. CASE calls[c] # NoCall
        BY <4>2, CallWaits
      <4> QED BY <4>1, <4>2
    <3> QED BY <3>1 DEF Wait
  <2>4. keySince' \in [Key -> Age]
    BY <1>1 DEF Wait
  <2>5. nameSince' \in [Opaque -> [Address -> Age]]
    <3>1. nameSince' = [t \in Opaque |-> [a \in Address |->
                          IF directory[t] = a THEN 0 ELSE Aging(nameSince[t][a])]]
      BY DEF Wait
    <3>2. \A t \in Opaque : nameSince'[t] = [a \in Address |-> nameSince'[t][a]]
      BY <3>1
    <3>3. \A t \in Opaque : nameSince'[t] \in [Address -> Age]
      BY <1>2, <3>2
    <3> QED BY <3>1, <3>3
  <2>6. verdicts' \in [Call -> {NoVerdict} \cup Accepted]
    BY DEF Wait
  <2>7. /\ published' \in SUBSET Key /\ directory' \in [Opaque -> Address \cup {NoAddress}]
        /\ DOMAIN addresses' \subseteq Opaque
    BY <1>5 DEF Wait, TokenTypes
  <2> QED BY <2>1, <2>2, <2>3, <2>4, <2>5, <2>6, <2>7 DEF TokenTypes
<1>7. PresentIsNow'
  <2>1. \A k \in published' : keySince'[k] = 0
    BY DEF Wait, TokenTypes
  <2>2. \A t \in Opaque : directory'[t] \in Address => nameSince'[t][directory'[t]] = 0
    BY DEF Wait, TokenTypes
  <2> QED BY <2>1, <2>2 DEF PresentIsNow
<1>8. CachesAreTrue'
  <2>1. \A k \in jwks.keys : keySince'[k] <= Aging(jwks.age)
    BY <1>1, <1>3, <1>4 DEF CachesAreTrue
  <2>2. \A t \in DOMAIN addresses :
          nameSince'[t][addresses[t].address] <= Aging(addresses[t].age)
    BY <1>2, <1>3, <1>5 DEF CachesAreTrue
  <2> QED BY <1>4, <1>5, <2>1, <2>2 DEF CachesAreTrue
<1>9. CallsAreTrue'
  <2> SUFFICES ASSUME NEW c \in Call PROVE CallIsTrue(calls[c])'
    BY DEF CallsAreTrue
  <2>1. CASE calls[c] = NoCall
    <3>1. calls'[c] = NoCall
      BY <2>1 DEF Wait
    <3> QED BY <3>1, CallsDiffer DEF CallIsTrue
  <2>2. CASE calls[c] # NoCall
    <3> DEFINE q == calls[c]
    <3>1. CallIsTrue(q)
      BY DEF CallsAreTrue
    <3>2. /\ calls'[c].state = q.state /\ calls'[c].token = q.token
          /\ calls'[c].wait = q.wait + 1 /\ q.wait \in Nat
          /\ q.state = "keysRead" => calls'[c].keys = q.keys
          /\ q.state = "userRead" => calls'[c].address = q.address
      BY <2>2, CallWaits
    <3>3. \A k \in Key : \A n \in Nat : keySince[k] <= n => keySince'[k] <= n + 1
      BY <1>1, AgesGrow
    <3>4. q.state = "keysRead" => \A k \in q.keys : keySince'[k] <= q.wait + 1
      <4> HAVE q.state = "keysRead"
      <4>1. q \in KeyRead
        BY CallOf
      <4>2. q.keys \subseteq Key
        BY <4>1 DEF KeyRead
      <4> QED BY <3>1, <3>2, <3>3, <4>2 DEF CallIsTrue
    <3>5. q.state \in {"user", "userRead"} =>
            keySince'[KeyOf[q.token]] <= JwksTtl + (q.wait + 1)
      <4> HAVE q.state \in {"user", "userRead"}
      <4>1. q \in UserAsk \cup UserRead
        BY CallOf
      <4>2. KeyOf[q.token] \in Key
        BY <4>1, TokensHaveKeys DEF UserAsk, UserRead
      <4>3. keySince[KeyOf[q.token]] <= JwksTtl + q.wait
        BY <3>1 DEF CallIsTrue
      <4>4. JwksTtl + q.wait \in Nat /\ (JwksTtl + q.wait) + 1 = JwksTtl + (q.wait + 1)
        <5>1. q.wait \in Nat
          BY <3>2
        <5>2. \A n \in Nat : JwksTtl + n \in Nat /\ (JwksTtl + n) + 1 = JwksTtl + (n + 1)
          BY Lifetimes
        <5> QED BY <5>1, <5>2
      <4>5. keySince'[KeyOf[q.token]] <= (JwksTtl + q.wait) + 1
        BY <3>3, <4>2, <4>3, <4>4
      <4> QED BY <4>4, <4>5
    <3>6. (q.state = "userRead" /\ q.address # NoAddress) =>
            nameSince'[q.token][q.address] <= q.wait + 1
      <4> HAVE q.state = "userRead" /\ q.address # NoAddress
      <4>1. q \in UserRead
        BY CallOf
      <4>2. q.token \in Opaque /\ q.address \in Address
        BY <4>1 DEF UserRead
      <4>3. nameSince[q.token][q.address] <= q.wait
        BY <3>1 DEF CallIsTrue
      <4>4. nameSince[q.token][q.address] \in Nat /\ nameSince'[q.token][q.address] \in Nat
        BY <1>2, <4>2, AgesGrow
      <4>5. nameSince'[q.token][q.address] <= nameSince[q.token][q.address] + 1
        BY <1>2, <4>2
      <4>6. q.wait \in Nat
        BY <3>2
      <4>7. \A l, m, n \in Nat : (l <= m + 1 /\ m <= n) => l <= n + 1
        OBVIOUS
      <4> QED BY <4>3, <4>4, <4>5, <4>6, <4>7
    <3> HIDE DEF q
    <3> QED BY <3>2, <3>4, <3>5, <3>6 DEF CallIsTrue
  <2> QED BY <2>1, <2>2
<1>10. VerdictsAreTrue'
  BY DEF Wait, VerdictsAreTrue, VerdictIsTrue
<1> QED BY <1>6, <1>7, <1>8, <1>9, <1>10

LEMMA RebootKeeps ==
  ASSUME TokenInv, Reboot
  PROVE  TokenInv'
<1> USE DEF TokenInv
<1>1. /\ jwks' = [keys |-> {}, age |-> Aged] /\ addresses' = [t \in {} |-> NoVerdict]
      /\ calls' = [c \in Call |-> NoCall] /\ verdicts' = [c \in Call |-> NoVerdict]
      /\ UNCHANGED <<published, directory, keySince, nameSince>>
  BY DEF Reboot
<1>2. TokenTypes'
  <2>1. Aged \in Age
    BY Lifetimes DEF Age
  <2> QED BY <1>1, <2>1 DEF TokenTypes
<1>3. PresentIsNow' /\ CachesAreTrue' /\ VerdictsAreTrue'
  BY <1>1 DEF PresentIsNow, CachesAreTrue, VerdictsAreTrue, VerdictIsTrue
<1>4. CallsAreTrue'
  BY <1>1, CallsDiffer DEF CallsAreTrue, CallIsTrue
<1> QED BY <1>2, <1>3, <1>4

LEMMA TokenStutterKeeps ==
  ASSUME TokenInv, UNCHANGED tokenVars
  PROVE  TokenInv'
BY DEF TokenInv, tokenVars, TokenTypes, PresentIsNow, CachesAreTrue, CallsAreTrue,
   CallIsTrue, VerdictsAreTrue, VerdictIsTrue

LEMMA TokenStepKeeps == TokenInv /\ [TokenNext]_tokenVars => TokenInv'
<1> SUFFICES ASSUME TokenInv, [TokenNext]_tokenVars PROVE TokenInv'
  OBVIOUS
<1>1. ASSUME NEW c \in Call, NEW t \in Token, Verify(c, t) PROVE TokenInv'
  BY <1>1, VerifyKeeps
<1>2. ASSUME NEW c \in Call, NEW t \in Token, FetchKeys(c, t) PROVE TokenInv'
  BY <1>2, FetchKeeps
<1>3. ASSUME NEW c \in Call, ProviderReads(c) PROVE TokenInv'
  BY <1>3, ReadKeeps
<1>4. ASSUME NEW c \in Call, KeysArrive(c) PROVE TokenInv'
  BY <1>4, KeysKeep
<1>5. ASSUME NEW c \in Call, AddressArrives(c) PROVE TokenInv'
  BY <1>5, AddressKeeps
<1>6. ASSUME NEW c \in Call, ProviderFails(c) PROVE TokenInv'
  BY <1>6, FailKeeps
<1>7. ASSUME NEW keys \in SUBSET Key, Rotate(keys) PROVE TokenInv'
  BY <1>7, RotateKeeps
<1>8. ASSUME NEW t \in Opaque, NEW address \in Address \cup {NoAddress}, Rename(t, address)
      PROVE  TokenInv'
  BY <1>8, RenameKeeps
<1>9. CASE Wait
  BY <1>9, WaitKeeps
<1>10. CASE Reboot
  BY <1>10, RebootKeeps
<1>11. CASE UNCHANGED tokenVars
  BY <1>11, TokenStutterKeeps
<1> QED BY <1>1, <1>2, <1>3, <1>4, <1>5, <1>6, <1>7, <1>8, <1>9, <1>10, <1>11
        DEF TokenNext

\* What the caches and the calls under way hold is as recent as their time stamps say.
THEOREM TokenInvariance == TokenSpec => []TokenInv
BY TokenInitEstablishes, TokenStepKeeps, PTL DEF TokenSpec

\* A key withdrawn by the provider passes no token of verify_token for longer than the
\* cached keys live and one answer takes, in whatever order slow answers arrive.
THEOREM WithdrawnKeysLapse == TokenSpec => []WithdrawnKeyLapses
<1>1. TokenInv => WithdrawnKeyLapses
  BY DEF TokenInv, VerdictsAreTrue, VerdictIsTrue, WithdrawnKeyLapses
<1> QED BY <1>1, TokenInvariance, PTL

\* The person verify_token names is the token's own, or one the provider has given for
\* this very token no longer ago than a cached address lives or the answer took.
THEOREM SubjectsAreRecent == TokenSpec => []SubjectIsRecent
<1>1. TokenInv => SubjectIsRecent
  BY DEF TokenInv, VerdictsAreTrue, VerdictIsTrue, SubjectIsRecent
<1> QED BY <1>1, TokenInvariance, PTL

-----------------------------------------------------------------------------
(* The look-ups.                                                           *)

EntryAge == 0 .. Old

Sent == [state : {"sent"}, q : Question, wait : 0 .. MaxLatency]
Read == [state : {"read"}, q : Question, wait : 0 .. MaxLatency, items : Items]
Told == [state : {"told"}, q : Question, items : Items, wait : 0 .. MaxLatency]

DiscoveryTypes ==
  /\ account \in [Question -> Items]
  /\ since \in [Question -> [Items -> EntryAge]]
  /\ entries \in [DOMAIN entries -> [items : Items, age : EntryAge]]
  /\ asks \in [Session -> {NoAsk} \cup Sent \cup Read]
  /\ told \in [Session -> {NoAnswer} \cup Told]

\* What is true now has been true this moment.
PresentIsRecent == \A q \in Question : since[q][account[q]] = 0

\* A cached answer is not older than its time stamp makes it.
EntriesAreTrue ==
  \A q \in Question :
    CacheKey(q) \in DOMAIN entries =>
      since[q][entries[CacheKey(q)].items] <= entries[CacheKey(q)].age

\* What AWS has read is not older than the look-up.
ReadsAreTrue ==
  \A s \in Session :
    asks[s].state = "read" => since[asks[s].q][asks[s].items] <= asks[s].wait

DiscoveryInv ==
  /\ DiscoveryTypes
  /\ PresentIsRecent
  /\ EntriesAreTrue
  /\ ReadsAreTrue
  /\ AnswerIsRecent

-----------------------------------------------------------------------------
LEMMA Ages == CacheTtl \in Nat \ {0} /\ MaxLatency \in Nat /\ Old \in Nat
BY QuestionAssumption DEF Old

\* Two questions with one key are one question.
LEMMA KeyIsInjective ==
  ASSUME NEW q \in Question, NEW r \in Question, CacheKey(q) = CacheKey(r)
  PROVE  q = r
<1>1. /\ q \in [kind : Kind, region : Region, extra : Extra \cup {NoExtra}]
      /\ r \in [kind : Kind, region : Region, extra : Extra \cup {NoExtra}]
  BY QuestionAssumption
<1>2. q.extra = NoExtra <=> r.extra = NoExtra
  <2>1. \A a, b, x, y, z : <<a, b>> # <<x, y, z>>
    OBVIOUS
  <2> QED BY <2>1 DEF CacheKey
<1>3. q.kind = r.kind /\ q.region = r.region /\ q.extra = r.extra
  <2>1. CASE q.extra = NoExtra
    BY <1>2, <2>1 DEF CacheKey
  <2>2. CASE q.extra # NoExtra
    BY <1>2, <2>2 DEF CacheKey
  <2> QED BY <2>1, <2>2
<1> QED BY <1>1, <1>3

LEMMA StatesDiffer ==
  /\ NoAsk.state = "idle"
  /\ \A a \in Sent : a.state = "sent" /\ a # NoAsk
  /\ \A a \in Read : a.state = "read" /\ a # NoAsk
  /\ NoAnswer.state = "none"
  /\ \A a \in Told : a.state = "told" /\ a # NoAnswer
BY DEF NoAsk, Sent, Read, NoAnswer, Told

LEMMA CacheStarts == DiscoveryInit => DiscoveryInv
<1> SUFFICES ASSUME DiscoveryInit PROVE DiscoveryInv
  OBVIOUS
<1> USE DEF DiscoveryInit, EmptyCache
<1>1. DiscoveryTypes
  BY Ages DEF DiscoveryTypes, EntryAge
<1>2. PresentIsRecent
  BY DEF PresentIsRecent
<1>3. EntriesAreTrue
  BY DEF EntriesAreTrue
<1>4. ReadsAreTrue
  BY StatesDiffer DEF ReadsAreTrue
<1>5. AnswerIsRecent
  BY DEF AnswerIsRecent
<1> QED BY <1>1, <1>2, <1>3, <1>4, <1>5 DEF DiscoveryInv

-----------------------------------------------------------------------------
LEMMA HitKeeps ==
  ASSUME DiscoveryInv, NEW s \in Session, NEW q \in Question, AnswerFromCache(s, q)
  PROVE  DiscoveryInv'
<1> USE DEF DiscoveryInv
<1> DEFINE entry == entries[CacheKey(q)]
           answer == Answered(q, entry.items, 0)
<1>1. /\ CacheKey(q) \in DOMAIN entries /\ entry.age < CacheTtl
      /\ told' = [told EXCEPT ![s] = answer]
      /\ UNCHANGED <<entries, asks, account, since>>
  BY DEF AnswerFromCache, Fresh
<1>2. entry.items \in Items /\ entry.age \in Nat
  BY <1>1, Ages DEF DiscoveryTypes, EntryAge
<1>3. answer \in Told /\ answer.q = q /\ answer.items = entry.items
  BY <1>2, Ages DEF Answered, Told
<1>4. since[q][entry.items] < CacheTtl
  <2>1. since[q][entry.items] <= entry.age /\ since[q][entry.items] \in Nat
    BY <1>1, <1>2, Ages DEF EntriesAreTrue, DiscoveryTypes, EntryAge
  <2> QED BY <1>1, <1>2, <2>1, Ages
<1> HIDE DEF answer, entry
<1>5. DiscoveryTypes'
  BY <1>1, <1>3 DEF DiscoveryTypes
<1>6. PresentIsRecent' /\ EntriesAreTrue' /\ ReadsAreTrue'
  BY <1>1 DEF PresentIsRecent, EntriesAreTrue, ReadsAreTrue, CacheKey
<1>7. AnswerIsRecent'
  <2> SUFFICES ASSUME NEW t \in Session, told'[t] # NoAnswer
               PROVE  \/ since[told'[t].q][told'[t].items] < CacheTtl
                      \/ since[told'[t].q][told'[t].items] <= told'[t].wait
    BY <1>1 DEF AnswerIsRecent
  <2>1. CASE t = s
    BY <1>1, <1>3, <1>4, <2>1 DEF DiscoveryTypes
  <2>2. CASE t # s
    BY <1>1, <2>2 DEF DiscoveryTypes, AnswerIsRecent
  <2> QED BY <2>1, <2>2
<1> QED BY <1>5, <1>6, <1>7

LEMMA CallKeeps ==
  ASSUME DiscoveryInv, NEW s \in Session, NEW q \in Question, CallAws(s, q)
  PROVE  DiscoveryInv'
<1> USE DEF DiscoveryInv
<1> DEFINE ask == [state |-> "sent", q |-> q, wait |-> 0]
<1>1. asks' = [asks EXCEPT ![s] = ask] /\ UNCHANGED <<entries, account, since, told>>
  BY DEF CallAws
<1>2. ask \in Sent /\ ask.state = "sent"
  BY Ages DEF Sent
<1> HIDE DEF ask
<1>3. DiscoveryTypes'
  BY <1>1, <1>2 DEF DiscoveryTypes
<1>4. PresentIsRecent' /\ EntriesAreTrue' /\ AnswerIsRecent'
  BY <1>1 DEF PresentIsRecent, EntriesAreTrue, AnswerIsRecent, CacheKey
<1>5. ReadsAreTrue'
  BY <1>1, <1>2 DEF ReadsAreTrue, DiscoveryTypes
<1> QED BY <1>3, <1>4, <1>5

LEMMA AwsReadKeeps ==
  ASSUME DiscoveryInv, NEW s \in Session, AwsReads(s)
  PROVE  DiscoveryInv'
<1> USE DEF DiscoveryInv
<1> DEFINE a == asks[s]
           read == [state |-> "read", q |-> a.q, wait |-> a.wait, items |-> account[a.q]]
<1>1. /\ a.state = "sent" /\ asks' = [asks EXCEPT ![s] = read]
      /\ UNCHANGED <<entries, account, since, told>>
  BY DEF AwsReads
<1>2. a \in Sent
  BY <1>1, StatesDiffer DEF DiscoveryTypes
<1>3. a.q \in Question /\ a.wait \in 0 .. MaxLatency
  BY <1>2 DEF Sent
<1>4. read \in Read /\ read.q = a.q /\ read.items = account[a.q] /\ read.wait \in Nat
  BY <1>3, Ages DEF Read, DiscoveryTypes
<1> HIDE DEF read, a
<1>5. DiscoveryTypes'
  BY <1>1, <1>4 DEF DiscoveryTypes
<1>6. PresentIsRecent' /\ EntriesAreTrue' /\ AnswerIsRecent'
  BY <1>1 DEF PresentIsRecent, EntriesAreTrue, AnswerIsRecent, CacheKey
<1>7. ReadsAreTrue'
  <2>1. since[read.q][read.items] <= read.wait
    BY <1>3, <1>4 DEF PresentIsRecent
  <2> QED BY <1>1, <2>1 DEF ReadsAreTrue, DiscoveryTypes
<1> QED BY <1>5, <1>6, <1>7

LEMMA ReturnKeeps ==
  ASSUME DiscoveryInv, NEW s \in Session, AwsReturns(s)
  PROVE  DiscoveryInv'
<1> USE DEF DiscoveryInv
<1> DEFINE a == asks[s]
           key == CacheKey(a.q)
           entry == [items |-> a.items, age |-> a.wait]
           answer == Answered(a.q, a.items, a.wait)
<1>1. /\ a.state = "read" /\ asks' = [asks EXCEPT ![s] = NoAsk]
      /\ entries' = [k \in DOMAIN entries \cup {key} |-> IF k = key THEN entry ELSE entries[k]]
      /\ told' = [told EXCEPT ![s] = answer]
      /\ UNCHANGED <<account, since>>
  BY DEF AwsReturns, Stamp
<1>2. a \in Read
  BY <1>1, StatesDiffer DEF DiscoveryTypes
<1>3. a.q \in Question /\ a.wait \in 0 .. MaxLatency /\ a.items \in Items
  BY <1>2 DEF Read
<1>4. since[a.q][a.items] <= a.wait
  BY <1>1 DEF ReadsAreTrue
<1>5. /\ answer \in Told
      /\ answer.q = a.q /\ answer.items = a.items /\ answer.wait = a.wait
  BY <1>3 DEF Told, Answered
<1>6. entry \in [items : Items, age : EntryAge] /\ entry.items = a.items /\ entry.age = a.wait
  BY <1>3, Ages DEF EntryAge, Old
<1>7. key = CacheKey(a.q)
  OBVIOUS
<1> HIDE DEF answer, entry, a, key
<1>8. DiscoveryTypes'
  BY <1>1, <1>5, <1>6 DEF DiscoveryTypes
<1>9. PresentIsRecent'
  BY <1>1 DEF PresentIsRecent
<1>10. EntriesAreTrue'
  <2> SUFFICES ASSUME NEW q \in Question, CacheKey(q) \in DOMAIN entries'
               PROVE  since[q][entries'[CacheKey(q)].items] <= entries'[CacheKey(q)].age
    BY <1>1 DEF EntriesAreTrue, CacheKey
  <2>1. CASE CacheKey(q) = key
    <3>1. q = a.q
      BY <1>3, <1>7, <2>1, KeyIsInjective
    <3> QED BY <1>1, <1>4, <1>6, <2>1, <3>1
  <2>2. CASE CacheKey(q) # key
    BY <1>1, <2>2 DEF EntriesAreTrue
  <2> QED BY <2>1, <2>2
<1>11. ReadsAreTrue'
  BY <1>1, StatesDiffer DEF ReadsAreTrue, DiscoveryTypes
<1>12. AnswerIsRecent'
  <2> SUFFICES ASSUME NEW t \in Session, told'[t] # NoAnswer
               PROVE  \/ since[told'[t].q][told'[t].items] < CacheTtl
                      \/ since[told'[t].q][told'[t].items] <= told'[t].wait
    BY <1>1 DEF AnswerIsRecent
  <2>1. CASE t = s
    BY <1>1, <1>4, <1>5, <2>1 DEF DiscoveryTypes
  <2>2. CASE t # s
    BY <1>1, <2>2 DEF DiscoveryTypes, AnswerIsRecent
  <2> QED BY <2>1, <2>2
<1> QED BY <1>8, <1>9, <1>10, <1>11, <1>12

LEMMA AwsFailKeeps ==
  ASSUME DiscoveryInv, NEW s \in Session, AwsFails(s)
  PROVE  DiscoveryInv'
<1> USE DEF DiscoveryInv
<1>1. asks' = [asks EXCEPT ![s] = NoAsk] /\ UNCHANGED <<entries, account, since, told>>
  BY DEF AwsFails
<1>2. DiscoveryTypes'
  BY <1>1 DEF DiscoveryTypes
<1>3. PresentIsRecent' /\ EntriesAreTrue' /\ AnswerIsRecent'
  BY <1>1 DEF PresentIsRecent, EntriesAreTrue, AnswerIsRecent, CacheKey
<1>4. ReadsAreTrue'
  BY <1>1, StatesDiffer DEF ReadsAreTrue, DiscoveryTypes
<1> QED BY <1>2, <1>3, <1>4

\* Of what was true when, a change of the account only adds that something is true now.
LEMMA ChangeKeeps ==
  ASSUME DiscoveryInv, NEW q \in Question, NEW new \in Items, AccountChanges(q, new)
  PROVE  DiscoveryInv'
<1> USE DEF DiscoveryInv
<1>1. /\ account' = [account EXCEPT ![q] = new] /\ since' = [since EXCEPT ![q][new] = 0]
      /\ UNCHANGED <<entries, asks, told>>
  BY DEF AccountChanges
<1>2. DiscoveryTypes'
  BY <1>1, Ages DEF DiscoveryTypes, EntryAge
<1>3. \A r \in Question, i \in Items :
        since[r][i] \in Nat /\ since'[r][i] \in Nat /\ since'[r][i] <= since[r][i]
  BY <1>1, Ages DEF DiscoveryTypes, EntryAge
<1>4. PresentIsRecent'
  <2> SUFFICES ASSUME NEW r \in Question PROVE since'[r][account'[r]] = 0
    BY DEF PresentIsRecent
  <2>1. CASE r = q
    BY <1>1, <2>1 DEF DiscoveryTypes
  <2>2. CASE r # q
    BY <1>1, <2>2 DEF DiscoveryTypes, PresentIsRecent
  <2> QED BY <2>1, <2>2
<1>5. EntriesAreTrue'
  <2> SUFFICES ASSUME NEW r \in Question, CacheKey(r) \in DOMAIN entries
               PROVE  since'[r][entries[CacheKey(r)].items] <= entries[CacheKey(r)].age
    BY <1>1 DEF EntriesAreTrue, CacheKey
  <2>1. entries[CacheKey(r)].items \in Items /\ entries[CacheKey(r)].age \in Nat
    BY Ages DEF DiscoveryTypes, EntryAge
  <2>2. since[r][entries[CacheKey(r)].items] <= entries[CacheKey(r)].age
    BY DEF EntriesAreTrue
  <2> QED BY <1>3, <2>1, <2>2
<1>6. ReadsAreTrue'
  <2> SUFFICES ASSUME NEW s \in Session, asks[s].state = "read"
               PROVE  since'[asks[s].q][asks[s].items] <= asks[s].wait
    BY <1>1 DEF ReadsAreTrue
  <2>1. asks[s] \in Read
    BY StatesDiffer DEF DiscoveryTypes
  <2>2. asks[s].q \in Question /\ asks[s].items \in Items /\ asks[s].wait \in Nat
    BY <2>1, Ages DEF Read
  <2>3. since[asks[s].q][asks[s].items] <= asks[s].wait
    BY DEF ReadsAreTrue
  <2> QED BY <1>3, <2>2, <2>3
<1>7. AnswerIsRecent'
  <2> SUFFICES ASSUME NEW s \in Session, told[s] # NoAnswer
               PROVE  \/ since'[told[s].q][told[s].items] < CacheTtl
                      \/ since'[told[s].q][told[s].items] <= told[s].wait
    BY <1>1 DEF AnswerIsRecent
  <2>1. told[s] \in Told
    BY DEF DiscoveryTypes
  <2>2. told[s].q \in Question /\ told[s].items \in Items /\ told[s].wait \in Nat
    BY <2>1, Ages DEF Told
  <2>3. \/ since[told[s].q][told[s].items] < CacheTtl
        \/ since[told[s].q][told[s].items] <= told[s].wait
    BY DEF AnswerIsRecent
  <2> QED BY <1>3, <2>2, <2>3, Ages
<1> QED BY <1>2, <1>4, <1>5, <1>6, <1>7

\* Everything grows older together.
LEMMA TimeKeeps ==
  ASSUME DiscoveryInv, TimePasses
  PROVE  DiscoveryInv'
<1> USE DEF DiscoveryInv
<1>1. \A s \in Session :
        /\ asks[s] = NoAsk => asks'[s] = NoAsk
        /\ asks[s] # NoAsk => /\ asks'[s] = [asks[s] EXCEPT !.wait = @ + 1]
                              /\ asks[s].wait < MaxLatency
  BY DEF TimePasses
<1>2. \A n \in EntryAge : Older(n) \in EntryAge /\ n <= Older(n) /\ Older(n) <= n + 1
  BY Ages DEF EntryAge, Older
<1>3. \A n, m \in EntryAge : n <= m => Older(n) <= Older(m)
  BY Ages DEF EntryAge, Older
<1>4. \A q \in Question, i \in Items :
        since[q][i] \in EntryAge /\ since'[q][i] \in EntryAge /\ since'[q][i] <= Older(since[q][i])
  <2> TAKE q \in Question, i \in Items
  <2>1. since[q][i] \in EntryAge
    BY DEF DiscoveryTypes
  <2>2. since'[q][i] = IF account[q] = i THEN 0 ELSE Older(since[q][i])
    BY DEF TimePasses
  <2>3. 0 \in EntryAge
    BY Ages DEF EntryAge
  <2>4. \A n \in EntryAge : n \in Nat
    BY Ages DEF EntryAge
  <2> QED BY <1>2, <2>1, <2>2, <2>3, <2>4
<1>5. DOMAIN entries' = DOMAIN entries /\ \A k \in DOMAIN entries :
        entries'[k].items = entries[k].items /\ entries'[k].age = Older(entries[k].age)
  BY DEF TimePasses, DiscoveryTypes
<1>6. \A s \in Session : asks[s].state = "read" =>
        /\ asks[s] \in Read /\ asks'[s] \in Read
        /\ asks'[s].state = "read" /\ asks'[s].q = asks[s].q
        /\ asks'[s].items = asks[s].items /\ asks'[s].wait = asks[s].wait + 1
  <2> TAKE s \in Session
  <2> HAVE asks[s].state = "read"
  <2>1. asks[s] \in Read
    BY StatesDiffer DEF DiscoveryTypes
  <2>2. asks'[s] = [asks[s] EXCEPT !.wait = @ + 1] /\ asks[s].wait < MaxLatency
    BY <1>1, <2>1, StatesDiffer
  <2>3. PICK q \in Question, w \in 0 .. MaxLatency, i \in Items :
          asks[s] = [state |-> "read", q |-> q, wait |-> w, items |-> i]
    BY <2>1 DEF Read
  <2>4. asks'[s] = [state |-> "read", q |-> q, wait |-> w + 1, items |-> i]
    BY <2>2, <2>3
  <2>5. w + 1 \in 0 .. MaxLatency
    BY <2>2, <2>3, Ages
  <2>6. asks'[s] \in Read
    BY <2>3, <2>4, <2>5 DEF Read
  <2> QED BY <2>1, <2>3, <2>4, <2>6
<1>7. DiscoveryTypes'
  <2>1. account' \in [Question -> Items]
    BY DEF TimePasses, DiscoveryTypes
  <2>2. since' \in [Question -> [Items -> EntryAge]]
    <3>1. since' = [q \in Question |-> [i \in Items |->
                      IF account[q] = i THEN 0 ELSE Older(since[q][i])]]
      BY DEF TimePasses
    <3>2. \A q \in Question : since'[q] = [i \in Items |-> since'[q][i]]
      BY <3>1
    <3>3. \A q \in Question : since'[q] \in [Items -> EntryAge]
      BY <1>4, <3>2
    <3> QED BY <3>1, <3>3
  <2>3. entries' \in [DOMAIN entries' -> [items : Items, age : EntryAge]]
    BY <1>2 DEF TimePasses, DiscoveryTypes
  <2>4. asks' \in [Session -> {NoAsk} \cup Sent \cup Read]
    <3>1. \A s \in Session : asks'[s] \in {NoAsk} \cup Sent \cup Read
      <4> TAKE s \in Session
      <4>1. CASE asks[s] = NoAsk
        BY <1>1, <4>1
      <4>2. CASE asks[s] \in Sent
        <5>1. asks'[s] = [asks[s] EXCEPT !.wait = @ + 1] /\ asks[s].wait < MaxLatency
          BY <1>1, <4>2, StatesDiffer
        <5>2. PICK q \in Question, w \in 0 .. MaxLatency :
                asks[s] = [state |-> "sent", q |-> q, wait |-> w]
          BY <4>2 DEF Sent
        <5>3. asks'[s] = [state |-> "sent", q |-> q, wait |-> w + 1]
          BY <5>1, <5>2
        <5>4. w + 1 \in 0 .. MaxLatency
          BY <5>1, <5>2, Ages
        <5> QED BY <5>3, <5>4 DEF Sent
      <4>3. CASE asks[s] \in Read
        BY <1>6, <4>3, StatesDiffer
      <4> QED BY <4>1, <4>2, <4>3 DEF DiscoveryTypes
    <3> QED BY <3>1 DEF TimePasses
  <2>5. told' \in [Session -> {NoAnswer} \cup Told]
    BY DEF TimePasses
  <2> QED BY <2>1, <2>2, <2>3, <2>4, <2>5 DEF DiscoveryTypes
<1>8. PresentIsRecent'
  BY DEF TimePasses, PresentIsRecent, DiscoveryTypes
<1>9. EntriesAreTrue'
  <2> SUFFICES ASSUME NEW q \in Question, CacheKey(q) \in DOMAIN entries
               PROVE  since'[q][entries'[CacheKey(q)].items] <= entries'[CacheKey(q)].age
    BY <1>5 DEF EntriesAreTrue, CacheKey
  <2> DEFINE k == CacheKey(q)
  <2>1. entries[k].items \in Items /\ entries[k].age \in EntryAge
    BY DEF DiscoveryTypes
  <2>2. since[q][entries[k].items] <= entries[k].age
    BY DEF EntriesAreTrue
  <2>3. since'[q][entries[k].items] <= Older(since[q][entries[k].items])
    BY <1>4, <2>1
  <2>4. Older(since[q][entries[k].items]) <= Older(entries[k].age)
    BY <1>3, <1>4, <2>1, <2>2
  <2>5. \A n \in EntryAge : n \in Int /\ Older(n) \in Int
    BY Ages DEF EntryAge, Older
  <2>6. /\ since'[q][entries[k].items] \in Int
        /\ Older(since[q][entries[k].items]) \in Int /\ Older(entries[k].age) \in Int
    BY <1>4, <2>1, <2>5
  <2>7. since'[q][entries[k].items] <= Older(entries[k].age)
    BY <2>3, <2>4, <2>6
  <2> QED BY <1>5, <2>7
<1>10. ReadsAreTrue'
  <2> SUFFICES ASSUME NEW s \in Session, asks'[s].state = "read"
               PROVE  since'[asks'[s].q][asks'[s].items] <= asks'[s].wait
    BY DEF ReadsAreTrue
  <2>1. asks[s].state = "read"
    <3>1. CASE asks[s] = NoAsk
      BY <1>1, <3>1, StatesDiffer
    <3>2. CASE asks[s] \in Sent
      BY <1>1, <3>2, StatesDiffer DEF Sent
    <3>3. CASE asks[s] \in Read
      BY <3>3, StatesDiffer
    <3> QED BY <3>1, <3>2, <3>3 DEF DiscoveryTypes
  <2>2. asks[s].q \in Question /\ asks[s].items \in Items /\ asks[s].wait \in Nat
    BY <1>6, <2>1, Ages DEF Read
  <2>3. since[asks[s].q][asks[s].items] <= asks[s].wait
    BY <2>1 DEF ReadsAreTrue
  <2>4. \A n \in EntryAge : n \in Int /\ Older(n) \in Int
    BY Ages DEF EntryAge, Older
  <2>5. since'[asks[s].q][asks[s].items] <= since[asks[s].q][asks[s].items] + 1
    BY <1>2, <1>4, <2>2, <2>4
  <2>6. since'[asks[s].q][asks[s].items] <= asks[s].wait + 1
    BY <1>4, <2>2, <2>3, <2>4, <2>5
  <2> QED BY <1>6, <2>1, <2>6
<1>11. AnswerIsRecent'
  BY DEF TimePasses, AnswerIsRecent
<1> QED BY <1>7, <1>8, <1>9, <1>10, <1>11

LEMMA RestartKeeps ==
  ASSUME DiscoveryInv, ProcessRestarts
  PROVE  DiscoveryInv'
<1> USE DEF DiscoveryInv, ProcessRestarts
<1>1. DiscoveryTypes'
  BY DEF DiscoveryTypes
<1>2. PresentIsRecent' /\ EntriesAreTrue' /\ AnswerIsRecent'
  BY DEF PresentIsRecent, EntriesAreTrue, AnswerIsRecent
<1>3. ReadsAreTrue'
  BY StatesDiffer DEF ReadsAreTrue
<1> QED BY <1>1, <1>2, <1>3

LEMMA CacheStutters ==
  ASSUME DiscoveryInv, UNCHANGED discoveryVars
  PROVE  DiscoveryInv'
BY DEF DiscoveryInv, discoveryVars, DiscoveryTypes, PresentIsRecent, EntriesAreTrue,
   ReadsAreTrue, AnswerIsRecent, CacheKey

LEMMA CacheSteps == DiscoveryInv /\ [DiscoveryNext]_discoveryVars => DiscoveryInv'
<1> SUFFICES ASSUME DiscoveryInv, [DiscoveryNext]_discoveryVars PROVE DiscoveryInv'
  OBVIOUS
<1>1. ASSUME NEW s \in Session, NEW q \in Question, AnswerFromCache(s, q)
      PROVE  DiscoveryInv'
  BY <1>1, HitKeeps
<1>2. ASSUME NEW s \in Session, NEW q \in Question, CallAws(s, q) PROVE DiscoveryInv'
  BY <1>2, CallKeeps
<1>3. ASSUME NEW s \in Session, AwsReads(s) PROVE DiscoveryInv'
  BY <1>3, AwsReadKeeps
<1>4. ASSUME NEW s \in Session, AwsReturns(s) PROVE DiscoveryInv'
  BY <1>4, ReturnKeeps
<1>5. ASSUME NEW s \in Session, AwsFails(s) PROVE DiscoveryInv'
  BY <1>5, AwsFailKeeps
<1>6. ASSUME NEW q \in Question, NEW new \in Items, AccountChanges(q, new)
      PROVE  DiscoveryInv'
  BY <1>6, ChangeKeeps
<1>7. CASE TimePasses
  BY <1>7, TimeKeeps
<1>8. CASE ProcessRestarts
  BY <1>8, RestartKeeps
<1>9. CASE UNCHANGED discoveryVars
  BY <1>9, CacheStutters
<1> QED BY <1>1, <1>2, <1>3, <1>4, <1>5, <1>6, <1>7, <1>8, <1>9 DEF DiscoveryNext

\* What the cache and the look-ups under way hold is as recent as their time stamps say.
THEOREM DiscoveryInvariance == DiscoverySpec => []DiscoveryInv
BY CacheStarts, CacheSteps, PTL DEF DiscoverySpec

\* The cache of aws/discovery.py never shows an answer that is older than its time to
\* live and than the look-up itself, also when slow look-ups overtake each other, and
\* never the answer to another question.
THEOREM AnswersAreRecent == DiscoverySpec => []AnswerIsRecent
<1>1. DiscoveryInv => AnswerIsRecent
  BY DEF DiscoveryInv
<1> QED BY <1>1, DiscoveryInvariance, PTL
-----------------------------------------------------------------------------
(* The calls of the tickets.                                               *)

\* Of these theorems only the induction is used, which has nothing to do with Op.
Numbers == INSTANCE FoldTheorems WITH Op <- Supplied

-----------------------------------------------------------------------------
(* Sequences and their parts.                                              *)

LEMMA ElementsAre ==
  ASSUME NEW S, NEW s \in Seq(S)
  PROVE  ToSet(s) = {s[n] : n \in 1 .. Len(s)} /\ ToSet(s) \subseteq S /\ IsSequence(s)
<1>1. DOMAIN s = 1 .. Len(s) /\ \A n \in 1 .. Len(s) : s[n] \in S
  OBVIOUS
<1>2. ToSet(s) = {s[n] : n \in 1 .. Len(s)}
  BY <1>1 DEF ToSet
<1>3. s \in Seq(ToSet(s))
  <2>1. \A n \in 1 .. Len(s) : s[n] \in ToSet(s)
    BY <1>2
  <2>2. Len(s) \in Nat /\ s = [n \in 1 .. Len(s) |-> s[n]]
    OBVIOUS
  <2> HIDE DEF ToSet
  <2>3. s \in [1 .. Len(s) -> ToSet(s)]
    BY <2>1, <2>2
  <2> QED BY <2>2, <2>3, SeqDef
<1> QED BY <1>1, <1>2, <1>3 DEF IsSequence

\* The recursion of Picked, up to some element.
IsPick(pick, s, places, last) ==
  pick = [n \in 0 .. last |->
            IF n = 0 THEN <<>>
            ELSE IF n \in places THEN Append(pick[n - 1], s[n]) ELSE pick[n - 1]]

LEMMA PickGrows ==
  ASSUME NEW s, NEW places, NEW last \in Nat, NEW pick, IsPick(pick, s, places, last)
  PROVE  \E next : IsPick(next, s, places, last + 1)
<1> DEFINE next == [n \in 0 .. last + 1 |->
                      IF n <= last THEN pick[n]
                      ELSE IF n \in places THEN Append(pick[n - 1], s[n]) ELSE pick[n - 1]]
<1>1. ASSUME NEW n \in 0 .. last + 1
      PROVE  next[n] = IF n = 0 THEN <<>>
                       ELSE IF n \in places THEN Append(next[n - 1], s[n]) ELSE next[n - 1]
  <2>1. CASE n = 0
    <3>1. n \in 0 .. last /\ n <= last
      BY <2>1
    <3>2. next[n] = pick[n] /\ pick[n] = <<>>
      BY <2>1, <3>1 DEF IsPick
    <3> QED BY <2>1, <3>2
  <2>2. CASE n # 0 /\ n <= last
    <3>1. n \in 0 .. last /\ n - 1 \in 0 .. last /\ n - 1 <= last /\ n - 1 \in 0 .. last + 1
      BY <2>2
    <3>2. next[n] = pick[n] /\ next[n - 1] = pick[n - 1]
      BY <2>2, <3>1
    <3>3. pick[n] = IF n \in places THEN Append(pick[n - 1], s[n]) ELSE pick[n - 1]
      BY <2>2, <3>1 DEF IsPick
    <3> HIDE DEF next
    <3> QED BY <2>2, <3>2, <3>3
  <2>3. CASE n # 0 /\ ~(n <= last)
    <3>1. n - 1 <= last /\ n - 1 \in 0 .. last + 1
      BY <2>3
    <3>2. next[n] = IF n \in places THEN Append(pick[n - 1], s[n]) ELSE pick[n - 1]
      BY <2>3
    <3>3. next[n - 1] = pick[n - 1]
      BY <3>1
    <3> HIDE DEF next
    <3> QED BY <2>3, <3>2, <3>3
  <2> QED BY <2>1, <2>2, <2>3
<1>2. next = [n \in 0 .. last + 1 |-> next[n]]
  OBVIOUS
<1> HIDE DEF next
<1>3. IsPick(next, s, places, last + 1)
  BY <1>1, <1>2 DEF IsPick
<1> QED BY <1>3

LEMMA PickExists ==
  ASSUME NEW s, NEW places, NEW last \in Nat
  PROVE  \E pick : IsPick(pick, s, places, last)
<1> DEFINE Some == {k \in Nat : \E pick : IsPick(pick, s, places, k)}
<1>1. 0 \in Some
  <2>1. IsPick([n \in 0 .. 0 |-> <<>>], s, places, 0)
    BY DEF IsPick
  <2> QED BY <2>1
<1>2. ASSUME NEW k \in Nat, k \in Some PROVE k + 1 \in Some
  BY <1>2, PickGrows
<1> HIDE DEF Some
<1>3. last \in Some
  BY <1>1, <1>2, Numbers!SetInduction
<1> QED BY <1>3 DEF Some

LEMMA PickedIs ==
  ASSUME NEW S, NEW s \in Seq(S), NEW places
  PROVE  LET chosen == {s[n] : n \in (1 .. Len(s)) \cap places}
         IN Picked(s, places) \in Seq(chosen) /\ chosen = ToSet(Picked(s, places))
<1> DEFINE chosen == {s[n] : n \in (1 .. Len(s)) \cap places}
           pick == CHOOSE f : IsPick(f, s, places, Len(s))
           Reaches(n) == /\ pick[n] \in Seq(chosen)
                         /\ \A k \in (1 .. n) \cap places :
                              \E m \in 1 .. Len(pick[n]) : pick[n][m] = s[k]
           Good == {n \in Nat : n <= Len(s) => Reaches(n)}
<1>1. IsPick(pick, s, places, Len(s))
  <2>1. Len(s) \in Nat
    OBVIOUS
  <2> QED BY <2>1, PickExists
<1>2. Picked(s, places) = pick[Len(s)]
  BY DEF Picked, IsPick
<1> HIDE DEF pick, chosen
<1>3. 0 \in Good
  <2>1. 0 \in 0 .. Len(s)
    OBVIOUS
  <2>2. pick[0] = <<>>
    BY <1>1, <2>1 DEF IsPick
  <2>3. <<>> \in Seq(chosen) /\ (1 .. 0) \cap places = {}
    OBVIOUS
  <2>4. pick[0] \in Seq(chosen)
    BY <2>2, <2>3
  <2>5. Reaches(0)
    BY <2>3, <2>4
  <2> QED BY <2>5
<1>4. ASSUME NEW n \in Nat, n \in Good PROVE n + 1 \in Good
  <2> SUFFICES ASSUME n + 1 <= Len(s) PROVE Reaches(n + 1)
    OBVIOUS
  <2>1. Reaches(n)
    BY <1>4
  <2>2. n + 1 \in 0 .. Len(s) /\ n + 1 # 0 /\ (n + 1) - 1 = n /\ n + 1 \in 1 .. Len(s)
    OBVIOUS
  <2>3. pick[n + 1] = IF n + 1 \in places THEN Append(pick[n], s[n + 1]) ELSE pick[n]
    BY <1>1, <2>2 DEF IsPick
  <2>4. CASE n + 1 \in places
    <3>1. PICK old \in Seq(chosen) : old = pick[n]
      BY <2>1
    <3>2. s[n + 1] \in chosen
      BY <2>2, <2>4 DEF chosen
    <3>3. /\ pick[n + 1] \in Seq(chosen) /\ Len(pick[n + 1]) = Len(old) + 1
          /\ pick[n + 1][Len(old) + 1] = s[n + 1]
          /\ \A m \in 1 .. Len(old) : pick[n + 1][m] = old[m]
      BY <2>3, <2>4, <3>1, <3>2, AppendProperties
    <3>4. ASSUME NEW k \in (1 .. n + 1) \cap places
          PROVE  \E m \in 1 .. Len(pick[n + 1]) : pick[n + 1][m] = s[k]
      <4>1. CASE k = n + 1
        BY <3>3, <4>1
      <4>2. CASE k # n + 1
        <5>1. k \in (1 .. n) \cap places
          BY <4>2
        <5>2. PICK m \in 1 .. Len(old) : old[m] = s[k]
          BY <2>1, <3>1, <5>1
        <5>3. m \in 1 .. Len(pick[n + 1]) /\ pick[n + 1][m] = s[k]
          BY <3>1, <3>3, <5>2
        <5> QED BY <5>3
      <4> QED BY <4>1, <4>2
    <3> QED BY <3>3, <3>4
  <2>5. CASE n + 1 \notin places
    <3>1. pick[n + 1] = pick[n]
      BY <2>3, <2>5
    <3>2. ASSUME NEW k \in (1 .. n + 1) \cap places PROVE k \in (1 .. n) \cap places
      BY <2>5
    <3> QED BY <2>1, <3>1, <3>2
  <2> QED BY <2>4, <2>5
<1> HIDE DEF Good
<1>5. Len(s) \in Good
  BY <1>3, <1>4, Numbers!SetInduction
<1> DEFINE picked == Picked(s, places)
<1>6. /\ picked \in Seq(chosen)
      /\ \A k \in (1 .. Len(s)) \cap places : \E m \in 1 .. Len(picked) : picked[m] = s[k]
  BY <1>2, <1>5 DEF Good
<1> HIDE DEF picked
<1>7. ToSet(picked) = {picked[n] : n \in 1 .. Len(picked)} /\ ToSet(picked) \subseteq chosen
  BY <1>6, ElementsAre
<1>8. chosen \subseteq ToSet(picked)
  BY <1>6, <1>7 DEF chosen
<1> QED BY <1>6, <1>7, <1>8 DEF chosen, picked

-----------------------------------------------------------------------------
(* The gate's tags.                                                        *)

LEMMA KeysAre ==
  ASSUME NEW S, IsFiniteSet(S)
  PROVE  LET keys == SetToSeq(S)
         IN /\ keys \in Seq(S) /\ \A k \in S : \E n \in 1 .. Len(keys) : keys[n] = k
            /\ \A m, n \in 1 .. Len(keys) : keys[m] = keys[n] => m = n
<1>1. PICK c \in Nat : c = Cardinality(S) /\ ExistsBijection(1 .. c, S)
  BY FS_CardinalityType
<1>2. PICK b : b \in Bijection(1 .. c, S)
  BY <1>1 DEF ExistsBijection
<1>3. b \in [1 .. c -> S] /\ IsInjective(b)
  BY <1>2 DEF Bijection, Injection
<1> DEFINE keys == SetToSeq(S)
<1>4. keys \in [1 .. c -> S] /\ IsInjective(keys)
  BY <1>1, <1>3 DEF SetToSeq
<1> HIDE DEF keys
<1>5. keys \in Injection(1 .. c, S)
  BY <1>4 DEF Injection
<1>6. IsFiniteSet(1 .. c) /\ Cardinality(1 .. c) = c
  BY FS_Interval
<1>7. keys \in Surjection(1 .. c, S)
  BY <1>1, <1>5, <1>6, FS_Injection
<1>8. keys \in Seq(S) /\ Len(keys) = c
  BY <1>4
<1>9. \A k \in S : \E n \in 1 .. c : keys[n] = k
  BY <1>7 DEF Surjection
<1>10. \A m, n \in 1 .. c : keys[m] = keys[n] => m = n
  BY <1>4 DEF IsInjective
<1> QED BY <1>8, <1>9, <1>10 DEF keys

Listed(tags) == {[key |-> k, value |-> tags[k]] : k \in DOMAIN tags}

LEMMA AsTagsIs ==
  ASSUME NEW tags, IsFiniteSet(DOMAIN tags)
  PROVE  LET list == AsTags(tags)
         IN /\ list \in Seq(Listed(tags))
            /\ \A k \in DOMAIN tags : \E n \in 1 .. Len(list) :
                 list[n] = [key |-> k, value |-> tags[k]]
            /\ \A m, n \in 1 .. Len(list) : list[m].key = list[n].key => m = n
<1> DEFINE keys == SetToSeq(DOMAIN tags)
           list == AsTags(tags)
<1>1. PICK c \in Nat : c = Len(keys)
  BY KeysAre
<1>2. /\ keys \in Seq(DOMAIN tags) /\ DOMAIN keys = 1 .. c
      /\ \A k \in DOMAIN tags : \E n \in 1 .. c : keys[n] = k
      /\ \A m, n \in 1 .. c : keys[m] = keys[n] => m = n
  BY <1>1, KeysAre
<1>3. list = [n \in 1 .. c |-> [key |-> keys[n], value |-> tags[keys[n]]]]
  BY <1>2 DEF AsTags
<1> HIDE DEF keys, list
<1>4. \A n \in 1 .. c : keys[n] \in DOMAIN tags
  BY <1>1, <1>2
<1>5. \A n \in 1 .. c : list[n] = [key |-> keys[n], value |-> tags[keys[n]]]
  BY <1>3
<1>6. list \in [1 .. c -> Listed(tags)]
  BY <1>3, <1>4 DEF Listed
<1>7. list \in Seq(Listed(tags)) /\ Len(list) = c
  BY <1>6
<1>8. \A k \in DOMAIN tags : \E n \in 1 .. c : list[n] = [key |-> k, value |-> tags[k]]
  BY <1>2, <1>5
<1>9. \A m, n \in 1 .. c : list[m].key = list[n].key => m = n
  <2>1. ASSUME NEW n \in 1 .. c PROVE list[n].key = keys[n]
    <3>1. list[n] = [key |-> keys[n], value |-> tags[keys[n]]]
      BY <1>5
    <3>2. [key |-> keys[n], value |-> tags[keys[n]]].key = keys[n]
      OBVIOUS
    <3> QED BY ONLY <3>1, <3>2
  <2> QED BY <1>2, <2>1
<1> QED BY <1>7, <1>8, <1>9 DEF list

LEMMA ConcatElements ==
  ASSUME NEW S, NEW s \in Seq(S), NEW t \in Seq(S)
  PROVE  s \o t \in Seq(S) /\ ToSet(s \o t) = ToSet(s) \cup ToSet(t)
<1> DEFINE both == s \o t
<1>1. /\ both \in Seq(S) /\ Len(both) = Len(s) + Len(t)
      /\ \A n \in 1 .. Len(s) + Len(t) : both[n] = IF n <= Len(s) THEN s[n] ELSE t[n - Len(s)]
  BY ConcatProperties
<1>2. PICK a \in Nat, b \in Nat : a = Len(s) /\ b = Len(t)
  OBVIOUS
<1> HIDE DEF both
<1>3. /\ ToSet(both) = {both[n] : n \in 1 .. a + b}
      /\ ToSet(s) = {s[n] : n \in 1 .. a} /\ ToSet(t) = {t[n] : n \in 1 .. b}
  BY <1>1, <1>2, ElementsAre
<1>4. ASSUME NEW n \in 1 .. a + b PROVE both[n] \in ToSet(s) \cup ToSet(t)
  <2>1. CASE n <= a
    <3>1. n \in 1 .. a /\ both[n] = s[n]
      BY <1>1, <1>2, <2>1
    <3> QED BY <1>3, <3>1
  <2>2. CASE ~(n <= a)
    <3>1. n - a \in 1 .. b /\ both[n] = t[n - a]
      BY <1>1, <1>2, <2>2
    <3> QED BY <1>3, <3>1
  <2> QED BY <2>1, <2>2
<1>5. ASSUME NEW n \in 1 .. a PROVE s[n] \in ToSet(both)
  <2>1. n \in 1 .. a + b /\ n <= a
    BY ONLY a \in Nat, b \in Nat, n \in 1 .. a
  <2>2. both[n] = s[n]
    BY <1>1, <1>2, <2>1
  <2> QED BY <1>3, <2>1, <2>2
<1>6. ASSUME NEW n \in 1 .. b PROVE t[n] \in ToSet(both)
  <2>1. a + n \in 1 .. a + b /\ ~(a + n <= a) /\ (a + n) - a = n
    BY ONLY a \in Nat, b \in Nat, n \in 1 .. b
  <2>2. both[a + n] = t[n]
    BY <1>1, <1>2, <2>1
  <2> QED BY <1>3, <2>1, <2>2
<1>7. ToSet(both) = ToSet(s) \cup ToSet(t)
  BY <1>3, <1>4, <1>5, <1>6
<1> QED BY <1>1, <1>7 DEF both

\* An entry says what the gate says when its own tags have other keys.
LEMMA GateTagsAreSaid ==
  ASSUME NEW tags, IsFiniteSet(DOMAIN tags), NEW K, \A t \in K : t.key \notin DOMAIN tags,
         NEW kept \in Seq(K), NEW s, s.tags = kept \o AsTags(tags), NEW k \in DOMAIN tags
  PROVE  Says(s, k, tags[k])
<1> DEFINE list == AsTags(tags)
           all == kept \o list
<1>1. /\ list \in Seq(Listed(tags))
      /\ \E n \in 1 .. Len(list) : list[n] = [key |-> k, value |-> tags[k]]
      /\ \A m, n \in 1 .. Len(list) : list[m].key = list[n].key => m = n
  BY AsTagsIs
<1> HIDE DEF list
<1>2. kept \in Seq(K \cup Listed(tags)) /\ list \in Seq(K \cup Listed(tags))
  BY <1>1
<1>3. PICK a \in Nat, b \in Nat : a = Len(kept) /\ b = Len(list)
  BY <1>1
<1>4. /\ all \in Seq(K \cup Listed(tags)) /\ Len(all) = a + b
      /\ \A n \in 1 .. a + b : all[n] = IF n <= a THEN kept[n] ELSE list[n - a]
  BY <1>2, <1>3, ConcatProperties
<1> HIDE DEF all
<1>5. DOMAIN all = 1 .. a + b
  BY <1>4
<1>6. PICK n \in 1 .. b : list[n] = [key |-> k, value |-> tags[k]]
  BY <1>1, <1>3
<1>7. a + n \in 1 .. a + b /\ ~(a + n <= a) /\ (a + n) - a = n
  BY ONLY a \in Nat, b \in Nat, n \in 1 .. b
<1>8. all[a + n] = [key |-> k, value |-> tags[k]]
  BY <1>4, <1>6, <1>7
<1>9. ASSUME NEW m \in 1 .. a + b, all[m].key = k PROVE m = a + n
  <2>1. CASE m <= a
    <3>1. m \in 1 .. a /\ all[m] = kept[m]
      BY <1>4, <2>1
    <3>2. kept[m] \in K
      BY <1>3, <3>1
    <3> QED BY <1>9, <3>1, <3>2
  <2>2. CASE ~(m <= a)
    <3>1. m - a \in 1 .. b /\ all[m] = list[m - a]
      BY <1>4, <2>2
    <3>2. list[m - a].key = list[n].key
      BY <1>6, <1>9, <3>1
    <3>3. m - a = n
      BY <1>1, <1>3, <3>1, <3>2
    <3> QED BY <3>3
  <2> QED BY <2>1, <2>2
<1>10. s.tags = all
  BY DEF all, list
<1> QED BY <1>5, <1>7, <1>8, <1>9, <1>10 DEF Says

-----------------------------------------------------------------------------
(* with_gate_tags.                                                         *)

IsEntry(s) ==
  /\ s = [type |-> s.type, tags |-> s.tags]
  /\ IsSequence(s.tags)
  /\ \A t \in ToSet(s.tags) : t = [key |-> t.key, value |-> t.value]

LEMMA AsTagsEntry ==
  ASSUME NEW tags, IsFiniteSet(DOMAIN tags), NEW r
  PROVE  LET s == [type |-> r, tags |-> AsTags(tags)]
         IN IsEntry(s) /\ \A k \in DOMAIN tags : Says(s, k, tags[k])
<1> DEFINE list == AsTags(tags)
           s == [type |-> r, tags |-> list]
<1>1. list \in Seq(Listed(tags))
  BY AsTagsIs
<1>2. <<>> \in Seq({}) /\ <<>> \o list = list
  BY <1>1
<1>3. s.tags = list /\ s.type = r
  OBVIOUS
<1>4. ToSet(list) \subseteq Listed(tags) /\ IsSequence(list)
  BY <1>1, ElementsAre
<1>5. \A t \in Listed(tags) : t = [key |-> t.key, value |-> t.value]
  BY DEF Listed
<1> HIDE DEF list
<1>6. s.tags = <<>> \o list
  BY <1>2, <1>3
<1> HIDE DEF s
<1>7. \A k \in DOMAIN tags : Says(s, k, tags[k])
  BY <1>2, <1>6, GateTagsAreSaid DEF list
<1>8. IsEntry(s)
  BY <1>3, <1>4, <1>5 DEF IsEntry, s
<1> QED BY <1>7, <1>8 DEF s, list

LEMMA MergedEntryIs ==
  ASSUME NEW tags, IsFiniteSet(DOMAIN tags), NEW types, NEW s, IsEntry(s)
  PROVE  LET e == MergedEntry(s, types, tags)
         IN /\ IsEntry(e) /\ e.type = s.type
            /\ s.type \in ToSet(types) => \A k \in DOMAIN tags : Says(e, k, tags[k])
<1>1. CASE s.type \notin ToSet(types)
  BY <1>1 DEF MergedEntry
<1>2. CASE s.type \in ToSet(types)
  <2> DEFINE places == {n \in DOMAIN s.tags : s.tags[n].key \notin DOMAIN tags}
             kept == Picked(s.tags, places)
             list == AsTags(tags)
             e == [type |-> s.type, tags |-> kept \o list]
             K == {t \in ToSet(s.tags) : t.key \notin DOMAIN tags}
  <2>1. s.tags \in Seq(ToSet(s.tags))
    BY DEF IsEntry, IsSequence
  <2>2. DOMAIN s.tags = 1 .. Len(s.tags)
    BY <2>1
  <2>3. kept \in Seq({s.tags[n] : n \in (1 .. Len(s.tags)) \cap places})
    <3> HIDE DEF places
    <3> QED BY <2>1, PickedIs
  <2>4. \A n \in (1 .. Len(s.tags)) \cap places : s.tags[n] \in K
    BY <2>1, <2>2
  <2> HIDE DEF kept, list, places
  <2>5. kept \in Seq(K)
    <3> HIDE DEF K
    <3>1. {s.tags[n] : n \in (1 .. Len(s.tags)) \cap places} \subseteq K
      BY <2>4
    <3> QED BY <2>3, <3>1
  <2>6. list \in Seq(Listed(tags))
    BY AsTagsIs DEF list
  <2>7. /\ kept \o list \in Seq(K \cup Listed(tags))
    <3>1. kept \in Seq(K \cup Listed(tags)) /\ list \in Seq(K \cup Listed(tags))
      BY <2>5, <2>6
    <3> QED BY <3>1
  <2>8. ToSet(kept \o list) \subseteq K \cup Listed(tags) /\ IsSequence(kept \o list)
    BY <2>7, ElementsAre
  <2>9. \A t \in K \cup Listed(tags) : t = [key |-> t.key, value |-> t.value]
    BY DEF Listed, IsEntry
  <2>10. e.tags = kept \o list /\ e.type = s.type
    OBVIOUS
  <2> HIDE DEF e
  <2>11. IsEntry(e)
    BY <2>8, <2>9, <2>10 DEF IsEntry, e
  <2>12. \A t \in K : t.key \notin DOMAIN tags
    OBVIOUS
  <2>13. ASSUME NEW k \in DOMAIN tags PROVE Says(e, k, tags[k])
    <3> HIDE DEF K
    <3> QED BY <2>5, <2>10, <2>12, GateTagsAreSaid DEF list
  <2>14. e = MergedEntry(s, types, tags)
    BY <1>2 DEF MergedEntry, e, kept, list, places
  <2> QED BY <2>10, <2>11, <2>13, <2>14
<1> QED BY <1>1, <1>2

MissingTypes(specs, types) == ToSet(types) \ {s.type : s \in ToSet(specs)}

NewEntries(specs, types, tags) ==
  {[type |-> r, tags |-> AsTags(tags)] : r \in MissingTypes(specs, types)}

LEMMA MissingIs ==
  ASSUME NEW specs, NEW types, IsSequence(specs), IsSequence(types)
  PROVE  LET missing == Missing(specs, types)
         IN missing \in Seq(MissingTypes(specs, types))
            /\ ToSet(missing) = MissingTypes(specs, types)
<1> DEFINE places == {n \in DOMAIN types : \A m \in DOMAIN specs : specs[m].type # types[n]}
           chosen == {types[n] : n \in (1 .. Len(types)) \cap places}
<1>1. specs \in Seq(ToSet(specs)) /\ types \in Seq(ToSet(types))
  BY DEF IsSequence
<1>2. /\ DOMAIN specs = 1 .. Len(specs) /\ ToSet(specs) = {specs[n] : n \in 1 .. Len(specs)}
      /\ DOMAIN types = 1 .. Len(types) /\ ToSet(types) = {types[n] : n \in 1 .. Len(types)}
  BY <1>1, ElementsAre
<1>3. chosen = MissingTypes(specs, types)
  BY <1>2 DEF MissingTypes
<1> HIDE DEF places
<1>4. /\ Picked(types, places) \in Seq(chosen)
      /\ ToSet(Picked(types, places)) = chosen
  BY <1>1, PickedIs
<1> HIDE DEF chosen
<1> QED BY <1>3, <1>4 DEF Missing, places

LEMMA MergedIs ==
  ASSUME NEW tags, NEW specs, NEW types, IsSequence(specs), IsSequence(types)
  PROVE  LET m == Merged(specs, types, tags)
         IN /\ IsSequence(m)
            /\ ToSet(m) = {MergedEntry(s, types, tags) : s \in ToSet(specs)}
                             \cup NewEntries(specs, types, tags)
<1> DEFINE missing == Missing(specs, types)
           old == [n \in DOMAIN specs |-> MergedEntry(specs[n], types, tags)]
           new == [n \in DOMAIN missing |-> [type |-> missing[n], tags |-> AsTags(tags)]]
           Olds == {MergedEntry(s, types, tags) : s \in ToSet(specs)}
           News == NewEntries(specs, types, tags)
<1>1. specs \in Seq(ToSet(specs))
  BY DEF IsSequence
<1>2. DOMAIN specs = 1 .. Len(specs) /\ ToSet(specs) = {specs[n] : n \in 1 .. Len(specs)}
  BY <1>1, ElementsAre
<1>3. /\ missing \in Seq(MissingTypes(specs, types))
      /\ ToSet(missing) = MissingTypes(specs, types)
  BY MissingIs
<1> HIDE DEF missing
<1>4. DOMAIN missing = 1 .. Len(missing)
      /\ MissingTypes(specs, types) = {missing[n] : n \in 1 .. Len(missing)}
  BY <1>3, ElementsAre
<1>5. PICK a \in Nat, b \in Nat : a = Len(specs) /\ b = Len(missing)
  BY <1>1, <1>3
<1>6. old \in [1 .. a -> Olds] /\ Olds = {old[n] : n \in 1 .. a}
  <2>1. old = [n \in 1 .. a |-> MergedEntry(specs[n], types, tags)]
    BY <1>2, <1>5
  <2>2. \A s : s \in ToSet(specs) <=> \E n \in 1 .. a : s = specs[n]
    BY <1>2, <1>5
  <2>3. \A n \in 1 .. a : old[n] = MergedEntry(specs[n], types, tags)
    BY <2>1
  <2> HIDE DEF old
  <2>4. \A n \in 1 .. a : old[n] \in Olds
    BY <2>2, <2>3
  <2>5. \A e \in Olds : \E n \in 1 .. a : e = old[n]
    BY <2>2, <2>3
  <2> HIDE DEF Olds
  <2>6. old = [n \in 1 .. a |-> old[n]]
    BY <2>1
  <2> QED BY <2>4, <2>5, <2>6
<1>7. new \in [1 .. b -> News] /\ News = {new[n] : n \in 1 .. b}
  <2>1. new = [n \in 1 .. b |-> [type |-> missing[n], tags |-> AsTags(tags)]]
    BY <1>4, <1>5
  <2>2. \A r : r \in MissingTypes(specs, types) <=> \E n \in 1 .. b : r = missing[n]
    BY <1>4, <1>5
  <2>3. \A n \in 1 .. b : new[n] = [type |-> missing[n], tags |-> AsTags(tags)]
    BY <2>1
  <2> HIDE DEF new
  <2>4. \A n \in 1 .. b : new[n] \in News
    BY <2>2, <2>3 DEF NewEntries
  <2>5. \A e \in News : \E n \in 1 .. b : e = new[n]
    <3> SUFFICES ASSUME NEW e \in News PROVE \E n \in 1 .. b : e = new[n]
      OBVIOUS
    <3>1. PICK r \in MissingTypes(specs, types) : e = [type |-> r, tags |-> AsTags(tags)]
      BY DEF NewEntries
    <3>2. PICK n \in 1 .. b : r = missing[n]
      BY <2>2
    <3> QED BY <2>3, <3>1, <3>2
  <2> HIDE DEF News
  <2>6. new = [n \in 1 .. b |-> new[n]]
    BY <2>1
  <2> QED BY <2>4, <2>5, <2>6
<1>8. Merged(specs, types, tags) = old \o new
  BY DEF Merged, missing
<1> HIDE DEF old, new, Olds, News
<1>9. old \in Seq(Olds) /\ Len(old) = a /\ new \in Seq(News) /\ Len(new) = b
  <2>1. old \in [1 .. a -> Olds] /\ new \in [1 .. b -> News]
    BY <1>6, <1>7
  <2>2. old \in Seq(Olds) /\ Len(old) = a
    BY ONLY <2>1, a \in Nat
  <2>3. new \in Seq(News) /\ Len(new) = b
    BY ONLY <2>1, b \in Nat
  <2> QED BY <2>2, <2>3
<1>10. ToSet(old) = Olds /\ ToSet(new) = News
  BY <1>6, <1>7, <1>9, ElementsAre
<1>11. old \in Seq(Olds \cup News) /\ new \in Seq(Olds \cup News)
  BY <1>9
<1>12. old \o new \in Seq(Olds \cup News) /\ ToSet(old \o new) = Olds \cup News
  BY <1>10, <1>11, ConcatElements
<1>13. IsSequence(old \o new)
  BY <1>12, ElementsAre
<1> QED BY <1>8, <1>12, <1>13 DEF Olds, News

\* The entries after the merge: the types of both, each with the gate's tags where it
\* is one of those the call creates.
LEMMA MergedSays ==
  ASSUME NEW tags, IsFiniteSet(DOMAIN tags), NEW specs, NEW types,
         IsSequence(specs), IsSequence(types), \A s \in ToSet(specs) : IsEntry(s)
  PROVE  LET m == Merged(specs, types, tags)
         IN /\ \A e \in ToSet(m) : IsEntry(e)
            /\ \A e \in ToSet(m) : e.type \in ToSet(types) =>
                 \A k \in DOMAIN tags : Says(e, k, tags[k])
            /\ ToSet(types) \subseteq {e.type : e \in ToSet(m)}
            /\ types # <<>> => m # <<>>
<1> DEFINE m == Merged(specs, types, tags)
           Olds == {MergedEntry(s, types, tags) : s \in ToSet(specs)}
           News == NewEntries(specs, types, tags)
<1>1. IsSequence(m) /\ ToSet(m) = Olds \cup News
  BY MergedIs
<1>2. \A s \in ToSet(specs) :
        LET e == MergedEntry(s, types, tags)
        IN /\ IsEntry(e) /\ e.type = s.type
           /\ s.type \in ToSet(types) => \A k \in DOMAIN tags : Says(e, k, tags[k])
  BY MergedEntryIs
<1>3. \A e \in News : /\ IsEntry(e) /\ e.type \in MissingTypes(specs, types)
                      /\ \A k \in DOMAIN tags : Says(e, k, tags[k])
  BY AsTagsEntry DEF NewEntries
<1>4. \A r \in MissingTypes(specs, types) : \E e \in News : e.type = r
  <2> SUFFICES ASSUME NEW r \in MissingTypes(specs, types) PROVE \E e \in News : e.type = r
    OBVIOUS
  <2>1. [type |-> r, tags |-> AsTags(tags)] \in News
    BY DEF NewEntries
  <2>2. [type |-> r, tags |-> AsTags(tags)].type = r
    OBVIOUS
  <2> HIDE DEF News
  <2> QED BY <2>1, <2>2
<1> HIDE DEF m, News
<1>5. \A e \in ToSet(m) : IsEntry(e)
  BY <1>1, <1>2, <1>3
<1>6. \A e \in ToSet(m) : e.type \in ToSet(types) =>
        \A k \in DOMAIN tags : Says(e, k, tags[k])
  <2> SUFFICES ASSUME NEW e \in ToSet(m), e.type \in ToSet(types), NEW k \in DOMAIN tags
               PROVE  Says(e, k, tags[k])
    OBVIOUS
  <2>1. CASE e \in News
    BY <1>3, <2>1
  <2>2. CASE e \in Olds
    <3>1. PICK s \in ToSet(specs) : e = MergedEntry(s, types, tags)
      BY <2>2
    <3> QED BY <1>2, <3>1
  <2> QED BY <1>1, <2>1, <2>2
<1>7. ASSUME NEW r \in ToSet(types) PROVE \E e \in ToSet(m) : e.type = r
  <2>1. CASE r \in MissingTypes(specs, types)
    BY <1>1, <1>4, <2>1
  <2>2. CASE r \notin MissingTypes(specs, types)
    <3>1. PICK s \in ToSet(specs) : s.type = r
      BY <2>2 DEF MissingTypes
    <3>2. MergedEntry(s, types, tags) \in ToSet(m) /\ MergedEntry(s, types, tags).type = r
      BY <1>1, <1>2, <3>1
    <3> QED BY <3>2
  <2> QED BY <2>1, <2>2
<1>8. ASSUME types # <<>>, m = <<>> PROVE FALSE
  <2>1. types \in Seq(ToSet(types))
    BY DEF IsSequence
  <2>2. types[1] \in ToSet(types)
    <3> HIDE DEF ToSet
    <3> QED BY <1>8, <2>1
  <2>3. ToSet(m) = {}
    BY <1>8 DEF ToSet
  <2> QED BY <1>7, <2>2, <2>3
<1> QED BY <1>5, <1>6, <1>7, <1>8 DEF m

\* What the gate makes of a call: it still passes the checks, and every type the
\* operation creates has an entry that says whose it is.
LEMMA CallIsTagged ==
  ASSUME NEW o \in Operation, NEW ps, WellFormed(ps), NEW tags, IsFiniteSet(DOMAIN tags)
  PROVE  LET call == WithGateTags(o, ps, tags)
             types == ToSet(TagTypes[o])
         IN /\ WellFormed(call)
            /\ FitsShape(o, ps) => FitsShape(o, call)
            /\ MeetsRules(o, ps) => MeetsRules(o, call)
            /\ types \subseteq {e.type : e \in ToSet(Specs(call))}
            /\ \A e \in ToSet(Specs(call)) : e.type \in types =>
                 \A k \in DOMAIN tags : Says(e, k, tags[k])
<1> DEFINE call == WithGateTags(o, ps, tags)
           types == ToSet(TagTypes[o])
<1>1. CASE TagTypes[o] = <<>>
  <2>1. call = ps /\ types = {}
    BY <1>1 DEF WithGateTags, ToSet
  <2> QED BY <2>1
<1>2. CASE TagTypes[o] # <<>>
  <2> DEFINE all == Merged(Specs(ps), TagTypes[o], tags)
             names == DOMAIN ps \cup {"TagSpecifications"}
  <2>1. "TagSpecifications" \in Members[o] /\ IsSequence(TagTypes[o])
    BY <1>2, ParametersAssumption
  <2>2. IsSequence(Specs(ps)) /\ \A s \in ToSet(Specs(ps)) : IsEntry(s)
    <3>1. CASE Supplied(ps, "TagSpecifications")
      <4>1. Specs(ps) = ps["TagSpecifications"]
        BY <3>1 DEF Specs
      <4>2. "TagSpecifications" \in DOMAIN ps
        BY <3>1 DEF Supplied
      <4> QED BY <4>1, <4>2 DEF WellFormed, IsEntry
    <3>2. CASE ~Supplied(ps, "TagSpecifications")
      <4>1. Specs(ps) = <<>> /\ ToSet(<<>>) = {}
        BY <3>2 DEF Specs, ToSet
      <4>2. <<>> \in Seq({})
        OBVIOUS
      <4> QED BY <4>1, <4>2 DEF IsSequence
    <3> QED BY <3>1, <3>2
  <2>3. IsSequence(all)
    BY <2>1, <2>2, MergedIs
  <2>4. /\ \A e \in ToSet(all) : IsEntry(e)
        /\ \A e \in ToSet(all) : e.type \in types => \A k \in DOMAIN tags : Says(e, k, tags[k])
        /\ types \subseteq {e.type : e \in ToSet(all)}
        /\ all # <<>>
    BY <1>2, <2>1, <2>2, MergedSays
  <2> HIDE DEF all
  <2>5. call = [n \in names |-> IF n = "TagSpecifications" THEN all ELSE ps[n]]
    BY <1>2, <2>1 DEF WithGateTags, all
  <2> HIDE DEF call
  <2>6. /\ DOMAIN call = names /\ call["TagSpecifications"] = all
        /\ \A n \in DOMAIN ps \ {"TagSpecifications"} : call[n] = ps[n]
    BY <2>5
  <2>7. Supplied(call, "TagSpecifications")
    BY <2>4, <2>6 DEF Supplied, Blank
  <2>8. Specs(call) = all
    BY <2>6, <2>7 DEF Specs
  <2>9. WellFormed(call)
    BY <2>3, <2>4, <2>6 DEF WellFormed, IsEntry
  <2>10. FitsShape(o, ps) => FitsShape(o, call)
    BY <2>1, <2>6 DEF FitsShape
  <2>11. \A n : Supplied(ps, n) => Supplied(call, n)
    BY <2>6, <2>7 DEF Supplied
  <2>12. MeetsRules(o, ps) => MeetsRules(o, call)
    BY <2>11 DEF MeetsRules
  <2> QED BY <2>4, <2>8, <2>9, <2>10, <2>12 DEF call
<1> QED BY <1>1, <1>2

-----------------------------------------------------------------------------
(* The tickets.                                                            *)

IsTicket(t) ==
  t = [operation |-> t.operation, proposedBy |-> t.proposedBy, tags |-> t.tags,
       parameters |-> t.parameters, key |-> t.key, edited |-> t.edited,
       door |-> t.door, asked |-> t.asked, askedTags |-> t.askedTags]

\* The ticket is what was made of an acceptable proposal when the id was drawn, whatever
\* became of its tags since.
Honest(t, id) ==
  /\ IsTicket(t)
  /\ t.operation \in Operation
  /\ WellFormed(t.asked) /\ FitsShape(t.operation, t.asked) /\ MeetsRules(t.operation, t.asked)
  /\ IsFiniteSet(DOMAIN t.askedTags) /\ IsFiniteSet(DOMAIN t.tags)
  /\ t.parameters = WithGateTags(t.operation, t.asked, WithOwn(t.askedTags, id, t.proposedBy))
  /\ t.door \in {"mcp", "portal"} =>
       t.key = IdempotencyKey(t.door, t.proposedBy, t.operation, t.asked)

SameAsked(t, u) ==
  /\ t.door = u.door /\ t.door \in {"mcp", "portal"}
  /\ t.proposedBy = u.proposedBy
  /\ t.operation = u.operation
  /\ t.asked = u.asked

Lawful(s) ==
  /\ IsSequence(s)
  /\ \A i \in DOMAIN s : Honest(s[i], Ids[i])
  /\ \A i, j \in DOMAIN s : SameAsked(s[i], s[j]) => i = j

ParamInv == Lawful(stored)

LEMMA OwnTags ==
  ASSUME NEW tags, IsFiniteSet(DOMAIN tags), NEW id, NEW who
  PROVE  LET own == WithOwn(tags, id, who)
         IN /\ IsFiniteSet(DOMAIN own)
            /\ Reserved \subseteq DOMAIN own /\ DOMAIN tags \subseteq DOMAIN own
            /\ own["gateTicketId"] = id /\ own["owner"] = who
            /\ \A k \in DOMAIN tags \ Reserved : own[k] = tags[k]
<1> DEFINE own == WithOwn(tags, id, who)
<1>1. DOMAIN own = DOMAIN tags \cup Reserved
  BY DEF WithOwn
<1>2. IsFiniteSet(Reserved)
  <2>1. IsFiniteSet({}) /\ Reserved = ({} \cup {"gateTicketId"}) \cup {"owner"}
    BY FS_EmptySet DEF Reserved
  <2>2. IsFiniteSet({} \cup {"gateTicketId"})
    BY <2>1, FS_AddElement
  <2> QED BY <2>1, <2>2, FS_AddElement
<1>3. IsFiniteSet(DOMAIN own)
  BY <1>1, <1>2, FS_Union
<1>4. /\ own["gateTicketId"] = id /\ own["owner"] = who
      /\ \A k \in DOMAIN tags \ Reserved : own[k] = tags[k]
  BY DEF WithOwn, Reserved
<1> QED BY <1>1, <1>3, <1>4

\* The changes of the list: one more ticket, and one ticket changed in place.
LEMMA AppendKeeps ==
  ASSUME NEW s, Lawful(s), NEW t, Honest(t, Ids[Len(s) + 1]),
         \A i \in DOMAIN s : ~SameAsked(s[i], t)
  PROVE  Lawful(Append(s, t))
<1> DEFINE all == Append(s, t)
           S == ToSet(s) \cup {t}
<1>1. s \in Seq(ToSet(s))
  BY DEF Lawful, IsSequence
<1> HIDE DEF Lawful
<1>2. PICK n \in Nat : n = Len(s)
  BY <1>1
<1>3. s \in Seq(S) /\ t \in S /\ DOMAIN s = 1 .. n
  BY <1>1, <1>2
<1>4. /\ all \in Seq(S) /\ Len(all) = n + 1 /\ all[n + 1] = t
      /\ \A i \in 1 .. n : all[i] = s[i]
  BY <1>2, <1>3, AppendProperties
<1> HIDE DEF all, S
<1>5. IsSequence(all) /\ DOMAIN all = 1 .. n + 1
  BY <1>4, ElementsAre
<1>6. \A i \in 1 .. n + 1 : i \in 1 .. n \/ i = n + 1
  OBVIOUS
<1>7. ASSUME NEW i \in DOMAIN all PROVE Honest(all[i], Ids[i])
  <2>1. CASE i \in 1 .. n
    BY <1>3, <1>4, <2>1 DEF Lawful
  <2>2. CASE i = n + 1
    BY <1>2, <1>4, <2>2
  <2> QED BY <1>5, <1>6, <2>1, <2>2
<1>8. ASSUME NEW i \in DOMAIN all, NEW j \in DOMAIN all, SameAsked(all[i], all[j])
      PROVE  i = j
  <2>1. CASE i \in 1 .. n /\ j \in 1 .. n
    BY <1>3, <1>4, <1>8, <2>1 DEF Lawful
  <2>2. CASE i \in 1 .. n /\ j = n + 1
    BY <1>3, <1>4, <1>8, <2>2
  <2>3. CASE i = n + 1 /\ j \in 1 .. n
    <3>1. SameAsked(s[j], t)
      BY <1>4, <1>8, <2>3 DEF SameAsked
    <3> QED BY <1>3, <2>3, <3>1
  <2> QED BY <1>5, <1>6, <2>1, <2>2, <2>3
<1> QED BY <1>5, <1>7, <1>8 DEF Lawful, all

LEMMA TicketChangeKeeps ==
  ASSUME NEW s, Lawful(s), NEW i \in DOMAIN s, NEW t, Honest(t, Ids[i]),
         t.door = s[i].door, t.proposedBy = s[i].proposedBy,
         t.operation = s[i].operation, t.asked = s[i].asked
  PROVE  Lawful([s EXCEPT ![i] = t]) /\ Len([s EXCEPT ![i] = t]) = Len(s)
<1> DEFINE new == [s EXCEPT ![i] = t]
           S == ToSet(s) \cup {t}
<1>1. s \in Seq(ToSet(s))
  BY DEF Lawful, IsSequence
<1> HIDE DEF Lawful
<1>2. s \in Seq(S) /\ t \in S
  BY <1>1
<1>3. new \in Seq(S) /\ Len(new) = Len(s) /\ DOMAIN new = DOMAIN s
  BY <1>2
<1>4. new[i] = t /\ \A j \in DOMAIN s \ {i} : new[j] = s[j]
  OBVIOUS
<1> HIDE DEF new, S
<1>5. IsSequence(new)
  BY <1>3, ElementsAre
<1>6. \A j \in DOMAIN new : Honest(new[j], Ids[j])
  BY <1>3, <1>4 DEF Lawful
<1>7. ASSUME NEW j \in DOMAIN s
      PROVE  /\ new[j].door = s[j].door /\ new[j].proposedBy = s[j].proposedBy
             /\ new[j].operation = s[j].operation /\ new[j].asked = s[j].asked
  BY <1>4
<1>8. \A j, k \in DOMAIN new : SameAsked(new[j], new[k]) => j = k
  <2>1. \A j, k \in DOMAIN s : SameAsked(new[j], new[k]) => SameAsked(s[j], s[k])
    BY <1>7 DEF SameAsked
  <2> QED BY <1>3, <2>1 DEF Lawful
<1> QED BY <1>3, <1>5, <1>6, <1>8 DEF Lawful, new
LEMMA ParamInitial == ParamInit => ParamInv
<1> SUFFICES ASSUME ParamInit PROVE ParamInv
  OBVIOUS
<1>1. stored = <<>> /\ stored \in Seq({}) /\ ToSet(stored) = {} /\ DOMAIN stored = {}
  BY DEF ParamInit, ToSet
<1> QED BY <1>1 DEF ParamInv, Lawful, IsSequence

\* What every proposal stores.
LEMMA BuildIsHonest ==
  ASSUME NEW door, NEW who, NEW operation \in Operation, NEW ps, WellFormed(ps),
         NEW tags, IsFiniteSet(DOMAIN tags), NEW key, Acceptable(operation, ps, tags),
         door \in {"mcp", "portal"} => key = IdempotencyKey(door, who, operation, ps)
  PROVE  LET t == Build(door, who, operation, ps, tags, key)
         IN /\ Honest(t, Ids[Len(stored) + 1])
            /\ t.door = door /\ t.proposedBy = who /\ t.operation = operation /\ t.asked = ps
<1> DEFINE id == Ids[Len(stored) + 1]
           own == WithOwn(tags, id, who)
           call == WithGateTags(operation, ps, own)
           t == [operation |-> operation, proposedBy |-> who, tags |-> own,
                 parameters |-> call, key |-> key, edited |-> FALSE,
                 door |-> door, asked |-> ps, askedTags |-> tags]
<1>1. Build(door, who, operation, ps, tags, key) = t
  BY DEF Build
<1>2. IsFiniteSet(DOMAIN own)
  BY OwnTags
<1>3. call = WithGateTags(operation, ps, WithOwn(tags, id, who))
  OBVIOUS
<1> HIDE DEF own, call, id
<1>4. /\ t.operation = operation /\ t.proposedBy = who /\ t.tags = own
      /\ t.parameters = call /\ t.key = key /\ t.edited = FALSE
      /\ t.door = door /\ t.asked = ps /\ t.askedTags = tags
  OBVIOUS
<1>5. IsTicket(t)
  BY DEF IsTicket
<1> HIDE DEF t
<1>6. FitsShape(operation, ps) /\ MeetsRules(operation, ps)
  BY DEF Acceptable
<1>7. Honest(t, id)
  BY <1>2, <1>3, <1>4, <1>5, <1>6 DEF Honest
<1> QED BY <1>1, <1>4, <1>7 DEF id

LEMMA ReplaceKeeps ==
  ASSUME ParamInv, NEW i \in DOMAIN stored, NEW who, NEW operation \in Operation, NEW ps,
         WellFormed(ps), NEW tags, IsFiniteSet(DOMAIN tags),
         Replace(i, who, operation, ps, tags)
  PROVE  ParamInv'
<1> DEFINE t == Build("edit", who, operation, ps, tags, NoKey)
           u == [stored[i] EXCEPT !.edited = TRUE]
           old == [stored EXCEPT ![i] = u]
<1>1. stored' = Append(old, t) /\ Acceptable(operation, ps, tags)
  BY DEF Replace
<1>2. /\ Honest(t, Ids[Len(stored) + 1]) /\ t.door = "edit"
  BY <1>1, BuildIsHonest
<1>3. Honest(stored[i], Ids[i]) /\ IsTicket(stored[i])
  BY DEF ParamInv, Lawful, Honest
<1>4. /\ u.operation = stored[i].operation /\ u.proposedBy = stored[i].proposedBy
      /\ u.tags = stored[i].tags /\ u.parameters = stored[i].parameters
      /\ u.key = stored[i].key /\ u.door = stored[i].door /\ u.asked = stored[i].asked
      /\ u.askedTags = stored[i].askedTags /\ IsTicket(u)
  <2> DEFINE v == stored[i]
  <2>1. IsTicket(v) /\ u = [v EXCEPT !.edited = TRUE]
    BY <1>3
  <2> HIDE DEF t, v, u
  <2>2. PICK yes : yes = TRUE
    OBVIOUS
  <2>3. u = [v EXCEPT !.edited = yes]
    BY <2>1, <2>2
  <2>4. /\ u.operation = v.operation /\ u.proposedBy = v.proposedBy
        /\ u.tags = v.tags /\ u.parameters = v.parameters
        /\ u.key = v.key /\ u.door = v.door /\ u.asked = v.asked
        /\ u.askedTags = v.askedTags /\ IsTicket(u)
    BY ONLY <2>1, <2>3 DEF IsTicket
  <2> QED BY <2>4 DEF v
<1> HIDE DEF t, u
<1>5. Honest(u, Ids[i])
  BY <1>3, <1>4 DEF Honest
<1>6. Lawful(old) /\ Len(old) = Len(stored)
  BY <1>4, <1>5, TicketChangeKeeps DEF ParamInv
<1> HIDE DEF old
<1>7. \A j \in DOMAIN old : ~SameAsked(old[j], t)
  BY <1>2 DEF SameAsked
<1>8. Lawful(Append(old, t))
  BY <1>2, <1>6, <1>7, AppendKeeps
<1> QED BY <1>1, <1>8 DEF ParamInv

LEMMA ParamStep == ParamInv /\ [ParamNext]_paramVars => ParamInv'
<1> SUFFICES ASSUME ParamInv, [ParamNext]_paramVars PROVE ParamInv'
  OBVIOUS
<1>1. \A ps \in Offered : WellFormed(ps)
  BY ParametersAssumption
<1>2. \A tags \in OfferedTags : IsFiniteSet(DOMAIN tags)
  BY ParametersAssumption
<1>3. ASSUME NEW who \in Proposer, NEW operation \in Operation, NEW ps \in Offered,
             NEW tags \in OfferedTags, NEW door \in {"mcp", "portal"},
             Propose(door, who, operation, ps, tags)
      PROVE  ParamInv'
  <2> DEFINE key == IdempotencyKey(door, who, operation, ps)
             t == Build(door, who, operation, ps, tags, key)
  <2>1. /\ stored' = Append(stored, t) /\ Acceptable(operation, ps, tags)
        /\ \A i \in DOMAIN stored : stored[i].key # key
    BY <1>3 DEF Propose
  <2>2. /\ Honest(t, Ids[Len(stored) + 1]) /\ t.door = door /\ t.proposedBy = who
        /\ t.operation = operation /\ t.asked = ps
    BY <1>1, <1>2, <2>1, BuildIsHonest
  <2> HIDE DEF t
  <2>3. ASSUME NEW i \in DOMAIN stored, SameAsked(stored[i], t) PROVE FALSE
    <3>1. Honest(stored[i], Ids[i])
      BY DEF ParamInv, Lawful
    <3>2. /\ stored[i].door = door /\ stored[i].proposedBy = who
          /\ stored[i].operation = operation /\ stored[i].asked = ps
      BY <2>2, <2>3 DEF SameAsked
    <3>3. stored[i].key = key
      BY <3>1, <3>2 DEF Honest
    <3> QED BY <2>1, <3>3
  <2>4. Lawful(Append(stored, t))
    BY <2>2, <2>3, AppendKeeps DEF ParamInv
  <2> QED BY <2>1, <2>4 DEF ParamInv
<1>4. ASSUME NEW who \in Proposer, NEW operation \in Operation, NEW ps \in Offered,
             NEW tags \in OfferedTags, ProposeAsAgent(who, operation, ps, tags)
      PROVE  ParamInv'
  <2> DEFINE t == Build("agent", who, operation, ps, tags, NoKey)
  <2>1. stored' = Append(stored, t) /\ Acceptable(operation, ps, tags)
    BY <1>4 DEF ProposeAsAgent
  <2>2. Honest(t, Ids[Len(stored) + 1]) /\ t.door = "agent"
    BY <1>1, <1>2, <2>1, BuildIsHonest
  <2> HIDE DEF t
  <2>3. \A i \in DOMAIN stored : ~SameAsked(stored[i], t)
    BY <2>2 DEF SameAsked
  <2>4. Lawful(Append(stored, t))
    BY <2>2, <2>3, AppendKeeps DEF ParamInv
  <2> QED BY <2>1, <2>4 DEF ParamInv
<1>5. ASSUME NEW i \in DOMAIN stored
      PROVE  /\ stored[i].operation \in Operation /\ IsFiniteSet(DOMAIN stored[i].tags)
             /\ \A ps \in Offered \cup {stored[i].parameters} : WellFormed(ps)
  <2> DEFINE t == stored[i]
             own == WithOwn(t.askedTags, Ids[i], t.proposedBy)
  <2>1. Honest(t, Ids[i])
    BY DEF ParamInv, Lawful
  <2> HIDE DEF t
  <2>2. /\ t.operation \in Operation /\ IsFiniteSet(DOMAIN t.tags)
        /\ WellFormed(t.asked) /\ IsFiniteSet(DOMAIN t.askedTags)
        /\ t.parameters = WithGateTags(t.operation, t.asked, own)
    BY <2>1 DEF Honest
  <2>3. IsFiniteSet(DOMAIN own)
    BY <2>2, OwnTags
  <2> HIDE DEF own
  <2>4. WellFormed(t.parameters)
    BY <2>2, <2>3, CallIsTagged
  <2> QED BY <1>1, <2>2, <2>4 DEF t
<1>6. ASSUME NEW i \in DOMAIN stored, NEW who \in Proposer,
             NEW ps \in Offered \cup {stored[i].parameters}, EditInDialog(i, who, ps)
      PROVE  ParamInv'
  <2>1. Replace(i, who, stored[i].operation, ps, stored[i].tags)
    BY <1>6 DEF EditInDialog
  <2> QED BY <1>5, <2>1, ReplaceKeeps
<1>7. ASSUME NEW i \in DOMAIN stored, NEW who \in Proposer,
             NEW ps \in Offered \cup {stored[i].parameters}, NEW operation \in Operation,
             NEW tags \in OfferedTags, EditInFull(i, who, operation, ps, tags)
      PROVE  ParamInv'
  <2>1. Replace(i, who, operation, ps, tags)
    BY <1>7 DEF EditInFull
  <2> QED BY <1>2, <1>5, <2>1, ReplaceKeeps
<1>8. ASSUME NEW i \in DOMAIN stored, NEW tags \in OfferedTags, UpdateTags(i, tags)
      PROVE  ParamInv'
  <2> DEFINE own == WithOwn(tags, Ids[i], stored[i].proposedBy)
             u == [stored[i] EXCEPT !.tags = own]
  <2>1. stored' = [stored EXCEPT ![i] = u]
    BY <1>8 DEF UpdateTags
  <2>2. IsFiniteSet(DOMAIN own)
    BY <1>2, OwnTags
  <2>3. Honest(stored[i], Ids[i]) /\ IsTicket(stored[i])
    BY DEF ParamInv, Lawful, Honest
  <2> HIDE DEF own
  <2>4. /\ u.operation = stored[i].operation /\ u.proposedBy = stored[i].proposedBy
        /\ u.tags = own /\ u.parameters = stored[i].parameters
        /\ u.key = stored[i].key /\ u.door = stored[i].door /\ u.asked = stored[i].asked
        /\ u.askedTags = stored[i].askedTags /\ IsTicket(u)
    BY <2>3 DEF IsTicket
  <2> HIDE DEF u
  <2>5. Honest(u, Ids[i])
    BY <2>2, <2>3, <2>4 DEF Honest
  <2>6. Lawful([stored EXCEPT ![i] = u])
    BY <2>4, <2>5, TicketChangeKeeps DEF ParamInv
  <2> QED BY <2>1, <2>6 DEF ParamInv
<1>9. CASE UNCHANGED paramVars
  BY <1>9 DEF ParamInv, paramVars
<1> QED BY <1>3, <1>4, <1>6, <1>7, <1>8, <1>9 DEF ParamNext

LEMMA ParamsAreSound == ParamSpec => []ParamInv
BY ParamInitial, ParamStep, PTL DEF ParamSpec

\* The entries of every stored call say whose it is.
THEOREM CreationsAreTagged == ParamSpec => []EveryCreationIsTagged
<1>1. ParamInv => EveryCreationIsTagged
  <2> SUFFICES ASSUME ParamInv, NEW i \in DOMAIN stored
               PROVE  LET t == stored[i]
                          specs == Specs(t.parameters)
                          types == {TagTypes[t.operation][n] : n \in DOMAIN TagTypes[t.operation]}
                          tagged == {specs[n] : n \in {m \in DOMAIN specs :
                                                          specs[m].type \in types}}
                      IN /\ {s.type : s \in tagged} = types
                         /\ \A s \in tagged :
                              /\ Says(s, "gateTicketId", Ids[i]) /\ Says(s, "owner", t.proposedBy)
                              /\ \A k \in DOMAIN t.askedTags \ Reserved : Says(s, k, t.askedTags[k])
    BY DEF EveryCreationIsTagged
  <2> DEFINE t == stored[i]
             specs == Specs(t.parameters)
             types == {TagTypes[t.operation][n] : n \in DOMAIN TagTypes[t.operation]}
             tagged == {specs[n] : n \in {m \in DOMAIN specs : specs[m].type \in types}}
             own == WithOwn(t.askedTags, Ids[i], t.proposedBy)
  <2>1. Honest(t, Ids[i])
    BY DEF ParamInv, Lawful
  <2>2. types = ToSet(TagTypes[t.operation])
    BY DEF ToSet
  <2>3. \A e : e \in tagged <=> e \in ToSet(specs) /\ e.type \in types
    BY DEF ToSet
  <2>4. /\ t.operation \in Operation /\ WellFormed(t.asked) /\ IsFiniteSet(DOMAIN t.askedTags)
        /\ t.parameters = WithGateTags(t.operation, t.asked, own)
    BY <2>1 DEF Honest
  <2>5. /\ IsFiniteSet(DOMAIN own)
        /\ Reserved \subseteq DOMAIN own /\ DOMAIN t.askedTags \subseteq DOMAIN own
        /\ own["gateTicketId"] = Ids[i] /\ own["owner"] = t.proposedBy
        /\ \A k \in DOMAIN t.askedTags \ Reserved : own[k] = t.askedTags[k]
    BY <2>4, OwnTags
  <2>6. "gateTicketId" \in DOMAIN own /\ "owner" \in DOMAIN own
    BY <2>5 DEF Reserved
  <2> HIDE DEF own, types, tagged, t
  <2>7. /\ types \subseteq {e.type : e \in ToSet(specs)}
        /\ \A e \in ToSet(specs) : e.type \in types => \A k \in DOMAIN own : Says(e, k, own[k])
    BY <2>2, <2>4, <2>5, CallIsTagged
  <2> HIDE DEF specs
  <2>8. {s.type : s \in tagged} = types
    BY <2>3, <2>7
  <2>9. ASSUME NEW s \in tagged
        PROVE  /\ Says(s, "gateTicketId", Ids[i]) /\ Says(s, "owner", t.proposedBy)
               /\ \A k \in DOMAIN t.askedTags \ Reserved : Says(s, k, t.askedTags[k])
    <3>1. \A k \in DOMAIN own : Says(s, k, own[k])
      BY <2>3, <2>7
    <3>2. Says(s, "gateTicketId", own["gateTicketId"]) /\ Says(s, "owner", own["owner"])
      BY <2>6, <3>1
    <3>3. \A k \in DOMAIN t.askedTags \ Reserved : Says(s, k, t.askedTags[k])
      BY <2>5, <3>1
    <3> QED BY <2>5, <3>2, <3>3
  <2> QED BY <2>8, <2>9 DEF tagged, types, specs, t
<1> QED BY <1>1, ParamsAreSound, PTL

\* What is stored passes the checks of a proposal.
THEOREM StoredCallsAreAcceptable == ParamSpec => []StoredCallIsAcceptable
<1>1. ParamInv => StoredCallIsAcceptable
  <2> SUFFICES ASSUME ParamInv, NEW i \in DOMAIN stored
               PROVE  Acceptable(stored[i].operation, stored[i].parameters,
                        IF Cardinality(DOMAIN stored[i].tags) <= MaxTags
                        THEN stored[i].tags ELSE <<>>)
    BY DEF StoredCallIsAcceptable
  <2> DEFINE t == stored[i]
             own == WithOwn(t.askedTags, Ids[i], t.proposedBy)
             tags == IF Cardinality(DOMAIN t.tags) <= MaxTags THEN t.tags ELSE <<>>
  <2>1. Honest(t, Ids[i])
    BY DEF ParamInv, Lawful
  <2> HIDE DEF t
  <2>2. /\ t.operation \in Operation /\ WellFormed(t.asked) /\ IsFiniteSet(DOMAIN t.askedTags)
        /\ FitsShape(t.operation, t.asked) /\ MeetsRules(t.operation, t.asked)
        /\ t.parameters = WithGateTags(t.operation, t.asked, own)
    BY <2>1 DEF Honest
  <2>3. IsFiniteSet(DOMAIN own)
    BY <2>2, OwnTags
  <2> HIDE DEF own
  <2>4. FitsShape(t.operation, t.parameters) /\ MeetsRules(t.operation, t.parameters)
    BY <2>2, <2>3, CallIsTagged
  <2>5. Cardinality(DOMAIN <<>>) <= MaxTags
    <3>1. DOMAIN <<>> = {} /\ Cardinality({}) = 0 /\ MaxTags \in Nat
      BY FS_EmptySet, ParametersAssumption
    <3> QED BY <3>1
  <2>6. Cardinality(DOMAIN tags) <= MaxTags
    BY <2>5
  <2> QED BY <2>4, <2>6 DEF Acceptable, t
<1> QED BY <1>1, ParamsAreSound, PTL

\* A person's proposal of the same call is one ticket, by each of the two doors.
THEOREM ProposalsAreOnce == ParamSpec => []SameProposalSameTicket
<1>1. ParamInv => SameProposalSameTicket
  BY DEF ParamInv, Lawful, SameAsked, SameProposalSameTicket
<1> QED BY <1>1, ParamsAreSound, PTL
=============================================================================
