------------------------------ MODULE AgentDoor ------------------------------
(***************************************************************************)
(* What stands in front of the agent API: the sliding-window limiter       *)
(* (api/middleware.py), verify_agent (auth/agent_auth.py) with its replay  *)
(* cache, and how agents sign: one envelope per call, the executor with a  *)
(* nonce (gate_client.py), others as docs/agent-contract.md shows them,    *)
(* without one.                                                            *)
(*                                                                         *)
(* A request is handled up to the call to STS in one step.  (Between the   *)
(* limiter and verify_agent the middleware awaits call_next: the two have  *)
(* no state in common, and no property relates them.)  While STS answers,  *)
(* other requests come in, time passes and the gate may restart.  Any      *)
(* envelope ever signed may be presented again: clients, proxies and       *)
(* people retransmit.                                                      *)
(*                                                                         *)
(* The gate reads two clocks, UTC for the signed date and a monotonic one  *)
(* for everything else; both advance with `now`.  The signers' clocks      *)
(* differ from it by at most Behind and Ahead.                             *)
(***************************************************************************)
EXTENDS SlidingWindow

CONSTANTS
  Signer,     \* principals that sign envelopes
  Allowed,    \* those that match settings.allowed_agent_arns
  Drawing,    \* those that sign a nonce: the executor
  GateId,     \* the server ids an envelope may be signed for
  ThisGate,   \* settings.gate_server_id
  CallId,     \* calls, and the nonce of each; bounds their number
  NoNonce,    \* an envelope without X-Gate-Nonce
  Client,     \* client addresses
  Request,    \* requests that may wait for STS at a time
  Window,     \* MAX_CLOCK_SKEW_SECONDS
  Ttl,        \* ReplayCache: ttl_seconds
  HitWindow,  \* RATE_LIMIT_WINDOW
  MaxHits,    \* RATE_LIMIT_MAX
  Behind,     \* how late a signer's clock may be
  Ahead,      \* how early
  MaxClock,   \* bound on the clock
  None

ASSUME DoorAssumption ==
  /\ Allowed \subseteq Signer /\ Drawing \subseteq Signer
  /\ NoNonce \notin CallId
  /\ ThisGate \in GateId
  /\ {Window, Ttl, HitWindow, Behind, Ahead, MaxClock} \subseteq Nat
  /\ MaxHits \in Nat \ {0}

\* A signature is remembered from its arrival, and valid around its date: the
\* two fit together as long as no signer's clock is further ahead than this.
\* (With the code's 300 and 360 seconds: less than a minute.)
ASSUME ClocksAssumption == Window + Ahead < Ttl

Envelope ==
  [signer : Signer, gate : GateId, stamp : (-Behind) .. (MaxClock + Ahead),
   nonce : CallId \cup {NoNonce}]

ASSUME NoneAssumption == None \notin Envelope

VARIABLES
  now,       \* the gate's clocks
  signed,    \* calls made so far, each with the envelope signed for it
  seen,      \* ReplayCache._seen: signature |-> when it is forgotten
  hits,      \* SlidingWindowLimiter._hits: client |-> times
  waiting,   \* requests awaiting STS: request |-> its envelope
  presented, \* history: calls whose envelopes have come before the replay cache
  passes,    \* history: when the limiter let a client pass, since the boot
  accepted,  \* history: envelopes this process has accepted
  again      \* history: those it has accepted a second time

vars == <<now, signed, seen, hits, waiting, presented, passes, accepted, again>>

Booted ==
  /\ seen = [s \in {} |-> 0]
  /\ hits = [c \in Client |-> <<>>]
  /\ waiting = [r \in Request |-> None]
  /\ passes = [c \in Client |-> <<>>]
  /\ accepted = {} /\ again = {}

Init == now = 0 /\ signed = {} /\ presented = {} /\ Booted

-----------------------------------------------------------------------------
\* identity_header: a date in whole seconds and a nonce nobody has drawn; the client
\* of the documentation has the date alone.
Sign(signer, gate) ==
  /\ \E stamp \in (now - Behind) .. (now + Ahead), id \in CallId \ {c.id : c \in signed} :
       LET envelope == [signer |-> signer, gate |-> gate, stamp |-> stamp,
                        nonce |-> IF signer \in Drawing THEN id ELSE NoNonce]
       IN  signed' = signed \cup {[id |-> id, envelope |-> envelope]}
  /\ UNCHANGED <<now, seen, hits, waiting, presented, passes, accepted, again>>

\* Fault: the nonce header is sent but not signed.
DatedSignature(e) == <<e.signer, e.gate, e.stamp>>

\* SigV4 is deterministic: the signature is a function of what is signed.
Signature(e) == <<e.signer, e.gate, e.stamp, e.nonce>>

-----------------------------------------------------------------------------
(* The limiter.                                                            *)

\* Fault: the window starts anew when its oldest hit is stale.
RecentOrNone(c) ==
  IF hits[c] # <<>> /\ hits[c][1] <= now - HitWindow THEN <<>> ELSE hits[c]

\* The hits of a client after the stale ones have been dropped from the left.
Recent(c) == InWindow(hits[c], now - HitWindow)

\* Too many requests: 429.
RateLimit(c) ==
  /\ Len(Recent(c)) >= MaxHits
  /\ hits' = [hits EXCEPT ![c] = Recent(c)]
  /\ UNCHANGED <<now, signed, seen, waiting, presented, passes, accepted, again>>

Admit(c) ==
  /\ Len(Recent(c)) < MaxHits
  /\ hits' = [hits EXCEPT ![c] = Append(Recent(c), now)]
  /\ passes' = [passes EXCEPT ![c] = Append(@, now)]
  /\ UNCHANGED <<now, signed, accepted, again>>

\* A request to the landing page of a mailed link, counted with the agents' own.
ByLink(c) == Admit(c) /\ UNCHANGED <<seen, waiting, presented>>

-----------------------------------------------------------------------------
(* verify_agent.                                                           *)

Abs(n) == IF n < 0 THEN -n ELSE n

\* The checks that need no memory: a dated request to STS, signed for this gate.
Plausible(e) ==
  /\ Abs(now - e.stamp) <= Window
  /\ e.gate = ThisGate

\* ReplayCache._prune
Unexpired == [s \in {x \in DOMAIN seen : seen[x] > now} |-> seen[s]]

Refuse(c, e) ==
  /\ ~Plausible(e)
  /\ Admit(c)
  /\ UNCHANGED <<seen, waiting, presented>>

\* check_and_add finds the signature: 401.
RefuseReplay(c, call) ==
  LET e == call.envelope IN
  /\ Plausible(e)
  /\ Signature(e) \in DOMAIN Unexpired
  /\ seen' = Unexpired
  /\ presented' = presented \cup {call}
  /\ Admit(c)
  /\ UNCHANGED waiting

\* Fault: a signature is remembered as long as its date may be off.
RememberForWindow(sig) ==
  [s \in DOMAIN Unexpired \cup {sig} |-> IF s = sig THEN now + Window ELSE seen[s]]

\* check_and_add: what is still remembered, and this signature.
Remember(sig) ==
  [s \in DOMAIN Unexpired \cup {sig} |-> IF s = sig THEN now + Ttl ELSE seen[s]]

\* check_and_add records the signature, then STS is asked.
Forward(r, c, call) ==
  LET e == call.envelope IN
  /\ waiting[r] = None
  /\ Plausible(e)
  /\ Signature(e) \notin DOMAIN Unexpired
  /\ seen' = Remember(Signature(e))
  /\ presented' = presented \cup {call}
  /\ waiting' = [waiting EXCEPT ![r] = e]
  /\ Admit(c)

\* STS names the caller, who is looked up in the allowlist.
StsAnswers(r) ==
  LET e == waiting[r] IN
  /\ e # None
  /\ waiting' = [waiting EXCEPT ![r] = None]
  /\ IF e.signer \in Allowed
     THEN /\ accepted' = accepted \cup {e}
          /\ again' = again \cup ({e} \cap accepted)
     ELSE UNCHANGED <<accepted, again>>
  /\ UNCHANGED <<now, signed, seen, hits, presented, passes>>

\* STS rejects the signature, or does not answer in time.
StsRefuses(r) ==
  /\ waiting[r] # None
  /\ waiting' = [waiting EXCEPT ![r] = None]
  /\ UNCHANGED <<now, signed, seen, hits, presented, passes, accepted, again>>

\* The process memory of the gate is gone; a request in flight is dropped.
Restart ==
  /\ seen' = [s \in {} |-> 0]
  /\ hits' = [c \in Client |-> <<>>]
  /\ waiting' = [r \in Request |-> None]
  /\ passes' = [c \in Client |-> <<>>]
  /\ accepted' = {} /\ again' = {}
  /\ UNCHANGED <<now, signed, presented>>

Tick ==
  /\ now < MaxClock
  /\ now' = now + 1
  /\ UNCHANGED <<signed, seen, hits, waiting, presented, passes, accepted, again>>

Present(c, call) ==
  \/ Refuse(c, call.envelope)
  \/ RefuseReplay(c, call)
  \/ \E r \in Request : Forward(r, c, call)

Next ==
  \/ \E s \in Signer, g \in GateId : Sign(s, g)
  \/ \E c \in Client : RateLimit(c) \/ ByLink(c) \/ \E call \in signed : Present(c, call)
  \/ \E r \in Request : StsAnswers(r) \/ StsRefuses(r)
  \/ Restart
  \/ Tick

Spec == Init /\ [][Next]_vars

-----------------------------------------------------------------------------
\* "Each signed envelope is single-use" (docs/agent-contract.md): one process of
\* the gate accepts an envelope once at most, however often it is presented, also
\* while the first presentation still waits for STS, and after its signature has
\* been forgotten.
SingleUse == again = {}

\* Two calls of one signer, to one gate, in one second.
Twins(c, d) ==
  LET e == c.envelope  f == d.envelope IN
  c # d /\ e.signer = f.signer /\ e.gate = f.gate /\ e.stamp = f.stamp

\* "Without the nonce any two calls in the same clock second collide" (gate_client.py):
\* and no others do.  A call that nobody has made before is taken for a replay only if
\* its signer draws no nonce and has made another call in its second, which has come
\* before; whatever else the process remembers or has forgotten.
OnlyTwinsCollide ==
  \A c \in signed \ presented :
    Signature(c.envelope) \in DOMAIN seen =>
      /\ c.envelope.signer \notin Drawing
      /\ \E d \in presented : Twins(c, d)

\* The limiter lets a client pass at most MaxHits times in any HitWindow seconds,
\* and what it counts are exactly the passes of those seconds: it forgets none
\* when it drops the stale ones, and being refused does not prolong the wait.
RateIsExact ==
  \A c \in Client :
    /\ InWindow(passes[c], now - HitWindow) = InWindow(hits[c], now - HitWindow)
    /\ \A i \in 1 .. Len(passes[c]) - MaxHits :
         passes[c][i + MaxHits] >= passes[c][i] + HitWindow
==============================================================================
