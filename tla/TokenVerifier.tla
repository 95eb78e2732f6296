---------------------------- MODULE TokenVerifier ----------------------------
(***************************************************************************)
(* The bearer tokens of /mcp: OidcTokenVerifier (auth/mcp_token_verifier   *)
(* .py) with its two caches, the signing keys of the identity provider     *)
(* (_JwksCache) and the address behind a token that carries none           *)
(* (_UserinfoEmailCache).                                                  *)
(*                                                                         *)
(* verify_token awaits the provider up to twice.  While it does, other     *)
(* calls are verified, the provider rotates its keys and people change     *)
(* their addresses.  Time is kept as ages, counted up to Aged.             *)
(***************************************************************************)
EXTENDS Integers

CONSTANTS
  Call,       \* calls that may be verified at a time
  Key,        \* signing keys
  Address,    \* addresses of people
  NoAddress,
  Token,      \* tokens in use
  KeyOf,      \* the key each is signed with
  Claim,      \* its email claim, or NoAddress
  Fit,        \* those with the right issuer and audience
  JwksTtl,    \* _JWKS_TTL_SECONDS
  UserTtl,    \* _USERINFO_CACHE_TTL_SECONDS
  MaxWait     \* the longest the provider takes (httpx timeout)

ASSUME TokenAssumption ==
  /\ KeyOf \in [Token -> Key]
  /\ Claim \in [Token -> Address \cup {NoAddress}]
  /\ Fit \subseteq Token
  /\ NoAddress \notin Address
  /\ {JwksTtl, UserTtl, MaxWait} \subseteq Nat
  /\ UserTtl <= JwksTtl /\ MaxWait <= JwksTtl

\* Tokens without an address of their own (Cognito's access tokens).
Opaque == {t \in Token : Claim[t] = NoAddress}

VARIABLES
  jwks,       \* _JwksCache: the keys and the age of their time stamp
  addresses,  \* _UserinfoEmailCache._entries: token |-> address and age
  calls,      \* verify_token: calls that wait for the provider
  published,  \* the keys the provider publishes
  directory,  \* the address it gives for each opaque token
  keySince,   \* history: how long ago each key was last published
  nameSince,  \* history: how long ago each address was last a token's
  verdicts    \* history: tokens accepted at this moment, and for whom

tokenVars ==
  <<jwks, addresses, calls, published, directory, keySince, nameSince, verdicts>>

Aged == JwksTtl + MaxWait + 1

Aging(age) == IF age < Aged THEN age + 1 ELSE Aged

NoCall == [state |-> "idle"]
NoVerdict == [state |-> "none"]

FreshProcess ==
  /\ jwks = [keys |-> {}, age |-> Aged]
  /\ addresses = [t \in {} |-> NoVerdict]
  /\ calls = [c \in Call |-> NoCall]
  /\ verdicts = [c \in Call |-> NoVerdict]

TokenInit ==
  /\ FreshProcess
  /\ published \in SUBSET Key
  /\ directory \in [Opaque -> Address \cup {NoAddress}]
  /\ keySince = [k \in Key |-> IF k \in published THEN 0 ELSE Aged]
  /\ nameSince = [t \in Opaque |-> [a \in Address |-> IF directory[t] = a THEN 0 ELSE Aged]]

-----------------------------------------------------------------------------
KeysAreFresh == jwks.age <= JwksTtl

AddressIsFresh(t) == t \in DOMAIN addresses /\ addresses[t].age <= UserTtl

Finish(c) == calls' = [calls EXCEPT ![c] = NoCall]

Accept(c, t, address, wait) ==
  verdicts' = [verdicts EXCEPT ![c] =
    [state |-> "accepted", token |-> t, address |-> address, wait |-> wait]]

\* The signature, the issuer and the audience.
Decodes(t, keys) == KeyOf[t] \in keys /\ t \in Fit

\* verify_token once it has the keys: up to its verdict, or to the call of userinfo.
\* (exp, nbf and iat may turn any token down.)
Judge(c, t, keys) ==
  \/ Finish(c) /\ UNCHANGED verdicts
  \/ /\ Decodes(t, keys)
     /\ t \notin Opaque
     /\ Accept(c, t, Claim[t], 0) /\ Finish(c)
  \/ /\ Decodes(t, keys)
     /\ t \in Opaque
     /\ AddressIsFresh(t)
     /\ Accept(c, t, addresses[t].address, 0) /\ Finish(c)
  \/ /\ Decodes(t, keys)
     /\ t \in Opaque
     /\ ~AddressIsFresh(t)
     /\ calls' = [calls EXCEPT ![c] = [state |-> "user", token |-> t, wait |-> 0]]
     /\ UNCHANGED verdicts

\* Fault: the time stamp of the keys is renewed whenever they are used.
VerifyRenewing(c, t) ==
  /\ calls[c] = NoCall
  /\ KeysAreFresh
  /\ Judge(c, t, jwks.keys)
  /\ jwks' = [jwks EXCEPT !.age = 0]
  /\ UNCHANGED <<addresses, published, directory, keySince, nameSince>>

\* verify_token with keys from the cache.
Verify(c, t) ==
  /\ calls[c] = NoCall
  /\ KeysAreFresh
  /\ Judge(c, t, jwks.keys)
  /\ UNCHANGED <<jwks, addresses, published, directory, keySince, nameSince>>

\* verify_token fetches the keys: `wait` is the time since `now` was read.
FetchKeys(c, t) ==
  /\ calls[c] = NoCall
  /\ ~KeysAreFresh
  /\ calls' = [calls EXCEPT ![c] = [state |-> "keys", token |-> t, wait |-> 0]]
  /\ UNCHANGED <<jwks, addresses, published, directory, keySince, nameSince, verdicts>>

\* The provider reads what it answers.
ProviderReads(c) ==
  LET q == calls[c] IN
  /\ \/ /\ q.state = "keys"
        /\ calls' = [calls EXCEPT ![c] = [state |-> "keysRead", token |-> q.token,
                                          wait |-> q.wait, keys |-> published]]
     \/ /\ q.state = "user"
        /\ calls' = [calls EXCEPT ![c] = [state |-> "userRead", token |-> q.token,
                                          wait |-> q.wait, address |-> directory[q.token]]]
  /\ UNCHANGED <<jwks, addresses, published, directory, keySince, nameSince, verdicts>>

\* The keys are cached, with the time before the call, and the token is judged.
KeysArrive(c) ==
  LET q == calls[c] IN
  /\ q.state = "keysRead"
  /\ jwks' = [keys |-> q.keys, age |-> q.wait]
  /\ Judge(c, q.token, q.keys)
  /\ UNCHANGED <<addresses, published, directory, keySince, nameSince>>

\* Fault: the time of the answer is the time stamp.
CachedOnArrival(t, address, wait) ==
  [x \in DOMAIN addresses \cup {t} |->
     IF x = t THEN [address |-> address, age |-> 0] ELSE addresses[x]]

\* self._entries[token] = (email, now), with the time before the call.
Cached(t, address, wait) ==
  [x \in DOMAIN addresses \cup {t} |->
     IF x = t THEN [address |-> address, age |-> wait] ELSE addresses[x]]

\* An address is cached and the token accepted; no address, and it is turned down.
AddressArrives(c) ==
  LET q == calls[c] IN
  /\ q.state = "userRead"
  /\ \/ /\ q.address # NoAddress
        /\ addresses' = Cached(q.token, q.address, q.wait)
        /\ Accept(c, q.token, q.address, q.wait)
     \/ /\ q.address = NoAddress
        /\ UNCHANGED <<addresses, verdicts>>
  /\ Finish(c)
  /\ UNCHANGED <<jwks, published, directory, keySince, nameSince>>

\* Any error of the provider: the token is turned down, nothing is cached.
ProviderFails(c) ==
  /\ calls[c] # NoCall
  /\ Finish(c)
  /\ UNCHANGED <<jwks, addresses, published, directory, keySince, nameSince, verdicts>>

-----------------------------------------------------------------------------
(* The provider, the clock and the process.                                *)

Rotate(keys) ==
  /\ published' = keys
  /\ keySince' = [k \in Key |-> IF k \in keys THEN 0 ELSE keySince[k]]
  /\ UNCHANGED <<jwks, addresses, calls, directory, nameSince, verdicts>>

Rename(t, address) ==
  /\ directory' = [directory EXCEPT ![t] = address]
  /\ nameSince' = [nameSince EXCEPT ![t] =
       [a \in Address |-> IF a = address THEN 0 ELSE @[a]]]
  /\ UNCHANGED <<jwks, addresses, calls, published, keySince, verdicts>>

Wait ==
  /\ \A c \in Call : calls[c] # NoCall => calls[c].wait < MaxWait
  /\ calls' = [c \in Call |->
                 IF calls[c] = NoCall THEN NoCall ELSE [calls[c] EXCEPT !.wait = @ + 1]]
  /\ jwks' = [jwks EXCEPT !.age = Aging(@)]
  /\ addresses' = [t \in DOMAIN addresses |-> [addresses[t] EXCEPT !.age = Aging(@)]]
  /\ keySince' = [k \in Key |-> IF k \in published THEN 0 ELSE Aging(keySince[k])]
  /\ nameSince' = [t \in Opaque |-> [a \in Address |->
                     IF directory[t] = a THEN 0 ELSE Aging(nameSince[t][a])]]
  /\ verdicts' = [c \in Call |-> NoVerdict]
  /\ UNCHANGED <<published, directory>>

Reboot ==
  /\ jwks' = [keys |-> {}, age |-> Aged]
  /\ addresses' = [t \in {} |-> NoVerdict]
  /\ calls' = [c \in Call |-> NoCall]
  /\ verdicts' = [c \in Call |-> NoVerdict]
  /\ UNCHANGED <<published, directory, keySince, nameSince>>

TokenNext ==
  \/ \E c \in Call :
       \/ \E t \in Token : Verify(c, t) \/ FetchKeys(c, t)
       \/ ProviderReads(c)
       \/ KeysArrive(c)
       \/ AddressArrives(c)
       \/ ProviderFails(c)
  \/ \E keys \in SUBSET Key : Rotate(keys)
  \/ \E t \in Opaque, address \in Address \cup {NoAddress} : Rename(t, address)
  \/ Wait
  \/ Reboot

TokenSpec == TokenInit /\ [][TokenNext]_tokenVars

-----------------------------------------------------------------------------
\* A key the provider has withdrawn opens the gate for the lifetime of the cached
\* keys at most, plus the time one answer takes, however often the key is used and
\* in whatever order slow answers with older key sets arrive.
WithdrawnKeyLapses ==
  \A c \in Call :
    verdicts[c] # NoVerdict =>
      keySince[KeyOf[verdicts[c].token]] <= JwksTtl + verdicts[c].wait

\* The person a call is attributed to, who then counts as the proposer, is the one
\* the token names itself, or the one the provider has named for this very token
\* within the lifetime of the cached address or in answer to this call.
SubjectIsRecent ==
  \A c \in Call :
    LET v == verdicts[c] IN
    v # NoVerdict =>
      IF v.token \in Opaque
      THEN \/ nameSince[v.token][v.address] <= UserTtl
           \/ nameSince[v.token][v.address] <= v.wait
      ELSE v.address = Claim[v.token]
==============================================================================
