------------------------------ MODULE Discovery ------------------------------
(***************************************************************************)
(* The account look-ups behind the pickers of the create form:             *)
(* aws/discovery.py with its time-to-live cache, and api/aws_discovery.py. *)
(*                                                                         *)
(* A look-up that the cache cannot answer asks AWS, which takes its time:  *)
(* the answer is true when AWS reads it, and may have changed when it      *)
(* arrives.  Time is kept as ages, counted up to Old and no further, so    *)
(* that it may go on for ever.  The cache has a lock because it is written *)
(* for threads; today's routes call it from the event loop, one after      *)
(* another, and the model allows both.                                     *)
(***************************************************************************)
EXTENDS Integers

CONSTANTS
  Session,    \* look-ups that may be under way at a time
  Kind,       \* resource kinds
  Region,
  Extra,      \* parameter names of AMI aliases
  NoExtra,    \* key_extra = None
  Question,   \* the look-ups the pickers make
  Items,      \* answers AWS may give
  CacheTtl,   \* settings.aws_discovery_cache_seconds or 300
  MaxLatency  \* the longest a look-up takes (timeouts of the AWS client)

ASSUME QuestionAssumption ==
  /\ Question \subseteq [kind : Kind, region : Region, extra : Extra \cup {NoExtra}]
  /\ CacheTtl \in Nat \ {0}
  /\ MaxLatency \in Nat

VARIABLES
  entries,  \* _Cache._entries: key |-> the items and the age of their time stamp
  asks,     \* look-ups that wait for AWS
  account,  \* what is true in the AWS account
  since,    \* history: how long ago each answer was last true
  told      \* history: what each look-up was answered at this moment

discoveryVars == <<entries, asks, account, since, told>>

Old == CacheTtl + MaxLatency

\* One time unit more.
Older(age) == IF age < Old THEN age + 1 ELSE Old

NoAsk == [state |-> "idle"]
NoAnswer == [state |-> "none"]

EmptyCache ==
  /\ entries = [k \in {} |-> NoAnswer]
  /\ asks = [s \in Session |-> NoAsk]
  /\ told = [s \in Session |-> NoAnswer]

DiscoveryInit ==
  /\ EmptyCache
  /\ account \in [Question -> Items]
  /\ since = [q \in Question |-> [i \in Items |-> IF account[q] = i THEN 0 ELSE Old]]

-----------------------------------------------------------------------------
\* Fault: the parameter name is not part of the key.
CacheKeyOfKind(q) == <<q.kind, q.region>>

\* _run: the key of a question.
CacheKey(q) ==
  IF q.extra = NoExtra THEN <<q.kind, q.region>> ELSE <<q.kind, q.region, q.extra>>

Fresh(key) == key \in DOMAIN entries /\ entries[key].age < CacheTtl

Answered(q, items, wait) == [state |-> "told", q |-> q, items |-> items, wait |-> wait]

\* get_or_call finds an entry that is younger than the time to live.
AnswerFromCache(s, q) ==
  /\ asks[s] = NoAsk
  /\ Fresh(CacheKey(q))
  /\ told' = [told EXCEPT ![s] = Answered(q, entries[CacheKey(q)].items, 0)]
  /\ UNCHANGED <<entries, asks, account, since>>

\* It does not, and calls AWS: `wait` is the time since `now` was read.
CallAws(s, q) ==
  /\ asks[s] = NoAsk
  /\ ~Fresh(CacheKey(q))
  /\ asks' = [asks EXCEPT ![s] = [state |-> "sent", q |-> q, wait |-> 0]]
  /\ UNCHANGED <<entries, account, since, told>>

\* AWS reads the account.
AwsReads(s) ==
  LET a == asks[s] IN
  /\ a.state = "sent"
  /\ asks' = [asks EXCEPT ![s] =
       [state |-> "read", q |-> a.q, wait |-> a.wait, items |-> account[a.q]]]
  /\ UNCHANGED <<entries, account, since, told>>

\* Fault: the entry is stamped with the time of its arrival.
StampOnArrival(a) == 0

\* The entry is stamped with the time before the call.
Stamp(a) == a.wait

\* The answer arrives and is cached, whatever has been cached in the meantime.
AwsReturns(s) ==
  LET a == asks[s]
      entry == [items |-> a.items, age |-> Stamp(a)]
  IN
  /\ a.state = "read"
  /\ entries' = [k \in DOMAIN entries \cup {CacheKey(a.q)} |->
                   IF k = CacheKey(a.q) THEN entry ELSE entries[k]]
  /\ told' = [told EXCEPT ![s] = Answered(a.q, a.items, a.wait)]
  /\ asks' = [asks EXCEPT ![s] = NoAsk]
  /\ UNCHANGED <<account, since>>

\* A missing permission, a blocked route, a timeout: the form gets the reason,
\* and nothing is cached.
AwsFails(s) ==
  /\ asks[s] # NoAsk
  /\ asks' = [asks EXCEPT ![s] = NoAsk]
  /\ UNCHANGED <<entries, account, since, told>>

-----------------------------------------------------------------------------
(* The account, the clock and the process.                                 *)

AccountChanges(q, items) ==
  /\ account[q] # items
  /\ account' = [account EXCEPT ![q] = items]
  /\ since' = [since EXCEPT ![q][items] = 0]
  /\ UNCHANGED <<entries, asks, told>>

TimePasses ==
  /\ \A s \in Session : asks[s] # NoAsk => asks[s].wait < MaxLatency
  /\ asks' = [s \in Session |->
                IF asks[s] = NoAsk THEN NoAsk ELSE [asks[s] EXCEPT !.wait = @ + 1]]
  /\ entries' = [k \in DOMAIN entries |-> [entries[k] EXCEPT !.age = Older(@)]]
  /\ since' = [q \in Question |-> [i \in Items |->
                 IF account[q] = i THEN 0 ELSE Older(since[q][i])]]
  /\ told' = [s \in Session |-> NoAnswer]
  /\ UNCHANGED account

\* The cache lives in the process.
ProcessRestarts ==
  /\ entries' = [k \in {} |-> NoAnswer]
  /\ asks' = [s \in Session |-> NoAsk]
  /\ told' = [s \in Session |-> NoAnswer]
  /\ UNCHANGED <<account, since>>

DiscoveryNext ==
  \/ \E s \in Session :
       \/ \E q \in Question : AnswerFromCache(s, q) \/ CallAws(s, q)
       \/ AwsReads(s)
       \/ AwsReturns(s)
       \/ AwsFails(s)
  \/ \E q \in Question, items \in Items : AccountChanges(q, items)
  \/ TimePasses
  \/ ProcessRestarts

DiscoverySpec == DiscoveryInit /\ [][DiscoveryNext]_discoveryVars

-----------------------------------------------------------------------------
\* "Short enough that a subnet created five minutes ago shows up", and two aliases
\* never share an answer: what a picker shows was true, for the very question it
\* asked, less than the time to live ago, or while the look-up was under way,
\* whatever order slow look-ups of the same question come back in.
AnswerIsRecent ==
  \A s \in Session :
    LET a == told[s] IN
    a # NoAnswer => since[a.q][a.items] < CacheTtl \/ since[a.q][a.items] <= a.wait
==============================================================================
