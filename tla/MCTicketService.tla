--------------------------- MODULE MCTicketService ---------------------------
(***************************************************************************)
(* Values for the constants of TicketService and ServiceContract.  "Ann"   *)
(* and "ann" are two spellings of one address.                             *)
(***************************************************************************)
EXTENDS ServiceContract, TicketServiceInv, TLC

MCEmail == {"ann", "Ann", "bob", "eve"}
MCOneEmail == {"ann"}
MCAgent == {"arn:executor"}
MCTwoAgents == {"arn:executor", "arn:other"}
MCExecutor == "arn:executor"
MCLower == [p \in MCEmail \cup MCTwoAgents |-> IF p = "Ann" THEN "ann" ELSE p]

\* The logs are written and never read: leaving them out of the fingerprint
\* merges states that differ in nothing a property of the tickets can see.
WithoutLogs == <<tickets, requests>>

\* Bound: comments and changes of tags in one log, where the logs are part of the state.
MaxRemarks == 1

FewRemarks ==
  \A id \in DOMAIN events :
    Cardinality({i \in DOMAIN events[id] :
                   events[id][i].type \in {"COMMENT_ADDED", "TAGS_UPDATED"}}) <= MaxRemarks

CONSTANTS t1, t2, t3, r1, r2
SymmetricIds == Permutations({t1, t2, t3}) \cup Permutations({r1, r2})
SymmetricTwoIds == Permutations({t1, t2}) \cup Permutations({r1, r2})
SymmetricCalls == Permutations({r1, r2})
==============================================================================
