---------------------------- MODULE GateContract ----------------------------
(***************************************************************************)
(* What the approval gate promises, in terms a user would put it: people   *)
(* sign proposals, enough signatures clear one to run, it runs at most     *)
(* once, and a proposal that is replaced or followed up has one heir.      *)
(* Every operation is a single atomic step: no requests, no sequence       *)
(* numbers, no logs.  ServiceContract shows that TicketService, whose      *)
(* calls read and write at different moments, implements this.             *)
(***************************************************************************)
EXTENDS Integers, FiniteSets

CONSTANTS
  Proposal,   \* proposals there may ever be
  Person,     \* people, whatever the spelling of their address
  Author,     \* people and agents
  Required,   \* signatures needed
  AllowSelf,  \* may an author sign or refuse?
  None

VARIABLES
  phase,    \* where each proposal is
  author,   \* who proposed it
  signers,  \* who signed it
  heir      \* the proposal that replaces it or follows it up

contractVars == <<phase, author, signers, heir>>

Init ==
  /\ phase = [p \in Proposal |-> "absent"]
  /\ author = [p \in Proposal |-> None]
  /\ signers = [p \in Proposal |-> {}]
  /\ heir = [p \in Proposal |-> None]

Move(p, to) == phase' = [phase EXCEPT ![p] = to]

MayDecide(p, who) == phase[p] = "proposed" /\ (AllowSelf \/ author[p] # who)

Propose(p, who) ==
  /\ phase[p] = "absent"
  /\ Move(p, "proposed")
  /\ author' = [author EXCEPT ![p] = who]
  /\ UNCHANGED <<signers, heir>>

\* Nobody signs twice; but who has signed may still refuse.
MaySign(p, who) == MayDecide(p, who) /\ who \notin signers[p]

Sign(p, who) ==
  /\ MaySign(p, who)
  /\ signers' = [signers EXCEPT ![p] = @ \cup {who}]
  /\ Move(p, IF Cardinality(signers[p] \cup {who}) >= Required THEN "cleared" ELSE "proposed")
  /\ UNCHANGED <<author, heir>>

Refuse(p, who) ==
  /\ MayDecide(p, who)
  /\ Move(p, "refused")
  /\ UNCHANGED <<author, signers, heir>>

Drop(p) ==
  /\ phase[p] \in {"proposed", "cleared"}
  /\ \E to \in {"withdrawn", "expired"} : Move(p, to)
  /\ UNCHANGED <<author, signers, heir>>

Run(p) ==
  /\ phase[p] = "cleared"
  /\ Move(p, "running")
  /\ UNCHANGED <<author, signers, heir>>

Finish(p) ==
  /\ phase[p] = "running"
  /\ \E to \in {"succeeded", "failed"} : Move(p, to)
  /\ UNCHANGED <<author, signers, heir>>

\* The old proposal is out of the way in the same step that makes its heir.
Inherit(p, new, who) ==
  /\ heir[p] = None
  /\ phase[p] \in {"proposed", "cleared", "withdrawn", "succeeded", "failed"}
  /\ phase[new] = "absent"
  /\ phase' = [phase EXCEPT ![p] = IF @ \in {"proposed", "cleared"} THEN "replaced" ELSE @,
                            ![new] = "proposed"]
  /\ author' = [author EXCEPT ![new] = who]
  /\ heir' = [heir EXCEPT ![p] = new]
  /\ UNCHANGED signers

Next ==
  \E p \in Proposal :
    \/ \E who \in Author : Propose(p, who)
    \/ \E who \in Person : Sign(p, who) \/ Refuse(p, who)
    \/ Drop(p) \/ Run(p) \/ Finish(p)
    \/ \E new \in Proposal, who \in Person : Inherit(p, new, who)

Spec == Init /\ [][Next]_contractVars

-----------------------------------------------------------------------------
(* What the contract comes to.  GateContractProofs proves it, and who      *)
(* implements the contract or is built on it inherits it.                  *)

\* Nothing is cleared, let alone run, without the signatures of as many people as are
\* required, its author not among them unless that is allowed; and a proposal with
\* enough of them does not wait for more.
Enough(p) == Cardinality(signers[p]) >= Required

SignedBeforeRun ==
  \A p \in Proposal :
    /\ phase[p] \in {"cleared", "running", "succeeded", "failed"} => Enough(p)
    /\ phase[p] = "proposed" /\ signers[p] # {} => ~Enough(p)
    /\ ~AllowSelf => author[p] \notin signers[p]

\* A lineage does not branch or join, and what has an heir will not run any more: a
\* proposal and the one that replaces it are never both carried out by a mistake.
HeirsAreOwn ==
  \A p \in Proposal : heir[p] # None =>
    /\ phase[p] \in {"replaced", "withdrawn", "succeeded", "failed"}
    /\ heir[p] \in Proposal \ {p} /\ phase[heir[p]] # "absent"
    /\ \A q \in Proposal : heir[q] = heir[p] => q = p

\* What has ended stays as it ended, and its record does not change: who proposed it,
\* who had signed it when the decision fell, and which proposal took its place.
LeavesEnds(p) ==
  /\ phase[p] \in {"refused", "withdrawn", "expired", "replaced", "succeeded", "failed"} =>
       phase'[p] = phase[p]
  /\ phase[p] # "absent" => phase'[p] # "absent" /\ author'[p] = author[p]
  /\ signers[p] \subseteq signers'[p] /\ (signers[p] # signers'[p] => phase[p] = "proposed")
  /\ heir[p] # None => heir'[p] = heir[p]

EndsAreFinal == [][\A p \in Proposal : LeavesEnds(p)]_contractVars
=============================================================================
