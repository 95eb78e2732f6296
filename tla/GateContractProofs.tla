------------------------- MODULE GateContractProofs -------------------------
(***************************************************************************)
(* What the contract comes to, for any proposals, people and number of     *)
(* signatures required.  TicketServiceProofs, ExecutorProofs and           *)
(* DoorProofs take these facts as their own: the service implements the    *)
(* contract, and the executor and the doors take no other steps on it.     *)
(***************************************************************************)
EXTENDS GateContract, TLAPS

Phase == {"absent", "proposed", "cleared", "refused", "withdrawn", "expired", "replaced",
          "running", "succeeded", "failed"}

ContractTypes ==
  /\ phase \in [Proposal -> Phase]
  /\ author \in [Proposal -> Author \cup Person \cup {None}]
  /\ signers \in [Proposal -> SUBSET Person]
  /\ heir \in [Proposal -> Proposal \cup {None}]

\* Whom nobody has proposed nobody has signed or replaced.
AbsentAreBlank == \A p \in Proposal : phase[p] = "absent" => signers[p] = {} /\ heir[p] = None

ContractInv ==
  /\ ContractTypes
  /\ AbsentAreBlank
  /\ SignedBeforeRun
  /\ HeirsAreOwn

LEMMA ContractInit == Init => ContractInv
BY DEF Init, ContractInv, ContractTypes, Phase, AbsentAreBlank, SignedBeforeRun, HeirsAreOwn

\* A step that changes the phase of one proposal, which has no heir, and nothing else.
LEMMA MoveKeeps ==
  ASSUME ContractInv, NEW p \in Proposal, NEW to \in Phase \ {"absent"}, Move(p, to),
         phase[p] \in {"proposed", "cleared", "running"}, to # "proposed",
         to \in {"cleared", "running", "succeeded", "failed"} =>
           phase[p] \in {"cleared", "running"},
         UNCHANGED <<author, signers, heir>>
  PROVE  ContractInv'
<1>1. phase' = [phase EXCEPT ![p] = to] /\ phase \in [Proposal -> Phase]
  BY DEF Move, ContractInv, ContractTypes
<1>2. heir[p] = None /\ signers' = signers /\ author' = author /\ heir' = heir
  BY DEF ContractInv, HeirsAreOwn
<1>3. /\ phase' \in [Proposal -> Phase] /\ phase'[p] = to
      /\ \A q \in Proposal : q # p => phase'[q] = phase[q]
  BY ONLY <1>1, to \in Phase, p \in Proposal
<1>4. ContractTypes'
  BY <1>2, <1>3 DEF ContractInv, ContractTypes
<1>5. AbsentAreBlank'
  BY <1>2, <1>3 DEF ContractInv, AbsentAreBlank
<1>6. SignedBeforeRun'
  BY <1>2, <1>3 DEF ContractInv, SignedBeforeRun, Enough
<1>7. HeirsAreOwn'
  BY <1>2, <1>3 DEF ContractInv, HeirsAreOwn
<1> QED BY <1>4, <1>5, <1>6, <1>7 DEF ContractInv

LEMMA ProposeKeeps ==
  ASSUME ContractInv, NEW p \in Proposal, NEW who \in Author, Propose(p, who)
  PROVE  ContractInv'
<1>1. /\ phase[p] = "absent" /\ signers[p] = {} /\ heir[p] = None
      /\ signers' = signers /\ heir' = heir
  BY DEF Propose, ContractInv, AbsentAreBlank
<1>2. /\ phase' \in [Proposal -> Phase] /\ phase'[p] = "proposed"
      /\ author' \in [Proposal -> Author \cup Person \cup {None}]
      /\ \A q \in Proposal : q # p => phase'[q] = phase[q] /\ author'[q] = author[q]
  BY DEF Propose, Move, ContractInv, ContractTypes, Phase
<1>3. ContractTypes'
  BY <1>1, <1>2 DEF ContractInv, ContractTypes
<1>4. AbsentAreBlank'
  BY <1>1, <1>2 DEF ContractInv, AbsentAreBlank
<1>5. SignedBeforeRun'
  BY <1>1, <1>2 DEF ContractInv, SignedBeforeRun, Enough
<1>6. HeirsAreOwn'
  BY <1>1, <1>2 DEF ContractInv, HeirsAreOwn
<1> QED BY <1>3, <1>4, <1>5, <1>6 DEF ContractInv

LEMMA SignKeeps ==
  ASSUME ContractInv, NEW p \in Proposal, NEW who \in Person, Sign(p, who)
  PROVE  ContractInv'
<1> DEFINE all == signers[p] \cup {who}
<1>1. /\ phase[p] = "proposed" /\ (AllowSelf \/ author[p] # who)
      /\ author' = author /\ heir' = heir /\ heir[p] = None
  BY DEF Sign, MaySign, MayDecide, ContractInv, HeirsAreOwn
<1>2. /\ phase' \in [Proposal -> Phase] /\ signers' \in [Proposal -> SUBSET Person]
      /\ phase'[p] = (IF Cardinality(all) >= Required THEN "cleared" ELSE "proposed")
      /\ signers'[p] = all
      /\ \A q \in Proposal : q # p => phase'[q] = phase[q] /\ signers'[q] = signers[q]
  BY DEF Sign, Move, ContractInv, ContractTypes, Phase
<1>3. ContractTypes'
  BY <1>1, <1>2 DEF ContractInv, ContractTypes
<1>4. AbsentAreBlank'
  BY <1>1, <1>2 DEF ContractInv, AbsentAreBlank
<1>5. SignedBeforeRun'
  <2>1. ~AllowSelf => author[p] \notin all
    BY <1>1 DEF ContractInv, SignedBeforeRun
  <2>2. /\ phase'[p] = "cleared" => Enough(p)'
        /\ phase'[p] = "proposed" => ~Enough(p)'
        /\ phase'[p] \in {"cleared", "proposed"}
    BY <1>2 DEF Enough
  <2>3. \A q \in Proposal : q # p => (Enough(q)' <=> Enough(q))
    BY <1>2 DEF Enough
  <2> QED BY <1>1, <1>2, <2>1, <2>2, <2>3 DEF ContractInv, SignedBeforeRun
<1>6. HeirsAreOwn'
  BY <1>1, <1>2 DEF ContractInv, HeirsAreOwn
<1> QED BY <1>3, <1>4, <1>5, <1>6 DEF ContractInv

LEMMA InheritKeeps ==
  ASSUME ContractInv, NEW p \in Proposal, NEW new \in Proposal, NEW who \in Person,
         Inherit(p, new, who)
  PROVE  ContractInv'
<1>1. /\ heir[p] = None /\ phase[new] = "absent" /\ new # p /\ signers' = signers
      /\ phase[p] \in {"proposed", "cleared", "withdrawn", "succeeded", "failed"}
  BY DEF Inherit
<1>2. signers[new] = {} /\ heir[new] = None
  BY <1>1 DEF ContractInv, AbsentAreBlank
<1>3. /\ phase' \in [Proposal -> Phase]
      /\ phase'[p] = IF phase[p] \in {"proposed", "cleared"} THEN "replaced" ELSE phase[p]
      /\ phase'[new] = "proposed"
      /\ \A q \in Proposal : q # p /\ q # new => phase'[q] = phase[q]
  BY <1>1 DEF Inherit, ContractInv, ContractTypes, Phase
<1>4. /\ author' \in [Proposal -> Author \cup Person \cup {None}] /\ author'[new] = who
      /\ \A q \in Proposal : q # new => author'[q] = author[q]
  BY DEF Inherit, ContractInv, ContractTypes
<1>5. /\ heir' \in [Proposal -> Proposal \cup {None}] /\ heir'[p] = new
      /\ \A q \in Proposal : q # p => heir'[q] = heir[q]
  BY DEF Inherit, ContractInv, ContractTypes
<1>6. ContractTypes'
  BY <1>1, <1>3, <1>4, <1>5 DEF ContractInv, ContractTypes
<1>7. AbsentAreBlank'
  BY <1>1, <1>3, <1>5 DEF ContractInv, AbsentAreBlank
<1>8. SignedBeforeRun'
  BY <1>1, <1>2, <1>3, <1>4 DEF ContractInv, SignedBeforeRun, Enough
<1>9. HeirsAreOwn'
  <2> SUFFICES ASSUME NEW q \in Proposal, heir'[q] # None
               PROVE  /\ phase'[q] \in {"replaced", "withdrawn", "succeeded", "failed"}
                      /\ heir'[q] \in Proposal \ {q} /\ phase'[heir'[q]] # "absent"
                      /\ \A r \in Proposal : heir'[r] = heir'[q] => r = q
    BY DEF HeirsAreOwn
  \* Nobody's heir was absent, so the new one is no other's.
  <2>1. \A r \in Proposal : heir[r] # None => heir[r] # new
    BY <1>1 DEF ContractInv, HeirsAreOwn
  <2>2. \A r \in Proposal : phase[r] # "absent" => phase'[r] # "absent"
    BY <1>1, <1>3
  <2>3. CASE q = p
    BY <1>1, <1>3, <1>5, <2>1, <2>3
  <2>4. CASE q # p
    <3>1. heir'[q] = heir[q] /\ heir[q] # None
      BY <1>5, <2>4
    <3>2. /\ phase[q] \in {"replaced", "withdrawn", "succeeded", "failed"}
          /\ heir[q] \in Proposal \ {q} /\ phase[heir[q]] # "absent"
          /\ \A r \in Proposal : heir[r] = heir[q] => r = q
      BY <3>1 DEF ContractInv, HeirsAreOwn
    <3>3. phase'[q] = phase[q]
      BY <1>1, <1>3, <2>4, <3>2
    <3>4. \A r \in Proposal : heir'[r] = heir[q] => r = q
      BY <1>5, <2>1, <3>1, <3>2
    <3> QED BY <2>2, <3>1, <3>2, <3>3, <3>4
  <2> QED BY <2>3, <2>4
<1> QED BY <1>6, <1>7, <1>8, <1>9 DEF ContractInv

LEMMA ContractStep == ContractInv /\ [Next]_contractVars => ContractInv'
<1> SUFFICES ASSUME ContractInv, [Next]_contractVars PROVE ContractInv'
  OBVIOUS
<1>1. ASSUME NEW p \in Proposal, NEW who \in Author, Propose(p, who) PROVE ContractInv'
  BY <1>1, ProposeKeeps
<1>2. ASSUME NEW p \in Proposal, NEW who \in Person, Sign(p, who) PROVE ContractInv'
  BY <1>2, SignKeeps
<1>3. ASSUME NEW p \in Proposal, NEW who \in Person, Refuse(p, who) PROVE ContractInv'
  BY <1>3, MoveKeeps DEF Refuse, MayDecide, Phase
<1>4. ASSUME NEW p \in Proposal, Drop(p) PROVE ContractInv'
  BY <1>4, MoveKeeps DEF Drop, Phase
<1>5. ASSUME NEW p \in Proposal, Run(p) PROVE ContractInv'
  BY <1>5, MoveKeeps DEF Run, Phase
<1>6. ASSUME NEW p \in Proposal, Finish(p) PROVE ContractInv'
  BY <1>6, MoveKeeps DEF Finish, Phase
<1>7. ASSUME NEW p \in Proposal, NEW new \in Proposal, NEW who \in Person, Inherit(p, new, who)
      PROVE  ContractInv'
  BY <1>7, InheritKeeps
<1>8. CASE UNCHANGED contractVars
  BY <1>8 DEF contractVars, ContractInv, ContractTypes, AbsentAreBlank, SignedBeforeRun, Enough,
              HeirsAreOwn
<1> QED BY <1>1, <1>2, <1>3, <1>4, <1>5, <1>6, <1>7, <1>8 DEF Next

\* The invariant of the contract.
THEOREM ContractInvariance == Spec => []ContractInv
BY ContractInit, ContractStep, PTL DEF Spec

\* What is cleared has been signed by as many people as required, not by its author.
THEOREM SignaturesComeFirst == Spec => []SignedBeforeRun
<1>1. ContractInv => SignedBeforeRun
  BY DEF ContractInv
<1> QED BY <1>1, ContractInvariance, PTL

\* Lineages neither branch nor join, and what has an heir has come to its end.
THEOREM HeirsAreTheirOwn == Spec => []HeirsAreOwn
<1>1. ContractInv => HeirsAreOwn
  BY DEF ContractInv
<1> QED BY <1>1, ContractInvariance, PTL

\* A step that changes the phase of one proposal that has not ended, and nothing else.
LEMMA MoveLeavesEnds ==
  ASSUME ContractTypes, NEW p \in Proposal, NEW q \in Proposal, NEW to \in Phase \ {"absent"},
         Move(q, to), phase[q] \in {"proposed", "cleared", "running"},
         UNCHANGED <<author, signers, heir>>
  PROVE  LeavesEnds(p)
BY DEF ContractTypes, Move, LeavesEnds

LEMMA StepLeavesEnds ==
  ASSUME ContractInv, [Next]_contractVars, NEW p \in Proposal
  PROVE  LeavesEnds(p)
<1> USE DEF ContractInv
<1>1. ASSUME NEW q \in Proposal, NEW who \in Author, Propose(q, who) PROVE LeavesEnds(p)
  BY <1>1 DEF Propose, Move, ContractTypes, LeavesEnds
<1>2. ASSUME NEW q \in Proposal, NEW who \in Person, Sign(q, who) PROVE LeavesEnds(p)
  BY <1>2 DEF Sign, MaySign, MayDecide, Move, ContractTypes, LeavesEnds
<1>3. ASSUME NEW q \in Proposal, NEW who \in Person, Refuse(q, who) PROVE LeavesEnds(p)
  BY <1>3, MoveLeavesEnds DEF Refuse, MayDecide, Phase
<1>4. ASSUME NEW q \in Proposal, Drop(q) PROVE LeavesEnds(p)
  BY <1>4, MoveLeavesEnds DEF Drop, Phase
<1>5. ASSUME NEW q \in Proposal, Run(q) PROVE LeavesEnds(p)
  BY <1>5, MoveLeavesEnds DEF Run, Phase
<1>6. ASSUME NEW q \in Proposal, Finish(q) PROVE LeavesEnds(p)
  BY <1>6, MoveLeavesEnds DEF Finish, Phase
<1>7. ASSUME NEW q \in Proposal, NEW new \in Proposal, NEW who \in Person, Inherit(q, new, who)
      PROVE  LeavesEnds(p)
  BY <1>7 DEF Inherit, ContractTypes, LeavesEnds
<1>8. CASE UNCHANGED contractVars
  BY <1>8 DEF contractVars, LeavesEnds
<1> QED BY <1>1, <1>2, <1>3, <1>4, <1>5, <1>6, <1>7, <1>8 DEF Next

\* What has ended stays as it is, with its author, its signatures and its heir.
THEOREM EndsStayAsTheyAre == Spec => EndsAreFinal
<1>1. ContractInv /\ [Next]_contractVars => [\A p \in Proposal : LeavesEnds(p)]_contractVars
  BY StepLeavesEnds
<1> QED BY <1>1, ContractInvariance, PTL DEF Spec, EndsAreFinal
=============================================================================
