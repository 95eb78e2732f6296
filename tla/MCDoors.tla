------------------------------- MODULE MCDoors -------------------------------
(***************************************************************************)
(* The ways into the gate, checked side by side: the envelopes of the      *)
(* agents, the pace of the executor's reports, the sessions and links of   *)
(* people, the tokens of an IDE, the look-ups of the pickers, and the call *)
(* a proposal carries.  They share no state, so in each behaviour one of   *)
(* them takes its steps while the others rest in an initial state: every   *)
(* state of each is reached, and none of their products.                   *)
(***************************************************************************)
EXTENDS AgentDoor, ReportPace, HumanDoor, TokenVerifier, Discovery, TicketParameters, TLC

CONSTANTS
  m1, m2, x1, x2  \* members of sets; a pair is interchangeable

VARIABLE focus  \* the component that takes the steps

At(name) == focus = name

Doors == {"envelopes", "reports", "people", "tokens", "lookups", "calls"}

\* Of several initial states a component at rest has one.
DoorsInit ==
  /\ focus \in Doors
  /\ Init /\ PaceInit /\ HumanInit /\ TokenInit /\ DiscoveryInit /\ ParamInit
  /\ At("people") \/ (/\ approvers = CHOOSE list \in Lists : TRUE
                      /\ grouped = CHOOSE people \in Groups : TRUE)
  /\ At("tokens") \/ (published = Key /\ directory = [t \in Opaque |-> NoAddress])
  /\ At("lookups") \/ account = [q \in Question |-> CHOOSE items \in Items : TRUE]

EnvelopesStep ==
  At("envelopes") /\ Next /\ UNCHANGED <<paceVars, humanVars, tokenVars, discoveryVars, paramVars>>
ReportsStep ==
  At("reports") /\ PaceNext /\ UNCHANGED <<vars, humanVars, tokenVars, discoveryVars, paramVars>>
PeopleStep ==
  At("people") /\ HumanNext /\ UNCHANGED <<vars, paceVars, tokenVars, discoveryVars, paramVars>>
TokensStep ==
  At("tokens") /\ TokenNext /\ UNCHANGED <<vars, paceVars, humanVars, discoveryVars, paramVars>>
LookupsStep ==
  At("lookups") /\ DiscoveryNext /\ UNCHANGED <<vars, paceVars, humanVars, tokenVars, paramVars>>
CallsStep ==
  At("calls") /\ ParamNext /\ UNCHANGED <<vars, paceVars, humanVars, tokenVars, discoveryVars>>

DoorsNext ==
  /\ EnvelopesStep \/ ReportsStep \/ PeopleStep \/ TokensStep \/ LookupsStep \/ CallsStep
  /\ UNCHANGED focus

DoorsSpec ==
  /\ DoorsInit
  /\ [][DoorsNext]_<<vars, paceVars, humanVars, tokenVars, discoveryVars, paramVars, focus>>

-----------------------------------------------------------------------------
\* One approver who may be put on the list, and into the group of the other, and taken
\* from either again.
MCLists == {{"ann"}, {}}
MCGroups == {{"bob"}, {"ann", "bob"}}

\* Two tokens under one key; one of them names its person itself.
MCKeyOf == [t \in Token |-> "k1"]
MCClaim == [opaque |-> "nobody", plain |-> "ann"]

\* Two aliases of one kind in one region: they differ in their parameter name only.
MCQuestion == {[kind |-> "ami", region |-> "ca", extra |-> x] : x \in Extra}

\* An operation that is tagged on creation and asks for one of two names, and one with
\* a required name and no tags.
MCIds == <<"t1", "t2", "t3">>
MCMembers == [RunInstances |-> {"ImageId", "LaunchTemplate", "TagSpecifications"},
              StopInstances |-> {"InstanceIds", "Force"}]
MCNeeded == [RunInstances |-> {}, StopInstances |-> {"InstanceIds"}]
MCRules == [RunInstances |-> {{"ImageId", "LaunchTemplate"}}, StopInstances |-> {}]
MCTagTypes == [RunInstances |-> <<"instance", "volume">>, StopInstances |-> <<>>]

\* A stop; a launch of nothing; and a launch with an entry copied from another ticket
\* and one the gate has no tags for.
Copied == [type |-> "volume", tags |-> <<[key |-> "team", value |-> "x"],
                                         [key |-> "gateTicketId", value |-> "t9"]>>]
MCOffered ==
  {[InstanceIds |-> <<"i1">>],
   [ImageId |-> Blank, LaunchTemplate |-> Blank],
   [ImageId |-> Blank, LaunchTemplate |-> <<"lt1">>,
    TagSpecifications |-> <<Copied, [type |-> "spot-instances-request", tags |-> <<>>]>>]}

\* The second is as many tags as are allowed, one of them a reserved one.
MCOfferedTags == {[team |-> "b"], [team |-> "c", owner |-> "bob", cost |-> "y"]}

SymmetricDoors == Permutations({m1, m2}) \cup Permutations({x1, x2})
==============================================================================
