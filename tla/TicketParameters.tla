--------------------------- MODULE TicketParameters ---------------------------
(***************************************************************************)
(* The call a ticket carries: the checks of a proposal (core/schemas.py,   *)
(* core/aws_schema.py, core/aws_conditional.py), the tags the gate writes  *)
(* into it (with_gate_tags), the key that makes a repeated proposal the    *)
(* same ticket (api/mcp_gateway.py, api/tickets.py), and what happens to   *)
(* all of them when a ticket is edited from its stored call                *)
(* (supersede-dialog.tsx) or its tags are changed (tags-editor.tsx).       *)
(*                                                                         *)
(* Calls that race over one ticket, and its status, are TicketService's;   *)
(* here each request is one step and any ticket without a successor may be *)
(* edited.  A value of a parameter is a sequence, which is Blank when it   *)
(* was null or empty; of the others only TagSpecifications has contents.   *)
(***************************************************************************)
EXTENDS Integers, Sequences, FiniteSets, SequencesExt

CONSTANTS
  Ids,         \* ticket ids in the order they are drawn; their number is a bound
  Proposer,    \* people and agents
  Operation,
  Members,     \* [Operation -> names of parameters]: botocore's input shape,
  Needed,      \*   and those of them it requires
  Rules,       \* [Operation -> sets of names]: CONDITIONAL_RULES
  TagTypes,    \* [Operation -> sequence of resource types]: TAGGABLE_ON_CREATE
  Offered,     \* parameters a caller may come with
  OfferedTags, \* tags a caller may come with
  MaxTags,     \* the limit of _validate_tag_limits
  MaxUpdates,  \* bound: changes of tags
  NoKey

Blank == <<>>

IsSequence(s) == s \in Seq(ToSet(s))

\* What botocore's validator lets through as TagSpecifications: entries of one type
\* each (none at all counts as one), with a list of tags.
WellFormed(ps) ==
  "TagSpecifications" \in DOMAIN ps =>
    /\ IsSequence(ps["TagSpecifications"])
    /\ \A s \in ToSet(ps["TagSpecifications"]) :
         /\ s = [type |-> s.type, tags |-> s.tags]
         /\ IsSequence(s.tags)
         /\ \A t \in ToSet(s.tags) : t = [key |-> t.key, value |-> t.value]

ASSUME ParametersAssumption ==
  /\ MaxTags \in Nat
  /\ \A ps \in Offered : WellFormed(ps)
  /\ \A tags \in OfferedTags : IsFiniteSet(DOMAIN tags)
  /\ \A o \in Operation : IsSequence(TagTypes[o])
  /\ NoKey \notin [door : {"mcp", "portal"}, who : Proposer, operation : Operation,
                   parameters : Offered]
  /\ \A o \in Operation : TagTypes[o] # <<>> => "TagSpecifications" \in Members[o]
  /\ \A o \in Operation : \A rule \in Rules[o] : rule \subseteq Members[o]

VARIABLES
  stored,   \* the tickets, in the order of Ids
  updates   \* how often tags were changed

paramVars == <<stored, updates>>

-----------------------------------------------------------------------------
(* The checks.                                                             *)

\* _present: absent, null and empty all count as not supplied.
Supplied(ps, name) == name \in DOMAIN ps /\ ps[name] # Blank

\* validate_parameters: a name that is there and empty passes this one.
FitsShape(operation, ps) ==
  DOMAIN ps \subseteq Members[operation] /\ Needed[operation] \subseteq DOMAIN ps

\* validate_conditional
MeetsRules(operation, ps) ==
  \A rule \in Rules[operation] : \E name \in rule : Supplied(ps, name)

Acceptable(operation, ps, tags) ==
  /\ Cardinality(DOMAIN tags) <= MaxTags
  /\ FitsShape(operation, ps)
  /\ MeetsRules(operation, ps)

-----------------------------------------------------------------------------
(* The tags of the gate.                                                   *)

Reserved == {"gateTicketId", "owner"}

\* {**tags, "gateTicketId": id, "owner": proposed_by}
WithOwn(tags, id, who) ==
  [k \in DOMAIN tags \cup Reserved |->
     CASE k = "gateTicketId" -> id
       [] k = "owner" -> who
       [] OTHER -> tags[k]]

\* The gate's tags as a list; in which order, no property tells.
AsTags(tags) ==
  LET keys == SetToSeq(DOMAIN tags)
  IN [n \in DOMAIN keys |-> [key |-> keys[n], value |-> tags[keys[n]]]]

Specs(ps) == IF Supplied(ps, "TagSpecifications") THEN ps["TagSpecifications"] ELSE <<>>

\* The elements of s at the places given.
Picked(s, places) ==
  LET pick[n \in 0 .. Len(s)] ==
        IF n = 0 THEN <<>>
        ELSE IF n \in places THEN Append(pick[n - 1], s[n]) ELSE pick[n - 1]
  IN pick[Len(s)]

\* An entry of the caller with the tags merged in, which win over its own of the same
\* key; other types than those the gate tags are left alone.
MergedEntry(s, types, tags) ==
  LET kept == Picked(s.tags, {n \in DOMAIN s.tags : s.tags[n].key \notin DOMAIN tags})
  IN IF s.type \in ToSet(types) THEN [type |-> s.type, tags |-> kept \o AsTags(tags)] ELSE s

\* The types the caller has no entry for.
Missing(specs, types) ==
  Picked(types, {n \in DOMAIN types : \A m \in DOMAIN specs : specs[m].type # types[n]})

Merged(specs, types, tags) ==
  LET missing == Missing(specs, types)
  IN [n \in DOMAIN specs |-> MergedEntry(specs[n], types, tags)]
       \o [n \in DOMAIN missing |-> [type |-> missing[n], tags |-> AsTags(tags)]]

\* Fault: only an operation without an entry in the table is asked for its members.
TagsOnEveryCall(operation, ps, tags) ==
  [n \in DOMAIN ps \cup {"TagSpecifications"} |->
     IF n = "TagSpecifications" THEN Merged(Specs(ps), TagTypes[operation], tags) ELSE ps[n]]

\* Fault: an entry the caller has sent is taken to be complete.
TagsForMissingTypes(operation, ps, tags) ==
  IF TagTypes[operation] = <<>> THEN ps
  ELSE [n \in DOMAIN ps \cup {"TagSpecifications"} |->
          IF n # "TagSpecifications" THEN ps[n]
          ELSE LET missing == Missing(Specs(ps), TagTypes[operation])
               IN Specs(ps) \o Merged(<<>>, missing, tags)]

\* with_gate_tags
WithGateTags(operation, ps, tags) ==
  IF TagTypes[operation] = <<>> \/ "TagSpecifications" \notin Members[operation] THEN ps
  ELSE [n \in DOMAIN ps \cup {"TagSpecifications"} |->
          IF n = "TagSpecifications" THEN Merged(Specs(ps), TagTypes[operation], tags)
          ELSE ps[n]]

-----------------------------------------------------------------------------
(* Tickets.                                                                *)

\* Fault: the key is taken from the call when the tags of the ticket are in it.
IdempotencyKeyOfStored(door, who, operation, ps) ==
  [door |-> door, who |-> who, operation |-> operation,
   parameters |-> WithGateTags(operation, ps,
                    WithOwn(<<>>, Ids[(Len(stored) % Len(Ids)) + 1], who))]

\* "mcp:<person>:<operation>:<hash of parameters>", and the same with "portal".
IdempotencyKey(door, who, operation, ps) ==
  [door |-> door, who |-> who, operation |-> operation, parameters |-> ps]

\* build_ticket; "door", "asked" and "askedTags" are history.
Build(door, who, operation, ps, tags, key) ==
  LET id == Ids[Len(stored) + 1]
      own == WithOwn(tags, id, who)
  IN [operation |-> operation, proposedBy |-> who, tags |-> own,
      parameters |-> WithGateTags(operation, ps, own), key |-> key, edited |-> FALSE,
      door |-> door, asked |-> ps, askedTags |-> tags]

Room == Len(stored) < Len(Ids)

ParamInit == stored = <<>> /\ updates = 0

\* create_human_ticket with the key of its door: a known key is answered with its
\* ticket before anything is checked.
Propose(door, who, operation, ps, tags) ==
  LET key == IdempotencyKey(door, who, operation, ps)
  IN /\ Room
     /\ \A i \in DOMAIN stored : stored[i].key # key
     /\ Acceptable(operation, ps, tags)
     /\ stored' = Append(stored, Build(door, who, operation, ps, tags, key))
     /\ UNCHANGED updates

\* create_agent_ticket without an Idempotency-Key.
ProposeAsAgent(who, operation, ps, tags) ==
  /\ Room
  /\ Acceptable(operation, ps, tags)
  /\ stored' = Append(stored, Build("agent", who, operation, ps, tags, NoKey))
  /\ UNCHANGED updates

Replace(i, who, operation, ps, tags) ==
  /\ Room
  /\ ~stored[i].edited
  /\ Acceptable(operation, ps, tags)
  /\ stored' = Append([stored EXCEPT ![i].edited = TRUE],
                      Build("edit", who, operation, ps, tags, NoKey))
  /\ UNCHANGED updates

\* SupersedeDialog: the operation and the tags of the ticket, reserved ones included,
\* and its stored call with whatever was changed in it.
EditInDialog(i, who, ps) == Replace(i, who, stored[i].operation, ps, stored[i].tags)

\* supersede_change_ticket, with details of its own.
EditInFull(i, who, operation, ps, tags) == Replace(i, who, operation, ps, tags)

\* update_tags
UpdateTags(i, tags) ==
  /\ ~stored[i].edited
  /\ Cardinality(DOMAIN tags) <= MaxTags
  /\ updates < MaxUpdates
  /\ stored' = [stored EXCEPT ![i].tags = WithOwn(tags, Ids[i], stored[i].proposedBy)]
  /\ updates' = updates + 1

ParamNext ==
  \/ \E who \in Proposer, operation \in Operation, ps \in Offered, tags \in OfferedTags :
       \/ \E door \in {"mcp", "portal"} : Propose(door, who, operation, ps, tags)
       \/ ProposeAsAgent(who, operation, ps, tags)
  \/ \E i \in DOMAIN stored, who \in Proposer :
       \E ps \in Offered \cup {stored[i].parameters} :
         \/ EditInDialog(i, who, ps)
         \/ \E operation \in Operation, tags \in OfferedTags :
              EditInFull(i, who, operation, ps, tags)
  \/ \E i \in DOMAIN stored, tags \in OfferedTags : UpdateTags(i, tags)

ParamSpec == ParamInit /\ [][ParamNext]_paramVars

-----------------------------------------------------------------------------
\* "neither may be spoofed": what a create call makes carries the id of the ticket
\* that was approved and the address of who proposed it, once, in an entry for each
\* type the call creates, and no entry for such a type says anything else, also when
\* the call was copied from another ticket of another person.
Says(s, key, value) ==
  \E n \in DOMAIN s.tags : /\ s.tags[n] = [key |-> key, value |-> value]
                           /\ \A m \in DOMAIN s.tags : s.tags[m].key = key => m = n

EveryCreationIsTagged ==
  \A i \in DOMAIN stored :
    LET t == stored[i]
        specs == Specs(t.parameters)
        types == {TagTypes[t.operation][n] : n \in DOMAIN TagTypes[t.operation]}
        entries == {specs[n] : n \in {m \in DOMAIN specs : specs[m].type \in types}}
    IN /\ {s.type : s \in entries} = types
       /\ \A s \in entries :
            /\ Says(s, "gateTicketId", Ids[i]) /\ Says(s, "owner", t.proposedBy)
            /\ \A k \in DOMAIN t.askedTags \ Reserved : Says(s, k, t.askedTags[k])

\* The call a ticket stores passes the checks that the caller's own passed, so that
\* an edit that changes nothing is accepted, and AWS is sent no parameter it does not
\* know.  Only the tags may stand in the way: the dialog counts the gate's two against
\* the limit that held for the caller's.
StoredCallIsAcceptable ==
  \A i \in DOMAIN stored :
    LET t == stored[i]
    IN Acceptable(t.operation, t.parameters,
                  IF Cardinality(DOMAIN t.tags) <= MaxTags THEN t.tags ELSE <<>>)

\* "Same call with the same params from the same user maps to the same ticket rather
\* than opening a duplicate", whatever tags, edits and successors there are meanwhile.
SameProposalSameTicket ==
  \A i, j \in DOMAIN stored :
    LET t == stored[i] u == stored[j]
    IN /\ t.door = u.door /\ t.door \in {"mcp", "portal"}
       /\ t.proposedBy = u.proposedBy
       /\ t.operation = u.operation
       /\ t.asked = u.asked
       => i = j
==============================================================================
