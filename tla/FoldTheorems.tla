---------------------------- MODULE FoldTheorems ----------------------------
(***************************************************************************)
(* What FoldLeft computes, for any operator Op: the base on the empty      *)
(* sequence, and one more application for one more element.  The library   *)
(* defines it by recursion over the subsets of the domain, so the facts    *)
(* rest on an induction over their size.  A module that folds takes an     *)
(* instance with its own operator for Op.                                  *)
(***************************************************************************)
EXTENDS SequencesExt, WellFoundedInduction, TLAPS

CONSTANT Op(_, _)

\* Induction over the naturals, stated for a set instead of a predicate.
LEMMA SetInduction ==
  ASSUME NEW P, 0 \in P, \A n \in Nat : n \in P => n + 1 \in P
  PROVE  Nat \subseteq P
<1> DEFINE Less == {pair \in Nat \X Nat : pair[1] < pair[2]}
<1>1. IsWellFoundedOn(Less, Nat)
  BY NatLessThanWellFounded DEF OpToRel
<1> SUFFICES ASSUME Nat \ P # {} PROVE FALSE
  OBVIOUS
<1>2. PICK n \in Nat \ P : \A m \in Nat \ P : <<m, n>> \notin Less
  <2> HIDE DEF Less
  <2> QED BY <1>1, WFMin
<1>3. n - 1 \in Nat \ P /\ n - 1 < n
  BY <1>2
<1>4. <<n - 1, n>> \in Less
  BY <1>3
<1> QED BY <1>2, <1>3, <1>4

-----------------------------------------------------------------------------
\* it is the function that FoldLeft applies to the domain of a sequence of length n.
IsIter(it, base, seq, n) ==
  it = [s \in SUBSET (1 .. n) |->
          IF s = {} THEN base ELSE Op(it[s \ {Max(s)}], seq[Max(s)])]

LEMMA MaxIsLast ==
  ASSUME NEW n \in Nat, NEW s \in SUBSET (1 .. n + 1), n + 1 \in s
  PROVE  Max(s) = n + 1
<1>1. \A y \in s : n + 1 >= y
  OBVIOUS
<1>2. \A x \in s : (\A y \in s : x >= y) => x = n + 1
  OBVIOUS
<1> QED BY <1>1, <1>2 DEF Max

LEMMA IterGrows ==
  ASSUME NEW n \in Nat, NEW base, NEW seq, NEW it, IsIter(it, base, seq, n)
  PROVE  IsIter([s \in SUBSET (1 .. n + 1) |->
                   IF n + 1 \in s THEN Op(it[s \ {n + 1}], seq[n + 1]) ELSE it[s]],
                base, seq, n + 1)
<1> DEFINE next == [s \in SUBSET (1 .. n + 1) |->
                      IF n + 1 \in s THEN Op(it[s \ {n + 1}], seq[n + 1]) ELSE it[s]]
<1>1. ASSUME NEW s \in SUBSET (1 .. n + 1)
      PROVE  next[s] = IF s = {} THEN base ELSE Op(next[s \ {Max(s)}], seq[Max(s)])
  <2>1. CASE n + 1 \in s
    <3>1. Max(s) = n + 1 /\ s # {} /\ s \ {n + 1} \in SUBSET (1 .. n + 1)
      BY <2>1, MaxIsLast
    <3>2. next[s] = Op(it[s \ {n + 1}], seq[n + 1])
      BY <2>1
    <3>3. next[s \ {n + 1}] = it[s \ {n + 1}]
      BY <3>1
    <3> HIDE DEF next
    <3> QED BY <3>1, <3>2, <3>3
  <2>2. CASE n + 1 \notin s
    <3>1. s \in SUBSET (1 .. n)
      BY <2>2
    <3>2. next[s] = it[s] /\ next[s \ {Max(s)}] = it[s \ {Max(s)}]
      BY <2>2
    <3>3. it[s] = IF s = {} THEN base ELSE Op(it[s \ {Max(s)}], seq[Max(s)])
      BY <3>1 DEF IsIter
    <3> HIDE DEF next
    <3> QED BY <3>2, <3>3
  <2> QED BY <2>1, <2>2
<1> QED BY <1>1 DEF IsIter

\* Only the values at the first elements matter.
LEMMA IterSteps ==
  ASSUME NEW n \in Nat, NEW base, NEW seq, NEW it, IsIter(it, base, seq, n)
  PROVE  /\ it[1 .. 0] = base
         /\ \A k \in Nat : k + 1 <= n => it[1 .. k + 1] = Op(it[1 .. k], seq[k + 1])
<1>1. \A s \in SUBSET (1 .. n) :
        it[s] = IF s = {} THEN base ELSE Op(it[s \ {Max(s)}], seq[Max(s)])
  BY DEF IsIter
<1>2. 1 .. 0 \in SUBSET (1 .. n) /\ 1 .. 0 = {}
  OBVIOUS
<1>3. ASSUME NEW k \in Nat, k + 1 <= n
      PROVE  it[1 .. k + 1] = Op(it[1 .. k], seq[k + 1])
  <2>1. 1 .. k + 1 \in SUBSET (1 .. n) /\ 1 .. k + 1 # {} /\ (1 .. k + 1) \ {k + 1} = 1 .. k
    BY <1>3
  <2>2. Max(1 .. k + 1) = k + 1
    BY MaxIsLast
  <2> QED BY <1>1, <2>1, <2>2
<1> QED BY <1>1, <1>2, <1>3

LEMMA IterUnique ==
  ASSUME NEW base, NEW seq, NEW longer, NEW n \in Nat, NEW m \in Nat, n <= m,
         NEW it, NEW other, IsIter(it, base, seq, n), IsIter(other, base, longer, m),
         \A i \in 1 .. n : longer[i] = seq[i]
  PROVE  it[1 .. n] = other[1 .. n]
<1> DEFINE Agree == {k \in Nat : k <= n => it[1 .. k] = other[1 .. k]}
<1>1. 0 \in Agree
  BY IterSteps
<1>2. ASSUME NEW k \in Nat, k \in Agree PROVE k + 1 \in Agree
  <2> SUFFICES ASSUME k + 1 <= n PROVE it[1 .. k + 1] = other[1 .. k + 1]
    OBVIOUS
  <2>1. it[1 .. k] = other[1 .. k]
    BY <1>2
  <2>2. it[1 .. k + 1] = Op(it[1 .. k], seq[k + 1])
    BY IterSteps
  <2>3. other[1 .. k + 1] = Op(other[1 .. k], longer[k + 1])
    BY IterSteps
  <2> QED BY <2>1, <2>2, <2>3
<1> HIDE DEF Agree
<1>3. n \in Agree
  BY <1>1, <1>2, SetInduction
<1> QED BY <1>3 DEF Agree

LEMMA IterExists ==
  ASSUME NEW base, NEW seq, NEW n \in Nat
  PROVE  \E it : IsIter(it, base, seq, n)
<1> DEFINE Some == {k \in Nat : \E it : IsIter(it, base, seq, k)}
<1>1. 0 \in Some
  <2>1. IsIter([s \in SUBSET (1 .. 0) |-> base], base, seq, 0)
    <3>1. \A s \in SUBSET (1 .. 0) : s = {}
      OBVIOUS
    <3> QED BY <3>1 DEF IsIter
  <2> QED BY <2>1
<1>2. ASSUME NEW k \in Nat, k \in Some PROVE k + 1 \in Some
  <2>1. PICK it : IsIter(it, base, seq, k)
    BY <1>2
  <2>2. \E next : IsIter(next, base, seq, k + 1)
    BY <2>1, IterGrows
  <2> QED BY <2>2
<1> HIDE DEF Some
<1>3. n \in Some
  BY <1>1, <1>2, SetInduction
<1> QED BY <1>3 DEF Some

-----------------------------------------------------------------------------
LEMMA FoldIsIter ==
  ASSUME NEW S, NEW seq \in Seq(S), NEW base
  PROVE  \E it : IsIter(it, base, seq, Len(seq)) /\ FoldLeft(Op, base, seq) = it[1 .. Len(seq)]
<1>1. DOMAIN seq = 1 .. Len(seq) /\ Len(seq) \in Nat
  OBVIOUS
<1> DEFINE it == CHOOSE f : IsIter(f, base, seq, Len(seq))
<1>2. FoldLeft(Op, base, seq) = it[1 .. Len(seq)]
  BY <1>1 DEF FoldLeft, MapThenFoldSet, IsIter
<1>3. IsIter(it, base, seq, Len(seq))
  BY <1>1, IterExists
<1> QED BY <1>2, <1>3

THEOREM FoldEmpty == ASSUME NEW base PROVE FoldLeft(Op, base, <<>>) = base
<1>1. <<>> \in Seq({}) /\ Len(<<>>) = 0
  OBVIOUS
<1>2. PICK it : IsIter(it, base, <<>>, 0) /\ FoldLeft(Op, base, <<>>) = it[1 .. 0]
  BY <1>1, FoldIsIter
<1>3. it[1 .. 0] = base
  <2>1. 0 \in Nat
    OBVIOUS
  <2> QED BY <1>2, <2>1, IterSteps
<1> QED BY <1>2, <1>3

THEOREM FoldAppend ==
  ASSUME NEW S, NEW seq \in Seq(S), NEW base, NEW e \in S
  PROVE  FoldLeft(Op, base, Append(seq, e)) = Op(FoldLeft(Op, base, seq), e)
<1>1. PICK n \in Nat : n = Len(seq)
  OBVIOUS
<1> DEFINE longer == Append(seq, e)
<1>2. longer \in Seq(S)
  OBVIOUS
<1>3. Len(longer) = n + 1 /\ longer[n + 1] = e /\ \A i \in 1 .. n : longer[i] = seq[i]
  BY <1>1, <1>2
<1> HIDE DEF longer
<1>4. PICK it : IsIter(it, base, seq, n) /\ FoldLeft(Op, base, seq) = it[1 .. n]
  BY <1>1, FoldIsIter
<1>5. PICK next : /\ IsIter(next, base, longer, n + 1)
                  /\ FoldLeft(Op, base, longer) = next[1 .. n + 1]
  BY <1>2, <1>3, FoldIsIter
<1>6. next[1 .. n + 1] = Op(next[1 .. n], longer[n + 1])
  BY <1>5, IterSteps
<1>7. it[1 .. n] = next[1 .. n]
  BY <1>3, <1>4, <1>5, IterUnique
<1> QED BY <1>3, <1>4, <1>5, <1>6, <1>7 DEF longer

\* An induction over the sequences: what one application keeps, a fold keeps.
THEOREM FoldType ==
  ASSUME NEW S, NEW T, NEW base \in T, \A t \in T, e \in S : Op(t, e) \in T,
         NEW seq \in Seq(S)
  PROVE  FoldLeft(Op, base, seq) \in T
<1>1. PICK n \in Nat : n = Len(seq)
  OBVIOUS
<1>2. PICK it : IsIter(it, base, seq, n) /\ FoldLeft(Op, base, seq) = it[1 .. n]
  BY <1>1, FoldIsIter
<1> DEFINE Typed == {k \in Nat : k <= n => it[1 .. k] \in T}
<1>3. 0 \in Typed
  BY <1>2, IterSteps
<1>4. ASSUME NEW k \in Nat, k \in Typed PROVE k + 1 \in Typed
  <2> SUFFICES ASSUME k + 1 <= n PROVE it[1 .. k + 1] \in T
    OBVIOUS
  <2>1. it[1 .. k + 1] = Op(it[1 .. k], seq[k + 1])
    BY <1>2, IterSteps
  <2>2. it[1 .. k] \in T /\ seq[k + 1] \in S
    BY <1>1, <1>4
  <2> QED BY <2>1, <2>2
<1> HIDE DEF Typed
<1>5. n \in Typed
  BY <1>3, <1>4, SetInduction
<1> QED BY <1>2, <1>5 DEF Typed
=============================================================================
