---------------------------- MODULE FiniteOrders ----------------------------
(***************************************************************************)
(* Induction over finite sets, and what follows from it for finite sets    *)
(* that are ordered: they have a greatest element, and a sequence in order. *)
(* An induction is over a set of sets, which a proof can name, rather than *)
(* over a predicate.                                                       *)
(***************************************************************************)
EXTENDS SequencesExt, FiniteSetTheorems, TLAPS

\* Of some subsets of a finite set one is smallest: no part of it is among them.
LEMMA SmallestSubset ==
  ASSUME NEW S, IsFiniteSet(S), NEW Some \in SUBSET SUBSET S, Some # {}
  PROVE  \E T \in Some : \A U \in SUBSET T : U # T => U \notin Some
<1>1. IsWellFoundedOn(StrictSubsetOrdering(S), SUBSET S)
  BY FS_StrictSubsetOrderingWellFounded, FS_FiniteSubsetsOfFinite
<1>2. PICK T \in Some : \A U \in Some : <<U, T>> \notin StrictSubsetOrdering(S)
  BY <1>1, WFMin
<1>3. ASSUME NEW U \in SUBSET T, U # T, U \in Some PROVE FALSE
  <2>1. <<U, T>> \in StrictSubsetOrdering(S)
    BY <1>3 DEF StrictSubsetOrdering
  <2> QED BY <1>2, <1>3, <2>1
<1> QED BY <1>2, <1>3

\* What holds of the empty set, and of a set with one element more, holds of S.
LEMMA FiniteSetInduction ==
  ASSUME NEW S, IsFiniteSet(S), NEW Good \in SUBSET SUBSET S,
         {} \in Good,
         \A T \in Good, x \in S : x \notin T => T \cup {x} \in Good
  PROVE  S \in Good
<1> SUFFICES ASSUME S \notin Good PROVE FALSE
  OBVIOUS
<1> DEFINE Bad == (SUBSET S) \ Good
<1>1. Bad \in SUBSET SUBSET S /\ Bad # {}
  OBVIOUS
<1> HIDE DEF Bad
<1>2. PICK T \in Bad : \A U \in SUBSET T : U # T => U \notin Bad
  BY <1>1, SmallestSubset
<1> USE DEF Bad
<1>3. PICK x \in T : TRUE
  BY <1>2
<1>4. T \ {x} \in Good
  BY <1>2, <1>3
<1>5. (T \ {x}) \cup {x} = T /\ x \in S
  BY <1>2, <1>3
<1> QED BY <1>2, <1>4, <1>5

-----------------------------------------------------------------------------
(* Orders are sets of pairs: related in one way or the other, and transitive. *)

OrdersTotally(R, S) ==
  /\ \A x, y \in S : <<x, y>> \in R \/ <<y, x>> \in R
  /\ \A x, y, z \in S : <<x, y>> \in R /\ <<y, z>> \in R => <<x, z>> \in R

\* A finite set that is ordered has a greatest element.
LEMMA Greatest ==
  ASSUME NEW S, IsFiniteSet(S), S # {}, NEW R, OrdersTotally(R, S)
  PROVE  \E m \in S : \A x \in S : <<x, m>> \in R
<1> DEFINE HasGreatest(T) == \E m \in T : \A x \in T : <<x, m>> \in R
           Good == {T \in SUBSET S : T = {} \/ HasGreatest(T)}
<1>1. Good \in SUBSET SUBSET S /\ {} \in Good
  OBVIOUS
<1>2. ASSUME NEW T \in Good, NEW y \in S, y \notin T
      PROVE  T \cup {y} \in Good
  <2>1. T \in SUBSET S /\ <<y, y>> \in R
    BY DEF OrdersTotally
  <2>2. CASE T = {}
    BY <2>1, <2>2
  <2>3. CASE T # {}
    <3>1. PICK m \in T : \A x \in T : <<x, m>> \in R
      BY <2>3
    <3>2. CASE <<y, m>> \in R
      BY <2>1, <3>1, <3>2
    <3>3. CASE <<m, y>> \in R
      <4>1. \A x \in T : <<x, y>> \in R
        BY <2>1, <3>1, <3>3 DEF OrdersTotally
      <4> QED BY <2>1, <4>1
    <3> QED BY <2>1, <3>2, <3>3 DEF OrdersTotally
  <2> QED BY <2>2, <2>3
<1> HIDE DEF Good
<1>3. S \in Good
  BY <1>1, <1>2, FiniteSetInduction
<1> QED BY <1>3 DEF Good

\* Max and Min of finite sets of numbers are what they are called.
LEMMA MaxIsGreatest ==
  ASSUME NEW S \in SUBSET Int, IsFiniteSet(S), S # {}
  PROVE  Max(S) \in S /\ \A x \in S : x <= Max(S)
<1> DEFINE R == {p \in S \X S : p[1] <= p[2]}
<1>1. OrdersTotally(R, S)
  BY DEF OrdersTotally
<1> HIDE DEF R
<1>2. PICK m \in S : \A x \in S : <<x, m>> \in R
  BY <1>1, Greatest
<1>3. \A x \in S : m >= x
  BY <1>2 DEF R
<1> QED BY <1>3 DEF Max

LEMMA MinIsLeast ==
  ASSUME NEW S \in SUBSET Int, IsFiniteSet(S), S # {}
  PROVE  Min(S) \in S /\ \A x \in S : Min(S) <= x
<1> DEFINE R == {p \in S \X S : p[2] <= p[1]}
<1>1. OrdersTotally(R, S)
  BY DEF OrdersTotally
<1> HIDE DEF R
<1>2. PICK m \in S : \A x \in S : <<x, m>> \in R
  BY <1>1, Greatest
<1>3. \A x \in S : m <= x
  BY <1>2 DEF R
<1> QED BY <1>3 DEF Min

-----------------------------------------------------------------------------
(* Sequences in order. *)

IsInOrder(s, R) == \A i, j \in DOMAIN s : i < j => <<s[i], s[j]>> \in R

\* A finite set that is ordered has a sequence of its elements in order.
LEMMA SequenceInOrder ==
  ASSUME NEW S, IsFiniteSet(S), NEW R, OrdersTotally(R, S)
  PROVE  \E s \in SetToSeqs(S) : IsInOrder(s, R)
<1> DEFINE Bad == {T \in SUBSET S : ~ \E s \in SetToSeqs(T) : IsInOrder(s, R)}
<1> SUFFICES ASSUME Bad # {} PROVE FALSE
  OBVIOUS
<1>1. PICK T \in Bad : \A U \in SUBSET T : U # T => U \notin Bad
  <2>1. Bad \in SUBSET SUBSET S
    OBVIOUS
  <2> HIDE DEF Bad
  <2> QED BY <2>1, SmallestSubset
<1>2. T \in SUBSET S /\ IsFiniteSet(T)
  BY FS_Subset
<1>3. CASE T = {}
  <2>1. Cardinality(T) = 0
    BY <1>3, FS_EmptySet
  <2>2. << >> \in SetToSeqs(T) /\ IsInOrder(<< >>, R)
    BY <2>1, <1>3 DEF SetToSeqs, IsInOrder
  <2> QED BY <2>2
<1>4. CASE T # {}
  <2>1. PICK m \in T : \A x \in T : <<x, m>> \in R
    <3>1. OrdersTotally(R, T)
      BY <1>2 DEF OrdersTotally
    <3> QED BY <1>2, <1>4, <3>1, Greatest
  <2> DEFINE n == Cardinality(T \ {m})
  <2>2. n \in Nat /\ Cardinality(T) = n + 1
    <3>1. IsFiniteSet(T \ {m}) /\ Cardinality(T \ {m}) = Cardinality(T) - 1
      BY <1>2, FS_RemoveElement
    <3>2. Cardinality(T \ {m}) \in Nat /\ Cardinality(T) \in Nat
      BY <1>2, <3>1, FS_CardinalityType
    <3> QED BY <3>1, <3>2
  <2>3. PICK s \in SetToSeqs(T \ {m}) : IsInOrder(s, R)
    <3>1. T \ {m} \in SUBSET T /\ T \ {m} # T /\ T \ {m} \in SUBSET S
      BY <1>2
    <3> QED BY <1>1, <3>1
  <2>4. s \in [1..n -> T \ {m}] /\ \A i, j \in 1..n : i # j => s[i] # s[j]
    BY <2>3 DEF SetToSeqs
  <2> HIDE DEF n
  <2> DEFINE t == [i \in 1..n+1 |-> IF i = n + 1 THEN m ELSE s[i]]
  <2>5. \A i \in 1..n+1 : i = n + 1 \/ i \in 1..n
    BY <2>2
  <2>6. t \in SetToSeqs(T)
    BY <2>2, <2>4, <2>5 DEF SetToSeqs
  <2>7. IsInOrder(t, R)
    <3>1. \A i, j \in 1..n+1 : i < j => i \in 1..n
      BY <2>2
    <3> QED BY <2>1, <2>3, <2>4, <2>5, <3>1 DEF IsInOrder
  <2> QED BY <2>6, <2>7
<1> QED BY <1>3, <1>4

\* A sequence of the elements of a finite set has each of them once.
LEMMA SequenceOfAll ==
  ASSUME NEW S, IsFiniteSet(S), NEW s \in SetToSeqs(S)
  PROVE  /\ Cardinality(S) \in Nat
         /\ s \in [1..Cardinality(S) -> S]
         /\ DOMAIN s = 1..Cardinality(S)
         /\ Len(s) = Cardinality(S)
         /\ \A i, j \in DOMAIN s : s[i] = s[j] => i = j
         /\ \A x \in S : \E i \in DOMAIN s : s[i] = x
<1> DEFINE n == Cardinality(S)
<1>1. n \in Nat
  BY FS_CardinalityType
<1>2. s \in [1..n -> S] /\ \A i, j \in 1..n : i # j => s[i] # s[j]
  BY DEF SetToSeqs
<1>3. Len(s) = n
  <2>1. s \in Seq(S) /\ DOMAIN s = 1..n
    BY <1>1, <1>2
  <2> QED BY <1>1, <2>1
<1>4. s \in Surjection(1..n, S)
  <2>1. IsFiniteSet(1..n) /\ Cardinality(1..n) = n
    BY <1>1, FS_Interval
  <2>2. s \in Injection(1..n, S)
    BY <1>2 DEF Injection, IsInjective
  <2> QED BY <2>1, <2>2, FS_Injection
<1> HIDE DEF n
<1> QED BY <1>1, <1>2, <1>3, <1>4 DEF n, Surjection

\* A finite set has a finite image.
LEMMA FiniteImage ==
  ASSUME NEW S, IsFiniteSet(S), NEW f
  PROVE  LET T == {f[x] : x \in S}
         IN  IsFiniteSet(T) /\ Cardinality(T) <= Cardinality(S)
<1> DEFINE T == {f[x] : x \in S}
           g == [x \in S |-> f[x]]
<1>1. g \in Surjection(S, T)
  BY DEF Surjection
<1> QED BY <1>1, FS_Surjection

LEMMA PartOfInterval ==
  ASSUME NEW m \in Nat, NEW U \in SUBSET (1..m)
  PROVE  IsFiniteSet(U) /\ U \in SUBSET Int
<1>1. IsFiniteSet(1..m)
  BY FS_Interval
<1>2. IsFiniteSet(U)
  BY <1>1, FS_Subset
<1> QED BY <1>2

LEMMA DisjointParts ==
  ASSUME NEW S, IsFiniteSet(S), NEW T, IsFiniteSet(T), S \cap T = {}
  PROVE  Cardinality(S \cup T) = Cardinality(S) + Cardinality(T)
<1>1. Cardinality(S) \in Nat /\ Cardinality(T) \in Nat /\ Cardinality({}) = 0
  BY FS_CardinalityType, FS_EmptySet
<1>2. Cardinality(S \cup T) = Cardinality(S) + Cardinality(T) - Cardinality({})
  BY FS_Union
<1> QED BY <1>1, <1>2

=============================================================================
