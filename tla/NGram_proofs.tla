---------------------------- MODULE NGram_proofs ----------------------------
(***************************************************************************)
(* Proofs that the n-grams of NGram are what their properties say, for     *)
(* every table, every set of columns, letter types and numbers of bins.    *)
(***************************************************************************)
EXTENDS NGram, Binning_proofs

-----------------------------------------------------------------------------
(* Lists in order. *)

IsNonDecreasing(s) == s \in Seq(Int) /\ \A i, j \in DOMAIN s : i < j => s[i] <= s[j]

\* Where two lists in order first differ, the smaller bin is there more often in one.
LEMMA FirstDifference ==
  ASSUME NEW s, IsNonDecreasing(s), NEW t, IsNonDecreasing(t), NEW k \in DOMAIN s,
         \A i \in 1..k-1 : i \in DOMAIN t /\ s[i] = t[i],
         k \notin DOMAIN t \/ s[k] < t[k]
  PROVE  ~SameBins(s, t)
<1> DEFINE b == s[k]
           In(u) == {i \in DOMAIN u : u[i] = b}
<1>1. /\ Len(s) \in Nat /\ DOMAIN s = 1..Len(s) /\ \A i \in DOMAIN s : s[i] \in Int
      /\ Len(t) \in Nat /\ DOMAIN t = 1..Len(t) /\ \A i \in DOMAIN t : t[i] \in Int
  BY DEF IsNonDecreasing
<1>2. IsFiniteSet(In(s))
  <2>1. IsFiniteSet(DOMAIN s)
    BY <1>1, FS_Interval
  <2> QED BY <2>1, FS_Subset
<1>3. ASSUME NEW i \in In(t) PROVE i \in In(s) \ {k}
  <2>1. i < k
    <3> SUFFICES ASSUME k <= i PROVE FALSE
      BY <1>1
    <3>1. k \in DOMAIN t /\ s[k] < t[k]
      BY <1>1
    <3>2. t[k] <= t[i]
      BY <1>1, <3>1 DEF IsNonDecreasing
    <3> QED BY <1>1, <3>1, <3>2
  <2> QED BY <1>1, <2>1
<1>4. In(t) \in SUBSET In(s) /\ In(t) # In(s)
  BY <1>3
<1>5. Cardinality(In(t)) # Cardinality(In(s))
  <2> HIDE DEF In
  <2> QED BY <1>2, <1>4, FS_Subset
<1> QED BY <1>5 DEF SameBins, ToSet

\* Lists in order that have the same bins are the same.
LEMMA SameBinsAreOneList ==
  ASSUME NEW s, IsNonDecreasing(s), NEW t, IsNonDecreasing(t)
  PROVE  SameBins(s, t) <=> s = t
<1> DEFINE D == {i \in DOMAIN s \cup DOMAIN t :
                   ~ (i \in DOMAIN s /\ i \in DOMAIN t /\ s[i] = t[i])}
<1>1. /\ Len(s) \in Nat /\ DOMAIN s = 1..Len(s) /\ \A i \in DOMAIN s : s[i] \in Int
      /\ Len(t) \in Nat /\ DOMAIN t = 1..Len(t) /\ \A i \in DOMAIN t : t[i] \in Int
  BY DEF IsNonDecreasing
<1>2. s = t => SameBins(s, t)
  BY DEF SameBins
<1>3. CASE D = {}
  <2>1. DOMAIN s = DOMAIN t /\ \A i \in DOMAIN s : s[i] = t[i]
    BY <1>3
  <2>2. s = [i \in DOMAIN s |-> s[i]] /\ t = [i \in DOMAIN t |-> t[i]]
    BY DEF IsNonDecreasing
  <2>3. s = t
    BY <2>1, <2>2
  <2> QED BY <1>2, <2>3
<1>4. CASE D # {}
  <2> DEFINE k == Min(D)
  <2>1. k \in D /\ \A i \in D : k <= i
    <3>1. IsFiniteSet(DOMAIN s \cup DOMAIN t)
      <4>1. IsFiniteSet(DOMAIN s) /\ IsFiniteSet(DOMAIN t)
        BY <1>1, FS_Interval
      <4> QED BY <4>1, FS_Union
    <3>2. IsFiniteSet(D) /\ D \in SUBSET Int
      BY <1>1, <3>1, FS_Subset
    <3> HIDE DEF D
    <3> QED BY <1>4, <3>2, MinIsLeast
  <2> HIDE DEF k
  <2>2. \A i \in 1..k-1 : i \in DOMAIN s /\ i \in DOMAIN t /\ s[i] = t[i]
    <3> SUFFICES ASSUME NEW i \in 1..k-1 PROVE i \in DOMAIN s \cup DOMAIN t /\ i \notin D
      OBVIOUS
    <3>1. i \in Int /\ i < k /\ 1 <= i
      BY <1>1, <2>1
    <3> QED BY <1>1, <2>1, <3>1
  <2>3. s # t
    BY <2>1
  <2>4. CASE k \in DOMAIN s /\ (k \notin DOMAIN t \/ s[k] < t[k])
    BY <2>2, <2>3, <2>4, FirstDifference
  <2>5. CASE k \in DOMAIN t /\ (k \notin DOMAIN s \/ t[k] < s[k])
    <3>1. ~SameBins(t, s)
      BY <2>2, <2>5, FirstDifference
    <3>2. SameBins(s, t) => SameBins(t, s)
      BY DEF SameBins
    <3> QED BY <2>3, <3>1, <3>2
  <2> QED BY <1>1, <2>1, <2>4, <2>5
<1> QED BY <1>3, <1>4

\* A relative letter orders the positions of a list by their bins; where the list is in
\* order it may exchange positions of one bin, and no others.
LEMMA RelativeLettersSort ==
  ASSUME NEW list, list \in Seq(Int), NEW s \in RelativeLetters(list)
  PROVE  /\ s \in Seq(Int) /\ Len(s) = Len(list)
         /\ IsNonDecreasing(list) => \A i \in DOMAIN list : list[s[i]] = list[i]
<1> DEFINE size == Len(list)
           I == 1..size
           sorted == [i \in I |-> list[s[i]]]
<1>1. size \in Nat /\ DOMAIN list = I /\ \A i \in I : list[i] \in Int
  OBVIOUS
<1> HIDE DEF size
<1>2. IsFiniteSet(I) /\ Cardinality(I) = size
  BY <1>1, FS_Interval
<1>3. s \in SetToSeqs(I) /\ \A i, j \in DOMAIN s : i < j => list[s[i]] <= list[s[j]]
  BY DEF RelativeLetters, size
<1>4. /\ s \in [I -> I] /\ DOMAIN s = I
      /\ \A i, j \in I : s[i] = s[j] => i = j
      /\ \A x \in I : \E i \in I : s[i] = x
  <2> HIDE DEF I
  <2>1. IsFiniteSet(I) /\ s \in SetToSeqs(I) /\ 1..Cardinality(I) = I
    BY <1>2, <1>3 DEF I
  <2> QED BY <2>1, SequenceOfAll
<1>5. s \in Seq(Int) /\ Len(s) = size
  BY <1>1, <1>4
<1>6. IsNonDecreasing(sorted)
  <2>1. sorted \in [I -> Int]
    BY <1>1, <1>4
  <2>2. sorted \in Seq(Int) /\ DOMAIN sorted = I
    BY <1>1, <2>1
  <2> QED BY <1>3, <1>4, <2>2 DEF IsNonDecreasing
<1>7. SameBins(sorted, list)
  <2> SUFFICES ASSUME NEW b
               PROVE  Cardinality({i \in DOMAIN sorted : sorted[i] = b})
                        = Cardinality({i \in DOMAIN list : list[i] = b})
    BY DEF SameBins
  <2> DEFINE X == {i \in I : list[s[i]] = b}
             Y == {i \in I : list[i] = b}
             f == [i \in X |-> s[i]]
  <2>1. X = {i \in DOMAIN sorted : sorted[i] = b} /\ Y = {i \in DOMAIN list : list[i] = b}
    BY <1>1
  <2>2. IsFiniteSet(X)
    BY <1>2, FS_Subset
  <2>3. f \in Bijection(X, Y)
    <3>1. f \in [X -> Y]
      BY <1>4
    <3>2. \A i, j \in X : f[i] = f[j] => i = j
      BY <1>4
    <3>3. \A y \in Y : \E i \in X : f[i] = y
      BY <1>4
    <3> HIDE DEF f, X, Y
    <3> QED BY <3>1, <3>2, <3>3 DEF Bijection, Injection, IsInjective, Surjection
  <2> HIDE DEF X, Y, f
  <2>4. Cardinality(Y) = Cardinality(X)
    BY <2>2, <2>3, FS_Bijection DEF ExistsBijection
  <2> QED BY <2>1, <2>4
<1>8. IsNonDecreasing(list) => sorted = list
  BY <1>6, <1>7, SameBinsAreOneList
<1> QED BY <1>1, <1>5, <1>8 DEF size

-----------------------------------------------------------------------------
(* The rows selected, their lists and letters. *)

\* What a statement can give: no rows, or all there are if it is one that can succeed.
Selections == {{}} \cup (IF StatementOK THEN {Present} ELSE {})

LEMMA ReadingsAreInts ==
  ASSUME NEW column, NEW v \in Time \cup Value
  PROVE  Reading(column, v) \in Int
BY NGramAssumption DEF Reading

\* Each row selected has a bin.
LEMMA SelectedHaveBins ==
  ASSUME TypeOK, dep # None, indep # None, NEW rows \in Selections
  PROVE  /\ rows \in SUBSET Row /\ IsFiniteSet(rows)
         /\ \A r \in rows : /\ BinOf(r) \in Int /\ BinRead(r) \in Int
                           /\ table[r].thing \in Int /\ InstantOf(r) \in Int
<1>1. rows \in SUBSET Row
  BY DEF Selections, Present
<1>2. IsFiniteSet(rows)
  BY <1>1, FS_Subset, NGramAssumption
<1>3. ASSUME NEW r \in rows
      PROVE  /\ BinOf(r) \in Int /\ BinRead(r) \in Int
             /\ table[r].thing \in Int /\ InstantOf(r) \in Int
  <2>1. StatementOK /\ r \in Present
    BY <1>3 DEF Selections
  <2>2. /\ table[r].time \in Time /\ table[r].thing \in Int /\ table[r].value \in Value
        /\ table[r].value \in Int
    BY <2>1, NGramAssumption DEF Present, TypeOK, Cell
  <2>3. BinOf(r) \in Int
    <3>1. CASE KindOf[dep] \in PassthroughKinds
      <4>1. BinOf(r) = table[r].value
        BY <3>1, AttrToBinIs DEF BinOf
      <4> QED BY <2>2, <4>1
    <3>2. CASE KindOf[dep] \notin PassthroughKinds
      <4>1. BinOf(r) \in -MaxInt - 1 .. MaxInt
        BY <2>1, <3>2 DEF StatementOK, Computable, BinOf
      <4> QED BY <4>1, MaxIntAssumption
    <3> QED BY <3>1, <3>2
  <2>4. Reading(dep, table[r].value) \in Int
    BY <2>2, ReadingsAreInts
  <2>5. InstantOf(r) \in Int
    BY <2>2, ReadingsAreInts DEF InstantOf
  <2> QED BY <2>2, <2>3, <2>4, <2>5 DEF BinRead
<1> QED BY <1>1, <1>2, <1>3

At(rows, t) == {r \in rows : InstantOf(r) = t}

\* The list of an instant has a bin for each of its rows, of other bins than texts in
\* order.
LEMMA ListsAreInOrder ==
  ASSUME TypeOK, dep # None, indep # None, NEW rows \in Selections, NEW t
  PROVE  LET list == ListAt(rows, t)
         IN  /\ list \in Seq(Int)
             /\ KindOf[dep] # "string" => IsNonDecreasing(list)
             /\ Len(list) = Cardinality(At(rows, t))
             /\ \A i \in DOMAIN list : \E r \in rows : list[i] = BinRead(r)
<1> DEFINE S == At(rows, t)
           R == {p \in S \X S : Before(p[1], p[2])}
           Ordered(x) == x \in SetToSeqs(S) /\ \A i, j \in DOMAIN x : i < j => Before(x[i], x[j])
           ordered == CHOOSE x : Ordered(x)
           list == ListAt(rows, t)
<1>1. IsFiniteSet(S) /\ S \in SUBSET rows
  BY SelectedHaveBins, FS_Subset DEF At
<1>2. \A r \in S : /\ BinOf(r) \in Int /\ BinRead(r) \in Int /\ table[r].thing \in Int
  BY <1>1, SelectedHaveBins
<1> HIDE DEF S
<1>3. OrdersTotally(R, S)
  BY <1>2 DEF OrdersTotally, Before
<1>4. \E x : Ordered(x)
  <2> HIDE DEF R
  <2>1. PICK x \in SetToSeqs(S) : IsInOrder(x, R)
    BY <1>1, <1>3, SequenceInOrder
  <2>2. Ordered(x)
    BY <2>1 DEF IsInOrder, R
  <2> QED BY <2>2
<1>5. Ordered(ordered)
  <2> HIDE DEF Ordered
  <2> QED BY <1>4
<1>6. list = [i \in 1..Len(ordered) |-> BinRead(ordered[i])]
  <2>1. ordered = CHOOSE x \in SetToSeqs(S) : \A i, j \in DOMAIN x : i < j => Before(x[i], x[j])
    OBVIOUS
  <2>2. InOrder(S, Before) = ordered
    BY <2>1, Zenon DEF InOrder
  <2>3. ListAt(rows, t) = [i \in 1..Len(InOrder(S, Before)) |-> BinRead(InOrder(S, Before)[i])]
    BY Zenon DEF ListAt, S, At
  <2> HIDE DEF ordered
  <2> QED BY <2>2, <2>3, Zenon
<1> HIDE DEF ordered, list
<1>7. /\ Len(ordered) \in Nat /\ Len(ordered) = Cardinality(S)
      /\ DOMAIN ordered = 1..Len(ordered)
      /\ \A i \in DOMAIN ordered : ordered[i] \in S
  BY <1>1, <1>5, SequenceOfAll
<1>8. Len(list) = Len(ordered) /\ DOMAIN list = DOMAIN ordered /\ list \in Seq(Int)
  <2>1. \A i \in 1..Len(ordered) : BinRead(ordered[i]) \in Int
    BY <1>2, <1>7
  <2>2. list \in [1..Len(ordered) -> Int]
    BY <1>6, <2>1
  <2>3. list \in Seq(Int)
    BY <1>7, <2>2
  <2> QED BY <1>7, <2>2, <2>3
<1>9. ASSUME KindOf[dep] # "string", NEW i \in DOMAIN list, NEW j \in DOMAIN list, i < j
      PROVE  list[i] <= list[j]
  <2>1. Before(ordered[i], ordered[j]) /\ ordered[i] \in S /\ ordered[j] \in S
    BY <1>5, <1>7, <1>8, <1>9
  <2>2. BinOf(ordered[i]) <= BinOf(ordered[j])
    BY <1>2, <2>1 DEF Before
  <2>3. BinRead(ordered[i]) <= BinRead(ordered[j])
    BY <1>2, <1>9, <2>1, <2>2 DEF BinRead, BinOf, AttrToBin, Reading, PassthroughKinds, NumericKinds
  <2> QED BY <1>6, <1>7, <1>8, <2>3
<1>10. \A i \in DOMAIN list : \E r \in rows : list[i] = BinRead(r)
  BY <1>1, <1>6, <1>7, <1>8
<1> QED BY <1>7, <1>8, <1>9, <1>10 DEF IsNonDecreasing, list, S

\* Of a map from instants to lists.
AreLists(lists, rows) ==
  /\ DOMAIN lists = {InstantOf(r) : r \in rows}
  /\ DOMAIN lists \in SUBSET Int /\ IsFiniteSet(DOMAIN lists)
  /\ \A t \in DOMAIN lists :
       /\ lists[t] \in Seq(Int)
       /\ KindOf[dep] # "string" => IsNonDecreasing(lists[t])
       /\ Len(lists[t]) \in 0..Cardinality(Row)
       /\ Len(lists[t]) = Cardinality(At(rows, t))
       /\ \A i \in DOMAIN lists[t] : \E r \in rows : lists[t][i] = BinRead(r)

LEMMA ListsAreLists ==
  ASSUME TypeOK, dep # None, indep # None, NEW rows \in Selections
  PROVE  AreLists(Lists(rows), rows)
<1> DEFINE instants == [r \in rows |-> InstantOf(r)]
           T == {InstantOf(r) : r \in rows}
           lists == Lists(rows)
<1>1. DOMAIN lists = T /\ \A t \in T : lists[t] = ListAt(rows, t)
  BY DEF Lists
<1>2. T \in SUBSET Int
  BY SelectedHaveBins
<1>3. IsFiniteSet(T)
  <2>1. T = {instants[r] : r \in rows}
    OBVIOUS
  <2> HIDE DEF T, instants
  <2> QED BY <2>1, SelectedHaveBins, FiniteImage
<1>4. ASSUME NEW t \in T PROVE Cardinality(At(rows, t)) \in 0..Cardinality(Row)
  <2>1. At(rows, t) \in SUBSET Row
    BY SelectedHaveBins DEF At
  <2>2. IsFiniteSet(At(rows, t)) /\ Cardinality(At(rows, t)) <= Cardinality(Row)
    BY <2>1, FS_Subset, NGramAssumption
  <2>3. Cardinality(At(rows, t)) \in Nat /\ Cardinality(Row) \in Nat
    BY <2>2, FS_CardinalityType, NGramAssumption
  <2> QED BY <2>2, <2>3
<1> HIDE DEF lists, T
<1>5. ASSUME NEW t \in T
      PROVE  /\ lists[t] \in Seq(Int)
             /\ KindOf[dep] # "string" => IsNonDecreasing(lists[t])
             /\ Len(lists[t]) = Cardinality(At(rows, t))
             /\ \A i \in DOMAIN lists[t] : \E r \in rows : lists[t][i] = BinRead(r)
  BY <1>1, <1>5, ListsAreInOrder
<1>6. \A t \in T : Len(lists[t]) \in 0..Cardinality(Row)
  BY <1>4, <1>5
<1>7. DOMAIN lists = {InstantOf(r) : r \in rows}
  BY <1>1 DEF T
<1> QED BY <1>1, <1>2, <1>3, <1>5, <1>6, <1>7 DEF AreLists, lists

LEMMA PreviousIsAList ==
  ASSUME NEW rows, NEW lists, AreLists(lists, rows), NEW t \in DOMAIN lists
  PROVE  \E u \in DOMAIN lists : Previous(lists, t) = lists[u]
<1> DEFINE earlier == {u \in DOMAIN lists : u < t}
<1>1. CASE earlier = {}
  BY <1>1 DEF Previous
<1>2. CASE earlier # {}
  <2>1. earlier \in SUBSET Int /\ IsFiniteSet(earlier)
    BY FS_Subset DEF AreLists
  <2>2. Max(earlier) \in earlier
    <3> HIDE DEF earlier
    <3> QED BY <1>2, <2>1, MaxIsGreatest
  <2>3. Previous(lists, t) = lists[Max(earlier)]
    BY <1>2 DEF Previous
  <2> HIDE DEF earlier
  <2>4. Max(earlier) \in DOMAIN lists
    BY <2>2 DEF earlier
  <2> QED BY <2>3, <2>4
<1> QED BY <1>1, <1>2

\* A delta is of the signs of what changed, and of anything beyond the end.
LEMMA DeltasAreSigns ==
  ASSUME NEW rows, NEW lists, AreLists(lists, rows), NEW t \in DOMAIN lists,
         NEW letter \in DeltaLetters(lists, t)
  PROVE  LET list == lists[t]
             before == Previous(lists, t)
         IN  /\ letter \in Seq(Int) /\ Len(letter) = Len(list)
             /\ KindOf[dep] # "string" /\ Len(list) = Len(before) =>
                  (ToSet(letter) \subseteq {0} <=> SameBins(list, before))
<1> DEFINE list == lists[t]
           before == Previous(lists, t)
<1>1. /\ list \in Seq(Int) /\ before \in Seq(Int)
      /\ KindOf[dep] # "string" => IsNonDecreasing(list) /\ IsNonDecreasing(before)
  <2>1. PICK u \in DOMAIN lists : before = lists[u]
    BY PreviousIsAList
  <2> HIDE DEF before
  <2> QED BY <2>1 DEF AreLists
<1>2. /\ Len(list) \in Nat /\ DOMAIN list = 1..Len(list)
      /\ \A i \in DOMAIN list : list[i] \in Int
      /\ Len(before) \in Nat /\ DOMAIN before = 1..Len(before)
      /\ \A i \in DOMAIN before : before[i] \in Int
  BY <1>1
<1>3. /\ letter \in [1..Len(list) -> {-1, 0, 1}]
      /\ \A i \in DOMAIN letter : i <= Len(before) => letter[i] = Sign(list[i] - before[i])
  BY DEF DeltaLetters
<1> HIDE DEF list, before
<1>4. letter \in [1..Len(list) -> Int]
  BY <1>3
<1>5. letter \in Seq(Int) /\ Len(letter) = Len(list)
  BY <1>2, <1>4
<1>6. ASSUME KindOf[dep] # "string", Len(list) = Len(before)
      PROVE  ToSet(letter) \subseteq {0} <=> SameBins(list, before)
  <2>1. \A i \in 1..Len(list) : letter[i] = 0 <=> list[i] = before[i]
    <3> SUFFICES ASSUME NEW i \in 1..Len(list) PROVE letter[i] = 0 <=> list[i] = before[i]
      OBVIOUS
    <3>1. letter[i] = Sign(list[i] - before[i]) /\ list[i] \in Int /\ before[i] \in Int
      BY <1>2, <1>3, <1>6
    <3> QED BY <3>1 DEF Sign
  <2>2. ToSet(letter) \subseteq {0} <=> \A i \in 1..Len(list) : letter[i] = 0
    BY <1>4 DEF ToSet
  <2>3. (\A i \in 1..Len(list) : list[i] = before[i]) <=> list = before
    <3>1. list = [i \in 1..Len(list) |-> list[i]] /\ before = [i \in 1..Len(before) |-> before[i]]
      BY <1>1, <1>2
    <3> QED BY <1>6, <3>1
  <2>4. list = before <=> SameBins(list, before)
    BY <1>1, <1>6, SameBinsAreOneList
  <2> QED BY <2>1, <2>2, <2>3, <2>4
<1> QED BY <1>5, <1>6 DEF list, before

LEMMA LettersAreRanks ==
  ASSUME TypeOK, NEW rows, NEW lists, AreLists(lists, rows), NEW t \in DOMAIN lists,
         NEW letter \in LettersOf(lists, t)
  PROVE  LET list == lists[t]
             before == Previous(lists, t)
         IN  /\ letter \in Seq(Int) /\ Len(letter) = Len(list)
             /\ letterType = "absolute" => letter = list
             /\ KindOf[dep] # "string" =>
                  /\ letterType = "relative" => \A i \in DOMAIN list : list[letter[i]] = list[i]
                  /\ letterType \in {"delta", "direction"} /\ Len(list) = Len(before) =>
                       (ToSet(letter) \subseteq {0} <=> SameBins(list, before))
<1> DEFINE list == lists[t]
<1>1. list \in Seq(Int) /\ (KindOf[dep] # "string" => IsNonDecreasing(list))
  BY DEF AreLists
<1>2. letterType \in {"absolute", "relative", "delta", "direction"}
  BY NGramAssumption DEF TypeOK
<1>3. CASE letterType = "absolute"
  <2>1. letter = list
    BY <1>3 DEF LettersOf, AbsoluteLetter
  <2> QED BY <1>1, <1>3, <2>1
<1>4. CASE letterType = "relative"
  <2>1. letter \in RelativeLetters(list)
    BY <1>4, Zenon DEF LettersOf
  <2> QED BY <1>1, <1>4, <2>1, RelativeLettersSort
<1>5. CASE letterType \in {"delta", "direction"}
  <2>1. letter \in DeltaLetters(lists, t)
    BY <1>5, Zenon DEF LettersOf
  <2> QED BY <1>5, <2>1, DeltasAreSigns
<1> QED BY <1>2, <1>3, <1>4, <1>5

\* A delta reads beyond the end of a list only where an instant has fewer rows than a
\* later one.
LEMMA BeyondIsGrowth ==
  ASSUME dep # None, indep # None, NEW rows \in Selections,
         NEW lists, AreLists(lists, rows), ReadsBeyond(lists)
  PROVE  Grows
<1>1. PICK t \in DOMAIN lists : Len(Previous(lists, t)) < Len(lists[t])
  BY DEF ReadsBeyond
<1> DEFINE earlier == {u \in DOMAIN lists : u < t}
           u == Max(earlier)
<1>2. Len(lists[t]) \in Int /\ t \in Int
  <2>1. lists[t] \in Seq(Int)
    BY DEF AreLists
  <2> QED BY <2>1 DEF AreLists
<1>3. earlier # {}
  <2> SUFFICES ASSUME earlier = {} PROVE FALSE
    OBVIOUS
  <2>1. Previous(lists, t) = lists[t]
    BY DEF Previous
  <2> QED BY <1>1, <1>2, <2>1
<1>4. Previous(lists, t) = lists[u]
  BY <1>3 DEF Previous
<1>5. u \in DOMAIN lists /\ u < t
  <2>1. earlier \in SUBSET Int /\ IsFiniteSet(earlier)
    BY FS_Subset DEF AreLists
  <2>2. u \in earlier
    <3> HIDE DEF earlier
    <3> QED BY <1>3, <2>1, MaxIsGreatest
  <2> HIDE DEF u
  <2> QED BY <2>2
<1> HIDE DEF u, earlier
<1>6. PICK r \in rows, s \in rows : InstantOf(r) = u /\ InstantOf(s) = t
  BY <1>5 DEF AreLists
<1>7. rows = Present
  BY <1>6 DEF Selections
<1>8. RowsAt(u) = Len(lists[u]) /\ RowsAt(t) = Len(lists[t])
  BY <1>5, <1>7 DEF AreLists, RowsAt, At
<1> QED BY <1>1, <1>4, <1>5, <1>6, <1>7, <1>8 DEF Grows

-----------------------------------------------------------------------------
(* What SelectRows makes of the rows. *)

\* The instants are as many as the rows exactly when each has one.
LEMMA InstantsOfRows ==
  ASSUME TypeOK, dep # None, indep # None, NEW rows \in Selections,
         NEW lists, AreLists(lists, rows)
  PROVE  /\ Cardinality(DOMAIN lists) <= Cardinality(rows)
         /\ Cardinality(DOMAIN lists) = Cardinality(rows) <=>
              \A t \in DOMAIN lists : Len(lists[t]) = 1
<1> DEFINE T == DOMAIN lists
           f == [r \in rows |-> InstantOf(r)]
<1>1. f \in Surjection(rows, T)
  BY DEF Surjection, AreLists
<1>2. /\ Cardinality(T) <= Cardinality(rows)
      /\ Cardinality(T) = Cardinality(rows) <=> f \in Injection(rows, T)
  BY <1>1, SelectedHaveBins, FS_Surjection
<1>3. f \in Injection(rows, T) <=> \A t \in T : \E r : At(rows, t) = {r}
  <2>1. f \in Injection(rows, T) <=> \A r, s \in rows : InstantOf(r) = InstantOf(s) => r = s
    <3>1. f \in [rows -> T]
      BY <1>1 DEF Surjection
    <3> QED BY <3>1 DEF Injection, IsInjective
  <2>2. ASSUME \A r, s \in rows : InstantOf(r) = InstantOf(s) => r = s, NEW t \in T
        PROVE  \E r : At(rows, t) = {r}
    <3>1. PICK r \in rows : InstantOf(r) = t
      BY DEF AreLists
    <3>2. At(rows, t) = {r}
      BY <2>2, <3>1 DEF At
    <3> QED BY <3>2
  <2>3. ASSUME \A t \in T : \E r : At(rows, t) = {r},
               NEW r \in rows, NEW s \in rows, InstantOf(r) = InstantOf(s)
        PROVE  r = s
    <3>1. InstantOf(r) \in T
      BY DEF AreLists
    <3>2. PICK x : At(rows, InstantOf(r)) = {x}
      BY <2>3, <3>1
    <3>3. r \in At(rows, InstantOf(r)) /\ s \in At(rows, InstantOf(r))
      BY <2>3 DEF At
    <3> QED BY <3>2, <3>3
  <2> HIDE DEF f, T
  <2> QED BY <2>1, <2>2, <2>3
<1>4. ASSUME NEW t \in T PROVE (\E r : At(rows, t) = {r}) <=> Len(lists[t]) = 1
  <2>1. IsFiniteSet(At(rows, t))
    BY SelectedHaveBins, FS_Subset DEF At
  <2>2. Len(lists[t]) = Cardinality(At(rows, t))
    BY DEF AreLists
  <2> QED BY <2>1, <2>2, FS_Singleton
<1> HIDE DEF f
<1> QED BY <1>2, <1>3, <1>4

\* The bins of rows of numbers, with the width that was discovered of them.
LEMMA BinsOfDiscovered ==
  ASSUME TypeOK, dep # None, indep # None, NEW rows \in Selections,
         NEW lists, AreLists(lists, rows),
         KindOf[dep] \in NumericKinds, width = Discovered(dep, n)
  PROVE  Cardinality(UNION {ToSet(lists[t]) : t \in DOMAIN lists})
           <= n + (IF KindOf[dep] = "integer" /\ IsWhole(width) THEN 1 ELSE 2)
<1> DEFINE U == UNION {ToSet(lists[t]) : t \in DOMAIN lists}
           more == IF KindOf[dep] = "integer" /\ IsWhole(width) THEN 0 ELSE 1
           values == {table[r].value : r \in Present}
           low == AttrToBin(KindOf[dep], Min(values), width)
           high == AttrToBin(KindOf[dep], Max(values), width)
<1>1. KindOf[dep] \notin PassthroughKinds
  BY DEF NumericKinds, PassthroughKinds
<1>2. \A b \in U : \E r \in rows : b = BinOf(r)
  <2> SUFFICES ASSUME NEW t \in DOMAIN lists, NEW b \in ToSet(lists[t])
               PROVE  \E r \in rows : b = BinOf(r)
    OBVIOUS
  <2>1. PICK i \in DOMAIN lists[t] : b = lists[t][i]
    BY DEF ToSet
  <2>2. PICK r \in rows : lists[t][i] = BinRead(r)
    BY <2>1 DEF AreLists
  <2> QED BY <1>1, <2>1, <2>2 DEF BinRead
<1>3. n \in Nat
  BY NGramAssumption DEF TypeOK
<1>4. CASE rows = {}
  <2>1. U = {}
    BY <1>2, <1>4
  <2>2. Cardinality(U) = 0
    BY <2>1, FS_EmptySet
  <2> QED BY <1>3, <2>2
<1>5. CASE rows # {}
  <2>1. StatementOK /\ rows = Present
    BY <1>5 DEF Selections
  <2>2. width.den # 0 /\ width.num > 0
    BY <1>1, <1>5, <2>1 DEF StatementOK, Computable
  <2>3. IsWidth(width)
    BY <2>2 DEF TypeOK, IsWidth
  <2>4. \A r \in Present : table[r].value \in Int
    BY NGramAssumption DEF Present, TypeOK, Cell
  <2>5. values \in SUBSET Int /\ IsFiniteSet(values) /\ values # {}
    <3> DEFINE f == [r \in Present |-> table[r].value]
    <3>1. values = {f[r] : r \in Present}
      OBVIOUS
    <3>2. IsFiniteSet(Present)
      BY <2>1, SelectedHaveBins
    <3>3. IsFiniteSet({f[r] : r \in Present})
      <4> HIDE DEF f
      <4> QED BY <3>2, FiniteImage
    <3> QED BY <1>5, <2>1, <2>4, <3>1, <3>3
  <2>6. /\ width.num = Max(values) - Min(values) /\ width.den = n
        /\ Max(values) \in Int /\ Min(values) \in Int
        /\ \A v \in values : Min(values) <= v /\ v <= Max(values)
    <3> DEFINE lowest == Min(values)
               highest == Max(values)
    <3>1. width = [num |-> highest - lowest, den |-> n]
      <4>1. width = [num |-> Reading(dep, highest) - Reading(dep, lowest), den |-> n]
        BY <2>5 DEF Discovered
      <4> HIDE DEF lowest, highest
      <4> QED BY <4>1 DEF Reading, NumericKinds
    <3> HIDE DEF values
    <3>2. Max(values) \in values /\ \A v \in values : v <= Max(values)
      BY <2>5, MaxIsGreatest
    <3>3. Min(values) \in values /\ \A v \in values : Min(values) <= v
      BY <2>5, MinIsLeast
    <3>4. width.num = Max(values) - Min(values) /\ width.den = n
      BY <3>1
    <3> QED BY <2>5, <3>2, <3>3, <3>4
  <2> HIDE DEF values
  <2>7. low \in Int /\ high \in Int /\ high - low <= n + more
    <3>1. low \in Int /\ high \in Int
      BY <2>3, <2>6, NumericBins DEF IsNear
    <3>2. AttrToBin(KindOf[dep], Max(values), width) - AttrToBin(KindOf[dep], Min(values), width)
            <= width.den + (IF KindOf[dep] = "integer" /\ IsWhole(width) THEN 0 ELSE 1)
      BY <2>3, <2>6, BinsOfASpan
    <3> QED BY <2>6, <3>1, <3>2
  <2>8. ASSUME NEW b \in U PROVE b \in low..high
    <3>1. PICK r \in Present : b = BinOf(r)
      BY <1>2, <2>1
    <3>2. table[r].value \in values /\ table[r].value \in Int
      BY <2>4 DEF values
    <3>3. b = AttrToBin(KindOf[dep], table[r].value, width) /\ b \in Int
      BY <2>3, <3>1, <3>2, NumericBins DEF BinOf, IsNear
    <3>4. low <= b /\ b <= high
      BY <2>3, <2>6, <3>2, <3>3, NumericBins
    <3> QED BY <2>7, <3>3, <3>4
  <2> HIDE DEF low, high, U
  <2>9. IsFiniteSet(low..high) /\ Cardinality(low..high) = IF low > high THEN 0 ELSE high - low + 1
    BY <2>7, FS_Interval
  <2>10. IsFiniteSet(U) /\ Cardinality(U) <= Cardinality(low..high)
    BY <2>8, <2>9, FS_Subset
  <2>11. Cardinality(U) \in Nat
    BY <2>10, FS_CardinalityType
  <2> QED BY <1>3, <2>7, <2>9, <2>10, <2>11 DEF U
<1> QED BY <1>4, <1>5

-----------------------------------------------------------------------------
(* The inductive invariant. *)

\* Between the statements of an execution its variables are set, and the width is that
\* of the rows unless someone wrote in between.
SelectsWithWidth ==
  pc = "select" =>
    /\ None \notin {dep, indep}
    /\ quiet => width = Discovered(dep, n)

IInv ==
  /\ TypeOK
  /\ SelectsWithWidth
  /\ BinsWithinN
  /\ PositionsAreRanks
  /\ ProbabilitiesAddUp
  /\ OnlyMisuseKills

\* A width is of what the table reads; none is negative but of texts, whose numbers are
\* in another order.
LEMMA DiscoveredIsWidth ==
  ASSUME TypeOK, NEW column \in Dependents, NEW N \in Ns
  PROVE  /\ Discovered(column, N) \in [num : Int, den : Nat]
         /\ Discovered(column, N).num >= 0 \/ KindOf[column] = "string"
<1> DEFINE f == [r \in Present |-> table[r].value]
           values == {table[r].value : r \in Present}
           num == IF values = {} THEN 0
                  ELSE Reading(column, Max(values)) - Reading(column, Min(values))
<1>1. IsFiniteSet(values) /\ values \in SUBSET Value /\ Value \subseteq Int
  <2>1. IsFiniteSet(Present)
    BY NGramAssumption, FS_Subset DEF Present
  <2>2. values = {f[r] : r \in Present}
    OBVIOUS
  <2>3. IsFiniteSet({f[r] : r \in Present})
    <3> HIDE DEF f
    <3> QED BY <2>1, FiniteImage
  <2>4. \A r \in Present : table[r].value \in Value
    BY DEF Present, TypeOK, Cell
  <2> QED BY <2>2, <2>3, <2>4, NGramAssumption
<1> HIDE DEF values
<1>2. num \in Int /\ (num >= 0 \/ KindOf[column] = "string")
  <2>1. CASE values = {}
    BY <2>1
  <2>2. CASE values # {}
    <3>1. Max(values) \in values /\ \A v \in values : v <= Max(values)
      BY <1>1, <2>2, MaxIsGreatest
    <3>2. Min(values) \in values
      BY <1>1, <2>2, MinIsLeast
    <3>3. /\ Max(values) \in Value /\ Min(values) \in Value
          /\ Max(values) \in Int /\ Min(values) \in Int /\ Min(values) <= Max(values)
      BY <1>1, <3>1, <3>2
    <3>4. Reading(column, Max(values)) \in Int /\ Reading(column, Min(values)) \in Int
      BY <3>3, ReadingsAreInts
    <3>5. KindOf[column] # "string" =>
            Reading(column, Min(values)) <= Reading(column, Max(values))
      BY <3>3 DEF Reading
    <3> QED BY <2>2, <3>4, <3>5
  <2> QED BY <2>1, <2>2
<1>3. Discovered(column, N) = [num |-> num, den |-> N]
  BY DEF Discovered, values
<1>4. N \in Nat
  BY NGramAssumption
<1> HIDE DEF num
<1> QED BY <1>2, <1>3, <1>4

\* What a setter leaves: no result, so nothing to say of one.
LEMMA NothingToSay ==
  ASSUME TypeOK, Unset
  PROVE  BinsWithinN' /\ PositionsAreRanks' /\ ProbabilitiesAddUp'
BY DEF Unset, BinsWithinN, PositionsAreRanks, ProbabilitiesAddUp

\* Initialises keeps the type of the width, and reaches its end or dies for a reason.
LEMMA InitialisesWell ==
  ASSUME IInv, NEW column \in Dependents \cup {None}, NEW N \in Ns, NEW next,
         Initialises(column, N, next)
  PROVE  /\ width' \in [num : Int, den : Nat] /\ lost' \in BOOLEAN
         /\ pc' = next \/ pc' = "dead"
         /\ pc' = "dead" /\ next # "dead" =>
              lost' \/ KindOf[column] = "boolean" \/ qcat = "badCondition"
         /\ pc' # "dead" /\ column # None =>
              /\ width' = Discovered(column, N)
              /\ width'.num >= 0 \/ KindOf[column] = "string"
<1>1. TypeOK
  BY DEF IInv
<1>2. CASE column = None /\ pc' = next /\ UNCHANGED <<width, lost>>
  BY <1>1, <1>2 DEF TypeOK
<1>3. CASE column # None /\ width' = Discovered(column, N) /\ pc' = next /\ UNCHANGED lost
  <2>1. /\ Discovered(column, N) \in [num : Int, den : Nat]
        /\ Discovered(column, N).num >= 0 \/ KindOf[column] = "string"
    BY <1>1, <1>3, DiscoveredIsWidth
  <2> QED BY <1>1, <1>3, <2>1 DEF TypeOK
<1>4. CASE /\ column # None /\ pc' = "dead"
           /\ lost' = (lost \/ Discoverable(column)) /\ UNCHANGED width
  BY <1>1, <1>4 DEF TypeOK, Discoverable
<1> QED BY <1>2, <1>3, <1>4 DEF Initialises

\* A result says the same as long as it and the variables it is of stay.
LEMMA ResultSaysTheSame ==
  ASSUME IInv, UNCHANGED <<result, dep, n, width, letterType>>, quiet' => quiet
  PROVE  BinsWithinN' /\ PositionsAreRanks' /\ ProbabilitiesAddUp'
<1>1. BinsWithinN'
  BY DEF IInv, BinsWithinN
<1>2. PositionsAreRanks'
  BY DEF IInv, PositionsAreRanks
<1>3. ProbabilitiesAddUp'
  BY DEF IInv, ProbabilitiesAddUp
<1> QED BY <1>1, <1>2, <1>3

\* An n-gram object begins with the invariant, whatever rows the table has (qcatngram.cpp,
\* the constructor).
THEOREM InitEstablishes == Init => IInv
<1> SUFFICES ASSUME Init PROVE IInv
  OBVIOUS
<1>1. width \in [num : Int, den : Nat] /\ width.num >= 0 /\ writes \in 0..MaxWrites
  BY NGramAssumption DEF Init, UnitWidth
<1>2. TypeOK
  BY <1>1 DEF Init, TypeOK
<1> QED BY <1>2 DEF Init, IInv, SelectsWithWidth, BinsWithinN, PositionsAreRanks,
                    ProbabilitiesAddUp, OnlyMisuseKills

LEMMA SetDependentVariablePreserves ==
  ASSUME IInv, NEW column \in Dependents \cup {None}, SetDependentVariable(column)
  PROVE  IInv'
<1> DEFINE next == IF column = None THEN "dead" ELSE "idle"
<1>1. TypeOK /\ Initialises(column, n, next) /\ n \in Ns
  BY DEF IInv, TypeOK, SetDependentVariable
<1>2. /\ width' \in [num : Int, den : Nat] /\ lost' \in BOOLEAN
      /\ pc' = next \/ pc' = "dead"
      /\ pc' = "dead" /\ next # "dead" =>
           lost' \/ KindOf[column] = "boolean" \/ qcat = "badCondition"
      /\ pc' # "dead" /\ column # None => width'.num >= 0 \/ KindOf[column] = "string"
  <2> HIDE DEF next
  <2> QED BY <1>1, InitialisesWell
<1>3. TypeOK'
  BY <1>1, <1>2 DEF TypeOK, SetDependentVariable, Unset
<1>4. SelectsWithWidth' /\ OnlyMisuseKills'
  BY <1>2 DEF SelectsWithWidth, OnlyMisuseKills, SetDependentVariable
<1> QED BY <1>1, <1>3, <1>4, NothingToSay DEF IInv, SetDependentVariable

LEMMA SetNPreserves ==
  ASSUME IInv, NEW N \in Ns, SetN(N)
  PROVE  IInv'
<1>1. TypeOK /\ Initialises(dep, N, "idle") /\ dep \in Dependents \cup {None}
  BY DEF IInv, TypeOK, SetN
<1>2. /\ width' \in [num : Int, den : Nat] /\ lost' \in BOOLEAN
      /\ pc' = "idle" \/ pc' = "dead"
      /\ pc' = "dead" => lost' \/ KindOf[dep] = "boolean" \/ qcat = "badCondition"
      /\ pc' # "dead" /\ dep # None => width'.num >= 0 \/ KindOf[dep] = "string"
  BY <1>1, InitialisesWell
<1>3. TypeOK'
  BY <1>1, <1>2 DEF TypeOK, SetN, Unset
<1>4. SelectsWithWidth' /\ OnlyMisuseKills'
  BY <1>2 DEF SelectsWithWidth, OnlyMisuseKills, SetN
<1> QED BY <1>1, <1>3, <1>4, NothingToSay DEF IInv, SetN

\* The setters that discover no width.
LEMMA OtherSettersPreserve ==
  ASSUME IInv,
         \/ \E column \in Independents \cup {None} : SetIndependentVariable(column)
         \/ \E q \in QCATs : SetQCAT(q)
         \/ \E type \in LetterTypes : SetLetterType(type)
  PROVE  IInv'
<1>1. TypeOK
  BY DEF IInv
<1>2. pc' = "idle" /\ Unset
  BY DEF SetIndependentVariable, SetQCAT, SetLetterType
<1>3. TypeOK'
  BY <1>1 DEF TypeOK, SetIndependentVariable, SetQCAT, SetLetterType, Unset
<1>4. SelectsWithWidth' /\ OnlyMisuseKills'
  BY <1>2 DEF SelectsWithWidth, OnlyMisuseKills
<1> QED BY <1>1, <1>2, <1>3, <1>4, NothingToSay DEF IInv

LEMMA ExecuteNGramPreserves ==
  ASSUME IInv, ExecuteNGram
  PROVE  IInv'
<1> DEFINE next == IF None \in {dep, indep} \/ qcat = "unknownVON" THEN "dead" ELSE "select"
<1>1. TypeOK /\ Initialises(dep, n, next) /\ n \in Ns /\ dep \in Dependents \cup {None}
  BY DEF IInv, TypeOK, ExecuteNGram
<1>2. /\ width' \in [num : Int, den : Nat] /\ lost' \in BOOLEAN
      /\ pc' = next \/ pc' = "dead"
      /\ pc' = "dead" /\ next # "dead" =>
           lost' \/ KindOf[dep] = "boolean" \/ qcat = "badCondition"
      /\ pc' # "dead" /\ dep # None =>
           /\ width' = Discovered(dep, n)
           /\ width'.num >= 0 \/ KindOf[dep] = "string"
  <2> HIDE DEF next
  <2> QED BY <1>1, InitialisesWell
<1>3. TypeOK'
  BY <1>1, <1>2 DEF TypeOK, ExecuteNGram, Unset
<1>4. UNCHANGED <<table, dep, indep, n, letterType, qcat>>
  BY DEF ExecuteNGram
<1>5. SelectsWithWidth'
  <2>1. Discovered(dep, n)' = Discovered(dep, n)
    BY <1>4 DEF Discovered, Present
  <2> QED BY <1>2, <1>4, <2>1 DEF SelectsWithWidth
<1>6. OnlyMisuseKills'
  BY <1>2, <1>4 DEF OnlyMisuseKills
<1> QED BY <1>1, <1>3, <1>5, <1>6, NothingToSay DEF IInv, ExecuteNGram

LEMMA WritePreserves ==
  ASSUME IInv, NEW r \in Row, NEW cell \in Cell \cup {Gone}, Write(r, cell)
  PROVE  IInv'
<1>1. TypeOK /\ pc # "dead" /\ UNCHANGED <<config, pc, result, lost>>
      /\ quiet' = (quiet /\ pc = "idle")
  BY DEF IInv, Write
<1>2. TypeOK'
  <2>1. table' \in [Row -> Cell \cup {Gone}]
    BY <1>1 DEF TypeOK, Write
  <2>2. writes' \in 0..MaxWrites
    BY <1>1, NGramAssumption DEF TypeOK, Write
  <2> QED BY <1>1, <2>1, <2>2 DEF TypeOK, config
<1>3. SelectsWithWidth' /\ OnlyMisuseKills'
  BY <1>1 DEF IInv, SelectsWithWidth, OnlyMisuseKills, config
<1>4. BinsWithinN' /\ PositionsAreRanks' /\ ProbabilitiesAddUp'
  BY <1>1, ResultSaysTheSame DEF config
<1> QED BY <1>2, <1>3, <1>4 DEF IInv

\* What a reason to die is of stays when only the result and pc change.
LEMMA ReasonStays ==
  ASSUME UNCHANGED <<table, dep, indep, width, letterType, qcat>>
  PROVE  Present' = Present /\ StatementOK' = StatementOK /\ Grows' = Grows
<1>1. Present' = Present /\ \A r : InstantOf(r)' = InstantOf(r)
  BY DEF Present, InstantOf, Reading
<1>2. StatementOK' = StatementOK
  BY <1>1 DEF StatementOK
<1>3. \A t : RowsAt(t)' = RowsAt(t)
  BY <1>1 DEF RowsAt
<1> QED BY <1>1, <1>2, <1>3 DEF Grows

\* An execution that survives its rows.
LEMMA AnswerPreserves ==
  ASSUME IInv, dep # None, indep # None, quiet => width = Discovered(dep, n),
         UNCHANGED <<table, dep, indep, n, width, letterType, qcat, writes, quiet>>,
         NEW rows \in Selections, NEW lists, AreLists(lists, rows), NEW letters,
         DOMAIN letters = DOMAIN lists,
         \A t \in DOMAIN lists : letters[t] \in LettersOf(lists, t),
         result' = [letters |-> letters, lists |-> lists, total |-> Total(rows)],
         pc # "dead", pc' = "idle", lost' \in BOOLEAN
  PROVE  IInv'
<1>1. TypeOK
  BY DEF IInv
<1>2. /\ result'.lists = lists /\ result'.total = Cardinality(rows)
      /\ result'.letters = letters
  BY DEF Total
<1>3. ASSUME NEW t \in DOMAIN lists
      PROVE  /\ lists[t] \in Seq(Int)
             /\ letters[t] \in Seq(Int) /\ Len(letters[t]) = Len(lists[t])
             /\ letterType = "absolute" => letters[t] = lists[t]
             /\ KindOf[dep] # "string" =>
                  /\ IsNonDecreasing(lists[t])
                  /\ letterType = "relative" =>
                       \A i \in DOMAIN lists[t] : lists[t][letters[t][i]] = lists[t][i]
                  /\ letterType \in {"delta", "direction"}
                       /\ Len(lists[t]) = Len(Previous(lists, t)) =>
                       (ToSet(letters[t]) \subseteq {0} <=> SameBins(lists[t], Previous(lists, t)))
  <2>1. lists[t] \in Seq(Int) /\ (KindOf[dep] # "string" => IsNonDecreasing(lists[t]))
    BY DEF AreLists
  <2>2. letters[t] \in LettersOf(lists, t)
    OBVIOUS
  <2> QED BY <1>1, <2>1, <2>2, LettersAreRanks
<1>4. TypeOK'
  <2>1. Cardinality(rows) \in 0..Cardinality(Row)
    <3>1. IsFiniteSet(rows) /\ Cardinality(rows) <= Cardinality(Row)
      BY <1>1, SelectedHaveBins, FS_Subset, NGramAssumption
    <3>2. Cardinality(rows) \in Nat /\ Cardinality(Row) \in Nat
      BY <3>1, FS_CardinalityType, NGramAssumption
    <3> QED BY <3>1, <3>2
  <2>2. /\ DOMAIN result'.letters = DOMAIN result'.lists
        /\ result'.total \in 0..Cardinality(Row)
        /\ \A t \in DOMAIN result'.lists :
             /\ result'.lists[t] \in Seq(Int)
             /\ result'.letters[t] \in Seq(Int)
             /\ Len(result'.letters[t]) = Len(result'.lists[t])
    BY <1>2, <1>3, <2>1
  <2>3. dep' # None /\ pc' # "dead" => width'.num >= 0 \/ KindOf[dep'] = "string"
    BY <1>1, pc # "dead" DEF TypeOK
  <2> QED BY <1>1, <2>2, <2>3 DEF TypeOK
<1>5. SelectsWithWidth' /\ OnlyMisuseKills'
  BY DEF SelectsWithWidth, OnlyMisuseKills
<1>6. BinsWithinN'
  <2> SUFFICES ASSUME quiet', KindOf[dep'] \in NumericKinds
               PROVE  Cardinality(UNION {ToSet(result'.lists[t]) : t \in DOMAIN result'.lists})
                        <= n' + (IF KindOf[dep'] = "integer" /\ IsWhole(width') THEN 1 ELSE 2)
    BY DEF BinsWithinN, IsWhole, ToSet
  <2>1. Cardinality(UNION {ToSet(lists[t]) : t \in DOMAIN lists})
          <= n + (IF KindOf[dep] = "integer" /\ IsWhole(width) THEN 1 ELSE 2)
    BY <1>1, BinsOfDiscovered
  <2> QED BY <1>2, <2>1
<1>7. PositionsAreRanks'
  <2> SUFFICES ASSUME KindOf[dep] # "string", NEW t \in DOMAIN lists
               PROVE  LET list == lists[t]
                          letter == letters[t]
                          before == Previous(lists, t)
                      IN  /\ \A i, j \in DOMAIN list : i < j => list[i] <= list[j]
                          /\ letterType = "relative" =>
                               \A i \in DOMAIN list : list[letter[i]] = list[i]
                          /\ letterType = "absolute" =>
                               \A u \in DOMAIN lists :
                                 letter = letters[u] <=> SameBins(list, lists[u])
                          /\ letterType \in {"delta", "direction"} /\ Len(list) = Len(before) =>
                               (ToSet(letter) \subseteq {0} <=> SameBins(list, before))
    BY <1>2 DEF PositionsAreRanks
  <2>1. \A i, j \in DOMAIN lists[t] : i < j => lists[t][i] <= lists[t][j]
    BY <1>3 DEF IsNonDecreasing
  <2>2. ASSUME letterType = "absolute", NEW u \in DOMAIN lists
        PROVE  letters[t] = letters[u] <=> SameBins(lists[t], lists[u])
    BY <1>3, <2>2, SameBinsAreOneList
  <2> QED BY <1>3, <2>1, <2>2
<1>8. ProbabilitiesAddUp'
  BY <1>1, <1>2, InstantsOfRows DEF ProbabilitiesAddUp
<1> QED BY <1>4, <1>5, <1>6, <1>7, <1>8 DEF IInv

LEMMA SelectRowsPreserves ==
  ASSUME IInv, SelectRows
  PROVE  IInv'
<1>1. /\ TypeOK /\ pc = "select" /\ dep # None /\ indep # None
      /\ quiet => width = Discovered(dep, n)
      /\ UNCHANGED <<table, dep, indep, n, width, letterType, qcat, writes, quiet>>
  BY DEF IInv, SelectRows, SelectsWithWidth, config
<1>2. PICK rows \in Selections :
        /\ lost' = (lost \/ (StatementOK /\ rows # Present))
        /\ \/ /\ \E letters \in [DOMAIN Lists(rows) ->
                                   UNION {LettersOf(Lists(rows), t) : t \in DOMAIN Lists(rows)}] :
                   /\ \A t \in DOMAIN Lists(rows) : letters[t] \in LettersOf(Lists(rows), t)
                   /\ result' = [letters |-> letters, lists |-> Lists(rows), total |-> Total(rows)]
              /\ pc' = "idle"
           \/ MayDie(Lists(rows)) /\ pc' = "dead" /\ UNCHANGED result
  BY Zenon DEF SelectRows, Selections
<1> DEFINE lists == Lists(rows)
<1>3. AreLists(lists, rows)
  BY <1>1, ListsAreLists
<1> HIDE DEF lists
<1>4. CASE pc' = "dead" /\ MayDie(lists) /\ UNCHANGED result
  <2>1. TypeOK'
    BY <1>1, <1>2, <1>4 DEF TypeOK
  <2>2. SelectsWithWidth'
    BY <1>4 DEF SelectsWithWidth
  <2>3. BinsWithinN' /\ PositionsAreRanks' /\ ProbabilitiesAddUp'
    BY <1>1, <1>4, ResultSaysTheSame
  <2>4. OnlyMisuseKills'
    <3>1. letterType \in {"delta", "direction"}
      BY <1>4 DEF MayDie
    <3>2. CASE DOMAIN lists = {}
      <4>1. rows = {}
        BY <1>3, <3>2 DEF AreLists
      <4> QED BY <1>1, <1>2, <3>1, <4>1, ReasonStays DEF OnlyMisuseKills
    <3>3. CASE ReadsBeyond(lists)
      BY <1>1, <1>3, <3>1, <3>3, BeyondIsGrowth, ReasonStays DEF OnlyMisuseKills
    <3> QED BY <1>4, <3>2, <3>3 DEF MayDie
  <2> QED BY <2>1, <2>2, <2>3, <2>4 DEF IInv
<1>5. CASE /\ \E letters \in [DOMAIN lists -> UNION {LettersOf(lists, t) : t \in DOMAIN lists}] :
                /\ \A t \in DOMAIN lists : letters[t] \in LettersOf(lists, t)
                /\ result' = [letters |-> letters, lists |-> lists, total |-> Total(rows)]
           /\ pc' = "idle"
  <2>1. lost' \in BOOLEAN
    BY <1>1, <1>2 DEF TypeOK
  <2> QED BY <1>1, <1>3, <1>5, <2>1, AnswerPreserves
<1> QED BY <1>2, <1>4, <1>5 DEF lists

\* Every setter, operation and step of executeNGram keeps it, and every write to the
\* table.
THEOREM NextPreserves == IInv /\ [Next]_vars => IInv'
<1> SUFFICES ASSUME IInv, [Next]_vars PROVE IInv'
  OBVIOUS
<1>1. ASSUME NEW column \in Dependents \cup {None}, SetDependentVariable(column) PROVE IInv'
  BY <1>1, SetDependentVariablePreserves
<1>2. ASSUME NEW column \in Independents \cup {None}, SetIndependentVariable(column) PROVE IInv'
  BY <1>2, OtherSettersPreserve
<1>3. ASSUME NEW q \in QCATs, SetQCAT(q) PROVE IInv'
  BY <1>3, OtherSettersPreserve
<1>4. ASSUME NEW N \in Ns, SetN(N) PROVE IInv'
  BY <1>4, SetNPreserves
<1>5. ASSUME NEW type \in LetterTypes, SetLetterType(type) PROVE IInv'
  BY <1>5, OtherSettersPreserve
<1>6. CASE ExecuteNGram
  BY <1>6, ExecuteNGramPreserves
<1>7. CASE SelectRows
  BY <1>7, SelectRowsPreserves
<1>8. ASSUME NEW r \in Row, NEW cell \in Cell \cup {Gone}, Write(r, cell) PROVE IInv'
  BY <1>8, WritePreserves
<1>9. CASE UNCHANGED vars
  <2>1. UNCHANGED <<table, dep, indep, n, width, letterType, qcat, pc, result, writes, quiet, lost>>
    BY <1>9 DEF vars, config
  <2>2. TypeOK'
    BY <2>1 DEF IInv, TypeOK
  <2>3. SelectsWithWidth'
    BY <2>1 DEF IInv, SelectsWithWidth, Discovered, Present
  <2>4. BinsWithinN' /\ PositionsAreRanks' /\ ProbabilitiesAddUp'
    BY <2>1, ResultSaysTheSame
  <2>5. OnlyMisuseKills'
    BY <2>1, ReasonStays DEF IInv, OnlyMisuseKills
  <2> QED BY <2>2, <2>3, <2>4, <2>5 DEF IInv
<1> QED BY <1>1, <1>2, <1>3, <1>4, <1>5, <1>6, <1>7, <1>8, <1>9 DEF Next

\* The inductive invariant holds in every state of every behaviour.
THEOREM Invariance == Spec => []IInv
<1>1. Init => IInv
  BY InitEstablishes
<1>2. IInv /\ [Next]_vars => IInv'
  BY NextPreserves
<1> QED BY <1>1, <1>2, PTL DEF Spec

-----------------------------------------------------------------------------
(* The properties. *)

\* Variables, result and width have their types.
THEOREM TypeCorrect == Spec => []TypeOK
<1>1. IInv => TypeOK
  BY DEF IInv
<1> QED BY <1>1, Invariance, PTL

\* An undisturbed execution has no more bins than N and the ends of the span ask for.
THEOREM BinsAreWithinN == Spec => []BinsWithinN
<1>1. IInv => BinsWithinN
  BY DEF IInv
<1> QED BY <1>1, Invariance, PTL

\* A position of a list is a rank unless the rows are of texts: what a letter tells is
\* the bins, not the things.
THEOREM LettersTellRanks == Spec => []PositionsAreRanks
<1>1. IInv => PositionsAreRanks
  BY DEF IInv
<1> QED BY <1>1, Invariance, PTL

\* The probabilities of the letters add up to 1 only with one row an instant.
THEOREM ProbabilitiesAreOfRows == Spec => []ProbabilitiesAddUp
<1>1. IInv => ProbabilitiesAddUp
  BY DEF IInv
<1> QED BY <1>1, Invariance, PTL

\* A process dies of a variable, QCAT or statement that is none, or of a delta over no
\* rows or over instants that come to have more of them, and of nothing else.
THEOREM DeathHasAReason == Spec => []OnlyMisuseKills
<1>1. IInv => OnlyMisuseKills
  BY DEF IInv
<1> QED BY <1>1, Invariance, PTL

LEMMA WidthIsWidth ==
  ASSUME TypeOK, width.num > 0, width.den > 0
  PROVE  IsWidth(width)
BY DEF TypeOK, IsWidth

\* With every width discovered, a condition meets the rows it names.
THEOREM ConditionsMeetRows == Spec => []ConstantsMeetRows
<1>1. IInv => ConstantsMeetRows
  BY WidthIsWidth, ConstantsMeet, NGramAssumption DEF IInv, ConstantsMeetRows
<1> QED BY <1>1, Invariance, PTL

\* With every width discovered that is 1 or more, bins come back from their values.
THEOREM BinsComeBack == Spec => []RoundTrip
<1>1. IInv => RoundTrip
  <2> SUFFICES ASSUME IInv, width.num > 0, width.den > 0
               PROVE  BinsRoundTrip(-MaxInt..MaxInt, width)
    BY DEF RoundTrip
  <2>1. IsWidth(width)
    BY WidthIsWidth DEF IInv
  <2>2. -MaxInt..MaxInt \in SUBSET Int
    BY MaxIntAssumption
  <2> QED BY <2>1, <2>2, RoundTrips
<1> QED BY <1>1, Invariance, PTL

\* With every width discovered, and whatever rows there are, the statistics of the bins
\* are a histogram of them.
THEOREM RowsMakeAHistogram == Spec => []RowsMakeHistogram
<1>1. IInv => RowsMakeHistogram
  <2> SUFFICES ASSUME IInv, width.num > 0, width.den > 0
               PROVE  SummariesAreHistogram([r \in Present |-> table[r].value], width)
    BY DEF RowsMakeHistogram
  <2> DEFINE valueOf == [r \in Present |-> table[r].value]
  <2>1. IsWidth(width)
    BY WidthIsWidth DEF IInv
  <2>2. DOMAIN valueOf = Present /\ IsFiniteSet(Present)
    BY NGramAssumption, FS_Subset DEF Present
  <2>3. \A r \in DOMAIN valueOf : valueOf[r] \in Int
    BY NGramAssumption DEF IInv, TypeOK, Present, Cell
  <2> HIDE DEF valueOf
  <2>4. SummariesAreHistogram(valueOf, width)
    BY <2>1, <2>2, <2>3, SummariesMakeHistogram
  <2> QED BY <2>4 DEF valueOf
<1> QED BY <1>1, Invariance, PTL

=============================================================================
