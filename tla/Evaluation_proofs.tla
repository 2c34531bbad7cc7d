------------------------- MODULE Evaluation_proofs --------------------------
(***************************************************************************)
(* Proofs about Evaluation, for any finite table, letters, limits, fields, *)
(* numbers of records asked for and writes of others.                      *)
(***************************************************************************)
EXTENDS Evaluation, FiniteOrders

Method == {"client", "server"}

\* What the rows that the conditionals select now amount to.
Current == CountIn(Selected)

\* A run that is remembered counted the rows the conditionals select now.
RanInOrder == \A m \in Method : ran[m] # None => ran[m] = Current

\* Between the statements of an operation its first answer is, but for the writes since,
\* about the rows that are selected now.
Sound == answered /\ limit = -1

ExplainInOrder ==
  pc = "second" /\ op = "explain" =>
    /\ records \in Records
    /\ Sound => RecordsOfNearly(Current)

MatchInOrder ==
  pc = "second" /\ op = "match" =>
    /\ summary \in Summary
    /\ Sound => \A l \in Letter : Current[l] <= summary.count[l] + between

IInv ==
  /\ TypeOK
  /\ RanInOrder
  /\ ExplainInOrder
  /\ MatchInOrder
  /\ ExplanationAgrees
  /\ MatchesAreWithinRun
  /\ LimitIsRespected
  /\ SurprisalsMatchSummary

-----------------------------------------------------------------------------
(* Counts and answers. *)

\* The cardinality of a part is a number, no greater than that of the whole.
LEMMA Cardinals ==
  ASSUME NEW S \in SUBSET Row, NEW T \in SUBSET S
  PROVE  /\ Cardinality(T) \in Nat
         /\ Cardinality(T) <= Cardinality(S)
         /\ Cardinality(T) \in 0..Cardinality(Row)
<1>1. IsFiniteSet(Row) /\ IsFiniteSet(S) /\ T \in SUBSET Row
  BY ConstantsAssumption, FS_Subset
<1>2. IsFiniteSet(T) /\ Cardinality(T) <= Cardinality(S)
  BY <1>1, FS_Subset
<1>3. Cardinality(T) <= Cardinality(Row)
  BY <1>1, FS_Subset
<1>4. Cardinality(T) \in Nat /\ Cardinality(Row) \in Nat
  BY <1>1, <1>2, FS_CardinalityType
<1> QED BY <1>2, <1>3, <1>4

\* Counting rows gives counts, and more rows no smaller ones.
LEMMA Counts ==
  ASSUME NEW S \in SUBSET Row, NEW T \in SUBSET S
  PROVE  /\ CountIn(T) \in Count
         /\ \A l \in Letter : CountIn(T)[l] \in Nat /\ CountIn(T)[l] <= CountIn(S)[l]
<1>1. ASSUME NEW l \in Letter
      PROVE  /\ Cardinality({r \in T : table[r].letter = l}) \in 0..Cardinality(Row)
             /\ Cardinality({r \in T : table[r].letter = l}) \in Nat
             /\ Cardinality({r \in T : table[r].letter = l})
                  <= Cardinality({r \in S : table[r].letter = l})
  <2>1. /\ {r \in S : table[r].letter = l} \in SUBSET Row
        /\ {r \in T : table[r].letter = l} \in SUBSET {r \in S : table[r].letter = l}
    OBVIOUS
  <2> HIDE DEF CountIn
  <2> QED BY <2>1, Cardinals
<1> QED BY <1>1 DEF CountIn, Count

\* The rows selected are rows.
LEMMA SelectedRows == Selected \in SUBSET Present /\ Present \in SUBSET Row
BY DEF Selected, Present

\* An answer has selected rows only, and without LIMIT all of them.
LEMMA Answered ==
  ASSUME NEW answer \in ClientAnswers \cup ServerAnswers
  PROVE  /\ answer.ok \in BOOLEAN
         /\ answer.rows \in SUBSET Selected /\ answer.rows \in SUBSET Row
         /\ limit = -1 /\ answer.ok => answer.rows = Selected
         /\ ~answer.ok => answer.rows = {}
<1>1. CASE answer = Failed
  BY <1>1 DEF Failed
<1>2. ASSUME answer # Failed
      PROVE  /\ answer.ok = TRUE
             /\ \E T \in LimitedTo(Selected) \cup LimitedTo(Present) : answer.rows = T \cap Selected
  <2>1. CASE answer \in ClientAnswers
    <3>1. PICK T \in LimitedTo(Selected) : answer = [ok |-> TRUE, rows |-> T]
      BY <1>2, <2>1 DEF ClientAnswers, AnswersOver
    <3>2. T \in SUBSET Selected
      BY <3>1 DEF LimitedTo
    <3>3. T = T \cap Selected
      BY <3>2
    <3> QED BY <3>1, <3>3
  <2>2. CASE answer \in ServerAnswers
    BY <1>2, <2>2 DEF ServerAnswers, AnswersOver
  <2> QED BY <2>1, <2>2
<1>3. limit = -1 => LimitedTo(Selected) = {Selected} /\ LimitedTo(Present) = {Present}
  BY DEF LimitedTo
<1>4. Present \cap Selected = Selected /\ Selected \in SUBSET Row
  BY SelectedRows
<1>5. CASE answer # Failed
  BY <1>2, <1>3, <1>4, <1>5
<1> QED BY <1>1, <1>5

\* Nor do more rows answer than LIMIT says.
LEMMA AnsweredWithinLimit ==
  ASSUME TypeOK, limit # -1, NEW answer \in ClientAnswers \cup ServerAnswers
  PROVE  Cardinality(answer.rows) = 0 \/ Cardinality(answer.rows) <= limit
<1>1. limit \in Int
  BY ConstantsAssumption DEF TypeOK
<1>2. CASE answer = Failed
  BY <1>2, FS_EmptySet DEF Failed
<1>3. ASSUME NEW S, NEW T \in LimitedTo(S) PROVE Cardinality(T) <= limit
  BY <1>1, <1>3 DEF LimitedTo
<1>4. CASE answer # Failed /\ answer \in ClientAnswers
  BY <1>3, <1>4 DEF ClientAnswers, AnswersOver
<1>5. CASE answer # Failed /\ answer \in ServerAnswers
  <2>1. PICK T \in LimitedTo(Present) : answer.rows = T \cap Selected
    BY <1>5 DEF ServerAnswers, AnswersOver
  <2>2. T \in SUBSET Row
    BY <2>1, SelectedRows DEF LimitedTo
  <2>3. Cardinality(T \cap Selected) \in Nat /\ Cardinality(T) \in Nat
        /\ Cardinality(T \cap Selected) <= Cardinality(T)
    <3>1. T \cap Selected \in SUBSET T
      OBVIOUS
    <3> QED BY <2>2, <3>1, Cardinals
  <2>4. Cardinality(T) <= limit
    BY <1>3, <2>1
  <2> QED BY <1>1, <2>1, <2>3, <2>4
<1> QED BY <1>2, <1>4, <1>5

\* What a run returns is the summary of its answer, or says nothing.
LEMMA Summaries ==
  ASSUME NEW answer \in ClientAnswers \cup ServerAnswers,
         NEW s \in {ClientSummary(answer), ServerSummary(answer)}
  PROVE  /\ s \in Summary
         /\ s.length = 0 \/ s.length = Cardinality(answer.rows)
         /\ answer.ok => s.count = CountIn(answer.rows)
<1>1. answer.rows \in SUBSET Row
  BY Answered
<1>2. CountIn(answer.rows) \in Count /\ Cardinality(answer.rows) \in 0..Cardinality(Row)
  BY <1>1, Counts, Cardinals
<1>3. Zero \in Count /\ 0 \in 0..Cardinality(Row)
  <2>1. Cardinality(Row) \in Nat
    BY ConstantsAssumption, FS_CardinalityType
  <2> QED BY <2>1 DEF Zero, Count
<1> HIDE DEF CountIn
<1>4. CASE s = [success |-> TRUE, length |-> Cardinality(answer.rows), count |-> CountIn(answer.rows)]
  BY <1>2, <1>4 DEF Summary
<1>5. CASE s = FailureSummary /\ ~answer.ok
  BY <1>3, <1>5 DEF FailureSummary, Summary
<1>6. \/ s = [success |-> TRUE, length |-> Cardinality(answer.rows), count |-> CountIn(answer.rows)]
      \/ s = FailureSummary /\ ~answer.ok
  BY DEF ClientSummary, ServerSummary
<1> QED BY <1>4, <1>5, <1>6

\* What the methods run to.
LEMMA Runs ==
  ASSUME NEW m, NEW s, NEW answer, RunsTo(m, s, answer)
  PROVE  /\ answer \in ClientAnswers \cup ServerAnswers
         /\ s \in {ClientSummary(answer), ServerSummary(answer)}
BY DEF RunsTo

\* An answer in full is about the rows selected now.
LEMMA Complete ==
  ASSUME limit = -1, NEW answer \in ClientAnswers \cup ServerAnswers, answer.ok
  PROVE  CountIn(answer.rows) = Current
BY Answered DEF Current

LEMMA CurrentCounts == Current \in Count /\ \A l \in Letter : Current[l] \in Nat
BY SelectedRows, Counts DEF Current

\* The counts are of the table: they stay while it does.
LEMMA CurrentStays == UNCHANGED table => UNCHANGED Current
BY DEF Current, Selected, Present, CountIn

\* A write moves each count by 1 at most.
LEMMA WriteShifts ==
  ASSUME NEW r \in Row, NEW cell, Write(r, cell), NEW l \in Letter
  PROVE  /\ Current[l] \in Nat /\ Current'[l] \in Nat
         /\ Current'[l] <= Current[l] + 1 /\ Current[l] <= Current'[l] + 1
<1> DEFINE S == {q \in Selected : table[q].letter = l}
           T == {q \in Selected' : table'[q].letter = l}
<1>1. S \in SUBSET Row /\ T \in SUBSET Row
  BY DEF Selected, Present
<1>2. Current[l] = Cardinality(S) /\ Current'[l] = Cardinality(T)
  BY DEF Current, CountIn
<1>3. \A q \in Row : q # r => table'[q] = table[q]
  BY DEF Write
<1>4. S \ {r} = T \ {r}
  BY <1>3 DEF Selected, Present
<1> HIDE DEF S, T
<1>5. IsFiniteSet(S) /\ IsFiniteSet(T)
  BY <1>1, ConstantsAssumption, FS_Subset
<1>6. /\ Cardinality(S \ {r}) = IF r \in S THEN Cardinality(S) - 1 ELSE Cardinality(S)
      /\ Cardinality(T \ {r}) = IF r \in T THEN Cardinality(T) - 1 ELSE Cardinality(T)
  BY <1>5, FS_RemoveElement
<1>7. Cardinality(S) \in Nat /\ Cardinality(T) \in Nat
  BY <1>5, FS_CardinalityType
<1> QED BY <1>2, <1>4, <1>6, <1>7

LEMMA FailureType ==
  FailureSummary \in Summary /\ FailureSummary.length = 0
  /\ [l \in {} |-> 0] \in Records /\ [r \in {} |-> 0] \in Surprisals
<1>1. 0 \in 0..Cardinality(Row)
  BY ConstantsAssumption, FS_CardinalityType
<1>2. /\ [l \in {} |-> 0] \in [{} -> 0..Cardinality(Row)]
      /\ [r \in {} |-> 0] \in [{} -> 0..Cardinality(Row)]
  OBVIOUS
<1>3. [l \in {} |-> 0] \in Records
  BY <1>2 DEF Records
<1>4. [r \in {} |-> 0] \in Surprisals
  BY <1>2 DEF Surprisals
<1>5. FailureSummary \in Summary /\ FailureSummary.length = 0
  BY <1>1 DEF FailureSummary, Summary, Zero, Count
<1> QED BY <1>3, <1>4, <1>5

\* What is remembered of an answer is what the conditionals select.
LEMMA RememberedInOrder ==
  ASSUME TypeOK, RanInOrder, NEW m \in Method, NEW answer \in ClientAnswers \cup ServerAnswers
  PROVE  /\ Remembered(m, answer) \in [Method -> Count \cup {None}]
         /\ \A k \in Method : Remembered(m, answer)[k] # None => Remembered(m, answer)[k] = Current
<1>1. CountIn(answer.rows) \in Count
  BY Answered, Counts
<1>2. ran \in [Method -> Count \cup {None}]
  BY DEF TypeOK, Method
<1>3. limit = -1 /\ answer.ok => CountIn(answer.rows) = Current
  BY Complete
<1> HIDE DEF CountIn, Method
<1> QED BY <1>1, <1>2, <1>3 DEF Remembered, RanInOrder

\* The records of some letters are records.
LEMMA RecordsType ==
  ASSUME NEW count \in Count, NEW S \in SUBSET Letter
  PROVE  RecordsOf(count, S) \in Records /\ DOMAIN RecordsOf(count, S) = S
BY DEF RecordsOf, Records, Count

\* Letters that occur, the rarest of them.
LEMMA TopInOrder ==
  ASSUME NEW count \in Count, NEW n, NEW top \in TopOf(count, n)
  PROVE  /\ RecordsOf(count, top) \in Records /\ DOMAIN RecordsOf(count, top) = top
         /\ \A l \in top : RecordsOf(count, top)[l] = count[l]
         /\ \A l \in top, k \in Alphabet(count) \ top : count[l] <= count[k]
<1>1. top \in SUBSET Letter
  BY DEF TopOf, Alphabet
<1> QED BY <1>1 DEF TopOf, RecordsOf, Records, Count

\* The surprises of the rows that answered.
LEMMA SurprisalsType ==
  ASSUME TypeOK, NEW answer \in ClientAnswers
  PROVE  SurprisalsOf(answer.rows) \in Surprisals
<1> DEFINE R == answer.rows
<1>1. R \in SUBSET Selected /\ R \in SUBSET Row
  BY Answered
<1>2. \A r \in R : table[r].letter \in Letter
  BY <1>1 DEF Selected, Present, TypeOK, Cell
<1>3. CountIn(R) \in Count
  BY <1>1, Counts
<1> HIDE DEF R, CountIn
<1>4. SurprisalsOf(R) \in [R -> 0..Cardinality(Row)]
  BY <1>2, <1>3 DEF SurprisalsOf, Count
<1> QED BY <1>1, <1>4 DEF Surprisals, R

\* The rows that meet the condition are among those selected.
LEMMA Matched ==
  ASSUME NEW answer \in MatchAnswers
  PROVE  /\ answer.ok \in BOOLEAN
         /\ answer.rows \in SUBSET Selected
         /\ CountIn(answer.rows) \in Count
         /\ \A l \in Letter : /\ CountIn(answer.rows)[l] \in Nat
                             /\ CountIn(answer.rows)[l] <= Current[l]
<1>1. answer.ok \in BOOLEAN /\ answer.rows \in SUBSET Selected
  <2>1. CASE answer = Failed
    BY <2>1 DEF Failed
  <2>2. ASSUME answer # Failed
        PROVE  \E T \in LimitedTo(Selected) :
                 answer = [ok |-> TRUE, rows |-> {r \in T : table[r].meets = "condition"}]
    BY <2>2 DEF MatchAnswers, AnswersOver
  <2>3. ASSUME NEW T \in LimitedTo(Selected) PROVE T \in SUBSET Selected
    BY <2>3 DEF LimitedTo
  <2>4. CASE answer # Failed
    <3>1. PICK T \in LimitedTo(Selected) :
            answer = [ok |-> TRUE, rows |-> {r \in T : table[r].meets = "condition"}]
      BY <2>2, <2>4
    <3>2. {r \in T : table[r].meets = "condition"} \in SUBSET Selected
      BY <2>3
    <3> QED BY <3>1, <3>2
  <2> QED BY <2>1, <2>4
<1>2. Selected \in SUBSET Row
  BY SelectedRows
<1> HIDE DEF CountIn, Selected
<1>3. CountIn(answer.rows) \in Count
      /\ \A l \in Letter : CountIn(answer.rows)[l] \in Nat
                          /\ CountIn(answer.rows)[l] <= CountIn(Selected)[l]
  BY <1>1, <1>2, Counts
<1> QED BY <1>1, <1>3 DEF Current

\* As many rows have a letter that occurs c times as there are occurrences of such
\* letters.
LEMMA RowsByCount ==
  ASSUME NEW rows \in SUBSET Row, \A r \in rows : table[r].letter \in Letter,
         NEW c \in 0..Cardinality(Row)
  PROVE  Cardinality({r \in rows : CountIn(rows)[table[r].letter] = c})
           = c * Cardinality({l \in Letter : CountIn(rows)[l] = c})
<1> DEFINE L == {l \in Letter : CountIn(rows)[l] = c}
           Of(T) == {r \in rows : table[r].letter \in T}
           Good == {T \in SUBSET L : Cardinality(Of(T)) = c * Cardinality(T)}
<1>1. /\ c \in Nat /\ Cardinality(Row) \in Nat
      /\ IsFiniteSet(rows) /\ IsFiniteSet(L)
  <2>1. IsFiniteSet(Row) /\ IsFiniteSet(Letter) /\ L \in SUBSET Letter
    BY ConstantsAssumption
  <2> QED BY <2>1, FS_Subset, FS_CardinalityType
<1>2. {} \in Good
  <2>1. Of({}) = {}
    OBVIOUS
  <2> QED BY <1>1, <2>1, FS_EmptySet
<1>3. ASSUME NEW T \in Good, NEW x \in L, x \notin T
      PROVE  T \cup {x} \in Good
  <2>1. IsFiniteSet(Of(T)) /\ IsFiniteSet(Of({x})) /\ IsFiniteSet(T)
    <3>1. Of(T) \in SUBSET rows /\ Of({x}) \in SUBSET rows /\ T \in SUBSET L
      OBVIOUS
    <3> QED BY <1>1, <3>1, FS_Subset
  <2>2. Of(T \cup {x}) = Of(T) \cup Of({x}) /\ Of(T) \cap Of({x}) = {}
    BY <1>3
  <2>3. Cardinality(Of({x})) = c
    <3>1. Of({x}) = {r \in rows : table[r].letter = x}
      OBVIOUS
    <3> QED BY <3>1 DEF CountIn
  <2>4. Cardinality(T \cup {x}) = Cardinality(T) + 1 /\ Cardinality(T) \in Nat
    BY <1>3, <2>1, FS_AddElement, FS_CardinalityType
  <2>5. Cardinality(Of(T \cup {x})) = Cardinality(Of(T)) + c
    <3> HIDE DEF Of
    <3> QED BY <2>1, <2>2, <2>3, DisjointParts
  <2>6. Cardinality(Of(T)) = c * Cardinality(T)
    OBVIOUS
  <2>7. c * (Cardinality(T) + 1) = c * Cardinality(T) + c
    BY <1>1, <2>4
  <2>8. T \cup {x} \in SUBSET L
    OBVIOUS
  <2> HIDE DEF Of, L
  <2> QED BY <2>4, <2>5, <2>6, <2>7, <2>8
<1>4. L \in Good
  <2>1. Good \in SUBSET SUBSET L
    OBVIOUS
  <2> HIDE DEF Good, L
  <2> QED BY <1>1, <1>2, <1>3, <2>1, FiniteSetInduction
<1>5. Of(L) = {r \in rows : CountIn(rows)[table[r].letter] = c}
  OBVIOUS
<1> QED BY <1>4, <1>5

\* A refused call, too: it has no surprisals, and no letter occurs.
LEMMA NoSurprisals ==
  ASSUME NEW c \in 0..Cardinality(Row)
  PROVE  Cardinality({r \in {} : [q \in {} |-> 0][r] = c})
           = c * Cardinality({l \in Letter : Zero[l] = c})
<1>1. c \in Nat /\ {r \in {} : [q \in {} |-> 0][r] = c} = {}
  BY ConstantsAssumption, FS_CardinalityType
<1>2. {l \in Letter : Zero[l] = c} = IF c = 0 THEN Letter ELSE {}
  BY DEF Zero
<1>3. Cardinality({}) = 0 /\ Cardinality(Letter) \in Nat
  BY ConstantsAssumption, FS_EmptySet, FS_CardinalityType
<1>4. c * Cardinality(IF c = 0 THEN Letter ELSE {}) = 0
  BY <1>1, <1>3
<1> QED BY <1>1, <1>2, <1>3, <1>4

-----------------------------------------------------------------------------
(* The invariant: one lemma per kind of step. *)

LEMMA Initially == Init => IInv
<1> SUFFICES ASSUME Init PROVE IInv
  OBVIOUS
<1>1. TypeOK
  BY ConstantsAssumption DEF Init, TypeOK
<1> QED
  BY <1>1 DEF Init, IInv, RanInOrder, ExplainInOrder, MatchInOrder, ExplanationAgrees,
              MatchesAreWithinRun, LimitIsRespected, SurprisalsMatchSummary,
              Returned, Method

LEMMA ConfigureStep == IInv /\ Configure => IInv'
<1> SUFFICES ASSUME IInv, Configure PROVE IInv'
  OBVIOUS
<1> USE DEF Configure, IInv
<1>1. UNCHANGED Current
  BY CurrentStays
<1>2. TypeOK'
  BY DEF TypeOK
<1>3. RanInOrder'
  BY <1>1 DEF RanInOrder
<1>4. ExplainInOrder' /\ MatchInOrder'
  BY DEF ExplainInOrder, MatchInOrder
<1>5. ExplanationAgrees' /\ MatchesAreWithinRun' /\ LimitIsRespected'
  BY DEF ExplanationAgrees, MatchesAreWithinRun, LimitIsRespected
<1>6. SurprisalsMatchSummary'
  BY DEF SurprisalsMatchSummary
<1> QED BY <1>2, <1>3, <1>4, <1>5, <1>6

LEMMA RefusedStep ==
  ASSUME IInv, NEW operation \in {"run", "surprisals", "top", "explain", "match"},
         Refused(operation)
  PROVE  IInv'
<1> USE DEF Refused, config, IInv
<1>1. UNCHANGED Current
  BY CurrentStays
<1>2. TypeOK'
  <2>1. writes \in 0..MaxWrites /\ 0 \in 0..writes
    BY ConstantsAssumption DEF TypeOK
  <2>2. FailureSummary \in Summary /\ [l \in {} |-> 0] \in Records /\ [r \in {} |-> 0] \in Surprisals
    BY FailureType
  <2> HIDE DEF FailureSummary
  <2> QED BY <2>1, <2>2 DEF TypeOK
<1>3. RanInOrder'
  BY <1>1 DEF RanInOrder
<1>4. ExplainInOrder' /\ MatchInOrder'
  BY DEF ExplainInOrder, MatchInOrder
<1>5. ExplanationAgrees' /\ MatchesAreWithinRun'
  BY DEF ExplanationAgrees, MatchesAreWithinRun, Returned
<1>6. LimitIsRespected'
  BY FailureType DEF LimitIsRespected
<1>7. SurprisalsMatchSummary'
  <2> SUFFICES ASSUME op' = "surprisals", NEW c \in 0..Cardinality(Row)
               PROVE  Cardinality({r \in DOMAIN surprisals' : surprisals'[r] = c})
                        = c * Cardinality({l \in Letter : summary'.count[l] = c})
    BY DEF SurprisalsMatchSummary
  <2>1. surprisals' = [q \in {} |-> 0] /\ summary'.count = Zero
    BY DEF FailureSummary
  <2>2. DOMAIN surprisals' = {}
    BY <2>1
  <2> QED BY <2>1, <2>2, NoSurprisals
<1> QED BY <1>2, <1>3, <1>4, <1>5, <1>6, <1>7

\* What every run of either method establishes, whoever asked for it.
LEMMA RunStep ==
  ASSUME TypeOK, RanInOrder, UNCHANGED <<table, limit>>,
         NEW m \in Method, NEW answer \in ClientAnswers \cup ServerAnswers,
         NEW s \in {ClientSummary(answer), ServerSummary(answer)},
         summary' = s, ran' = Remembered(m, answer)
  PROVE  /\ summary' \in Summary
         /\ ran' \in [Method -> Count \cup {None}]
         /\ answer.ok \in BOOLEAN
         /\ answer.ok => summary'.count = CountIn(answer.rows)
         /\ answer.ok /\ limit = -1 => summary'.count = Current
         /\ RanInOrder' /\ LimitIsRespected'
<1>1. UNCHANGED Current
  BY CurrentStays
<1>2. summary' \in Summary /\ (answer.ok => summary'.count = CountIn(answer.rows))
  BY Summaries
<1>3. answer.ok \in BOOLEAN /\ (answer.ok /\ limit = -1 => summary'.count = Current)
  BY <1>2, Answered, Complete
<1>4. ran' \in [Method -> Count \cup {None}] /\ RanInOrder'
  BY <1>1, RememberedInOrder DEF RanInOrder
<1>5. LimitIsRespected'
  <2>1. s.length = 0 \/ s.length = Cardinality(answer.rows)
    BY Summaries
  <2>2. limit # -1 => Cardinality(answer.rows) = 0 \/ Cardinality(answer.rows) <= limit
    BY AnsweredWithinLimit
  <2> QED BY <2>1, <2>2 DEF LimitIsRespected
<1> QED BY <1>2, <1>3, <1>4, <1>5

LEMMA ExecuteStep == IInv /\ Execute => IInv'
<1> SUFFICES ASSUME IInv, Execute PROVE IInv'
  OBVIOUS
<1> USE DEF Execute, config, IInv
<1>1. PICK answer \in ClientAnswers \cup ServerAnswers :
        /\ RunsTo(method, summary', answer)
        /\ answered' = answer.ok
        /\ ran' = Remembered(method, answer)
  OBVIOUS
<1>2. /\ summary' \in Summary /\ answer.ok \in BOOLEAN
      /\ ran' \in [Method -> Count \cup {None}]
      /\ RanInOrder' /\ LimitIsRespected'
  <2>1. method \in Method
    BY DEF TypeOK, Method
  <2> QED BY <1>1, <2>1, Runs, RunStep
<1>3. TypeOK'
  BY <1>1, <1>2 DEF TypeOK, Method
<1>4. ExplainInOrder' /\ MatchInOrder' /\ ExplanationAgrees' /\ MatchesAreWithinRun'
  BY DEF ExplainInOrder, MatchInOrder, ExplanationAgrees, MatchesAreWithinRun
<1>5. SurprisalsMatchSummary'
  BY DEF SurprisalsMatchSummary
<1> QED BY <1>2, <1>3, <1>4, <1>5

LEMMA SurprisalsStep == IInv /\ SummaryAndSurprisals => IInv'
<1> SUFFICES ASSUME IInv, SummaryAndSurprisals PROVE IInv'
  OBVIOUS
<1> USE DEF SummaryAndSurprisals, config, IInv
<1>1. PICK answer \in ClientAnswers :
        /\ summary' = ClientSummary(answer)
        /\ surprisals' = SurprisalsOf(answer.rows)
        /\ answered' = answer.ok
        /\ ran' = Remembered("client", answer)
  OBVIOUS
<1>2. /\ summary' \in Summary /\ answer.ok \in BOOLEAN
      /\ ran' \in [Method -> Count \cup {None}]
      /\ RanInOrder' /\ LimitIsRespected'
  <2>1. "client" \in Method
    BY DEF Method
  <2> QED BY <1>1, <2>1, RunStep
<1>3. surprisals' \in Surprisals
  BY <1>1, SurprisalsType
<1>4. TypeOK'
  BY <1>1, <1>2, <1>3 DEF TypeOK, Method
<1>5. ExplainInOrder' /\ MatchInOrder' /\ ExplanationAgrees' /\ MatchesAreWithinRun'
  BY DEF ExplainInOrder, MatchInOrder, ExplanationAgrees, MatchesAreWithinRun
<1>6. SurprisalsMatchSummary'
  <2> SUFFICES ASSUME NEW c \in 0..Cardinality(Row)
               PROVE  Cardinality({r \in DOMAIN surprisals' : surprisals'[r] = c})
                        = c * Cardinality({l \in Letter : summary'.count[l] = c})
    BY DEF SurprisalsMatchSummary
  <2>1. /\ answer.rows \in SUBSET Selected /\ answer.rows \in SUBSET Row
        /\ \A r \in answer.rows : table[r].letter \in Letter
    <3>1. answer.rows \in SUBSET Selected /\ answer.rows \in SUBSET Row
      BY Answered
    <3> QED BY <3>1 DEF Selected, Present, TypeOK, Cell
  <2>2. /\ DOMAIN surprisals' = answer.rows
        /\ \A r \in answer.rows : surprisals'[r] = CountIn(answer.rows)[table[r].letter]
        /\ summary'.count = CountIn(answer.rows)
    BY <1>1 DEF SurprisalsOf, ClientSummary
  <2>3. {r \in DOMAIN surprisals' : surprisals'[r] = c}
          = {r \in answer.rows : CountIn(answer.rows)[table[r].letter] = c}
    BY <2>2
  <2> HIDE DEF CountIn
  <2> QED BY <2>1, <2>2, <2>3, RowsByCount
<1> QED BY <1>2, <1>4, <1>5, <1>6

\* What the statement of topNMostSurprising establishes when it returns records.
LEMMA TopStep ==
  ASSUME IInv, UNCHANGED <<table, limit>>, NEW n, NEW answer \in ClientAnswers,
         NEW top \in TopOf(CountIn(answer.rows), n),
         records' = RecordsOf(CountIn(answer.rows), top), between' = 0,
         answered' = answer.ok, ran' = Remembered("client", answer)
  PROVE  /\ records' \in Records /\ answered' \in BOOLEAN
         /\ ran' \in [Method -> Count \cup {None}]
         /\ RanInOrder' /\ ExplainInOrder'
<1> USE DEF IInv
<1>1. UNCHANGED Current
  BY CurrentStays
<1>2. CountIn(answer.rows) \in Count /\ answer.ok \in BOOLEAN
  BY Answered, Counts
<1>3. limit = -1 /\ answer.ok => CountIn(answer.rows) = Current
  BY Complete
<1> HIDE DEF CountIn
<1>4. /\ records' \in Records /\ DOMAIN records' = top
      /\ \A l \in top : records'[l] = CountIn(answer.rows)[l]
      /\ \A l \in top, k \in Alphabet(CountIn(answer.rows)) \ top :
           CountIn(answer.rows)[l] <= CountIn(answer.rows)[k]
  BY <1>2, TopInOrder
<1>5. ExplainInOrder'
  <2> SUFFICES ASSUME (pc = "second" /\ op = "explain" /\ Sound)'
               PROVE  RecordsOfNearly(Current)'
    BY <1>4 DEF ExplainInOrder
  <2>1. CountIn(answer.rows) = Current
    BY <1>3 DEF Sound
  <2>2. \A l \in Letter : Current[l] \in Nat
    BY CurrentCounts
  <2>3. top \in SUBSET Letter
    BY <1>2 DEF TopOf, Alphabet
  <2> QED BY <1>1, <1>4, <2>1, <2>2, <2>3 DEF RecordsOfNearly, Alphabet
<1>6. ran' \in [Method -> Count \cup {None}] /\ RanInOrder'
  BY <1>1, RememberedInOrder DEF RanInOrder, Method
<1> QED BY <1>2, <1>4, <1>5, <1>6

LEMMA TopNStep ==
  ASSUME IInv, NEW n \in TopN, NEW operation \in {"top", "explain"},
         TopNMostSurprising(n, operation)
  PROVE  IInv'
<1> USE DEF TopNMostSurprising, config, IInv
<1>1. PICK answer \in ClientAnswers :
        /\ \E top \in TopOf(CountIn(answer.rows), n) :
             records' = RecordsOf(CountIn(answer.rows), top)
        /\ answered' = answer.ok
        /\ ran' = Remembered("client", answer)
  OBVIOUS
<1>2. /\ records' \in Records /\ answered' \in BOOLEAN
      /\ ran' \in [Method -> Count \cup {None}]
      /\ RanInOrder' /\ ExplainInOrder'
  BY <1>1, TopStep
<1>3. TypeOK'
  BY <1>2 DEF TypeOK, Method
<1>4. MatchInOrder' /\ ExplanationAgrees' /\ MatchesAreWithinRun' /\ LimitIsRespected'
  BY DEF MatchInOrder, ExplanationAgrees, MatchesAreWithinRun, LimitIsRespected, Returned
<1>5. SurprisalsMatchSummary'
  BY DEF SurprisalsMatchSummary
<1> QED BY <1>2, <1>3, <1>4, <1>5

LEMMA ColumnsStep ==
  ASSUME IInv, NEW n \in TopN, NEW operation \in {"top", "explain"}, NEW vons \in NumVons,
         TopNWithColumns(n, operation, vons)
  PROVE  IInv'
<1> USE DEF config, IInv
<1>1. PICK answer \in ClientAnswers :
        /\ \/ /\ Throws(vons)
              /\ op' = "thrown" /\ pc' = "idle" /\ records' = None
           \/ /\ ~Throws(vons) \/ answer.rows = {}
              /\ op' = operation
              /\ pc' = IF operation = "explain" THEN "second" ELSE "idle"
              /\ \E top \in TopOf(CountIn(answer.rows), n) :
                   records' = RecordsOf(CountIn(answer.rows), top)
        /\ answered' = answer.ok
        /\ ran' = Remembered("client", answer)
  BY DEF TopNWithColumns
<1>2. /\ between' = 0 /\ summary' = None /\ surprisals' = None
      /\ UNCHANGED <<table, complete, method, limit, writes>>
  BY DEF TopNWithColumns
<1>3. UNCHANGED Current
  BY <1>2, CurrentStays
<1>4. /\ records' \in Records \cup {None} /\ answered' \in BOOLEAN
      /\ ran' \in [Method -> Count \cup {None}]
      /\ RanInOrder' /\ ExplainInOrder'
  <2>1. CASE op' = "thrown" /\ pc' = "idle" /\ records' = None
    <3>1. answer.ok \in BOOLEAN
      BY Answered
    <3>2. ran' \in [Method -> Count \cup {None}] /\ RanInOrder'
      BY <1>1, <1>3, RememberedInOrder DEF RanInOrder, Method
    <3> QED BY <1>1, <2>1, <3>1, <3>2 DEF ExplainInOrder
  <2>2. CASE \E top \in TopOf(CountIn(answer.rows), n) :
               records' = RecordsOf(CountIn(answer.rows), top)
    BY <1>1, <1>2, <2>2, TopStep
  <2> QED BY <1>1, <2>1, <2>2
<1>5. op' \in {"top", "explain", "thrown"} /\ (pc' = "idle" => op' # "explain")
      /\ pc' \in {"idle", "second"}
  BY <1>1
<1>6. TypeOK'
  BY <1>2, <1>4, <1>5 DEF TypeOK, Method
<1>7. MatchInOrder' /\ ExplanationAgrees' /\ MatchesAreWithinRun' /\ LimitIsRespected'
  BY <1>2, <1>5
     DEF MatchInOrder, ExplanationAgrees, MatchesAreWithinRun, LimitIsRespected, Returned
<1>8. SurprisalsMatchSummary'
  BY <1>5 DEF SurprisalsMatchSummary
<1> QED BY <1>4, <1>6, <1>7, <1>8

LEMMA ExplainStep == IInv /\ ExplainSummary => IInv'
<1> SUFFICES ASSUME IInv, ExplainSummary PROVE IInv'
  OBVIOUS
<1> USE DEF ExplainSummary, config, IInv
<1>1. PICK answer \in ClientAnswers \cup ServerAnswers :
        /\ RunsTo(method, summary', answer)
        /\ answered' = (answered /\ answer.ok)
        /\ ran' = Remembered(method, answer)
  OBVIOUS
<1>2. /\ summary' \in Summary /\ answer.ok \in BOOLEAN
      /\ ran' \in [Method -> Count \cup {None}]
      /\ answer.ok /\ limit = -1 => summary'.count = Current
      /\ RanInOrder' /\ LimitIsRespected'
  <2>1. method \in Method
    BY DEF TypeOK, Method
  <2> QED BY <1>1, <2>1, Runs, RunStep
<1>3. TypeOK'
  BY <1>1, <1>2 DEF TypeOK, Method
<1>4. ExplanationAgrees'
  <2> SUFFICES ASSUME answered', limit = -1 PROVE RecordsOfNearly(summary'.count)
    BY DEF ExplanationAgrees, Returned, RecordsOfNearly
  <2>1. summary'.count = Current /\ answered
    BY <1>1, <1>2 DEF TypeOK
  <2> QED BY <2>1 DEF ExplainInOrder, Sound
<1>5. ExplainInOrder' /\ MatchInOrder' /\ MatchesAreWithinRun'
  BY DEF ExplainInOrder, MatchInOrder, MatchesAreWithinRun
<1>6. SurprisalsMatchSummary'
  BY DEF SurprisalsMatchSummary
<1> QED BY <1>2, <1>3, <1>4, <1>5, <1>6

LEMMA RowsMatchingStep == IInv /\ RowsMatchingCondition => IInv'
<1> SUFFICES ASSUME IInv, RowsMatchingCondition PROVE IInv'
  OBVIOUS
<1> USE DEF RowsMatchingCondition, config, IInv
<1>1. PICK answer \in ServerAnswers :
        /\ summary' = ServerSummary(answer)
        /\ answered' = answer.ok
        /\ ran' = Remembered("server", answer)
  OBVIOUS
<1>2. /\ summary' \in Summary /\ answer.ok \in BOOLEAN
      /\ ran' \in [Method -> Count \cup {None}]
      /\ answer.ok /\ limit = -1 => summary'.count = Current
      /\ RanInOrder' /\ LimitIsRespected'
  <2>1. "server" \in Method
    BY DEF Method
  <2> QED BY <1>1, <2>1, RunStep
<1>3. TypeOK'
  BY <1>1, <1>2 DEF TypeOK, Method
<1>4. MatchInOrder'
  <2>1. UNCHANGED Current
    BY CurrentStays
  <2> QED BY <1>1, <1>2, <2>1, CurrentCounts DEF MatchInOrder, Sound
<1>5. ExplainInOrder' /\ ExplanationAgrees' /\ MatchesAreWithinRun'
  BY DEF ExplainInOrder, ExplanationAgrees, MatchesAreWithinRun, Returned
<1>6. SurprisalsMatchSummary'
  BY DEF SurprisalsMatchSummary
<1> QED BY <1>2, <1>3, <1>4, <1>5, <1>6

LEMMA MatchingRecordsStep == IInv /\ MatchingRecords => IInv'
<1> SUFFICES ASSUME IInv, MatchingRecords PROVE IInv'
  OBVIOUS
<1> USE DEF MatchingRecords, config, IInv
<1>1. PICK answer \in MatchAnswers :
        /\ records' = RecordsOf(CountIn(answer.rows), Alphabet(CountIn(answer.rows)))
        /\ answered' = (answered /\ answer.ok)
  OBVIOUS
<1>2. UNCHANGED Current
  BY CurrentStays
<1> HIDE DEF CountIn
<1>3. /\ CountIn(answer.rows) \in Count /\ answer.ok \in BOOLEAN
      /\ \A l \in Letter : /\ CountIn(answer.rows)[l] \in Nat
                          /\ CountIn(answer.rows)[l] <= Current[l]
  BY Matched
<1>4. /\ records' \in Records
      /\ \A l \in DOMAIN records' : /\ l \in Letter /\ CountIn(answer.rows)[l] > 0
                                  /\ records'[l] = CountIn(answer.rows)[l]
  <2>1. Alphabet(CountIn(answer.rows)) \in SUBSET Letter
    BY DEF Alphabet
  <2>2. /\ records' \in Records /\ DOMAIN records' = Alphabet(CountIn(answer.rows))
    BY <1>1, <1>3, <2>1, RecordsType
  <2> QED BY <1>1, <2>1, <2>2 DEF Alphabet, RecordsOf
<1>5. TypeOK'
  BY <1>1, <1>3, <1>4 DEF TypeOK
<1>6. MatchesAreWithinRun'
  <2> SUFFICES ASSUME answered', limit = -1, NEW l \in DOMAIN records'
               PROVE  records'[l] \in 1..summary.count[l] + between
    BY DEF MatchesAreWithinRun, Returned
  <2>1. Current[l] <= summary.count[l] + between
    BY <1>1, <1>4 DEF MatchInOrder, Sound, TypeOK
  <2>2. Current[l] \in Int /\ between \in Int
    BY <1>4, CurrentCounts, ConstantsAssumption DEF TypeOK
  <2>3. summary.count[l] \in Int
    <3>1. summary \in Summary /\ Cardinality(Row) \in Nat
      BY ConstantsAssumption, FS_CardinalityType DEF MatchInOrder
    <3> QED BY <1>4, <3>1 DEF Summary, Count
  <2> QED BY <1>3, <1>4, <2>1, <2>2, <2>3
<1>7. RanInOrder' /\ LimitIsRespected'
  BY <1>2 DEF RanInOrder, LimitIsRespected
<1>8. ExplainInOrder' /\ MatchInOrder' /\ ExplanationAgrees'
  BY DEF ExplainInOrder, MatchInOrder, ExplanationAgrees
<1>9. SurprisalsMatchSummary'
  BY DEF SurprisalsMatchSummary
<1> QED BY <1>5, <1>6, <1>7, <1>8, <1>9

LEMMA WriteStep ==
  ASSUME IInv, NEW r \in Row, NEW cell \in Cell \cup {Gone}, Write(r, cell)
  PROVE  IInv'
<1>1. /\ between \in Int
      /\ \A l \in Letter : /\ Current[l] \in Nat /\ Current'[l] \in Nat
                          /\ Current'[l] <= Current[l] + 1 /\ Current[l] <= Current'[l] + 1
  <2>1. between \in Int
    BY ConstantsAssumption DEF TypeOK, IInv
  <2> QED BY <2>1, WriteShifts
<1> USE DEF Write, config, IInv
<1>2. TypeOK'
  BY ConstantsAssumption DEF TypeOK
<1>3. RanInOrder'
  BY DEF RanInOrder, Method
<1>4. ExplainInOrder'
  <2> SUFFICES ASSUME pc = "second", op = "explain"
               PROVE  records \in Records /\ (Sound => RecordsOfNearly(Current)')
    BY DEF ExplainInOrder, Sound
  <2>1. records \in Records /\ (Sound => RecordsOfNearly(Current))
    BY DEF ExplainInOrder
  <2>2. DOMAIN records \in SUBSET Letter /\ \A l \in DOMAIN records : records[l] \in Int
    <3>1. Cardinality(Row) \in Nat
      BY ConstantsAssumption, FS_CardinalityType
    <3> QED BY <2>1, <3>1 DEF Records
  <2>3. records' = records /\ between' = between + 1
    OBVIOUS
  <2> HIDE DEF Write
  <2> QED BY <1>1, <2>1, <2>2, <2>3 DEF RecordsOfNearly
<1>5. MatchInOrder'
  <2> SUFFICES ASSUME pc = "second", op = "match"
               PROVE  /\ summary \in Summary
                      /\ Sound => \A l \in Letter : Current'[l] <= summary.count[l] + between'
    BY DEF MatchInOrder, Sound
  <2>1. /\ summary \in Summary
        /\ Sound => \A l \in Letter : Current[l] <= summary.count[l] + between
    BY DEF MatchInOrder
  <2>2. \A l \in Letter : summary.count[l] \in Int
    <3>1. Cardinality(Row) \in Nat
      BY ConstantsAssumption, FS_CardinalityType
    <3> QED BY <2>1, <3>1 DEF Summary, Count
  <2>3. between' = between + 1
    OBVIOUS
  <2> HIDE DEF Write
  <2> QED BY <1>1, <2>1, <2>2, <2>3
<1>6. ExplanationAgrees' /\ MatchesAreWithinRun' /\ LimitIsRespected'
  BY DEF ExplanationAgrees, MatchesAreWithinRun, LimitIsRespected, Returned, RecordsOfNearly
<1>7. SurprisalsMatchSummary'
  BY DEF SurprisalsMatchSummary
<1> QED BY <1>2, <1>3, <1>4, <1>5, <1>6, <1>7

LEMMA StutterStep == IInv /\ UNCHANGED vars => IInv'
<1> SUFFICES ASSUME IInv, UNCHANGED vars PROVE IInv'
  OBVIOUS
<1> USE DEF vars, config, IInv
<1>1. UNCHANGED Current
  BY CurrentStays
<1>2. TypeOK'
  BY DEF TypeOK
<1>3. RanInOrder' /\ ExplainInOrder' /\ MatchInOrder'
  BY <1>1 DEF RanInOrder, ExplainInOrder, MatchInOrder, Sound, RecordsOfNearly
<1>4. ExplanationAgrees' /\ MatchesAreWithinRun' /\ LimitIsRespected'
  BY DEF ExplanationAgrees, MatchesAreWithinRun, LimitIsRespected, Returned, RecordsOfNearly
<1>5. SurprisalsMatchSummary'
  BY DEF SurprisalsMatchSummary
<1> QED BY <1>2, <1>3, <1>4, <1>5

-----------------------------------------------------------------------------
(* The theorems. *)

\* Whatever the table, the calls and the writes between their statements, the
\* inductive invariant holds.
THEOREM Invariance == Spec => []IInv
<1>1. Init => IInv
  BY Initially
<1>2. IInv /\ [Next]_vars => IInv'
  <2> SUFFICES ASSUME IInv, [Next]_vars PROVE IInv'
    OBVIOUS
  <2>1. CASE Configure
    BY <2>1, ConfigureStep
  <2>2. CASE \E operation \in {"run", "surprisals", "top", "explain", "match"} : Refused(operation)
    BY <2>2, RefusedStep
  <2>3. CASE Execute
    BY <2>3, ExecuteStep
  <2>4. CASE SummaryAndSurprisals
    BY <2>4, SurprisalsStep
  <2>5. CASE \E n \in TopN, operation \in {"top", "explain"} : TopNMostSurprising(n, operation)
    BY <2>5, TopNStep
  <2>6. CASE \E n \in TopN, operation \in {"top", "explain"}, vons \in NumVons :
               TopNWithColumns(n, operation, vons)
    BY <2>6, ColumnsStep
  <2>7. CASE ExplainSummary
    BY <2>7, ExplainStep
  <2>8. CASE RowsMatchingCondition
    BY <2>8, RowsMatchingStep
  <2>9. CASE MatchingRecords
    BY <2>9, MatchingRecordsStep
  <2>10. CASE \E r \in Row, cell \in Cell \cup {Gone} : Write(r, cell)
    BY <2>10, WriteStep
  <2>11. CASE UNCHANGED vars
    BY <2>11, StutterStep
  <2> QED
    BY <2>1, <2>2, <2>3, <2>4, <2>5, <2>6, <2>7, <2>8, <2>9, <2>10, <2>11 DEF Next
<1> QED BY <1>1, <1>2, PTL DEF Spec

\* Every variable of an evaluation has its type (qcat.cpp, summaries and records).
THEOREM TypeCorrect == Spec => []TypeOK
<1>1. IInv => TypeOK
  BY DEF IInv
<1> QED BY <1>1, Invariance, PTL

\* fem_client and fem_server come to one result, if neither has a LIMIT and
\* nobody writes between the two runs.
THEOREM MethodsDoAgree == Spec => []MethodsAgree
<1>1. IInv => MethodsAgree
  BY DEF IInv, RanInOrder, MethodsAgree, Method
<1> QED BY <1>1, Invariance, PTL

\* An explanation is one of its own summary but for the writes between the two
\* statements of explain: without any, the two are about the same rows.
THEOREM ExplanationsAgree == Spec => []ExplanationAgrees
<1>1. IInv => ExplanationAgrees
  BY DEF IInv
<1> QED BY <1>1, Invariance, PTL

\* rowsMatchingCondition without LIMIT never counts more occurrences of a letter than
\* the server did, but for the writes between its two statements: without any, the
\* probabilities it takes are never above 1.
THEOREM MatchesWithinRun == Spec => []MatchesAreWithinRun
<1>1. IInv => MatchesAreWithinRun
  BY DEF IInv
<1> QED BY <1>1, Invariance, PTL

\* No summary, by the client or by the server, is of more rows than LIMIT.
THEOREM LimitsAreRespected == Spec => []LimitIsRespected
<1>1. IInv => LimitIsRespected
  BY DEF IInv
<1> QED BY <1>1, Invariance, PTL

\* The surprisals of summaryAndSurprisals are those the entropy of its summary is
\* made of: as many rows have one as there are occurrences of letters with it.
THEOREM SurprisalsMatch == Spec => []SurprisalsMatchSummary
<1>1. IInv => SurprisalsMatchSummary
  BY DEF IInv
<1> QED BY <1>1, Invariance, PTL

=============================================================================
