----------------------------- MODULE Evaluation -----------------------------
(***************************************************************************)
(* Evaluating a QCAT (src/src/qcat.cpp): the operations that send its      *)
(* statement to the database and work out letters, counts and surprise.    *)
(*                                                                         *)
(* Others write to the table meanwhile.  A statement sees one state of the *)
(* table; explain and rowsMatchingCondition send two statements and put    *)
(* the answers together.  A letter stands for a combination of binned VON  *)
(* values, and every probability, surprise and entropy is given by the     *)
(* counts it is computed from: fewer occurrences, more surprise.           *)
(***************************************************************************)
EXTENDS Integers, Sequences, FiniteSets

CONSTANTS
  Row,        \* the ids a row of the table can have
  Letter,     \* the letters of the alphabet Z
  Limits,     \* the limits a caller sets; -1 is no limit
  TopN,       \* how many records a caller asks to have explained
  NumFields,  \* the fields of the table
  NumVons,    \* how many VONs a QCAT may have
  MaxWrites,  \* bound on the writes of others
  Gone,       \* no row with that id
  None        \* no value

ASSUME ConstantsAssumption ==
  /\ IsFiniteSet(Row)
  /\ IsFiniteSet(Letter)
  /\ Limits \subseteq Int
  /\ TopN \subseteq Nat
  /\ NumFields \in Nat
  /\ NumVons \subseteq 0..NumFields  \* a map: each field once
  /\ MaxWrites \in Nat

\* A row: its letter, and whether it meets the conditionals of the QCAT, and the
\* condition of rowsMatchingCondition too.
Cell == [letter : Letter, meets : {"nothing", "conditionals", "condition"}]

Count == [Letter -> 0..Cardinality(Row)]

\* QCATSummary: entropy, mean surprise and uncertainty are functions of count;
\* length is record_length, the alphabet is the letters with a count.
Summary == [success : BOOLEAN, length : 0..Cardinality(Row), count : Count]

\* Records (one for each of some letters, with its count) and surprisals (one
\* for each of some rows, given by the count of its letter).
Records == UNION {[S -> 0..Cardinality(Row)] : S \in SUBSET Letter}
Surprisals == UNION {[S -> 0..Cardinality(Row)] : S \in SUBSET Row}

ASSUME NoneAssumption ==
  /\ Gone \notin Cell
  /\ None \notin Count \cup Summary \cup Records \cup Surprisals

VARIABLES
  table,      \* id -> row
  complete,   \* isComplete() of the QCAT
  method,     \* m_executionMethod
  limit,      \* m_limit
  op,         \* the operation called last, "none" at first
  pc,         \* "idle", or "second" before the second statement of op
  summary,    \* what op returned or holds so far
  records,
  surprisals,
  \* History variables.
  writes,     \* writes of others so far
  between,    \* writes between the statements of op
  answered,   \* no statement of op failed
  ran         \* method -> counts of the last unlimited run, if no write since

config == <<complete, method, limit>>
vars == <<table, complete, method, limit, op, pc, summary, records, surprisals,
          writes, between, answered, ran>>

-----------------------------------------------------------------------------
(* Statements and their answers. *)

Present == {r \in Row : table[r] # Gone}
Selected == {r \in Present : table[r].meets # "nothing"}

\* Faulty variant of LimitedTo: one row more.
LimitedToOneMore(S) ==
  IF limit = -1 THEN {S}
  ELSE {T \in SUBSET S : Cardinality(T) = limit + 1 \/ (T = S /\ Cardinality(S) <= limit)}

\* No statement has an ORDER BY: LIMIT keeps any rows of S.
LimitedTo(S) ==
  IF limit = -1 THEN {S}
  ELSE {T \in SUBSET S : Cardinality(T) = limit \/ (T = S /\ Cardinality(S) <= limit)}

\* A statement with a negative LIMIT is refused; any statement can fail.  A
\* failed statement answers with no rows.
Failed == [ok |-> FALSE, rows |-> {}]
AnswersOver(rowSets) ==
  {Failed} \cup (IF limit >= -1 THEN {[ok |-> TRUE, rows |-> R] : R \in rowSets} ELSE {})

\* sql(): the LIMIT comes after the WHERE.
ClientAnswers == AnswersOver(LimitedTo(Selected))

\* Faulty variant of ServerAnswers: the conditionals are not handed over.
ServerAnswersUnconditioned ==
  AnswersOver(LimitedTo(Present))

\* The stored procedure is given the first rows of the table, by
\* sqlServerTableName, and the conditionals.
ServerAnswers == AnswersOver({T \cap Selected : T \in LimitedTo(Present)})

\* Faulty variant of MatchAnswers: sql() without its WHERE.
MatchAnswersAnyRow == AnswersOver(LimitedTo(Present))

\* The condition is applied to the rows the statement of the QCAT yields.
MatchAnswers ==
  AnswersOver({{r \in T : table[r].meets = "condition"} : T \in LimitedTo(Selected)})

\* Faulty variant of CountIn: a letter starts at 1.
CountInFromOne(rows) ==
  [l \in Letter |-> 1 + Cardinality({r \in rows : table[r].letter = l})]

\* Z: how often each letter occurs.
CountIn(rows) ==
  [l \in Letter |-> Cardinality({r \in rows : table[r].letter = l})]

Alphabet(count) == {l \in Letter : count[l] > 0}

-----------------------------------------------------------------------------
(* What the operations make of an answer. *)

Zero == [l \in Letter |-> 0]
FailureSummary == [success |-> FALSE, length |-> 0, count |-> Zero]

\* clientRun (and the summary of summaryAndSurprisals) does not ask whether the
\* statement succeeded.
ClientSummary(answer) ==
  [success |-> TRUE, length |-> Cardinality(answer.rows), count |-> CountIn(answer.rows)]

ServerSummary(answer) ==
  IF answer.ok
  THEN [success |-> TRUE, length |-> Cardinality(answer.rows), count |-> CountIn(answer.rows)]
  ELSE FailureSummary

\* Faulty variant of SurprisalsOf: the surprise is stored in a copy of Z's item.
SurprisalsOfCopies(rows) == [r \in rows |-> 0]
SurprisalsOf(rows) == [r \in rows |-> CountIn(rows)[table[r].letter]]

\* Faulty variant of TopOf: the sorted results are taken from the front.
TopOfFront(count, n) ==
  {top \in SUBSET Alphabet(count) :
     /\ Cardinality(top) = n \/ (top = Alphabet(count) /\ Cardinality(top) <= n)
     /\ \A l \in top, k \in Alphabet(count) \ top : count[l] >= count[k]}

\* topNMostSurprising: the n letters that occur least, with ties as they come.
TopOf(count, n) ==
  {top \in SUBSET Alphabet(count) :
     /\ Cardinality(top) = n \/ (top = Alphabet(count) /\ Cardinality(top) <= n)
     /\ \A l \in top, k \in Alphabet(count) \ top : count[l] <= count[k]}

RecordsOf(count, letters) == [l \in letters |-> count[l]]

\* Of id, the VONs and hash, column j is read with the type of field j; there may be
\* none.
Throws(vons) == vons + 2 > NumFields

\* A run by method m without LIMIT that was answered is remembered.
Remembered(m, answer) ==
  IF limit = -1 /\ answer.ok THEN [ran EXCEPT ![m] = CountIn(answer.rows)] ELSE ran

-----------------------------------------------------------------------------
(* Operations. *)

\* The caller edits the QCAT or sets its method or limit; what it was returned
\* before does not matter any more.
Configure ==
  /\ pc = "idle"
  /\ complete' \in BOOLEAN /\ method' \in {"client", "server"} /\ limit' \in Limits
  /\ op' = "none"
  /\ summary' = None /\ records' = None /\ surprisals' = None
  /\ between' = 0 /\ answered' = TRUE
  /\ UNCHANGED <<table, pc, writes, ran>>

\* Every operation returns at once from a QCAT that is not complete.
Refused(operation) ==
  /\ pc = "idle" /\ ~complete
  /\ op' = operation
  /\ summary' = IF operation = "top" THEN None ELSE FailureSummary
  /\ records' = IF operation \in {"top", "explain", "match"} THEN [l \in {} |-> 0] ELSE None
  /\ surprisals' = IF operation = "surprisals" THEN [r \in {} |-> 0] ELSE None
  /\ between' = 0 /\ answered' = FALSE
  /\ UNCHANGED <<table, config, pc, writes, ran>>

\* run(): clientRun or serverRun.
RunsTo(m, s, answer) ==
  IF m = "client" THEN /\ answer \in ClientAnswers
                       /\ s = ClientSummary(answer)
                  ELSE /\ answer \in ServerAnswers
                       /\ s = ServerSummary(answer)

Execute ==
  /\ pc = "idle" /\ complete
  /\ \E answer \in ClientAnswers \cup ServerAnswers :
       /\ RunsTo(method, summary', answer)
       /\ answered' = answer.ok
       /\ ran' = Remembered(method, answer)
  /\ op' = "run" /\ between' = 0
  /\ records' = None /\ surprisals' = None
  /\ UNCHANGED <<table, config, pc, writes>>

SummaryAndSurprisals ==
  /\ pc = "idle" /\ complete
  /\ \E answer \in ClientAnswers :
       /\ summary' = ClientSummary(answer)
       /\ surprisals' = SurprisalsOf(answer.rows)
       /\ answered' = answer.ok
       /\ ran' = Remembered("client", answer)
  /\ op' = "surprisals" /\ between' = 0
  /\ records' = None
  /\ UNCHANGED <<table, config, pc, writes>>

\* topNMostSurprising, by itself or as the first statement of explain, without the
\* columns;
TopNMostSurprising(n, operation) ==
  /\ pc = "idle" /\ complete
  /\ \E answer \in ClientAnswers :
       /\ \E top \in TopOf(CountIn(answer.rows), n) :
            records' = RecordsOf(CountIn(answer.rows), top)
       /\ answered' = answer.ok
       /\ ran' = Remembered("client", answer)
  /\ op' = operation
  /\ pc' = IF operation = "explain" THEN "second" ELSE "idle"
  /\ between' = 0
  /\ summary' = None /\ surprisals' = None
  /\ UNCHANGED <<table, config, writes>>

\* and with them: every letter's last row is read, before any letter is left out.
TopNWithColumns(n, operation, vons) ==
  /\ pc = "idle" /\ complete
  /\ \E answer \in ClientAnswers :
       /\ \/ /\ Throws(vons) /\ answer.rows # {}
             /\ op' = "thrown" /\ pc' = "idle"
             /\ records' = None
          \/ /\ ~Throws(vons) \/ answer.rows = {}
             /\ op' = operation
             /\ pc' = IF operation = "explain" THEN "second" ELSE "idle"
             /\ \E top \in TopOf(CountIn(answer.rows), n) :
                  records' = RecordsOf(CountIn(answer.rows), top)
       /\ answered' = answer.ok
       /\ ran' = Remembered("client", answer)
  /\ between' = 0
  /\ summary' = None /\ surprisals' = None
  /\ UNCHANGED <<table, config, writes>>

\* explain ends with the summary of a run of its own.
ExplainSummary ==
  /\ pc = "second" /\ op = "explain"
  /\ \E answer \in ClientAnswers \cup ServerAnswers :
       /\ RunsTo(method, summary', answer)
       /\ answered' = (answered /\ answer.ok)
       /\ ran' = Remembered(method, answer)
  /\ pc' = "idle"
  /\ UNCHANGED <<table, config, op, records, surprisals, writes, between>>

\* rowsMatchingCondition begins with a server run, whatever the method,
RowsMatchingCondition ==
  /\ pc = "idle" /\ complete
  /\ \E answer \in ServerAnswers :
       /\ summary' = ServerSummary(answer)
       /\ answered' = answer.ok
       /\ ran' = Remembered("server", answer)
  /\ op' = "match" /\ pc' = "second" /\ between' = 0
  /\ records' = None /\ surprisals' = None
  /\ UNCHANGED <<table, config, writes>>

\* and goes on, whether or not that succeeded, to count the matching rows; the
\* surprise of a letter is that of records[l] out of summary.length.
MatchingRecords ==
  /\ pc = "second" /\ op = "match"
  /\ \E answer \in MatchAnswers :
       /\ records' = RecordsOf(CountIn(answer.rows), Alphabet(CountIn(answer.rows)))
       /\ answered' = (answered /\ answer.ok)
  /\ pc' = "idle"
  /\ UNCHANGED <<table, config, op, summary, surprisals, writes, between, ran>>

\* Someone else inserts, updates or deletes a row.
Write(r, cell) ==
  /\ writes < MaxWrites
  /\ table[r] # cell
  /\ table' = [table EXCEPT ![r] = cell]
  /\ writes' = writes + 1
  /\ between' = IF pc = "second" THEN between + 1 ELSE between
  /\ ran' = [m \in {"client", "server"} |-> None]
  /\ UNCHANGED <<config, op, pc, summary, records, surprisals, answered>>

Init ==
  /\ table \in [Row -> Cell \cup {Gone}]
  /\ complete \in BOOLEAN
  /\ method = "client"
  /\ limit = -1
  /\ op = "none" /\ pc = "idle"
  /\ summary = None /\ records = None /\ surprisals = None
  /\ writes = 0
  /\ between = 0 /\ answered = TRUE
  /\ ran = [m \in {"client", "server"} |-> None]

Next ==
  \/ Configure
  \/ \E operation \in {"run", "surprisals", "top", "explain", "match"} : Refused(operation)
  \/ Execute
  \/ SummaryAndSurprisals
  \/ \E n \in TopN, operation \in {"top", "explain"} :
       \/ TopNMostSurprising(n, operation)
       \/ \E vons \in NumVons : TopNWithColumns(n, operation, vons)
  \/ ExplainSummary
  \/ RowsMatchingCondition
  \/ MatchingRecords
  \/ \E r \in Row, cell \in Cell \cup {Gone} : Write(r, cell)

Spec == Init /\ [][Next]_vars

-----------------------------------------------------------------------------
(* Properties. *)

TypeOK ==
  /\ table \in [Row -> Cell \cup {Gone}]
  /\ complete \in BOOLEAN
  /\ method \in {"client", "server"}
  /\ limit \in Limits \cup {-1}
  /\ op \in {"none", "run", "surprisals", "top", "explain", "match", "thrown"}
  /\ pc \in {"idle", "second"}
  /\ summary \in Summary \cup {None}
  /\ records \in Records \cup {None}
  /\ surprisals \in Surprisals \cup {None}
  /\ writes \in 0..MaxWrites
  /\ between \in 0..writes
  /\ answered \in BOOLEAN
  /\ ran \in [{"client", "server"} -> Count \cup {None}]

\* The statements of op were answered, without LIMIT.
Returned == op \notin {"none", "thrown"} /\ pc = "idle" /\ answered /\ limit = -1

\* Records that are those of count but for the writes between: the counts of the records,
\* and no letter that was left out more surprising than one that was returned.  One write
\* may take a row from a letter and give it to another.
RecordsOfNearly(count) ==
  /\ \A l \in DOMAIN records : count[l] \in records[l] - between .. records[l] + between
  /\ \A l \in DOMAIN records, k \in Letter \ DOMAIN records :
       count[k] > between => count[l] <= count[k] + 2 * between

\* The records of an explanation and its summary are of two states of the table: they
\* agree but for the writes between the two statements, and fully if there was none.
ExplanationAgrees == op = "explain" /\ Returned => RecordsOfNearly(summary.count)

\* rowsMatchingCondition takes probabilities: each letter occurs at least once, and no
\* more often than in the server's run but for the writes since.
MatchesAreWithinRun ==
  op = "match" /\ Returned =>
    \A l \in DOMAIN records : records[l] \in 1..summary.count[l] + between

\* The surprisals are the surprises the summary was computed from: as many rows
\* have the surprise of a count as there are occurrences of letters with it.
SurprisalsMatchSummary ==
  op = "surprisals" =>
    \A c \in 0..Cardinality(Row) :
      Cardinality({r \in DOMAIN surprisals : surprisals[r] = c})
        = c * Cardinality({l \in Letter : summary.count[l] = c})

\* Client and server compute the same, from one state of the table and without
\* LIMIT: fem_client and fem_server are two ways to one result.
MethodsAgree ==
  ran["client"] # None /\ ran["server"] # None => ran["client"] = ran["server"]

\* LIMIT bounds the rows any summary is made of, whoever evaluates.
LimitIsRespected ==
  summary # None /\ limit # -1 => summary.length = 0 \/ summary.length <= limit

-----------------------------------------------------------------------------
(* What a comment claims and the code does not do. *)

\* qcat.cpp:510: rowsMatchingCondition works out a PMF of the letters based on
\* the full run.  No probability is more than 1, then, if both statements are
\* answered and nobody writes.
MatchesArePMF ==
  op = "match" /\ pc = "idle" /\ answered /\ between = 0 =>
    \A l \in DOMAIN records : records[l] <= summary.length

=============================================================================
