------------------------------- MODULE NGram --------------------------------
(***************************************************************************)
(* N-grams (src/src/qcatngram.cpp): for each value of an independent       *)
(* variable, an instant, the list of the bins of a dependent variable; a   *)
(* letter is what the list looks like.                                     *)
(*                                                                         *)
(* The table holds the rows that meet the conditionals of the n-gram's     *)
(* QCAT; a row has an instant, a thing (the hash of its VONs) and the value *)
(* of the dependent column.  Others write to it between the statement that *)
(* discovers the width of a bin and the one that selects the rows.         *)
(***************************************************************************)
EXTENDS Binning, SequencesExt

CONSTANTS
  Row,         \* the ids a row can have
  Time,        \* values of the independent column
  Thing,       \* hashes, by their order
  Value,       \* values of the dependent column
  Dependents,  \* columns a caller takes for the dependent variable,
  Independents, \* and for the independent one
  KindOf,      \* the kind of each
  AsNumber,    \* the number atoi and atof read in a text
  LetterTypes, \* the letter types,
  QCATs,       \* QCATs
  Ns,          \* and numbers of bins a caller sets
  MaxWrites,   \* bound on the writes of others
  Gone,        \* no row with that id
  None         \* nothing was set, or no result

ASSUME NGramAssumption ==
  /\ IsFiniteSet(Row)
  \* Texts are numbered in the order PostgreSQL has them in.
  /\ Time \subseteq Int /\ Thing \subseteq Int /\ Value \subseteq Int
  /\ AsNumber \in [Time \cup Value -> Int]
  /\ KindOf \in [Dependents \cup Independents -> Kind]
  /\ None \notin Dependents \cup Independents
  /\ LetterTypes \subseteq {"absolute", "relative", "delta", "direction"}
  \* With VONs and a sound condition, without VONs, with a condition no statement
  \* can have, or with a VON that is no field.
  /\ QCATs \subseteq {"sound", "noVons", "badCondition", "unknownVON"}
  /\ Ns \subseteq Nat /\ MaxWrites \in Nat

Cell == [time : Time, thing : Thing, value : Value]

VARIABLES
  table,       \* id -> row
  dep,         \* the column of m_dependent
  indep,       \* the column of m_independent
  n,           \* m_N
  width,       \* m_binWidth, the width of the dependent's bin
  letterType,  \* m_letterType
  qcat,        \* m_qcat
  pc,          \* "idle", "select" between the statements of executeNGram, "dead"
  result,      \* of the last executeNGram, if nothing was set since
  \* History variables.
  writes,      \* writes of others so far
  quiet,       \* none between the statements of the last executeNGram
  lost         \* a statement failed that need not have

config == <<dep, indep, n, width, letterType, qcat>>
vars == <<table, config, pc, result, writes, quiet, lost>>

-----------------------------------------------------------------------------
(* discoverBinWidth and initialiseBins. *)

Present == {r \in Row : table[r] # Gone}

\* getInt and getDouble: of a text the number its first characters spell, whose order
\* is not that of the texts; of a date the year, the same for all rows of the model.
Reading(column, v) ==
  CASE KindOf[column] \in NumericKinds -> v
    [] KindOf[column] = "string" -> AsNumber[v]
    [] OTHER -> 0

\* Faulty variant of Discovered: the ends are swapped.
DiscoveredSwapped(column, N) ==
  LET values == {table[r].value : r \in Present}
  IN  [num |-> IF values = {} THEN 0
               ELSE Reading(column, Min(values)) - Reading(column, Max(values)),
       den |-> N]

\* MIN and MAX of no rows are null, and read as 0.
Discovered(column, N) ==
  LET values == {table[r].value : r \in Present}
  IN  [num |-> IF values = {} THEN 0
               ELSE Reading(column, Max(values)) - Reading(column, Min(values)),
       den |-> N]

\* There is no MIN of booleans.
Discoverable(column) == KindOf[column] # "boolean" /\ qcat # "badCondition"

\* Faulty variant of Initialises: a width is discovered once.
InitialisesOnce(column, N, next) ==
  /\ width' = IF column = None \/ width # UnitWidth THEN width ELSE Discovered(column, N)
  /\ pc' = IF column = None \/ Discoverable(column) THEN next ELSE "dead"
  /\ UNCHANGED lost

\* Faulty variant of Initialises: without rows there is no answer to read.
InitialisesFromRows(column, N, next) ==
  /\ width' = IF column = None THEN width ELSE Discovered(column, N)
  /\ pc' = IF column = None \/ (Discoverable(column) /\ Present # {}) THEN next ELSE "dead"
  /\ UNCHANGED lost

\* The answer is read whether or not there is one: a statement that fails takes the
\* process along.
Initialises(column, N, next) ==
  \/ /\ column = None
     /\ pc' = next
     /\ UNCHANGED <<width, lost>>
  \/ /\ column # None /\ Discoverable(column)
     /\ width' = Discovered(column, N)
     /\ pc' = next
     /\ UNCHANGED lost
  \/ /\ column # None
     /\ pc' = "dead"
     /\ lost' = (lost \/ Discoverable(column))
     /\ UNCHANGED width

-----------------------------------------------------------------------------
(* The rows of sqlNGram and what is made of them. *)

BinOf(r) == AttrToBin(KindOf[dep], table[r].value, width)

\* Faulty variant of Before: ORDER BY hash.
BeforeByThing(r, s) == table[r].thing <= table[s].thing

\* ORDER BY the output column named as the dependent variable, its bin, then hash;
\* rows that have both in common come in any order.
Before(r, s) ==
  \/ BinOf(r) < BinOf(s)
  \/ BinOf(r) = BinOf(s) /\ table[r].thing <= table[s].thing

\* A width of 0 divides by zero, one that is not finite is printed as a name, and a
\* variable that is dependent and independent makes ORDER BY ambiguous, unless its
\* bin is the column itself.
StatementOK ==
  /\ qcat # "noVons"
  /\ dep = indep => KindOf[dep] \in PassthroughKinds
  /\ KindOf[dep] \notin PassthroughKinds =>
       /\ width.den # 0
       /\ \A r \in Present : Computable(KindOf[dep], table[r].value, width)

InstantOf(r) == Reading(indep, IF indep = dep THEN table[r].value ELSE table[r].time)
BinRead(r) ==
  IF KindOf[dep] \in PassthroughKinds THEN Reading(dep, table[r].value) ELSE BinOf(r)

ListAt(rows, t) ==
  LET ordered == InOrder({r \in rows : InstantOf(r) = t}, Before)
  IN  [i \in 1..Len(ordered) |-> BinRead(ordered[i])]

\* timeToDeps
Lists(rows) == [t \in {InstantOf(r) : r \in rows} |-> ListAt(rows, t)]

\* buildAbsoluteZ: the list itself.
AbsoluteLetter(list) == list

\* buildRelativeZ: the positions of the list in the order of their bins.  std::sort
\* leaves open which of two equal bins comes first.
RelativeLetters(list) ==
  {s \in SetToSeqs(1..Len(list)) : \A i, j \in DOMAIN s : i < j => list[s[i]] <= list[s[j]]}

\* buildDeltaZ: the list before that of t, at first its own.
Previous(lists, t) ==
  LET earlier == {u \in DOMAIN lists : u < t}
  IN  lists[IF earlier = {} THEN t ELSE Max(earlier)]

\* Some position is compared with what lies beyond the end of the list before.
ReadsBeyond(lists) == \E t \in DOMAIN lists : Len(Previous(lists, t)) < Len(lists[t])

Sign(x) == IF x > 0 THEN 1 ELSE IF x < 0 THEN -1 ELSE 0

\* A process that survives reading beyond the end has read anything.
DeltaLetters(lists, t) ==
  {letter \in [1..Len(lists[t]) -> {-1, 0, 1}] :
     \A i \in DOMAIN letter : i <= Len(Previous(lists, t)) =>
       letter[i] = Sign(lists[t][i] - Previous(lists, t)[i])}

\* letterFunc; buildDeltaZ does not use clamp, so delta and direction are one.
LettersOf(lists, t) ==
  CASE letterType = "absolute" -> {AbsoluteLetter(lists[t])}
    [] letterType = "relative" -> RelativeLetters(lists[t])
    [] OTHER -> DeltaLetters(lists, t)

\* Faulty variant of Total: instants are counted.
TotalInstants(rows) == Cardinality({InstantOf(r) : r \in rows})

\* totalRows: the probability of a letter is its instants out of these.
Total(rows) == Cardinality(rows)

-----------------------------------------------------------------------------
(* Operations. *)

Unset == result' = None /\ quiet' = TRUE

\* None stands for a name that is no field: its attribute has no field to ask.
SetDependentVariable(column) ==
  /\ pc = "idle"
  /\ dep' = column
  /\ Initialises(column, n, IF column = None THEN "dead" ELSE "idle")
  /\ Unset
  /\ UNCHANGED <<table, indep, n, letterType, qcat, writes>>

SetIndependentVariable(column) ==
  /\ pc = "idle"
  /\ indep' = column
  /\ Unset
  /\ UNCHANGED <<table, dep, n, width, letterType, qcat, pc, writes, lost>>

\* The width stays that of the rows of the QCAT before.
SetQCAT(q) ==
  /\ pc = "idle"
  /\ qcat' = q
  /\ Unset
  /\ UNCHANGED <<table, dep, indep, n, width, letterType, pc, writes, lost>>

SetN(N) ==
  /\ pc = "idle"
  /\ n' = N
  /\ Initialises(dep, N, "idle")
  /\ Unset
  /\ UNCHANGED <<table, dep, indep, letterType, qcat, writes>>

SetLetterType(type) ==
  /\ pc = "idle"
  /\ letterType' = type
  /\ Unset
  /\ UNCHANGED <<table, dep, indep, n, width, qcat, pc, writes, lost>>

\* executeNGram discovers the width anew and writes the statement, which takes
\* both variables and the bins of the VONs;
ExecuteNGram ==
  /\ pc = "idle"
  /\ Initialises(dep, n,
       IF None \in {dep, indep} \/ qcat = "unknownVON" THEN "dead" ELSE "select")
  /\ Unset
  /\ UNCHANGED <<table, dep, indep, n, letterType, qcat, writes>>

\* A delta begins at the end of the map when there are no rows, of a failed statement
\* or of none that meets the conditionals; it and a read beyond the end of a list can
\* end the process.
MayDie(lists) ==
  /\ letterType \in {"delta", "direction"}
  /\ DOMAIN lists = {} \/ ReadsBeyond(lists)

\* then selects the rows and makes letters of them.
SelectRows ==
  /\ pc = "select"
  /\ \E rows \in {{}} \cup (IF StatementOK THEN {Present} ELSE {}) :
       LET lists == Lists(rows)
           T == DOMAIN lists
       IN  /\ \/ /\ \E letters \in [T -> UNION {LettersOf(lists, t) : t \in T}] :
                      /\ \A t \in T : letters[t] \in LettersOf(lists, t)
                      /\ result' = [letters |-> letters, lists |-> lists, total |-> Total(rows)]
                 /\ pc' = "idle"
              \/ /\ MayDie(lists)
                 /\ pc' = "dead"
                 /\ UNCHANGED result
           /\ lost' = (lost \/ (StatementOK /\ rows # Present))
  /\ UNCHANGED <<table, config, writes, quiet>>

\* Someone else inserts, updates or deletes a row.
Write(r, cell) ==
  /\ writes < MaxWrites /\ pc # "dead"
  /\ table[r] # cell
  /\ table' = [table EXCEPT ![r] = cell]
  /\ writes' = writes + 1
  /\ quiet' = (quiet /\ pc = "idle")
  /\ UNCHANGED <<config, pc, result, lost>>

\* The constructor sets N and the letter type, and makes an empty QCAT.
Init ==
  /\ table \in [Row -> Cell \cup {Gone}]
  /\ dep = None /\ indep = None
  /\ n \in Ns
  /\ width = UnitWidth
  /\ letterType = "absolute"
  /\ qcat = "noVons"
  /\ pc = "idle"
  /\ result = None
  /\ writes = 0 /\ quiet = TRUE /\ lost = FALSE

Next ==
  \/ \E column \in Dependents \cup {None} : SetDependentVariable(column)
  \/ \E column \in Independents \cup {None} : SetIndependentVariable(column)
  \/ \E q \in QCATs : SetQCAT(q)
  \/ \E N \in Ns : SetN(N)
  \/ \E type \in LetterTypes : SetLetterType(type)
  \/ ExecuteNGram
  \/ SelectRows
  \/ \E r \in Row, cell \in Cell \cup {Gone} : Write(r, cell)

Spec == Init /\ [][Next]_vars

-----------------------------------------------------------------------------
(* Properties. *)

TypeOK ==
  /\ table \in [Row -> Cell \cup {Gone}]
  /\ dep \in Dependents \cup {None}
  /\ indep \in Independents \cup {None}
  /\ n \in Ns
  /\ width \in [num : Int, den : Nat]
  /\ dep # None /\ pc # "dead" => width.num >= 0 \/ KindOf[dep] = "string"
  /\ letterType \in LetterTypes \cup {"absolute"}
  /\ qcat \in QCATs \cup {"noVons"}
  /\ pc \in {"idle", "select", "dead"}
  /\ result # None =>
       /\ DOMAIN result.letters = DOMAIN result.lists
       /\ result.total \in 0..Cardinality(Row)
       /\ \A t \in DOMAIN result.lists :
            /\ result.lists[t] \in Seq(Int)
            /\ result.letters[t] \in Seq(Int)
            /\ Len(result.letters[t]) = Len(result.lists[t])
  /\ writes \in 0..MaxWrites
  /\ quiet \in BOOLEAN /\ lost \in BOOLEAN

\* The bins of an undisturbed execution number at most N + 1 where a quotient is cut
\* off, and N + 2 where it is rounded: whatever was set before and in which order,
\* and however the table changed, the width is that of the rows selected.
BinsWithinN ==
  result # None /\ quiet /\ KindOf[dep] \in NumericKinds =>
    Cardinality(UNION {ToSet(result.lists[t]) : t \in DOMAIN result.lists})
      <= n + (IF KindOf[dep] = "integer" /\ IsWhole(width) THEN 1 ELSE 2)

SameBins(s, t) ==
  \A b \in ToSet(s) \cup ToSet(t) :
    Cardinality({i \in DOMAIN s : s[i] = b}) = Cardinality({i \in DOMAIN t : t[i] = b})

\* A position in a list of bins is a rank, not a thing: the rows are ordered by bin.
\* So a relative letter exchanges rows of one bin at most, and where no two share one
\* it tells the length of the list and nothing else; lists of the same bins are the
\* same absolute letter whichever things had them; and a delta over as many rows as
\* before is zero exactly when the bins are the same.  Texts are ordered as texts and
\* read as numbers: of them nothing of the kind is true.
PositionsAreRanks ==
  result # None /\ KindOf[dep] # "string" =>
    \A t \in DOMAIN result.lists :
      LET list == result.lists[t]
          letter == result.letters[t]
          before == Previous(result.lists, t)
      IN  /\ \A i, j \in DOMAIN list : i < j => list[i] <= list[j]
          /\ letterType = "relative" => \A i \in DOMAIN list : list[letter[i]] = list[i]
          /\ letterType = "absolute" =>
               \A u \in DOMAIN result.lists :
                 letter = result.letters[u] <=> SameBins(list, result.lists[u])
          /\ letterType \in {"delta", "direction"} /\ Len(list) = Len(before) =>
               (ToSet(letter) \subseteq {0} <=> SameBins(list, before))

\* The probabilities of the letters add up to 1 exactly when every instant has one
\* row; otherwise to less, and the entropy is not one of a distribution.
ProbabilitiesAddUp ==
  result # None =>
    LET instants == Cardinality(DOMAIN result.letters)
    IN  /\ instants <= result.total
        /\ instants = result.total <=>
             \A t \in DOMAIN result.lists : Len(result.lists[t]) = 1

\* Two rows, the later of which is at an instant with more rows.
RowsAt(t) == Cardinality({r \in Present : InstantOf(r) = t})
Grows ==
  \E r, s \in Present :
    InstantOf(r) < InstantOf(s) /\ RowsAt(InstantOf(r)) < RowsAt(InstantOf(s))

\* An n-gram whose variables are set, whose QCAT is sound and whose statements are
\* answered dies of nothing but a delta: over no rows, or over instants that come to
\* have more rows than one before them.
OnlyMisuseKills ==
  pc = "dead" =>
    \/ lost
    \/ None \in {dep, indep} \/ KindOf[dep] = "boolean"
    \/ qcat \in {"badCondition", "unknownVON"}
    \/ letterType \in {"delta", "direction"} /\ (Present = {} \/ ~StatementOK \/ Grows)

\* Conditions and rows meet: see ConstantsMeetValues, for every width discovered.
ConstantsMeetRows == width.num > 0 /\ width.den > 0 => ConstantsMeetValues(Value, width)

\* Bins come back from their values: see BinsRoundTrip.
RoundTrip == width.num > 0 /\ width.den > 0 => BinsRoundTrip(-MaxInt..MaxInt, width)

\* The statistics of the bins are a histogram of whatever rows there are: see
\* SummariesAreHistogram.
RowsMakeHistogram ==
  pc = "idle" /\ width.num > 0 /\ width.den > 0 =>
    SummariesAreHistogram([r \in Present |-> table[r].value], width)

=============================================================================
