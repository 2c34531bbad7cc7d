# A verification of libqcat in TLA+

libqcat evaluates QCATs, information-theoretic anomaly detectors, against a
PostgreSQL table. A QCAT has *conditionals* (which rows to look at) and *VONs*
(variables of interest); every combination of binned VON values is a letter, and
a letter that is rare among the selected rows is surprising. The library builds
one SQL statement from the QCAT, sends it over libpq, and computes counts,
probabilities, surprise and entropy from the rows.

This directory holds TLA+ models of the library, the TLC configurations that
check them and proofs for TLAPS. Source references are to the repository's root:
`src/qcat.cpp` below is the file of that name in the `src/` directory.

## The system

| Component | State | Operations | Hard behaviour |
|---|---|---|---|
| QCAT and QCATSpec (`src/qcat.h`, `src/qcat.cpp`) | two sets of names; two maps from names to attributes and conditions; bin strategy, method, limit | edits of the specification, fixConditional, setBinStrategy, execute, toString | maps traversed while entries are erased; null bins from unknown names; strategies that throw half-way |
| Attribute, condition, strategy (`src/qcatattribute.cpp`, `src/qcatcondition.cpp`, `src/qcatbinstrategy.cpp`) | a field, a bin, a strategy; operator and constants | setBinStrategy, sql | exceptions after the state has changed |
| Evaluation (`src/qcat.cpp`) | none of its own: reads the QCAT and the table | clientRun, serverRun, summaryAndSurprisals, topNMostSurprising, explain, rowsMatchingCondition | two statements in one operation, others writing, statements that fail, LIMIT |
| Field statistics (`src/qcatfieldstats.cpp`) | rows of `<table>_stats`, shared by all clients of the database | construction: check, load, or compile, insert, update | clients interleaved statement by statement, crashes, failed statements |
| Data source (`src/qcatdatasource.cpp`) | connection, fields, one process-wide mutex | construction, executeSQL, totalRecords, unique, fieldForName | threads; calls that go round the mutex; lost connections |
| Field, field manager (`src/qcatfield.cpp`, `src/qcatfieldmanager.cpp`) | fields in table order and by name; cached statistics | scan, named, stats | a cache filled without a lock |
| Query result (`src/qcatpqresult.cpp`) | a PGresult | get, getInt, getDouble, getRecordValue | columns typed by the order of another table; texts read as numbers |
| Bins (`src/qcatbinnumeric.cpp`, `src/qcatbintimestamp.cpp`, `src/qcatbinpassthrough.cpp`) | a width | SQL from and to bins | three ways to round, widths of zero |
| N-grams (`src/qcatngram.cpp`) | two attributes, N, a width, letter type, a QCAT | setters, executeNGram | order of calls, writes between statements, empty maps, lists of unequal length |
| Bin statistics (`src/qcatbinstats.cpp`) | a list of bins | compile | intervals of values that were rounded |

A QCAT holds a shared pointer to its data source and asks it for fields by name;
attributes hold fields, which hold a plain pointer back to the data source.
Dividing bin strategies ask the field for its statistics, which read and write
the cache table through the data source. Evaluation is a sequence of calls of
executeSQL. There are no callbacks or messages: interaction is by calls, by the
mutex between threads, and by the tables of the database between processes.

## The modules

**QCATInstance** models the QCAT object as one thread uses it. `specVons` and
`specConds` are the sets of QCATSpec; `vons` and `conds` are `m_vons` and
`m_conditionals`, functions on the names with `Absent` for no entry. An
attribute is the strategy it stores and the width of its bin, or `NoBin` when
the name is no field of the table. All edits go through `EditSpec`, which ends
in `SyncWithSpec` as they do in the code. That function erases map entries while
it traverses the map, which is undefined: `Erased` lets any nonempty part of the
stale entries go, and a second disjunct of `EditSpec` lets the process die.
`SetBinStrategy` stops at the first attribute that throws or has a null bin, with
any part of the others already visited. Which statements the database can run is
abstracted to `StatementOK` (known operators, constants of the field's type, nonzero
widths of the conditions) and `RowsOK`: a VON of width 0 fails only where a row is
selected. Both overloads of fixConditional are one action, `FixConditional`: each takes
any operator, and a second constant, given or blank, is read only between.

**FieldStats** models the construction of a QCATFieldStats by several clients of
one database, a step for each statement. `pc` follows the constructor; `rows` has
the row each client inserted, so duplicates are visible; `version` counts writes
to the table the statistics are about, so torn compilations are too. Any
statement may fail, and a client may end between two (its process dies, or an
exception leaves the constructor).

**StatsCache** says what that table of duplicate, half-filled and overwritten
rows promises: *one* saved compilation, that finished compilations replace, and
answers that are a client's own compilation, the saved one, or blanks.
FieldStats implements it by the refinement mapping at the end of its module:
`saved` is what the rows with statistics hold, `answer` what each finished
construction ended with.

**FieldCache** extends FieldStats with what surrounds it: `QCATField::stats()`,
whose `m_cachedStats` is checked, assigned and copied without a lock by the
threads of a process, and `QCATDataSource::fieldStats()`, which goes round it. A
client is one call; it drives the steps of its own construction in FieldStats.
The assignment of a shared pointer is two steps, as in the library: the pointer,
then the owner, whose old object is released. What a race on it does is
approximated by the interleavings of these steps. `overlapped` remembers the
processes in which one construction began during another.

**DataSource** models threads and the data sources of a process. A call of
executeSQL waits for the mutex, is inside PQexec and returns; totalRecords and
unique enter PQexec at once. Overlapping calls on a connection become `spoiled`
and may be answered with anything. A source goes from `new` through `opening`
to `good`, `empty` (no fields found) or `bad` (never connected).

**Evaluation** models what the evaluating operations compute, against a table
that others write. A row has a letter and meets the conditionals or not; a
summary is a success flag, a record length and the counts of letters, from which
entropy, mean surprise and uncertainty follow. `explain` and
`rowsMatchingCondition` take two steps, one for each statement, and writes come
between. LIMIT picks any rows, because no statement has an ORDER BY; it applies
after the conditionals for the client and before them for the server. The
stored procedure is not in the repository: it is taken to count the letters of
the rows it is given that meet the conditionals it is given. With columns,
topNMostSurprising reads column j of the statement with the type of field j of
the table, and throws when there is no such field (`Throws`): the statement has an id,
the `NumVons` VONs and a hash, the table `NumFields` fields. `between` counts the writes
between the two statements of an operation.

**Binning** has the bins as operators: a value, a constant and a bin, each sent
to the other as PostgreSQL evaluates the expressions the library prints. What
matters is the type each expression has there: an integer column divided by a
width that prints as an integer truncates, `numeric` rounds halves away from
zero, `double precision` rounds them to even. `BinSummaries` is QCATBinStats.

**NGram** models the n-gram object and its two statements: `Initialises` is
`initialiseBins`, which three operations run, and `SelectRows` what executeNGram
makes of the rows. Where the code leaves the letter open the model has all of them:
`RelativeLetters` has every order std::sort may leave equal bins in, `DeltaLetters` any
sign for the elements buildDeltaZ reads past the end of the previous list, if the process
survives it; it may also die of that, and of a delta over an empty map (`MayDie`). A
text column is numbered in the order of its texts, and `AsNumber` has what atoi and atof
read in each, in no particular order. `lost` tells a failure the statement did not have
in it.

`MC*` modules give constants their values. Definitions marked "Faulty variant"
are not part of the models: each is a way the code could be wrong that some
property notices.

## What is checked

| Run | Properties | Bounds |
|---|---|---|
| edit | TypeOK, SpecIsInstantiated, FixedConditionsSurvive, SettledAfterEdit, ExecuteIsGuarded, OnlyUnknownNamesKill | one field, one unknown name, two operators, one constant |
| bins | BinsFollowStrategy, BinsSurvive, StrategiesKeepUp | a quantitative and a passthrough field, three strategies of which one throws, no constants |
| stats_safety | TypeOK, AcceptableIsSaved, SavedRowsAgree, BlankLoadNeedsTwoOthers, SavedStaysSaved, SavedIsUsed, CacheImplemented | three clients, two statistics, a write, a day, a failure, crashes |
| stats_live | CacheTypeOK, TornNeedsOverlap, SequentialCallsAgree, PlaceholderIsTemporary | three calls in two processes, one statistic, a failure, calls that throw |
| source | TypeOK, OneStatementAtATime, SpoiledNeedsBypass, GoodMeansAnswered, CallReturns | two threads, two sources, two calls each |
| results | TypeOK, ExplanationAgrees, MatchesAreWithinRun, SurprisalsMatchSummary, MethodsAgree, LimitIsRespected | three rows, two letters, four limits, two writes, a table of three fields, one or two VONs |
| ngram | TypeOK, BinsWithinN, PositionsAreRanks, ProbabilitiesAddUp, OnlyMisuseKills, ConstantsMeetRows, RoundTrip, RowsMakeHistogram | three rows, two instants, one thing, three values, an integer, a text and a boolean column, N of 1 and 3, one write |

What they say:

* The maps of a QCAT never lag behind its specification; an edit keeps fixed
  conditions and the bins of the VONs that stay; with one stale entry an edit
  that survives leaves exactly the specification's names. An unknown name never
  reaches an executed statement, but kills toString, setBinStrategy and
  removeConditional. An attribute that has the QCAT's strategy falls behind it only when
  setBinStrategy fails on some attribute or passes over a VON for the conditional of its
  name, or when its condition is fixed anew (StrategiesKeepUp).
* A row of statistics that is accepted always holds one whole compilation (never
  the columns of a crashed client), rows that hold statistics agree, and no step
  blanks them. Because checking and loading are two statements, a client can
  still load a blank row; it takes two other clients to bring that about. Rows multiply
  only while one is a placeholder: once all are saved, whoever asks loads (SavedIsUsed).
* To its clients the cache table is one saved compilation at a time
  (CacheImplemented): rows are duplicated, but which one is read does not show.
* The unguarded `m_cachedStats` is safe as long as calls do not overlap while it
  is empty: only then can an object be destroyed while it is copied, and only then
  do two calls of one process get different statistics. No such overlap, however
  many processes and whatever the cache table went through, no such error.
* executeSQL excludes itself across all threads and sources, every call returns,
  and a connection is used by two threads only through totalRecords or unique.
* What an operation returns fits together when its statements were answered and
  without LIMIT: explained records carry the summary's counts and are its rarest letters,
  but for the writes between the two statements, each of which moves a count by one;
  matching rows outnumber a letter's rows by those writes at most; surprisals are those
  of the summary; client and server agree if nobody writes between their runs.
* The bins of an n-gram's execution are at most N + 1 where a quotient is cut off and
  N + 2 where it is rounded, whatever was set before, because the execution
  discovers the width of its own rows. A position in a list
  is a rank, because ORDER BY takes the output column of the dependent variable's
  name, its bin: so a *relative order* letter exchanges rows of one bin at most and
  otherwise tells the length of the list only, and a *direction* letter compares ranks,
  not things (PositionsAreRanks). Columns of texts are ordered as texts and read as
  numbers, and are excepted. An n-gram that is set up soundly dies of a delta only: over
  no rows, or over an instant with more rows than one before it (OnlyMisuseKills). The
  probabilities of letters add up to 1 only if every instant has one row. A constant meets the rows of an integer column with its
  value and is at most one bin off otherwise; bins of width 1 or more come back
  from their values; the statistics of bins are disjoint intervals.

The bounds are the smallest at which each of these can go wrong: an interleaving
of two clients and a third that reads, a stale entry beside one that stays, two
sources for one mutex, a letter left out of a top-one explanation, two lists
of different lengths, values on both sides of zero and of a half. Two names are
enough for the maps because an edit treats each name by itself, except for the
erasure, whose choice is over the set of stale entries. Every operation that is
the subject of a property is fired in these runs; each property was seen to fail
when the model is given a fault of the code it is about.

In stats_live the table stands still (MaxVersion is 0), while a day passes and a
statement fails: the liveness of a placeholder does not depend on what is counted, and the
safety of FieldStats under writes is stats_safety's. In ngram the dependent variable is an
integer, text or boolean column, the independent one an integer or the same text column,
and the QCAT is sound, empty or one the database rejects. One thing is enough: hashes only
order rows of one bin, which a list of bins does not show (the run also passes with two).
Columns whose quotients are rounded (three rows are too few to have more than N + 2 bins)
and QCATs with an unknown VON are left to the theorems, which hold for every kind and QCAT
of the model; Binning's properties range over all kinds in the run, too.

Fairness is assumed in two places. `FairSpec` of DataSource has weak fairness of
taking a free mutex and of PQexec returning, for each thread: boost's mutex is
released by the scope on every path, and the server or a broken connection ends
each PQexec; calls are bounded, so a waiting thread cannot be overtaken for
ever. `FairCacheSpec` of FieldCache has weak fairness of the calls in progress
taken together: some call goes on as long as one can, because a thread runs until
its statement returns and statements return. It does not promise that a call is
begun, nor that every thread is scheduled: calls are finitely many, so placeholders are
filled nonetheless. Runs with no deadlock check are those in which
the process may die or every bounded call has been made.

### Where code and documentation disagree

Five runs end in a violation, each of a sentence the repository says of itself:

| Run | Claim | What happens |
|---|---|---|
| override | `override_existing` false keeps existing strategies (`src/qcat.h:339`) | hasBinStrategy is never true, every strategy is replaced |
| divide | the strategy goes to all attributes (`src/qcat.h:337`) | dividing strategies throw on the first quantitative attribute |
| success | "Successfully run QCAT." (`src/qcat.cpp:294`) | said of a statement that failed |
| stats_fresh | caches are acceptable for ACCEPTABLE_AGE_DAYS (`src/qcatfieldstats.cpp:7`) | the age has the wrong sign; a cache is never too old |
| pmf | a PMF based on the full run (`src/qcat.cpp:510`) | with a LIMIT probabilities exceed 1 |

Statements that fail are easily had: "complete enough to run" (`src/qcat.h:400`)
asks only for a nonempty first constant, so unknown operators, blank second bounds
and constants of another type are complete. And sqlBinToVal, which
`src/qcatbin.h:38` says gives the min boundary of a bin, gives the middle of it
where bins are rounded (a `numeric` column of width 2 has 5 in bin 3, which comes
back as 6). Neither has a run of its own.

StrategyApplies fails in a second way without a dividing strategy: a VON whose
name is also a conditional is not among `attributes()` and is never visited.

## What is proved

TLAPS proves the following for all values of the constants that satisfy the
named assumptions of each module, which only say what the constants are (fields
are names, bounds are naturals, markers are distinct from values; tables, alphabets
and the names of a specification are finite; in FieldStats, that the year 3000 is
later than any day of the model; in Evaluation, that there are no more VONs than fields,
as each is a key of a map; in NGram, that atoi reads a number in every text).

* **QCATInstance_proofs**: TypeCorrect, then `Invariance` of `IInv`: the maps
  cover the specification, each width follows its strategy, a process that died
  outside the edits died next to a name that is no field. From it
  MapsNeverLagBehind, BinsAreInOrder, NullBinsAreContained, and the action properties
  FixedConditionsAreKept, BinsAreKept, NoneFallsBehind and EditsSettle. The last
  is about the erasure: of one stale entry the only nonempty part is the whole
  (ErasedAll), of two there are others. `EditShape` and `SetBinStrategyShape` reduce
  the many operations to two kinds of step: the maps extended and thinned, or
  attributes rebinned.
* **FieldStats_proofs**: AcceptableIsSaved is not inductive: a client must be
  known to hold a whole compilation before it saves, placeholders to be dated in
  the year 3000 and saved rows to be dated no later than today. `IInv` says so
  (RowsInOrder, ClientsInOrder) and has SavedRowsAgree, because one update gives
  every row the same content. BlankLoads adds that a client loads only once
  something has been saved. SavedRowsAreUsed needs that saved rows are dated: a row dated
  today or before is acceptable whatever its age, because of the sign of the age.
  `CacheIsImplemented` carries the refinement to every instance: under the mapping
  of `CacheImplemented` the update that fills the rows is the abstract save, because
  it gives all of them the content of one compilation; every other step leaves the
  one saved compilation alone, because an insertion adds no saved row; and an answer
  that was given stays as given.
* **FieldCache_proofs**: `CallsConstruct` shows that a behaviour of the composition
  is one of FieldStats, so the theorems above hold of fields too
  (AcceptedInComposition), and so does the refinement of StatsCache
  (CompositionImplements). TornNeedsOverlap and SequentialCallsAgree need an
  invariant that relates the pointer, its owner and the calls that assign them: in a
  process where no constructions overlapped, at most one call is past the null test
  (OneAssigns), it finds pointer and owner empty and fills them (ObjectsInOrder,
  CallsInOrder), every other call holds what the pointer was given once, and nothing
  has been destroyed (DestroyedInOrder).
* **DataSource_proofs**: mutual exclusion needs that whoever is inside with a
  locked call holds the mutex; SpoiledNeedsBypass that a spoiled thread is inside
  on a bypassed source, which in turn needs that a source is used by nobody but
  its constructor until it is ready (SourcesInOrder). GoodMeansAnswered follows
  because the constructor's scan is then never overlapped.
* **Evaluation_proofs**: the properties compare what two statements brought, so the
  invariant says what is known between them. Without LIMIT and failure, the records
  explain holds are, but for the writes since, the rarest letters of the rows selected
  *now* (ExplainInOrder), the summary rowsMatchingCondition holds counts those rows but
  for the writes since (MatchInOrder), and every remembered run counts exactly those
  (RanInOrder). A write moves a count by one at most (WriteShifts). What the
  second statement brings is about the same rows: `Answered` says that an answer
  has selected rows only and, without LIMIT, all of them, `Counts` that fewer rows
  have no greater counts. LimitIsRespected is of the sizes of answers
  (AnsweredWithinLimit). SurprisalsMatchSummary compares a sum over rows with one over
  letters (RowsByCount, by FiniteSetInduction over the letters that occur a given
  number of times).
* **FiniteOrders** has what the proofs about rows, bins and letters need of finite sets. The
  library's induction theorem takes a predicate and cannot be used here;
  `FiniteSetInduction` states the same of a set of subsets, which a proof can name,
  and follows from the well-foundedness of strict inclusion. From it: a finite
  ordered set has a greatest element (so Max and Min are what they are called) and
  a sequence in order (`SequenceInOrder`). That is why the models say
  ORDER BY by `InOrder`, a choice among the sequences in order, and not by a
  sorting operator defined by recursion.
* **Binning_proofs**: the three roundings are within one half or one of the quotient
  and keep its order (RoundingIsMonotone, RoundingIsNear), so bins keep the order of
  values (NumericBins). A constant equal to a value falls in its bin or the next
  (ConstantsMeet), and the value that stands for a bin is in that bin if the width
  is 1 or more (RoundTrips). SummariesMakeHistogram adds the counts by induction
  over the bins (SumOfCounts); the values of bins in order are in order because
  rounding keeps it.
* **NGram_proofs**: the invariant adds that between the two statements of an
  undisturbed execution the width is the one discovered from the rows
  (SelectsWithWidth). BinsWithinN then is about the ends of the span alone
  (BinsOfASpan): all bins lie between theirs. PositionsAreRanks rests on
  SameBinsAreOneList: two lists in order with the same bins are one list, shown at
  the first place where they would differ; RelativeLettersSort applies it to a list and
  the list std::sort leaves. OnlyMisuseKills needs that a list read beyond its end comes
  before an instant with more rows (BeyondIsGrowth). ProbabilitiesAddUp compares the number
  of rows with that of their instants (InstantsOfRows).

  BinsWithinN first said N + 1 for every column, and TLC agreed, for an integer column.
  The proof does not go through for a rounded quotient: the rows -1, 0 and 1 of a
  `numeric` column make three bins with N = 1 (width 2, and halves are rounded away
  from zero). The property now says N + 2 there.

Each inductive invariant was also checked by TLC on the instances above.

Every invariant, action property and refinement the runs check is stated by a
theorem. Only model-checked: liveness (PlaceholderIsTemporary,
CallReturns), which is out of the prover's reach with its fairness and ENABLED; and
the counterexamples of the five runs that end in a violation.

## What is not modelled

* clientRunSSE is private and called by nobody; it is clientRun once more.
* `QCATAttribute::uniques` (its statement is none in PostgreSQL) and conditions on
  a second field (which `sql` rejects); basic units, suggestions and units of bins.
* Copies of a QCATPQResult: a copy has no rows and an assignment leaks, but the
  library only passes results by shared pointer.
* The stored procedure and `postgres/log2.c`; logging; names and ids; floating
  point, which is represented by the counts it is computed from, and NULL values
  of a column.
* `old/`, `boost.m4` and the build files; the one test prints a comparison with a
  constant.

## Plan

What is left:

1. DataSource: an abstract specification of executeSQL, one statement after the
   other, which the threads that do not go round the mutex implement.
2. Evaluation: the counts of a summary add up to its length, by the induction of
   RowsByCount, so that probabilities are a distribution.
3. Shorter proofs where a leaf cites more than it needs.
