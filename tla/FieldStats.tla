----------------------------- MODULE FieldStats -----------------------------
(***************************************************************************)
(* Statistics of one field and their cache in <table>_stats                *)
(* (src/src/qcatfieldstats.cpp, QCATDataSource::ensureFieldStatTable).     *)
(*                                                                         *)
(* A client is one construction of a QCATFieldStats: by a thread or a      *)
(* process, against the one table they share.  Each statement is atomic;   *)
(* the sequence check, compile, insert, update, or check, load, is not,    *)
(* and nothing makes the rows of a field unique.                           *)
(***************************************************************************)
EXTENDS Integers, Sequences, FiniteSets

CONSTANTS
  Client,         \* constructions of the statistics
  NumStats,       \* statements that compile them, one statistic each
  AcceptableAge,  \* ACCEPTABLE_AGE_DAYS
  Year3000,       \* the day '01-01-3000'
  MayOwnTable,    \* the role may run ALTER TABLE ... OWNER TO postgres
  Quotable,       \* the texts compiled have no quote that ends the UPDATE's
  MayCrash,       \* clients may die between two statements
  MaxVersion,     \* bound on writes to the table the statistics are about
  MaxDay,         \* bound on the days that pass
  MaxFailures,    \* bound on statements that fail
  Missing,        \* the statistic of a statement that failed
  Blank,          \* the NULL columns of a row that was inserted, not updated
  NoRow           \* the client has inserted no row

ASSUME ConstantsAssumption ==
  /\ NumStats \in Nat \ {0} /\ AcceptableAge \in Nat /\ Year3000 \in Nat
  /\ MaxVersion \in Nat /\ MaxDay \in Nat /\ MaxFailures \in Nat
  /\ Year3000 > MaxDay + AcceptableAge
  /\ MayOwnTable \in BOOLEAN /\ Quotable \in BOOLEAN /\ MayCrash \in BOOLEAN

Version == 0..MaxVersion
Statistic == Version \cup {Missing}
Compiled == Seq(Statistic)
Row == [stats : Compiled \cup {Blank}, stamp : Nat]

ASSUME MarkersAssumption ==
  Blank \notin Compiled /\ NoRow \notin Row \cup Compiled \cup {Blank}

VARIABLES
  tableExists, \* <table>_stats exists
  rows,        \* the row each client has inserted for the field
  version,     \* how often the table has been written
  today,       \* now(), in days
  pc,          \* what each client does next
  stats,       \* the statistics each client holds so far
  failures     \* statements that have failed

vars == <<tableExists, rows, version, today, pc, stats, failures>>

-----------------------------------------------------------------------------
Rows == {c \in Client : rows[c] # NoRow}

Placeholder == [stats |-> Blank, stamp |-> Year3000]
Saved(c) == c \in Rows /\ rows[c].stats # Blank

\* The age is last_compiled - now(): negative for every day gone by.  Faulty
\* variant: the age is now() - last_compiled.
AcceptableBothWays(row) == today - row.stamp <= AcceptableAge
Acceptable(row) == row.stamp - today <= AcceptableAge

Goto(c, label) == pc' = [pc EXCEPT ![c] = label]

\* A statement may fail (a lost connection, a lock that is not granted).
Fails == failures < MaxFailures /\ failures' = failures + 1
Succeeds == UNCHANGED failures

-----------------------------------------------------------------------------
\* QCATField::stats() goes straight to the statistics; QCATDataSource::fieldStats()
\* first creates the table, in one transaction with the change of its owner.
Start(c) ==
  /\ pc[c] = "start"
  /\ \/ UNCHANGED tableExists
     \/ tableExists' = (tableExists \/ MayOwnTable)
  /\ Goto(c, "check")
  /\ UNCHANGED <<rows, version, today, stats, failures>>

\* cacheAcceptable reads the first row of an unordered SELECT, if there is one.
Check(c) ==
  /\ pc[c] = "check"
  /\ \/ /\ Succeeds
        /\ Rows = {}
        /\ Goto(c, "compile")
     \/ /\ Succeeds
        /\ \E d \in Rows : Goto(c, IF Acceptable(rows[d]) THEN "load" ELSE "compile")
     \/ /\ Fails
        /\ Goto(c, "compile")
  /\ UNCHANGED <<tableExists, rows, version, today, stats>>

\* compileStats sends one statement for each statistic; the next may see other
\* data, and one that fails leaves an empty text or a zero.
Compile(c) ==
  /\ pc[c] = "compile"
  /\ \/ Succeeds /\ stats' = [stats EXCEPT ![c] = Append(@, version)]
     \/ Fails /\ stats' = [stats EXCEPT ![c] = Append(@, Missing)]
  /\ Goto(c, IF Len(stats[c]) + 1 < NumStats THEN "compile" ELSE "ensure")
  /\ UNCHANGED <<tableExists, rows, version, today>>

\* Faulty variants of ensureCache: the row is inserted as of today, or undated,
\* or takes the place of the rows there are.
InsertedToday(c) == [rows EXCEPT ![c] = [stats |-> Blank, stamp |-> today]]
InsertedUndated(c) == [rows EXCEPT ![c] = [stats |-> Blank, stamp |-> Missing]]
InsertedInstead(c) ==
  [d \in Client |-> IF d = c \/ d \in Rows THEN Placeholder ELSE NoRow]

\* ensureCache inserts one more row; success is not looked at.
Inserted(c) == [rows EXCEPT ![c] = Placeholder]

Ensure(c) ==
  /\ pc[c] = "ensure"
  /\ \/ Succeeds /\ rows' = IF tableExists THEN Inserted(c) ELSE rows
     \/ Fails /\ UNCHANGED rows
  /\ Goto(c, "save")
  /\ UNCHANGED <<tableExists, version, today, stats>>

\* Faulty variant: the update reaches the client's own row only.
UpdatedOwn(c) ==
  [rows EXCEPT ![c] = IF @ = NoRow THEN NoRow ELSE [stats |-> stats[c], stamp |-> today]]

\* Faulty variant: the update reaches the rows that are not dated ahead.
UpdatedIfStale(c) ==
  [d \in Client |-> IF d \in Rows /\ rows[d].stamp <= today
                    THEN [stats |-> stats[c], stamp |-> today] ELSE rows[d]]

\* Faulty variant: the update does not set last_compiled.
UpdatedUndated(c) ==
  [d \in Client |-> IF d \in Rows THEN [rows[d] EXCEPT !.stats = stats[c]] ELSE NoRow]

\* saveToCache: UPDATE ... WHERE field = ..., every row of the field.
Updated(c) ==
  [d \in Client |-> IF d \in Rows THEN [stats |-> stats[c], stamp |-> today] ELSE NoRow]

Save(c) ==
  /\ pc[c] = "save"
  /\ \/ Succeeds /\ rows' = IF Quotable THEN Updated(c) ELSE rows
     \/ Fails /\ UNCHANGED rows
  /\ Goto(c, "compiled")
  /\ UNCHANGED <<tableExists, version, today, stats>>

\* compileFromCache selects anew, and takes the first row again; on a statement
\* that failed it dereferences a null.
Load(c) ==
  /\ pc[c] = "load"
  /\ \/ /\ Succeeds
        /\ \E d \in Rows : stats' = [stats EXCEPT ![c] = rows[d].stats]
        /\ Goto(c, "loaded")
     \/ /\ Fails
        /\ Goto(c, "dead")
        /\ UNCHANGED stats
  /\ UNCHANGED <<tableExists, rows, version, today>>

Step(c) == Start(c) \/ Check(c) \/ Compile(c) \/ Ensure(c) \/ Save(c) \/ Load(c)

\* The process of a client ends, or an exception ends the construction (the list
\* of examples from an empty table throws); its statements so far stay.
Crash(c) ==
  /\ MayCrash
  /\ pc[c] \in {"check", "compile", "ensure", "save", "load"}
  /\ Goto(c, "dead")
  /\ UNCHANGED <<tableExists, rows, version, today, stats, failures>>

\* Someone writes the table the statistics are about.
Write ==
  /\ version < MaxVersion
  /\ version' = version + 1
  /\ UNCHANGED <<tableExists, rows, today, pc, stats, failures>>

NextDay ==
  /\ today < MaxDay
  /\ today' = today + 1
  /\ UNCHANGED <<tableExists, rows, version, pc, stats, failures>>

Init ==
  /\ tableExists \in BOOLEAN
  /\ rows = [c \in Client |-> NoRow]
  /\ version = 0
  /\ today = 0
  /\ pc = [c \in Client |-> "start"]
  /\ stats = [c \in Client |-> << >>]
  /\ failures = 0

Next == (\E c \in Client : Step(c) \/ Crash(c)) \/ Write \/ NextDay

Spec == Init /\ [][Next]_vars

-----------------------------------------------------------------------------
(* Properties. *)

TypeOK ==
  /\ tableExists \in BOOLEAN
  /\ rows \in [Client -> Row \cup {NoRow}]
  /\ version \in Version
  /\ today \in 0..MaxDay
  /\ pc \in [Client -> {"start", "check", "compile", "ensure", "save", "load",
                        "compiled", "loaded", "dead"}]
  /\ stats \in [Client -> Compiled \cup {Blank}]
  /\ failures \in 0..MaxFailures

\* The row cacheAcceptable accepts is never one that is still waiting for its
\* statistics, on whatever day, after whatever crash or failure: it holds all the
\* statistics of a compilation.
AcceptableIsSaved ==
  \A c \in Rows : Acceptable(rows[c]) =>
    Saved(c) /\ Len(rows[c].stats) = NumStats

\* Rows of one field are duplicated freely, but those with statistics all have
\* the same: it does not matter which of them a client loads.
SavedRowsAgree == \A c, d \in Rows : Saved(c) /\ Saved(d) => rows[c] = rows[d]

\* A client that found the cache acceptable and then loaded the blank columns of
\* a placeholder did so next to two other clients that inserted rows: with one other,
\* the row it found acceptable is the row it loads.
BlankLoadNeedsTwoOthers ==
  \A c \in Client : pc[c] = "loaded" /\ stats[c] = Blank
    => \E d, e \in Rows \ {c} : d # e

\* What was saved is replaced, never blanked.
SavedStaysSaved == [][\A c \in Rows : Saved(c) => Saved(c)']_vars

\* The rows of a field multiply only while one of them is a placeholder: where all
\* have statistics, whoever saved them, however many days ago, a construction whose
\* check is answered loads them and inserts no other row.
SavedIsUsed ==
  [][\A c \in Client :
       Check(c) /\ UNCHANGED failures /\ Rows # {} /\ (\A d \in Rows : Saved(d)) =>
         pc'[c] = "load"]_vars

\* The clients' view of the table: the one compilation that rows hold, and what
\* each finished construction ended with.
SavedNow ==
  IF \E c \in Rows : Saved(c)
  THEN CHOOSE s \in {rows[c].stats : c \in {d \in Rows : Saved(d)}} : TRUE
  ELSE NoRow

Answers ==
  [c \in Client |-> IF pc[c] \in {"compiled", "loaded"}
                   THEN [how |-> pc[c], stats |-> stats[c]] ELSE NoRow]

Cache == INSTANCE StatsCache
           WITH Nothing <- NoRow, saved <- SavedNow, answer <- Answers

\* To its clients the table of duplicate rows behaves as one saved compilation,
\* which only finished compilations replace.
CacheImplemented == Cache!Spec

-----------------------------------------------------------------------------
(* What the source says and the code does not do. *)

\* qcatfieldstats.cpp:7: statistics are acceptable for ACCEPTABLE_AGE_DAYS.
FreshEnough ==
  [][\A c \in Client : Check(c) /\ pc'[c] = "load" =>
       \E d \in Rows : today - rows[d].stamp <= AcceptableAge]_vars

=============================================================================
