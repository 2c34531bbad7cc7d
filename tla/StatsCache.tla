----------------------------- MODULE StatsCache -----------------------------
(***************************************************************************)
(* What the cache of a field's statistics promises its clients: one saved  *)
(* compilation at a time.  A client gets statistics it compiled itself,    *)
(* which then may or may not be the saved ones, or those that are saved    *)
(* at that moment; or, once something is saved, blanks.  FieldStats        *)
(* implements it with two to four statements and any number of rows.       *)
(***************************************************************************)
EXTENDS Naturals

CONSTANTS
  Client,     \* those who ask for the statistics
  NumStats,   \* statistics in a compilation
  Statistic,  \* what each can be
  Blank,      \* an answer without statistics
  Nothing     \* nothing is saved, or no answer was given yet

VARIABLES
  saved,      \* the compilation that is saved
  answer      \* how each client came to statistics, and to which

Compilation == [1..NumStats -> Statistic]

Init ==
  /\ saved = Nothing
  /\ answer = [c \in Client |-> Nothing]

Answer(c, how, s) ==
  /\ answer[c] = Nothing
  /\ answer' = [answer EXCEPT ![c] = [how |-> how, stats |-> s]]

Compiled(c, s) ==
  /\ Answer(c, "compiled", s)
  /\ saved' \in {saved, s}

Cached(c) ==
  /\ saved # Nothing
  /\ \E s \in {saved, Blank} : Answer(c, "loaded", s)
  /\ UNCHANGED saved

Next == \E c \in Client : Cached(c) \/ \E s \in Compilation : Compiled(c, s)

Spec == Init /\ [][Next]_<<saved, answer>>

=============================================================================
