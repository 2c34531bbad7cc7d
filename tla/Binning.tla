------------------------------ MODULE Binning -------------------------------
(***************************************************************************)
(* Which bin a value falls in (src/src/qcatbinnumeric.cpp,                 *)
(* qcatbintimestamp.cpp, qcatbinpassthrough.cpp), and how many values each *)
(* bin has (src/src/qcatbinstats.cpp).                                     *)
(*                                                                         *)
(* The library writes a division and a CAST and PostgreSQL evaluates them: *)
(* the types of the column and of the printed width and constant decide    *)
(* how the quotient becomes an integer.  Values are whole numbers; a date  *)
(* is its seconds since removeSeconds, in a session whose time zone is UTC *)
(* (to_timestamp is of the session's).  A width is a fraction num / den;   *)
(* den = 0 stands for a width that is not finite, and num is negative only *)
(* for texts, whose bins need no width.                                    *)
(***************************************************************************)
EXTENDS Integers, SequencesExt

CONSTANT MaxInt   \* the largest int of PostgreSQL

ASSUME MaxIntAssumption == MaxInt \in Nat

UnitWidth == [num |-> 1, den |-> 1]

\* lexical_cast prints a width that is whole without a decimal point.
IsWhole(w) == w.den # 0 /\ w.num % w.den = 0

-----------------------------------------------------------------------------
(* PostgreSQL: p / q as an int, for q > 0. *)

\* Of two integers: towards zero.
Truncated(p, q) == IF p >= 0 THEN p \div q ELSE -((-p) \div q)

\* Of numerics: to the nearest, a half away from zero.
RoundedAway(p, q) ==
  LET nearest(m) == (2 * m + q) \div (2 * q)
  IN  IF p >= 0 THEN nearest(p) ELSE -nearest(-p)

\* Of double precision: to the nearest, a half to the even one.
RoundedToEven(p, q) ==
  LET low == p \div q
      twice == 2 * (p - low * q)
  IN  CASE twice < q -> low
        [] twice > q -> low + 1
        [] OTHER -> low + (low % 2)

-----------------------------------------------------------------------------
(* sqlAttrToBin, sqlValToBin, sqlBinToVal. *)

\* A column of PostgreSQL's type numeric has an integer bin as well.
NumericKinds == {"integer", "numeric", "double"}
PassthroughKinds == {"string", "boolean"}
Kind == NumericKinds \cup PassthroughKinds \cup {"date"}

\* Faulty variant of AttrToBin: the width is an int, as for BinToVal's result.
AttrToBinTruncating(kind, v, w) == Truncated(v * w.den, w.num)

\* The bins of a date are numbers of minutes; extract gives a double.
DateToBin(v, w) == RoundedToEven(v * w.den, 60 * w.num)

AttrToBin(kind, v, w) ==
  CASE kind = "integer" /\ IsWhole(w) -> Truncated(v * w.den, w.num)
    [] kind = "integer" /\ ~IsWhole(w) -> RoundedAway(v * w.den, w.num)
    [] kind = "numeric" -> RoundedAway(v * w.den, w.num)
    [] kind = "double" -> RoundedToEven(v * w.den, w.num)
    [] kind = "date" -> DateToBin(v, w)
    [] OTHER -> v

\* Faulty variant of ValToBin: the width always has a decimal point.
ValToBinRounded(kind, v, w) ==
  IF kind \in NumericKinds THEN RoundedAway(v * w.den, w.num) ELSE AttrToBin(kind, v, w)

\* A constant is an integer to PostgreSQL, whatever the column it is compared with.
ValToBin(kind, v, w) ==
  AttrToBin(IF kind \in NumericKinds THEN "integer" ELSE kind, v, w)

\* Back to a value; the statement QCATBinTimestamp makes is none.
BinToVal(kind, b, w) ==
  IF kind \in NumericKinds THEN RoundedAway(b * w.num, w.den) ELSE b

\* No row's quotient is a division by zero or beyond an int.
Computable(kind, v, w) ==
  \/ kind \in PassthroughKinds
  \/ w.num > 0 /\ AttrToBin(kind, v, w) \in -MaxInt - 1 .. MaxInt

\* ORDER BY, and std::sort: a sequence of the elements of S, none before one it
\* comes after; which one is left open.
InOrder(S, before(_, _)) ==
  CHOOSE s \in SetToSeqs(S) : \A i, j \in DOMAIN s : i < j => before(s[i], s[j])

\* Faulty variant of BinsInOrder: ORDER BY cnt, then bin.
BinsByCount(kind, valueOf, w) ==
  LET cnt(b) == Cardinality({r \in DOMAIN valueOf : AttrToBin(kind, valueOf[r], w) = b})
  IN  InOrder({AttrToBin(kind, valueOf[r], w) : r \in DOMAIN valueOf},
        LAMBDA b, c : cnt(b) < cnt(c) \/ (cnt(b) = cnt(c) /\ b < c))

BinsInOrder(kind, valueOf, w) ==
  InOrder({AttrToBin(kind, valueOf[r], w) : r \in DOMAIN valueOf}, <)

\* QCATBinStats: a summary for each bin, of the values the rows have in a column;
\* an x that is no number is told by its position.  A probability is cnt out of all
\* rows.
BinSummaries(kind, valueOf, w) ==
  LET bins == BinsInOrder(kind, valueOf, w)
      numeric == kind \in NumericKinds
  IN  [i \in DOMAIN bins |->
         LET rows == {r \in DOMAIN valueOf : AttrToBin(kind, valueOf[r], w) = bins[i]}
             values == {valueOf[r] : r \in rows}
         IN  [x1 |-> IF numeric THEN Min(values) ELSE 2 * i - 2,
              x2 |-> IF numeric THEN Max(values) ELSE 2 * i - 1,
              cnt |-> Cardinality(rows)]]

-----------------------------------------------------------------------------
(* Properties of the bins of width w, over some values and bins. *)

\* A value and a constant that is equal to it fall in one bin, or in the next one
\* where the column is no integer: a condition may miss the rows it names.
ConstantsMeetValues(Values, w) ==
  \A kind \in Kind, v \in Values :
    LET apart == ValToBin(kind, v, w) - AttrToBin(kind, v, w)
    IN  IF kind \in {"numeric", "double"} THEN apart \in {-1, 0, 1} ELSE apart = 0

\* A bin of width 1 or more comes back from the value that stands for it.
BinsRoundTrip(Bins, w) ==
  w.num >= w.den =>
    \A kind \in NumericKinds, b \in Bins : AttrToBin(kind, BinToVal(kind, b, w), w) = b

\* The summaries are a histogram: each row is counted once, and the values of a bin
\* lie above those of the bins before it, however they were rounded.
SummariesAreHistogram(valueOf, w) ==
  \A kind \in NumericKinds :
    LET s == BinSummaries(kind, valueOf, w)
    IN  /\ FoldLeft(LAMBDA sum, b : sum + b.cnt, 0, s) = Cardinality(DOMAIN valueOf)
        /\ \A i, j \in DOMAIN s : i < j => s[i].x2 < s[j].x1

=============================================================================
