--------------------------- MODULE Binning_proofs ---------------------------
(***************************************************************************)
(* What Binning promises of every width and every value, and not only of    *)
(* those a run meets.                                                      *)
(***************************************************************************)
EXTENDS Binning, FiniteOrders

-----------------------------------------------------------------------------
(* Quotients.  Every way to round is told by two products, so that what      *)
(* follows needs no division.                                              *)

\* Products by a positive number compare as their factors do.
LEMMA CancelLess ==
  ASSUME NEW a \in Int, NEW b \in Int, NEW q \in Int, q > 0, q * a < q * b + q
  PROVE  a <= b
<1> SUFFICES ASSUME a >= b + 1 PROVE FALSE
  OBVIOUS
<1>1. q * (a - (b + 1)) >= 0
  OBVIOUS
<1>2. q * (a - (b + 1)) = q * a - q * b - q
  OBVIOUS
<1> QED BY <1>1, <1>2

LEMMA Quotient ==
  ASSUME NEW p \in Int, NEW q \in Int, q > 0
  PROVE  /\ p \div q \in Int
         /\ q * (p \div q) <= p
         /\ p < q * (p \div q) + q
OBVIOUS

LEMMA WholeQuotient ==
  ASSUME NEW p \in Int, NEW q \in Int, q > 0, p % q = 0
  PROVE  p = q * (p \div q) /\ p \div q \in Int
OBVIOUS

LEMMA TruncatedBounds ==
  ASSUME NEW p \in Int, NEW q \in Int, q > 0
  PROVE  LET t == Truncated(p, q)
         IN  /\ t \in Int
             /\ p >= 0 => q * t <= p /\ p < q * t + q
             /\ p < 0 => p <= q * t /\ q * t < p + q
<1>1. CASE p >= 0
  BY <1>1, Quotient DEF Truncated
<1>2. CASE p < 0
  <2> DEFINE d == (-p) \div q
  <2>1. d \in Int /\ q * d <= -p /\ -p < q * d + q
    BY Quotient
  <2>2. Truncated(p, q) = -d
    BY <1>2 DEF Truncated
  <2> HIDE DEF d
  <2>3. q * (-d) = -(q * d)
    BY <2>1
  <2> QED BY <1>2, <2>1, <2>2, <2>3
<1> QED BY <1>1, <1>2

LEMMA RoundedAwayBounds ==
  ASSUME NEW p \in Int, NEW q \in Int, q > 0
  PROVE  LET r == RoundedAway(p, q)
         IN  /\ r \in Int
             /\ 2 * (q * r) - q <= 2 * p
             /\ 2 * p <= 2 * (q * r) + q
             /\ p >= 0 => 2 * p < 2 * (q * r) + q
<1> DEFINE nearest(m) == (2 * m + q) \div (2 * q)
<1>1. ASSUME NEW m \in Int
      PROVE  /\ nearest(m) \in Int
             /\ 2 * (q * nearest(m)) - q <= 2 * m
             /\ 2 * m < 2 * (q * nearest(m)) + q
  <2> DEFINE d == nearest(m)
  <2>1. d \in Int /\ (2 * q) * d <= 2 * m + q /\ 2 * m + q < (2 * q) * d + 2 * q
    BY Quotient
  <2> HIDE DEF d
  <2>2. (2 * q) * d = 2 * (q * d)
    BY <2>1
  <2>3. d \in Int /\ 2 * (q * d) - q <= 2 * m /\ 2 * m < 2 * (q * d) + q
    BY <2>1, <2>2
  <2> QED BY <2>3 DEF d
<1>2. RoundedAway(p, q) = IF p >= 0 THEN nearest(p) ELSE -nearest(-p)
  BY DEF RoundedAway
<1> HIDE DEF nearest
<1>3. CASE p >= 0
  BY <1>1, <1>2, <1>3
<1>4. CASE p < 0
  <2>1. RoundedAway(p, q) = -nearest(-p) /\ nearest(-p) \in Int
    BY <1>1, <1>2, <1>4
  <2>2. q * (-nearest(-p)) = -(q * nearest(-p))
    BY <2>1
  <2>3. 2 * (q * nearest(-p)) - q <= 2 * (-p) /\ 2 * (-p) < 2 * (q * nearest(-p)) + q
    BY <1>1
  <2> QED BY <1>4, <2>1, <2>2, <2>3
<1> QED BY <1>3, <1>4

LEMMA RoundedToEvenBounds ==
  ASSUME NEW p \in Int, NEW q \in Int, q > 0
  PROVE  LET r == RoundedToEven(p, q)
         IN  /\ r \in Int
             /\ 2 * (q * r) - q <= 2 * p
             /\ 2 * p <= 2 * (q * r) + q
<1> DEFINE low == p \div q
           twice == 2 * (p - low * q)
<1>1. low \in Int /\ q * low <= p /\ p < q * low + q
  BY Quotient
<1>2. RoundedToEven(p, q) = CASE twice < q -> low
                              [] twice > q -> low + 1
                              [] OTHER -> low + (low % 2)
  BY DEF RoundedToEven
<1> HIDE DEF low
<1>3. low * q = q * low /\ q * (low + 1) = q * low + q /\ q * (low + 0) = q * low
  BY <1>1
<1>4. low % 2 \in {0, 1}
  BY <1>1
<1> QED BY <1>1, <1>2, <1>3, <1>4

-----------------------------------------------------------------------------
(* Two ways to round. *)

\* r is less than 1 from p / q, and no more than a half.
IsNear(r, p, q) == r \in Int /\ p < q * r + q /\ q * r < p + q
IsNearest(r, p, q) == r \in Int /\ 2 * (q * r) - q <= 2 * p /\ 2 * p <= 2 * (q * r) + q

LEMMA RoundingIsNear ==
  ASSUME NEW p \in Int, NEW q \in Int, q > 0
  PROVE  /\ IsNear(Truncated(p, q), p, q)
         /\ IsNearest(RoundedAway(p, q), p, q) /\ IsNear(RoundedAway(p, q), p, q)
         /\ IsNearest(RoundedToEven(p, q), p, q) /\ IsNear(RoundedToEven(p, q), p, q)
<1>1. IsNear(Truncated(p, q), p, q)
  BY TruncatedBounds DEF IsNear
<1>2. \A r : IsNearest(r, p, q) => IsNear(r, p, q)
  BY DEF IsNear, IsNearest
<1>3. IsNearest(RoundedAway(p, q), p, q)
  BY RoundedAwayBounds DEF IsNearest
<1>4. IsNearest(RoundedToEven(p, q), p, q)
  BY RoundedToEvenBounds DEF IsNearest
<1> QED BY <1>1, <1>2, <1>3, <1>4

\* However p / q becomes an integer, another way gives the same or one next to it.
LEMMA NearApart ==
  ASSUME NEW p \in Int, NEW q \in Int, q > 0,
         NEW r, IsNear(r, p, q), NEW s, IsNearest(s, p, q)
  PROVE  r - s \in {-1, 0, 1}
<1>1. r \in Int /\ s \in Int
  BY DEF IsNear, IsNearest
<1>2. q * r < q * (s + 1) + q
  <2>1. q * (s + 1) = q * s + q
    BY <1>1
  <2> QED BY <1>1, <2>1 DEF IsNear, IsNearest
<1>3. q * s < q * (r + 1) + q
  <2>1. q * (r + 1) = q * r + q
    BY <1>1
  <2> QED BY <1>1, <2>1 DEF IsNear, IsNearest
<1>4. r <= s + 1
  BY <1>1, <1>2, CancelLess
<1>5. s <= r + 1
  BY <1>1, <1>3, CancelLess
<1> QED BY <1>1, <1>4, <1>5

\* What lies less than a half from an integer rounds to it.
LEMMA NearestIsUnique ==
  ASSUME NEW p \in Int, NEW q \in Int, q > 0,
         NEW r, IsNearest(r, p, q),
         NEW b \in Int, 2 * (q * b) - q < 2 * p, 2 * p < 2 * (q * b) + q
  PROVE  r = b
<1>1. r \in Int
  BY DEF IsNearest
<1>2. q * r < q * b + q /\ q * b < q * r + q
  BY <1>1 DEF IsNearest
<1> QED BY <1>1, <1>2, CancelLess

\* A greater quotient is no smaller when it is an integer.
LEMMA RoundingIsMonotone ==
  ASSUME NEW p1 \in Int, NEW p2 \in Int, p1 <= p2, NEW q \in Int, q > 0
  PROVE  /\ Truncated(p1, q) <= Truncated(p2, q)
         /\ RoundedAway(p1, q) <= RoundedAway(p2, q)
         /\ RoundedToEven(p1, q) <= RoundedToEven(p2, q)
<1>1. Truncated(p1, q) <= Truncated(p2, q)
  <2> DEFINE s == Truncated(p1, q)
             t == Truncated(p2, q)
  <2>1. /\ s \in Int /\ t \in Int
        /\ p1 >= 0 => q * s <= p1 
        /\ p1 < 0 => q * s < p1 + q
        /\ p2 >= 0 => p2 < q * t + q
        /\ p2 < 0 => p2 <= q * t
    BY TruncatedBounds
  <2> HIDE DEF s, t
  <2>2. CASE p1 < 0 /\ p2 >= 0
    <3>1. Truncated(p1, q) <= 0
      <4>1. q * s < q * 0 + q
        BY <2>1, <2>2
      <4> QED BY <2>1, <4>1, CancelLess DEF s
    <3>2. 0 <= Truncated(p2, q)
      <4>1. q * 0 < q * t + q
        BY <2>1, <2>2
      <4> QED BY <2>1, <4>1, CancelLess DEF t
    <3> QED BY <2>1, <3>1, <3>2 DEF s, t
  <2>3. CASE p1 >= 0 \/ p2 < 0
    <3>1. q * s < q * t + q
      BY <2>1, <2>3
    <3> QED BY <2>1, <3>1, CancelLess DEF s, t
  <2> QED BY <2>2, <2>3
<1>2. ASSUME p1 < p2, NEW r, IsNearest(r, p1, q), NEW s, IsNearest(s, p2, q)
      PROVE  r <= s
  <2>1. r \in Int /\ s \in Int /\ q * r < q * s + q
    BY <1>2 DEF IsNearest
  <2> QED BY <2>1, CancelLess
<1>3. CASE p1 = p2
  <2>1. RoundedAway(p2, q) \in Int /\ RoundedToEven(p2, q) \in Int
    BY RoundedAwayBounds, RoundedToEvenBounds
  <2>2. RoundedAway(p1, q) = RoundedAway(p2, q) /\ RoundedToEven(p1, q) = RoundedToEven(p2, q)
    BY <1>3
  <2> QED BY <1>1, <2>1, <2>2
<1>4. CASE p1 < p2
  BY <1>1, <1>2, <1>4, RoundingIsNear
<1> QED BY <1>3, <1>4

-----------------------------------------------------------------------------
(* Bins of numbers and of dates. *)

IsWidth(w) == w.num \in Int /\ w.den \in Int /\ w.num > 0 /\ w.den > 0

LEMMA AttrToBinIs ==
  ASSUME NEW v, NEW w
  PROVE  /\ IsWhole(w) => AttrToBin("integer", v, w) = Truncated(v * w.den, w.num)
         /\ ~IsWhole(w) => AttrToBin("integer", v, w) = RoundedAway(v * w.den, w.num)
         /\ AttrToBin("numeric", v, w) = RoundedAway(v * w.den, w.num)
         /\ AttrToBin("double", v, w) = RoundedToEven(v * w.den, w.num)
         /\ AttrToBin("date", v, w) = DateToBin(v, w)
         /\ \A kind \in PassthroughKinds : AttrToBin(kind, v, w) = v
BY Zenon DEF AttrToBin, PassthroughKinds

\* The bins of a column of numbers are near to quotients, and in the order of the values.
LEMMA NumericBins ==
  ASSUME NEW kind \in NumericKinds, NEW w, IsWidth(w), NEW v \in Int
  PROVE  /\ IsNear(AttrToBin(kind, v, w), v * w.den, w.num)
         /\ kind # "integer" \/ ~IsWhole(w) => IsNearest(AttrToBin(kind, v, w), v * w.den, w.num)
         /\ \A u \in Int : v <= u => AttrToBin(kind, v, w) <= AttrToBin(kind, u, w)
<1> DEFINE p(x) == x * w.den
           q == w.num
<1>1. q \in Int /\ q > 0 /\ \A x \in Int : p(x) \in Int
  BY DEF IsWidth
<1>2. \A x, y \in Int : x <= y => p(x) <= p(y)
  <2> SUFFICES ASSUME NEW x \in Int, NEW y \in Int, x <= y PROVE p(x) <= p(y)
    OBVIOUS
  <2>1. (y - x) * w.den >= 0
    BY DEF IsWidth
  <2>2. (y - x) * w.den = p(y) - p(x)
    BY DEF IsWidth
  <2> QED BY <1>1, <2>1, <2>2
<1>3. \/ kind = "integer" /\ IsWhole(w) /\ \A x : AttrToBin(kind, x, w) = Truncated(p(x), q)
      \/ /\ kind # "integer" \/ ~IsWhole(w)
         /\ \/ \A x : AttrToBin(kind, x, w) = RoundedAway(p(x), q)
            \/ \A x : AttrToBin(kind, x, w) = RoundedToEven(p(x), q)
  BY AttrToBinIs DEF NumericKinds
<1> HIDE DEF p, q
<1>4. IsNear(AttrToBin(kind, v, w), p(v), q)
  BY <1>1, <1>3, RoundingIsNear
<1>5. kind # "integer" \/ ~IsWhole(w) => IsNearest(AttrToBin(kind, v, w), p(v), q)
  BY <1>1, <1>3, RoundingIsNear
<1>6. ASSUME NEW u \in Int, v <= u PROVE AttrToBin(kind, v, w) <= AttrToBin(kind, u, w)
  <2>1. p(v) \in Int /\ p(u) \in Int /\ p(v) <= p(u)
    BY <1>1, <1>2, <1>6
  <2> QED BY <1>1, <1>3, <2>1, RoundingIsMonotone
<1> QED BY <1>4, <1>5, <1>6 DEF p, q

\* A condition finds the rows it names: a value and a constant equal to it fall in one
\* bin, or in neighbouring ones where the column is no integer.
THEOREM ConstantsMeet ==
  ASSUME NEW Values \in SUBSET Int, NEW w, IsWidth(w)
  PROVE  ConstantsMeetValues(Values, w)
<1> SUFFICES ASSUME NEW kind \in Kind, NEW v \in Values
             PROVE  LET apart == ValToBin(kind, v, w) - AttrToBin(kind, v, w)
                    IN  IF kind \in {"numeric", "double"} THEN apart \in {-1, 0, 1} ELSE apart = 0
  BY DEF ConstantsMeetValues
<1>1. CASE kind \in {"numeric", "double"}
  <2>1. ValToBin(kind, v, w) = AttrToBin("integer", v, w)
    BY <1>1 DEF ValToBin, NumericKinds
  <2>2. IsNear(AttrToBin("integer", v, w), v * w.den, w.num)
    BY NumericBins DEF NumericKinds
  <2>3. IsNearest(AttrToBin(kind, v, w), v * w.den, w.num)
    BY <1>1, NumericBins DEF NumericKinds
  <2>4. v * w.den \in Int /\ w.num \in Int /\ w.num > 0
    BY DEF IsWidth
  <2> QED BY <1>1, <2>1, <2>2, <2>3, <2>4, NearApart
<1>2. CASE kind \notin {"numeric", "double"}
  <2>1. ValToBin(kind, v, w) = AttrToBin(kind, v, w)
    BY <1>2 DEF ValToBin, NumericKinds
  <2>2. AttrToBin(kind, v, w) \in Int
    <3>1. CASE kind = "integer"
      BY <3>1, NumericBins DEF NumericKinds, IsNear
    <3>2. CASE kind = "date"
      <4>1. v * w.den \in Int /\ 60 * w.num \in Int /\ 60 * w.num > 0
        BY DEF IsWidth
      <4>2. RoundedToEven(v * w.den, 60 * w.num) \in Int
        BY <4>1, RoundedToEvenBounds
      <4> QED BY <3>2, <4>2, AttrToBinIs DEF DateToBin
    <3>3. CASE kind \in PassthroughKinds
      <4>1. AttrToBin(kind, v, w) = v
        BY <3>3, AttrToBinIs
      <4> QED BY <4>1
    <3> QED BY <1>2, <3>1, <3>2, <3>3 DEF Kind, NumericKinds
  <2> QED BY <1>2, <2>1, <2>2
<1> QED BY <1>1, <1>2

\* With a width of 1 or more the value that stands for a bin is in it, for every kind
\* of column of numbers: an edit that goes through a value comes back to its bin.
THEOREM RoundTrips ==
  ASSUME NEW Bins \in SUBSET Int, NEW w, IsWidth(w)
  PROVE  BinsRoundTrip(Bins, w)
<1> SUFFICES ASSUME w.num >= w.den, NEW kind \in NumericKinds, NEW b \in Bins
             PROVE  AttrToBin(kind, BinToVal(kind, b, w), w) = b
  BY DEF BinsRoundTrip
<1> DEFINE num == w.num
           den == w.den
           x == RoundedAway(b * num, den)
<1>1. num \in Int /\ den \in Int /\ num > 0 /\ den > 0 /\ den <= num /\ b \in Int
  BY DEF IsWidth
<1>2. BinToVal(kind, b, w) = x
  BY DEF BinToVal
<1>3. b * num \in Int /\ IsNearest(x, b * num, den)
  BY <1>1, RoundingIsNear
<1> HIDE DEF x
<1>4. x \in Int /\ x * den \in Int /\ den * x = x * den /\ b * num = num * b
  BY <1>1, <1>3 DEF IsNearest
<1>5. CASE kind = "integer" /\ IsWhole(w)
  <2>1. PICK k \in Int : num = den * k
    <3>1. num % den = 0
      BY <1>5 DEF IsWhole
    <3>2. num = den * (num \div den) /\ num \div den \in Int
      BY <1>1, <3>1, WholeQuotient
    <3> QED BY <3>2
  <2>2. b * num = den * (b * k) /\ b * k \in Int
    BY <1>1, <2>1
  <2>3. x = b * k
    BY <1>1, <1>3, <2>2, NearestIsUnique
  <2>4. x * den = num * b
    BY <1>1, <2>1, <2>3
  <2>5. AttrToBin(kind, x, w) = Truncated(num * b, num)
    BY <1>5, <2>4, AttrToBinIs
  <2> DEFINE t == Truncated(num * b, num)
  <2>6. /\ t \in Int
        /\ num * b >= 0 => num * t <= num * b /\ num * b < num * t + num
        /\ num * b < 0 => num * b <= num * t /\ num * t < num * b + num
    <3>1. num * b \in Int
      BY <1>1
    <3> QED BY <1>1, <3>1, TruncatedBounds
  <2> HIDE DEF t
  <2>7. num * t < num * b + num /\ num * b < num * t + num
    BY <1>1, <2>6
  <2>8. t <= b /\ b <= t
    BY <1>1, <2>6, <2>7, CancelLess
  <2> QED BY <1>1, <1>2, <2>5, <2>6, <2>8 DEF t
<1>6. CASE kind # "integer" \/ ~IsWhole(w)
  <2>1. IsNearest(AttrToBin(kind, x, w), x * den, num)
    BY <1>4, <1>6, NumericBins
  <2>2. 2 * (num * b) - num < 2 * (x * den) /\ 2 * (x * den) < 2 * (num * b) + num
    <3>1. CASE den < num
      BY <1>1, <1>3, <1>4, <3>1 DEF IsNearest
    <3>2. CASE den = num
      <4>1. x = b
        BY <1>1, <1>3, <1>4, <3>2, NearestIsUnique
      <4> QED BY <1>1, <1>4, <3>2, <4>1
    <3> QED BY <1>1, <3>1, <3>2
  <2> QED BY <1>1, <1>2, <1>4, <2>1, <2>2, NearestIsUnique
<1> QED BY <1>5, <1>6

\* A span of values cut into N has N + 1 bins where a quotient is cut off, for the ends
\* belong to it, and one more where it is rounded: both ends can be rounded outwards.
LEMMA BinsOfASpan ==
  ASSUME NEW kind \in NumericKinds, NEW w, IsWidth(w),
         NEW low \in Int, NEW high \in Int, w.num = high - low
  PROVE  AttrToBin(kind, high, w) - AttrToBin(kind, low, w)
           <= w.den + (IF kind = "integer" /\ IsWhole(w) THEN 0 ELSE 1)
<1> DEFINE N == w.den
           q == w.num
           r == AttrToBin(kind, low, w)
           s == AttrToBin(kind, high, w)
<1>1. N \in Int /\ q \in Int /\ q > 0 /\ N > 0
  BY DEF IsWidth
<1>2. low * N \in Int /\ high * N \in Int /\ high * N = low * N + q * N
  BY <1>1
<1>3. r \in Int /\ s \in Int
  BY NumericBins DEF IsNear
<1>4. CASE kind = "integer" /\ IsWhole(w)
  <2>1. r = Truncated(low * N, q) /\ s = Truncated(high * N, q)
    BY <1>4, AttrToBinIs
  <2>2. /\ low * N >= 0 => low * N < q * r + q
        /\ low * N < 0 => low * N <= q * r
        /\ high * N >= 0 => q * s <= high * N
        /\ high * N < 0 => q * s < high * N + q
    BY <1>1, <1>2, <2>1, TruncatedBounds
  <2> HIDE DEF r, s, N, q
  <2>3. q * N > 0
    BY <1>1
  <2>4. q * (r + N) = q * r + q * N
    BY <1>1, <1>3
  <2>5. q * s < q * (r + N) + q
    BY <1>1, <1>2, <1>3, <2>2, <2>3, <2>4
  <2>6. s <= r + N
    BY <1>1, <1>3, <2>5, CancelLess
  <2> QED BY <1>1, <1>3, <1>4, <2>6 DEF r, s, N
<1>5. CASE kind # "integer" \/ ~IsWhole(w)
  <2>1. IsNearest(r, low * N, q) /\ IsNearest(s, high * N, q)
    BY <1>5, NumericBins
  <2> HIDE DEF r, s, N, q
  <2>2. q * (r + N + 1) = q * r + q * N + q
    BY <1>1, <1>3
  <2>3. q * s < q * (r + N + 1) + q
    BY <1>1, <1>2, <1>3, <2>1, <2>2 DEF IsNearest
  <2>4. s <= r + N + 1
    BY <1>1, <1>3, <2>3, CancelLess
  <2> QED BY <1>1, <1>3, <1>5, <2>4 DEF r, s, N
<1> QED BY <1>4, <1>5

-----------------------------------------------------------------------------
(* Summaries. *)

BinsOf(kind, valueOf, w) == {AttrToBin(kind, valueOf[r], w) : r \in DOMAIN valueOf}

\* The bins of the rows, each once, in increasing order.
LEMMA BinsInOrderAre ==
  ASSUME NEW valueOf, IsFiniteSet(DOMAIN valueOf), \A r \in DOMAIN valueOf : valueOf[r] \in Int,
         NEW kind \in NumericKinds, NEW w, IsWidth(w)
  PROVE  LET bins == BinsInOrder(kind, valueOf, w)
             Bins == BinsOf(kind, valueOf, w)
         IN  /\ Bins \subseteq Int
             /\ Cardinality(Bins) \in Nat /\ DOMAIN bins = 1..Cardinality(Bins)
             /\ \A i \in DOMAIN bins : bins[i] \in Bins
             /\ \A i, j \in DOMAIN bins : i < j => bins[i] < bins[j]
             /\ \A b \in Bins : \E i \in DOMAIN bins : bins[i] = b
<1> DEFINE D == DOMAIN valueOf
           binOf == [r \in D |-> AttrToBin(kind, valueOf[r], w)]
           Bins == BinsOf(kind, valueOf, w)
           bins == BinsInOrder(kind, valueOf, w)
           R == {p \in Bins \X Bins : p[1] <= p[2]}
<1>1. Bins \subseteq Int
  BY NumericBins DEF IsNear, BinsOf
<1>2. IsFiniteSet(Bins)
  <2>1. Bins = {binOf[r] : r \in D}
    BY DEF BinsOf
  <2> HIDE DEF Bins, binOf
  <2> QED BY <2>1, FiniteImage
<1>3. OrdersTotally(R, Bins)
  <2> HIDE DEF Bins
  <2> QED BY <1>1 DEF OrdersTotally
<1>4. PICK s \in SetToSeqs(Bins) : IsInOrder(s, R)
  <2> HIDE DEF Bins, R
  <2> QED BY <1>2, <1>3, SequenceInOrder
<1>5. \A i, j \in DOMAIN s : i < j => s[i] < s[j]
  <2> HIDE DEF Bins
  <2> SUFFICES ASSUME NEW i \in DOMAIN s, NEW j \in DOMAIN s, i < j PROVE s[i] < s[j]
    OBVIOUS
  <2>1. s[i] <= s[j] /\ s[i] \in Int /\ s[j] \in Int
    BY <1>1, <1>4 DEF IsInOrder
  <2>2. s[i] # s[j]
    <3>1. i \in Int /\ i # j
      BY <1>2, SequenceOfAll
    <3> QED BY <1>2, <3>1, SequenceOfAll
  <2> QED BY <2>1, <2>2
<1>6. bins \in SetToSeqs(Bins) /\ \A i, j \in DOMAIN bins : i < j => bins[i] < bins[j]
  BY <1>5, Zenon DEF BinsInOrder, InOrder, BinsOf
<1> HIDE DEF Bins, bins
<1>7. /\ Cardinality(Bins) \in Nat /\ DOMAIN bins = 1..Cardinality(Bins)
      /\ \A i \in DOMAIN bins : bins[i] \in Bins
      /\ \A b \in Bins : \E i \in DOMAIN bins : bins[i] = b
  BY <1>2, <1>6, SequenceOfAll
<1> QED BY <1>1, <1>6, <1>7 DEF Bins, bins

SumOfCounts(s) == FoldLeft(LAMBDA sum, b : sum + b.cnt, 0, s)

TotalsParts(total, s, m) ==
  /\ total \in [SUBSET (1..m) -> Int] /\ total[{}] = 0
  /\ \A U \in SUBSET (1..m) : U # {} => total[U] = total[U \ {Max(U)}] + s[Max(U)].cnt

\* A sum over a sequence is what a total of its parts says: the total of no part is 0,
\* and the last of a part adds its own.
LEMMA SumIsTotal ==
  ASSUME NEW m \in Nat, NEW s, DOMAIN s = 1..m,
         NEW total, TotalsParts(total, s, m)
  PROVE  SumOfCounts(s) = total[1..m]
<1> DEFINE I == 1..m
           Step(f) == [U \in SUBSET (DOMAIN s) |-> IF U = {} THEN 0 ELSE f[U \ {Max(U)}] + s[Max(U)].cnt]
           fold == CHOOSE f : f = Step(f)
           Bad == {U \in SUBSET I : fold[U] # total[U]}
<1>1. SumOfCounts(s) = fold[DOMAIN s]
  BY Zenon DEF SumOfCounts, FoldLeft, MapThenFoldSet
<1>2. fold = Step(fold)
  <2>1. total = [U \in SUBSET (1..m) |-> total[U]]
    BY DEF TotalsParts
  <2>2. total = Step(total)
    BY <2>1 DEF TotalsParts
  <2> HIDE DEF Step
  <2> QED BY <2>2
<1> HIDE DEF fold
<1>3. Bad = {}
  <2> SUFFICES ASSUME Bad # {} PROVE FALSE
    OBVIOUS
  <2>1. PICK T \in Bad : \A U \in SUBSET T : U # T => U \notin Bad
    <3>1. IsFiniteSet(I) /\ Bad \in SUBSET SUBSET I
      BY FS_Interval
    <3> HIDE DEF Bad, I
    <3> QED BY <3>1, SmallestSubset
  <2>2. T # {}
    BY <1>2, <2>1 DEF TotalsParts
  <2>3. Max(T) \in T
    <3>1. IsFiniteSet(T) /\ T \in SUBSET Int
      BY <2>1, PartOfInterval
    <3> QED BY <2>2, <3>1, MaxIsGreatest
  <2>4. fold[T \ {Max(T)}] = total[T \ {Max(T)}]
    BY <2>1, <2>3
  <2>5. fold[T] = fold[T \ {Max(T)}] + s[Max(T)].cnt
    BY <1>2, <2>1, <2>2
  <2> QED BY <2>1, <2>2, <2>4, <2>5 DEF TotalsParts
<1> QED BY <1>1, <1>3

\* The statistics of a column are a histogram of whatever rows there are: each row is
\* counted in one bin, and the values of a bin lie above those of the bins before it.
THEOREM SummariesMakeHistogram ==
  ASSUME NEW valueOf, IsFiniteSet(DOMAIN valueOf), \A r \in DOMAIN valueOf : valueOf[r] \in Int,
         NEW w, IsWidth(w)
  PROVE  SummariesAreHistogram(valueOf, w)
<1> SUFFICES ASSUME NEW kind \in NumericKinds
             PROVE  LET s == BinSummaries(kind, valueOf, w)
                    IN  /\ SumOfCounts(s) = Cardinality(DOMAIN valueOf)
                        /\ \A i, j \in DOMAIN s : i < j => s[i].x2 < s[j].x1
  BY Zenon DEF SummariesAreHistogram, SumOfCounts
<1> DEFINE D == DOMAIN valueOf
           bin(r) == AttrToBin(kind, valueOf[r], w)
           bins == BinsInOrder(kind, valueOf, w)
           m == Cardinality(BinsOf(kind, valueOf, w))
           Rows(i) == {r \in D : bin(r) = bins[i]}
           Values(i) == {valueOf[r] : r \in Rows(i)}
           s == BinSummaries(kind, valueOf, w)
<1>1. /\ \A r \in D : bin(r) \in Int
      /\ m \in Nat /\ DOMAIN bins = 1..m
      /\ \A i \in 1..m : bins[i] \in Int /\ Rows(i) # {}
      /\ \A i, j \in 1..m : i < j => bins[i] < bins[j]
      /\ \A r \in D : \E i \in 1..m : bins[i] = bin(r)
  <2> DEFINE Bins == BinsOf(kind, valueOf, w)
  <2>1. /\ Bins \subseteq Int
        /\ m \in Nat /\ DOMAIN bins = 1..m
        /\ \A i \in DOMAIN bins : bins[i] \in Bins
        /\ \A i, j \in DOMAIN bins : i < j => bins[i] < bins[j]
        /\ \A b \in Bins : \E i \in DOMAIN bins : bins[i] = b
    BY BinsInOrderAre
  <2>2. Bins = {bin(r) : r \in D}
    BY DEF BinsOf
  <2> HIDE DEF bins, m, bin, Bins
  <2> QED BY <2>1, <2>2
<1>2. s = [i \in 1..m |-> [x1 |-> Min(Values(i)), x2 |-> Max(Values(i)), cnt |-> Cardinality(Rows(i))]]
  <2> HIDE DEF m
  <2> QED BY <1>1, Zenon DEF BinSummaries
<1>3. \A i \in 1..m : IsFiniteSet(Rows(i)) /\ IsFiniteSet(Values(i))
  <2> SUFFICES ASSUME NEW i \in 1..m PROVE IsFiniteSet(Rows(i)) /\ IsFiniteSet(Values(i))
    OBVIOUS
  <2>1. Rows(i) \in SUBSET D
    OBVIOUS
  <2> HIDE DEF Rows
  <2>2. IsFiniteSet(Rows(i))
    BY <2>1, FS_Subset
  <2> QED BY <2>2, FiniteImage
<1> HIDE DEF bin, bins, m, s
<1>4. ASSUME NEW i \in 1..m, NEW j \in 1..m, i < j
      PROVE  s[i].x2 < s[j].x1
  <2>1. Max(Values(i)) \in Values(i)
    <3>1. IsFiniteSet(Values(i)) /\ Values(i) \in SUBSET Int /\ Values(i) # {}
      BY <1>1, <1>3
    <3> QED BY <3>1, MaxIsGreatest
  <2>2. Min(Values(j)) \in Values(j)
    <3>1. IsFiniteSet(Values(j)) /\ Values(j) \in SUBSET Int /\ Values(j) # {}
      BY <1>1, <1>3
    <3> QED BY <3>1, MinIsLeast
  <2>3. PICK r \in Rows(i), t \in Rows(j) : s[i].x2 = valueOf[r] /\ s[j].x1 = valueOf[t]
    BY <1>2, <2>1, <2>2
  <2>4. bin(r) < bin(t)
    BY <1>1, <1>4
  <2>5. ~ valueOf[t] <= valueOf[r]
    BY <1>1, <2>4, NumericBins DEF bin
  <2> QED BY <2>3, <2>5
<1>5. SumOfCounts(s) = Cardinality(D)
  <2> DEFINE Under(U) == {r \in D : \E i \in U : bin(r) = bins[i]}
             total == [U \in SUBSET (1..m) |-> Cardinality(Under(U))]
  <2>1. Under({}) = {} /\ total[{}] = 0
    BY FS_EmptySet
  <2>2. Under(1..m) = D
    BY <1>1
  <2>3. ASSUME NEW U \in SUBSET (1..m), U # {}
        PROVE  total[U] = total[U \ {Max(U)}] + s[Max(U)].cnt
    <3> DEFINE x == Max(U)
    <3>1. x \in U
      <4>1. IsFiniteSet(U) /\ U \in SUBSET Int
        BY <1>1, PartOfInterval
      <4> QED BY <2>3, <4>1, MaxIsGreatest
    <3> HIDE DEF x
    <3>2. Under(U) = Under(U \ {x}) \cup Rows(x)
      BY <3>1
    <3>3. Under(U \ {x}) \cap Rows(x) = {}
      <4>1. ASSUME NEW i \in U \ {x} PROVE bins[i] # bins[x]
        <5>1. i \in 1..m /\ x \in 1..m /\ (i < x \/ x < i)
          BY <1>1, <3>1
        <5>2. bins[i] \in Int /\ bins[x] \in Int /\ (bins[i] < bins[x] \/ bins[x] < bins[i])
          BY <1>1, <5>1
        <5> QED BY <5>2
      <4> QED BY <4>1
    <3>4. IsFiniteSet(Under(U \ {x})) /\ IsFiniteSet(Rows(x))
      BY <1>3, <3>1, FS_Subset
    <3>5. Cardinality(Under(U)) = Cardinality(Under(U \ {x})) + Cardinality(Rows(x))
      <4> HIDE DEF Under, Rows
      <4> QED BY <3>2, <3>3, <3>4, DisjointParts
    <3>6. s[x].cnt = Cardinality(Rows(x))
      BY <1>2, <3>1
    <3> QED BY <3>5, <3>6 DEF x
  <2>4. DOMAIN s = 1..m /\ m \in Nat /\ total \in [SUBSET (1..m) -> Int]
    <3>1. \A U \in SUBSET (1..m) : Cardinality(Under(U)) \in Int
      BY FS_Subset, FS_CardinalityType
    <3> QED BY <1>1, <1>2, <3>1
  <2> HIDE DEF total
  <2>5. SumOfCounts(s) = total[1..m]
    <3>1. TotalsParts(total, s, m)
      BY <2>1, <2>3, <2>4 DEF TotalsParts
    <3> QED BY <2>4, <3>1, SumIsTotal
  <2> QED BY <2>2, <2>5 DEF total
<1> QED BY <1>2, <1>4, <1>5 DEF s

=============================================================================
