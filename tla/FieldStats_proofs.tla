-------------------------- MODULE FieldStats_proofs --------------------------
(***************************************************************************)
(* Proofs about FieldStats, for any number of clients, statistics, days,   *)
(* writes, failures and crashes.                                           *)
(***************************************************************************)
EXTENDS FieldStats, TLAPS

\* A row is either waiting for its statistics, dated in the year 3000, or holds
\* all the statistics of a compilation, dated no later than today; the client
\* that inserted it has got as far as saving.
RowsInOrder ==
  \A c \in Rows :
    /\ rows[c].stats = Blank => rows[c].stamp = Year3000
    /\ Saved(c) => Len(rows[c].stats) = NumStats /\ rows[c].stamp <= today
    /\ pc[c] \in {"save", "compiled", "dead"}

\* What a client holds at each point; it goes to load only once something has
\* been saved.
ClientsInOrder ==
  \A c \in Client :
    /\ pc[c] \in {"start", "check"} => stats[c] = << >>
    /\ pc[c] = "compile" => stats[c] \in Compiled /\ Len(stats[c]) < NumStats
    /\ pc[c] \in {"ensure", "save"} => stats[c] \in Compiled /\ Len(stats[c]) = NumStats
    /\ pc[c] = "load" => \E d \in Rows : Saved(d)

IInv ==
  /\ TypeOK
  /\ RowsInOrder
  /\ ClientsInOrder
  /\ SavedRowsAgree
  /\ BlankLoadNeedsTwoOthers

-----------------------------------------------------------------------------
\* A placeholder is a row.
LEMMA PlaceholderType == Placeholder \in Row /\ Placeholder # NoRow
BY ConstantsAssumption, MarkersAssumption DEF Placeholder, Row

\* So is what an update writes.
LEMMA UpdateType ==
  ASSUME NEW s \in Compiled, NEW day \in Nat
  PROVE  [stats |-> s, stamp |-> day] \in Row /\ [stats |-> s, stamp |-> day] # NoRow
BY MarkersAssumption DEF Row

\* One more statistic.
LEMMA AppendType ==
  ASSUME NEW s \in Compiled, NEW x \in Statistic
  PROVE  Append(s, x) \in Compiled /\ Len(Append(s, x)) = Len(s) + 1
BY DEF Compiled

-----------------------------------------------------------------------------
(* The statement of a client that reads leaves the rows, one that writes leaves *)
(* the statistics: the facts the steps share.                                   *)

\* Every step of a client moves that client alone.
LEMMA OthersStay ==
  ASSUME TypeOK, NEW c \in Client, Step(c) \/ Crash(c)
  PROVE  /\ pc' = [pc EXCEPT ![c] = pc'[c]]
         /\ \A d \in Client \ {c} : pc'[d] = pc[d] /\ stats'[d] = stats[d]
         /\ today' = today /\ version' = version
BY DEF TypeOK, Step, Start, Check, Compile, Ensure, Save, Load, Crash, Goto

\* A failure is counted, and the bound holds.
LEMMA FailuresBounded ==
  ASSUME TypeOK, NEW c \in Client, Step(c) \/ Crash(c)
  PROVE  failures' \in 0..MaxFailures
BY ConstantsAssumption
   DEF TypeOK, Step, Start, Check, Compile, Ensure, Save, Load, Crash, Fails, Succeeds

\* A row, once there, stays, and once saved stays saved: an insert adds the row
\* of a client that had none, an update writes complete statistics.
LEMMA SavedKept ==
  ASSUME IInv, NEW c \in Client, Step(c) \/ Crash(c), NEW d \in Rows
  PROVE  d \in Rows' /\ (Saved(d) => Saved(d)')
<1>0. TypeOK /\ d \in Client /\ rows[d] # NoRow /\ rows[d] \in Row
  BY DEF IInv, TypeOK, Rows
<1>1. CASE Ensure(c)
  <2>1. d # c
    BY <1>1 DEF Ensure, IInv, RowsInOrder
  <2>2. rows'[d] = rows[d]
    BY <1>0, <1>1, <2>1 DEF Ensure, Inserted, TypeOK
  <2> QED BY <1>0, <2>2 DEF Rows, Saved
<1>2. CASE Save(c)
  <2>1. stats[c] \in Compiled /\ stats[c] # Blank
    BY <1>2, MarkersAssumption DEF Save, IInv, ClientsInOrder
  <2>2. [stats |-> stats[c], stamp |-> today] # NoRow
    BY <1>0, <2>1, UpdateType DEF TypeOK
  <2>3. rows'[d] \in {rows[d], [stats |-> stats[c], stamp |-> today]}
    BY <1>0, <1>2 DEF Save, Updated
  <2> QED BY <1>0, <2>1, <2>2, <2>3 DEF Rows, Saved
<1>3. CASE rows' = rows
  BY <1>3 DEF Rows, Saved
<1> QED BY <1>1, <1>2, <1>3 DEF Step, Start, Check, Compile, Load, Crash

\* The other clients hold what they held.
LEMMA OthersInOrder ==
  ASSUME IInv, NEW c \in Client, Step(c) \/ Crash(c), NEW d \in Client \ {c}
  PROVE  /\ pc'[d] \in {"start", "check"} => stats'[d] = << >>
         /\ pc'[d] = "compile" => stats'[d] \in Compiled /\ Len(stats'[d]) < NumStats
         /\ pc'[d] \in {"ensure", "save"} =>
              stats'[d] \in Compiled /\ Len(stats'[d]) = NumStats
         /\ pc'[d] = "load" => \E e \in Rows' : Saved(e)'
         /\ pc'[d] = "loaded" /\ stats'[d] = Blank => \E e, f \in Rows' \ {d} : e # f
<1>1. pc'[d] = pc[d] /\ stats'[d] = stats[d]
  BY OthersStay DEF IInv
<1>2. \A e \in Rows : e \in Rows' /\ (Saved(e) => Saved(e)')
  BY SavedKept
<1> QED BY <1>1, <1>2 DEF IInv, ClientsInOrder, BlankLoadNeedsTwoOthers

\* A step that writes no row leaves the rows in order: a client that still reads
\* has inserted none.
LEMMA RowsUntouched ==
  ASSUME IInv, NEW c \in Client, Step(c) \/ Crash(c), rows' = rows
  PROVE  Rows' = Rows /\ RowsInOrder' /\ SavedRowsAgree'
<1>1. Rows' = Rows /\ \A d \in Rows : Saved(d)' <=> Saved(d)
  BY DEF Rows, Saved
<1>2. ASSUME NEW d \in Rows PROVE pc'[d] \in {"save", "compiled", "dead"}
  <2>1. d \in Client /\ pc[d] \in {"save", "compiled", "dead"}
    BY DEF IInv, RowsInOrder, Rows
  <2>2. CASE d # c
    BY <2>1, <2>2, OthersStay DEF IInv
  <2>3. CASE d = c
    BY <2>1, <2>3 DEF IInv, TypeOK, Step, Start, Check, Compile, Ensure, Save, Load,
                      Crash, Goto
  <2> QED BY <2>2, <2>3
<1>3. today' = today
  BY OthersStay DEF IInv
<1> QED BY <1>1, <1>2, <1>3 DEF IInv, RowsInOrder, SavedRowsAgree

-----------------------------------------------------------------------------
\* The inductive invariant holds throughout.
THEOREM Invariance == Spec => []IInv
<1> USE ConstantsAssumption
<1>1. Init => IInv
  BY MarkersAssumption
     DEF Init, IInv, TypeOK, Version, Compiled, RowsInOrder, ClientsInOrder,
         SavedRowsAgree, BlankLoadNeedsTwoOthers, Rows, Saved
<1>2. IInv /\ [Next]_vars => IInv'
  <2> SUFFICES ASSUME IInv, [Next]_vars PROVE IInv'
    OBVIOUS
  <2> TypeOK
    BY DEF IInv
  <2> DEFINE
        Mine(c) ==
          /\ pc'[c] \in {"start", "check"} => stats'[c] = << >>
          /\ pc'[c] = "compile" => stats'[c] \in Compiled /\ Len(stats'[c]) < NumStats
          /\ pc'[c] \in {"ensure", "save"} =>
               stats'[c] \in Compiled /\ Len(stats'[c]) = NumStats
          /\ pc'[c] = "load" => \E e \in Rows' : Saved(e)'
        MyLoad(c) ==
          pc'[c] = "loaded" /\ stats'[c] = Blank => \E e, f \in Rows' \ {c} : e # f
        Types(c) ==
          /\ pc' \in [Client -> {"start", "check", "compile", "ensure", "save", "load",
                                 "compiled", "loaded", "dead"}]
          /\ tableExists' \in BOOLEAN
  <2>1. ASSUME NEW c \in Client, Step(c) \/ Crash(c),
               rows' \in [Client -> Row \cup {NoRow}],
               stats' \in [Client -> Compiled \cup {Blank}],
               RowsInOrder', SavedRowsAgree', Mine(c), MyLoad(c)
        PROVE  IInv'
    <3>1. Types(c)
      BY <2>1 DEF TypeOK, Step, Start, Check, Compile, Ensure, Save, Load, Crash, Goto
    <3>2. failures' \in 0..MaxFailures /\ today' = today /\ version' = version
      BY <2>1, FailuresBounded, OthersStay
    <3>3. TypeOK'
      BY <2>1, <3>1, <3>2 DEF TypeOK
    <3>4. ClientsInOrder'
      BY <2>1, OthersInOrder DEF ClientsInOrder
    <3>5. BlankLoadNeedsTwoOthers'
      BY <2>1, OthersInOrder DEF BlankLoadNeedsTwoOthers
    <3> QED BY <2>1, <3>3, <3>4, <3>5 DEF IInv
  <2>2. ASSUME NEW c \in Client, Start(c) PROVE IInv'
    <3>1. pc[c] = "start" /\ pc'[c] = "check" /\ stats' = stats /\ rows' = rows
      BY <2>2 DEF Start, Goto, TypeOK
    <3>2. Mine(c) /\ MyLoad(c)
      BY <3>1 DEF IInv, ClientsInOrder
    <3> QED BY <2>1, <2>2, <3>1, <3>2, RowsUntouched DEF Step, TypeOK
  <2>3. ASSUME NEW c \in Client, Check(c) PROVE IInv'
    <3>1. /\ pc[c] = "check" /\ pc'[c] \in {"compile", "load"}
          /\ stats' = stats /\ rows' = rows /\ stats[c] = << >>
      BY <2>3 DEF Check, Goto, TypeOK, IInv, ClientsInOrder
    <3>2. pc'[c] = "compile" => stats'[c] \in Compiled /\ Len(stats'[c]) < NumStats
      BY <3>1 DEF Compiled
    <3>3. ASSUME pc'[c] = "load" PROVE \E e \in Rows' : Saved(e)'
      <4>1. PICK d \in Rows : Acceptable(rows[d])
        BY <2>3, <3>3 DEF Check, Goto, TypeOK
      <4>2. rows[d] \in Row /\ today \in 0..MaxDay
        BY DEF TypeOK, Rows
      <4>3. rows[d].stats # Blank
        BY <4>1, <4>2 DEF IInv, RowsInOrder, Acceptable, Row
      <4> QED BY <3>1, <4>3 DEF Saved, Rows
    <3>4. Mine(c) /\ MyLoad(c)
      BY <3>1, <3>2, <3>3
    <3> QED BY <2>1, <2>3, <3>1, <3>4, RowsUntouched DEF Step, TypeOK
  <2>4. ASSUME NEW c \in Client, Compile(c) PROVE IInv'
    <3>1. PICK x \in Statistic : stats' = [stats EXCEPT ![c] = Append(@, x)]
      BY <2>4 DEF Compile, TypeOK, Statistic
    <3>2. pc[c] = "compile" /\ stats[c] \in Compiled /\ Len(stats[c]) < NumStats
      BY <2>4 DEF Compile, IInv, ClientsInOrder
    <3>3. /\ stats'[c] \in Compiled
          /\ Len(stats'[c]) = Len(stats[c]) + 1
          /\ stats' \in [Client -> Compiled \cup {Blank}]
      BY <3>1, <3>2, AppendType DEF TypeOK
    <3>4. /\ pc'[c] = IF Len(stats[c]) + 1 < NumStats THEN "compile" ELSE "ensure"
          /\ rows' = rows
      BY <2>4 DEF Compile, Goto, TypeOK
    <3>5. Len(stats[c]) \in Nat
      BY <3>2 DEF Compiled
    <3>6. Mine(c) /\ MyLoad(c)
      BY <3>2, <3>3, <3>4, <3>5
    <3> QED BY <2>1, <2>4, <3>3, <3>4, <3>6, RowsUntouched DEF Step, TypeOK
  <2>5. ASSUME NEW c \in Client, Ensure(c) PROVE IInv'
    <3>1. /\ pc[c] = "ensure" /\ pc'[c] = "save" /\ stats' = stats /\ today' = today
          /\ stats[c] \in Compiled /\ Len(stats[c]) = NumStats
      BY <2>5 DEF Ensure, Goto, TypeOK, IInv, ClientsInOrder
    <3>2. rows' = rows \/ rows' = Inserted(c)
      BY <2>5 DEF Ensure
    <3>3. Mine(c) /\ MyLoad(c)
      BY <3>1
    <3>4. CASE rows' = rows
      BY <2>1, <2>5, <3>1, <3>3, <3>4, RowsUntouched DEF Step, TypeOK
    <3>5. CASE rows' = Inserted(c)
      <4>1. rows' \in [Client -> Row \cup {NoRow}]
        BY <3>5, PlaceholderType DEF Inserted, TypeOK
      <4>2. \A d \in Client : rows'[d] = IF d = c THEN Placeholder ELSE rows[d]
        BY <3>5 DEF Inserted, TypeOK
      <4>3. \A d \in Client \ {c} : pc'[d] = pc[d]
        BY <2>5, OthersStay DEF Step
      <4>4. \A d \in Rows' \ {c} : d \in Rows /\ rows'[d] = rows[d] /\ (Saved(d)' <=> Saved(d))
        BY <4>2 DEF Rows, Saved
      <4>5. ~Saved(c)' /\ rows'[c].stamp = Year3000
        BY <4>2 DEF Saved, Placeholder
      <4>6. RowsInOrder'
        <5>1. ASSUME NEW d \in Rows', d # c
              PROVE  /\ rows'[d].stats = Blank => rows'[d].stamp = Year3000
                     /\ Saved(d)' => /\ Len(rows'[d].stats) = NumStats
                                     /\ rows'[d].stamp <= today'
                     /\ pc'[d] \in {"save", "compiled", "dead"}
          BY <3>1, <4>3, <4>4, <5>1 DEF IInv, RowsInOrder, Rows
        <5> QED BY <3>1, <4>5, <5>1 DEF RowsInOrder
      <4>7. SavedRowsAgree'
        BY <4>4, <4>5 DEF IInv, SavedRowsAgree
      <4> QED BY <2>1, <2>5, <3>1, <3>3, <4>1, <4>6, <4>7 DEF Step, TypeOK
    <3> QED BY <3>2, <3>4, <3>5
  <2>6. ASSUME NEW c \in Client, Save(c) PROVE IInv'
    <3>1. /\ pc[c] = "save" /\ pc'[c] = "compiled" /\ stats' = stats /\ today' = today
          /\ stats[c] \in Compiled /\ Len(stats[c]) = NumStats
      BY <2>6 DEF Save, Goto, TypeOK, IInv, ClientsInOrder
    <3>2. rows' = rows \/ rows' = Updated(c)
      BY <2>6 DEF Save
    <3>3. Mine(c) /\ MyLoad(c)
      BY <3>1
    <3>4. CASE rows' = rows
      BY <2>1, <2>6, <3>1, <3>3, <3>4, RowsUntouched DEF Step, TypeOK
    <3>5. CASE rows' = Updated(c)
      <4> DEFINE row == [stats |-> stats[c], stamp |-> today]
      <4>1. row \in Row /\ row # NoRow /\ row.stats # Blank
        BY <3>1, UpdateType, MarkersAssumption DEF TypeOK
      <4>2. \A d \in Client : rows'[d] = IF d \in Rows THEN row ELSE NoRow
        BY <3>5 DEF Updated
      <4>3. rows' \in [Client -> Row \cup {NoRow}]
        BY <3>5, <4>1 DEF Updated
      <4>4. Rows' = Rows /\ \A d \in Rows : rows'[d] = row /\ Saved(d)'
        BY <4>1, <4>2 DEF Rows, Saved
      <4>5. \A d \in Rows : pc'[d] \in {"save", "compiled", "dead"}
        BY <2>6, <3>1, OthersStay DEF IInv, RowsInOrder, Rows, Step
      <4>6. RowsInOrder'
        BY <3>1, <4>1, <4>4, <4>5 DEF RowsInOrder, TypeOK
      <4>7. SavedRowsAgree'
        BY <4>4 DEF SavedRowsAgree
      <4> QED BY <2>1, <2>6, <3>1, <3>3, <4>3, <4>6, <4>7 DEF Step, TypeOK
    <3> QED BY <3>2, <3>4, <3>5
  <2>7. ASSUME NEW c \in Client, Load(c) PROVE IInv'
    <3>1. pc[c] = "load" /\ pc'[c] \in {"loaded", "dead"} /\ rows' = rows
      BY <2>7 DEF Load, Goto, TypeOK
    <3>2. \/ pc'[c] = "dead" /\ stats' = stats
          \/ \E d \in Rows : stats' = [stats EXCEPT ![c] = rows[d].stats]
      BY <2>7 DEF Load, Goto, TypeOK
    <3>3. stats' \in [Client -> Compiled \cup {Blank}]
      BY <3>2 DEF TypeOK, Rows, Row
    <3>4. ASSUME pc'[c] = "loaded", stats'[c] = Blank
          PROVE  \E e, f \in Rows' \ {c} : e # f
      <4>1. PICK d \in Rows : stats' = [stats EXCEPT ![c] = rows[d].stats]
        BY <3>2, <3>4
      <4>2. PICK e \in Rows : Saved(e)
        BY <3>1 DEF IInv, ClientsInOrder
      <4>3. rows[d].stats = Blank
        BY <3>4, <4>1 DEF TypeOK
      <4>4. c \notin Rows
        BY <3>1 DEF IInv, RowsInOrder
      <4>5. d # e
        BY <4>2, <4>3 DEF Saved
      <4> QED BY <2>7, <3>1, <4>1, <4>2, <4>4, <4>5 DEF Rows
    <3>5. Mine(c) /\ MyLoad(c)
      BY <3>1, <3>4
    <3> QED BY <2>1, <2>7, <3>1, <3>3, <3>5, RowsUntouched DEF Step, TypeOK
  <2>8. ASSUME NEW c \in Client, Crash(c) PROVE IInv'
    <3>1. pc'[c] = "dead" /\ rows' = rows /\ stats' = stats
      BY <2>8 DEF Crash, Goto, TypeOK
    <3> QED BY <2>1, <2>8, <3>1, RowsUntouched DEF TypeOK
  <2>9. CASE Write \/ NextDay \/ UNCHANGED vars
    <3>1. /\ UNCHANGED <<tableExists, rows, pc, stats, failures>>
          /\ today' \in 0..MaxDay /\ version' \in Version /\ today <= today'
      BY <2>9 DEF Write, NextDay, vars, TypeOK, Version
    <3>2. Rows' = Rows /\ \A d \in Rows : Saved(d)' <=> Saved(d)
      BY <3>1 DEF Rows, Saved
    <3>3. TypeOK'
      BY <3>1 DEF TypeOK
    <3>4. ASSUME NEW d \in Rows, Saved(d) PROVE rows[d].stamp <= today'
      <4>1. rows[d].stamp \in Nat /\ rows[d].stamp <= today
        BY <3>4 DEF TypeOK, Rows, Row, IInv, RowsInOrder
      <4> QED BY <3>1, <4>1 DEF TypeOK
    <3>5. RowsInOrder'
      BY <3>1, <3>2, <3>4 DEF IInv, RowsInOrder
    <3>6. ClientsInOrder' /\ SavedRowsAgree' /\ BlankLoadNeedsTwoOthers'
      BY <3>1, <3>2 DEF IInv, ClientsInOrder, SavedRowsAgree, BlankLoadNeedsTwoOthers
    <3> QED BY <3>3, <3>5, <3>6 DEF IInv
  <2> QED BY <2>2, <2>3, <2>4, <2>5, <2>6, <2>7, <2>8, <2>9 DEF Next, Step
<1> QED BY <1>1, <1>2, PTL DEF Spec

\* Rows, statistics and dates have their types (qcatfieldstats.cpp).
THEOREM TypeCorrect == Spec => []TypeOK
<1>1. IInv => TypeOK
  BY DEF IInv
<1> QED BY <1>1, Invariance, PTL

\* What cacheAcceptable accepts is complete, however clients overlapped, crashed
\* or failed, and however long ago the row was saved.
THEOREM AcceptableRowsAreSaved == Spec => []AcceptableIsSaved
<1>1. IInv => AcceptableIsSaved
  <2> SUFFICES ASSUME IInv, NEW c \in Rows, Acceptable(rows[c])
               PROVE  Saved(c) /\ Len(rows[c].stats) = NumStats
    BY DEF AcceptableIsSaved
  <2>1. rows[c] \in Row /\ today \in 0..MaxDay
    BY DEF IInv, TypeOK, Rows
  <2>2. rows[c].stats # Blank
    BY <2>1, ConstantsAssumption DEF IInv, RowsInOrder, Acceptable, Row
  <2> QED BY <2>2 DEF IInv, RowsInOrder, Saved
<1> QED BY <1>1, Invariance, PTL

\* All the rows of the field that hold statistics hold the same.
THEOREM SavedRowsDoAgree == Spec => []SavedRowsAgree
<1>1. IInv => SavedRowsAgree
  BY DEF IInv
<1> QED BY <1>1, Invariance, PTL

\* It takes two other clients to have an accepted cache load as blanks.
THEOREM BlankLoads == Spec => []BlankLoadNeedsTwoOthers
<1>1. IInv => BlankLoadNeedsTwoOthers
  BY DEF IInv
<1> QED BY <1>1, Invariance, PTL

\* No step blanks a row that was saved.
THEOREM SavedRowsStaySaved == Spec => SavedStaysSaved
<1>1. IInv /\ [Next]_vars => [\A c \in Rows : Saved(c) => Saved(c)']_vars
  <2> SUFFICES ASSUME IInv, Next, NEW d \in Rows, Saved(d) PROVE Saved(d)'
    OBVIOUS
  <2>1. CASE \E c \in Client : Step(c) \/ Crash(c)
    BY <2>1, SavedKept
  <2>2. CASE Write \/ NextDay
    BY <2>2 DEF Write, NextDay, Saved, Rows
  <2> QED BY <2>1, <2>2 DEF Next
<1> QED BY <1>1, Invariance, PTL DEF Spec, SavedStaysSaved

\* Once every row has its statistics no construction whose check is answered compiles
\* anew and adds a row.
THEOREM SavedRowsAreUsed == Spec => SavedIsUsed
<1> DEFINE Loads(c) ==
             Check(c) /\ UNCHANGED failures /\ Rows # {} /\ (\A d \in Rows : Saved(d)) =>
               pc'[c] = "load"
<1>1. IInv /\ [Next]_vars => [\A c \in Client : Loads(c)]_vars
  <2> SUFFICES ASSUME IInv, NEW c \in Client,
                      Check(c), UNCHANGED failures, Rows # {}, \A d \in Rows : Saved(d)
               PROVE  pc'[c] = "load"
    OBVIOUS
  <2>1. \A d \in Rows : Acceptable(rows[d])
    <3> SUFFICES ASSUME NEW d \in Rows PROVE Acceptable(rows[d])
      OBVIOUS
    <3>1. rows[d].stamp \in Nat /\ today \in Nat /\ rows[d].stamp <= today
      BY DEF IInv, TypeOK, RowsInOrder, Rows, Row
    <3> QED BY <3>1, ConstantsAssumption DEF Acceptable
  <2>2. ~Fails
    BY DEF IInv, TypeOK, Fails
  <2> QED BY <2>1, <2>2 DEF Check, Goto, IInv, TypeOK
<1> QED BY <1>1, Invariance, PTL DEF Spec, SavedIsUsed

-----------------------------------------------------------------------------
(* FieldStats implements StatsCache. *)

\* What the clients see saved is what any row with statistics holds.
SavedNowInOrder ==
  /\ \A d \in Rows : Saved(d) => SavedNow = rows[d].stats /\ SavedNow \in Compiled
  /\ (\A d \in Rows : ~Saved(d)) => SavedNow = NoRow

LEMMA SavedNowIs == IInv => SavedNowInOrder
<1> SUFFICES ASSUME IInv PROVE SavedNowInOrder
  OBVIOUS
<1>1. ASSUME NEW d \in Rows, Saved(d) PROVE SavedNow = rows[d].stats /\ SavedNow \in Compiled
  <2> DEFINE all == {rows[c].stats : c \in {e \in Rows : Saved(e)}}
  <2>1. all = {rows[d].stats}
    BY <1>1 DEF IInv, SavedRowsAgree
  <2>2. SavedNow = CHOOSE s \in all : TRUE
    BY <1>1 DEF SavedNow
  <2>3. SavedNow = rows[d].stats
    BY <2>1, <2>2
  <2>4. rows[d].stats \in Compiled
    BY <1>1 DEF IInv, TypeOK, Rows, Row, Saved
  <2> QED BY <2>3, <2>4
<1>2. ASSUME \A d \in Rows : ~Saved(d) PROVE SavedNow = NoRow
  BY <1>2 DEF SavedNow
<1> QED BY <1>1, <1>2 DEF SavedNowInOrder

\* It changes only with the rows that hold statistics.
LEMMA SavedNowStays ==
  ASSUME SavedNowInOrder, SavedNowInOrder', \A d \in Rows' : Saved(d)' => d \in Rows /\ rows'[d] = rows[d],
         \A d \in Rows : Saved(d) => d \in Rows' /\ rows'[d] = rows[d]
  PROVE  SavedNow' = SavedNow
<1>1. CASE \E d \in Rows : Saved(d)
  <2>1. PICK d \in Rows : Saved(d)
    BY <1>1
  <2>2. d \in Rows' /\ rows'[d] = rows[d] /\ Saved(d)'
    BY <2>1 DEF Saved
  <2>3. SavedNow = rows[d].stats
    BY <2>1 DEF SavedNowInOrder
  <2>4. SavedNow' = rows'[d].stats
    BY <2>2 DEF SavedNowInOrder
  <2> QED BY <2>2, <2>3, <2>4
<1>2. CASE \A d \in Rows : ~Saved(d)
  <2>1. \A d \in Rows' : ~Saved(d)'
    BY <1>2 DEF Saved
  <2> QED BY <1>2, <2>1 DEF SavedNow
<1> QED BY <1>1, <1>2

\* A construction that goes on, or dies, has given no answer.
LEMMA AnswersStay ==
  ASSUME TypeOK, NEW c \in Client, Step(c) \/ Crash(c),
         pc[c] \notin {"compiled", "loaded"}, pc'[c] \notin {"compiled", "loaded"}
  PROVE  Answers' = Answers
<1>1. \A d \in Client \ {c} : pc'[d] = pc[d] /\ stats'[d] = stats[d]
  BY OthersStay
<1>2. \A d \in Client :
        (IF pc'[d] \in {"compiled", "loaded"}
         THEN [how |-> pc'[d], stats |-> stats'[d]] ELSE NoRow)
          = (IF pc[d] \in {"compiled", "loaded"}
             THEN [how |-> pc[d], stats |-> stats[d]] ELSE NoRow)
  BY <1>1
<1> QED BY <1>2 DEF Answers

\* One that ends gives its answer.
LEMMA AnswerGiven ==
  ASSUME TypeOK, NEW c \in Client, Step(c) \/ Crash(c),
         pc[c] \notin {"compiled", "loaded"}, pc'[c] \in {"compiled", "loaded"}
  PROVE  Cache!Answer(c, pc'[c], stats'[c])
<1>1. \A d \in Client \ {c} : pc'[d] = pc[d] /\ stats'[d] = stats[d]
  BY OthersStay
<1>2. Answers[c] = NoRow
  BY DEF Answers
<1>3. Answers' = [Answers EXCEPT ![c] = [how |-> pc'[c], stats |-> stats'[c]]]
  BY <1>1 DEF Answers
<1> QED BY <1>2, <1>3 DEF Cache!Answer

\* To those who ask for statistics, any number of rows, clients, failures and
\* crashes look like one saved compilation.
THEOREM CacheIsImplemented == Spec => CacheImplemented
<1>1. Init => Cache!Init
  <2> SUFFICES ASSUME Init PROVE Cache!Init
    OBVIOUS
  <2>1. SavedNow = NoRow
    BY DEF Init, SavedNow, Rows
  <2>2. Answers = [c \in Client |-> NoRow]
    BY DEF Init, Answers
  <2> QED BY <2>1, <2>2 DEF Cache!Init
<1>2. IInv /\ SavedNowInOrder /\ SavedNowInOrder' /\ [Next]_vars => [Cache!Next]_<<SavedNow, Answers>>
  <2> SUFFICES ASSUME IInv, SavedNowInOrder, SavedNowInOrder', [Next]_vars
               PROVE  Cache!Next \/ UNCHANGED <<SavedNow, Answers>>
    OBVIOUS
  <2> TypeOK
    BY DEF IInv
  <2> USE DEF Step
  <2>1. ASSUME NEW c \in Client, Start(c) \/ Check(c) \/ Compile(c) \/ Crash(c)
        PROVE  UNCHANGED <<SavedNow, Answers>>
    <3>1. rows' = rows
      BY <2>1 DEF Start, Check, Compile, Crash
    <3>2. SavedNow' = SavedNow
      BY <3>1 DEF SavedNow, Saved, Rows
    <3>3. pc[c] \notin {"compiled", "loaded"} /\ pc'[c] \notin {"compiled", "loaded"}
      BY <2>1 DEF Start, Check, Compile, Crash, Goto, TypeOK
    <3> QED BY <2>1, <3>2, <3>3, AnswersStay
  <2>2. ASSUME NEW c \in Client, Ensure(c) PROVE UNCHANGED <<SavedNow, Answers>>
    <3>1. pc[c] = "ensure" /\ pc'[c] = "save"
      BY <2>2 DEF Ensure, Goto, TypeOK
    <3>2. c \notin Rows
      BY <3>1 DEF IInv, RowsInOrder
    <3>3. rows' = rows \/ rows' = [rows EXCEPT ![c] = Placeholder]
      BY <2>2 DEF Ensure, Inserted
    <3>4. \A d \in Client \ {c} : rows'[d] = rows[d]
      BY <3>3 DEF TypeOK
    <3>5. c \in Rows' => ~Saved(c)'
      BY <3>2, <3>3 DEF Saved, Rows, Placeholder, TypeOK
    <3>6. SavedNow' = SavedNow
      BY <3>2, <3>4, <3>5, SavedNowStays DEF Rows
    <3> QED BY <2>2, <3>1, <3>6, AnswersStay
  <2>3. ASSUME NEW c \in Client, Save(c) PROVE Cache!Next
    <3> DEFINE s == stats[c]
    <3>1. /\ pc[c] = "save" /\ pc'[c] = "compiled" /\ stats' = stats
          /\ s \in Compiled /\ Len(s) = NumStats
      BY <2>3 DEF Save, Goto, TypeOK, IInv, ClientsInOrder
    <3>2. s \in Cache!Compilation
      BY <3>1 DEF Compiled, Cache!Compilation
    <3>3. Cache!Answer(c, "compiled", s)
      BY <2>3, <3>1, AnswerGiven
    <3>4. SavedNow' \in {SavedNow, s}
      <4>1. CASE rows' = rows
        BY <4>1 DEF SavedNow, Saved, Rows
      <4>2. CASE rows' = Updated(c)
        <5>1. [stats |-> s, stamp |-> today] # NoRow /\ s # Blank
          BY <3>1, UpdateType, MarkersAssumption DEF TypeOK
        <5>2. \A d \in Client :
                rows'[d] = IF d \in Rows THEN [stats |-> s, stamp |-> today] ELSE NoRow
          BY <4>2 DEF Updated
        <5>3. Rows' = Rows /\ \A d \in Rows' : Saved(d)' /\ rows'[d].stats = s
          BY <5>1, <5>2 DEF Rows, Saved
        <5>4. CASE Rows = {}
          BY <5>3, <5>4 DEF SavedNow
        <5>5. CASE Rows # {}
          BY <5>3, <5>5 DEF SavedNowInOrder
        <5> QED BY <5>4, <5>5
      <4> QED BY <2>3, <4>1, <4>2 DEF Save
    <3> QED BY <3>2, <3>3, <3>4 DEF Cache!Next, Cache!Compiled
  <2>4. ASSUME NEW c \in Client, Load(c) PROVE Cache!Next \/ UNCHANGED <<SavedNow, Answers>>
    <3>1. rows' = rows /\ pc[c] = "load" /\ pc'[c] \in {"loaded", "dead"}
      BY <2>4 DEF Load, Goto, TypeOK
    <3>2. SavedNow' = SavedNow
      BY <3>1 DEF SavedNow, Saved, Rows
    <3>3. CASE pc'[c] = "dead"
      BY <2>4, <3>1, <3>2, <3>3, AnswersStay
    <3>4. CASE pc'[c] = "loaded"
      <4>1. PICK d \in Rows : stats' = [stats EXCEPT ![c] = rows[d].stats]
        BY <2>4, <3>4 DEF Load, Goto, TypeOK
      <4>2. stats'[c] = rows[d].stats
        BY <4>1 DEF TypeOK
      <4>3. PICK e \in Rows : Saved(e)
        BY <3>1 DEF IInv, ClientsInOrder
      <4>4. SavedNow # NoRow
        BY <4>3, MarkersAssumption DEF SavedNowInOrder
      <4>5. stats'[c] \in {SavedNow, Blank}
        BY <4>2 DEF Saved, SavedNowInOrder
      <4>6. Cache!Answer(c, "loaded", stats'[c])
        BY <2>4, <3>1, <3>4, AnswerGiven
      <4>7. Cache!Cached(c)
        BY <3>2, <4>4, <4>5, <4>6 DEF Cache!Cached
      <4> QED BY <4>7 DEF Cache!Next
    <3> QED BY <3>1, <3>3, <3>4
  <2>5. CASE Write \/ NextDay \/ UNCHANGED vars
    <3>1. UNCHANGED <<rows, pc, stats>>
      BY <2>5 DEF Write, NextDay, vars
    <3> QED BY <3>1 DEF SavedNow, Saved, Rows, Answers
  <2> QED BY <2>1, <2>2, <2>3, <2>4, <2>5 DEF Next
<1> QED BY <1>1, <1>2, Invariance, SavedNowIs, PTL DEF Spec, CacheImplemented, Cache!Spec

=============================================================================
