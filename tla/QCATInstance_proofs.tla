------------------------- MODULE QCATInstance_proofs -------------------------
(***************************************************************************)
(* Proofs about QCATInstance, for every set of names, types, strategies    *)
(* and constants.                                                          *)
(***************************************************************************)
EXTENDS QCATInstance, FiniteSetTheorems, TLAPS

-----------------------------------------------------------------------------
(* What the operators on attributes and conditions return. *)

\* A default width is a number.
LEMMA DefaultWidthType == \A n : DefaultWidth(n) \in Nat
BY DEF DefaultWidth

\* A freshly made attribute is an attribute: a null bin marks an unknown name.
LEMMA NewAttrType == \A n \in Name : NewAttr(n) \in Attr
BY DefaultWidthType, SMT DEF NewAttr, Attr

\* So is the condition syncWithSpec makes a condition.
LEMMA NewCondType == \A n \in Name : NewCond(n) \in Cond
BY NewAttrType, SMT DEF NewCond, Cond, Op, Text

\* The width a strategy gives is a number, whatever the exact width was.
LEMMA StrategyWidthType ==
  ASSUME NEW s \in Strategy, NEW n PROVE StrategyWidth(s, n) \in Nat
<1>1. s \in StrategyShape
  BY ConstantsAssumption
<1>2. CASE s.kind = "exact"
  <2>1. s.halves \in Nat
    BY <1>1, <1>2 DEF StrategyShape
  <2> QED BY <1>2, <2>1 DEF StrategyWidth
<1>3. CASE s.kind # "exact"
  BY <1>3 DEF StrategyWidth
<1> QED BY <1>2, <1>3

\* Applying a strategy to an attribute gives an attribute.
LEMMA WithStrategyType ==
  ASSUME NEW attr \in Attr, NEW s \in Strategy, NEW n
  PROVE  WithStrategy(attr, s, n) \in Attr
BY StrategyWidthType DEF WithStrategy, Attr

\* What erasing leaves of a map is a subset of the stale entries.
LEMMA ErasedSubset ==
  ASSUME NEW stale, NEW gone \in Erased(stale) PROVE gone \subseteq stale
BY DEF Erased

-----------------------------------------------------------------------------
(* The shapes of the steps: every edit of the specification is an EditSpec   *)
(* or the death of removeConditional, every bin strategy a Rebinned.          *)

LEMMA EditShape ==
  ASSUME TypeOK, Edit
  PROVE  \/ \E sv, sc \in SUBSET Name : EditSpec(sv, sc)
         \/ /\ \E n \in CondNames : ~OK(conds[n].lhs)
            /\ status' = "removeConditional"
            /\ UNCHANGED <<specVons, specConds, vons, conds, binStrategy, method, summary>>
<1>1. specVons \in SUBSET Name /\ specConds \in SUBSET Name
  BY DEF TypeOK
<1>2. CASE \E sv, sc \in SUBSET Name : SetSpec(sv, sc)
  BY <1>2 DEF SetSpec
<1>3. CASE \E n \in Name : AddVON(n) \/ RemoveVON(n)
  <2> PICK n \in Name : AddVON(n) \/ RemoveVON(n)
    BY <1>3
  <2>1. specVons \cup {n} \in SUBSET Name /\ specVons \ {n} \in SUBSET Name
    BY <1>1
  <2> QED BY <1>1, <2>1 DEF AddVON, RemoveVON
<1>4. CASE \E n \in Name : AddConditional(n) \/ RemoveConditional(n)
  <2> PICK n \in Name : AddConditional(n) \/ RemoveConditional(n)
    BY <1>4
  <2>1. specConds \cup {n} \in SUBSET Name /\ specConds \ {n} \in SUBSET Name
    BY <1>1
  <2> QED BY <1>1, <2>1 DEF AddConditional, RemoveConditional
<1>5. CASE ClearVONs
  BY <1>1, <1>5 DEF ClearVONs
<1>6. CASE ClearConditions
  BY <1>1, <1>6 DEF ClearConditions
<1> QED BY <1>2, <1>3, <1>4, <1>5, <1>6 DEF Edit

\* Whether it succeeds, throws or dies, setBinStrategy has applied the strategy
\* to some of the attributes; it dies only of a null bin.
LEMMA SetBinStrategyShape ==
  ASSUME NEW s, NEW override \in BOOLEAN, SetBinStrategy(s, override)
  PROVE  /\ \E names \in SUBSET (VonNames \cup CondNames) : Rebinned(names, s)
         /\ \/ status' = status
            \/ /\ \E n \in VonNames \cup CondNames : ~OK(Attribute(n))
               /\ status' = "setBinStrategy"
         /\ binStrategy' = s
         /\ UNCHANGED <<specVons, specConds, method, summary>>
<1> DEFINE visited == {n \in VonNames \cup CondNames :
                         override \/ ~HasBinStrategy(Attribute(n))}
           failing == {n \in visited : ~OK(Attribute(n)) \/ Throws(s, n)}
<1>1. /\ binStrategy' = s
      /\ UNCHANGED <<specVons, specConds, method, summary>>
  BY DEF SetBinStrategy
<1>2. \/ failing = {} /\ Rebinned(visited, s) /\ UNCHANGED status
      \/ \E first \in failing, before \in SUBSET (visited \ failing) :
           /\ Rebinned(before \cup {first}, s)
           /\ status' = IF OK(Attribute(first)) THEN status ELSE "setBinStrategy"
  BY DEF SetBinStrategy
<1>3. visited \subseteq VonNames \cup CondNames /\ failing \subseteq visited
  OBVIOUS
<1> HIDE DEF visited, failing
<1>4. CASE Rebinned(visited, s) /\ UNCHANGED status
  BY <1>1, <1>3, <1>4
<1>5. ASSUME NEW first \in failing, NEW before \in SUBSET (visited \ failing),
             Rebinned(before \cup {first}, s),
             status' = IF OK(Attribute(first)) THEN status ELSE "setBinStrategy"
      PROVE  /\ \E names \in SUBSET (VonNames \cup CondNames) : Rebinned(names, s)
             /\ \/ status' = status
                \/ /\ \E n \in VonNames \cup CondNames : ~OK(Attribute(n))
                   /\ status' = "setBinStrategy"
  <2>1. before \cup {first} \in SUBSET (VonNames \cup CondNames)
    BY <1>3
  <2>2. first \in VonNames \cup CondNames
    BY <1>3
  <2> QED BY <1>5, <2>1, <2>2
<1> QED BY <1>1, <1>2, <1>4, <1>5

-----------------------------------------------------------------------------
(* Type correctness. *)

\* Both outcomes of an edit keep the types.
LEMMA EditSpecType ==
  ASSUME TypeOK, status = "alive",
         NEW sv \in SUBSET Name, NEW sc \in SUBSET Name, EditSpec(sv, sc)
  PROVE  TypeOK'
<1>1. CASE /\ specVons' = sv /\ specConds' = sc /\ SyncWithSpec(sv, sc)
           /\ UNCHANGED <<binStrategy, method, summary, status>>
  <2>1. FilledVons(sv) \in [Name -> Attr \cup {Absent}]
    BY NewAttrType DEF FilledVons, TypeOK
  <2>2. FilledConds(sc) \in [Name -> Cond \cup {Absent}]
    BY NewCondType DEF FilledConds, TypeOK
  <2>3. vons' \in [Name -> Attr \cup {Absent}]
    BY <1>1, <2>1 DEF SyncWithSpec, Without
  <2>4. conds' \in [Name -> Cond \cup {Absent}]
    BY <1>1, <2>2 DEF SyncWithSpec, Without
  <2> QED BY <1>1, <2>3, <2>4 DEF TypeOK
<1>2. CASE /\ status' = "syncWithSpec"
           /\ UNCHANGED <<specVons, specConds, vons, conds, binStrategy, method, summary>>
  BY <1>2 DEF TypeOK
<1> QED BY <1>1, <1>2 DEF EditSpec

\* Applying a strategy to any of the attributes keeps the types of the maps.
LEMMA RebinnedType ==
  ASSUME TypeOK, NEW s \in Strategy, NEW names \in SUBSET (VonNames \cup CondNames),
         Rebinned(names, s)
  PROVE  /\ vons' \in [Name -> Attr \cup {Absent}]
         /\ conds' \in [Name -> Cond \cup {Absent}]
<1>1. ASSUME NEW n \in names \ CondNames
      PROVE  WithStrategy(vons[n], s, n) \in Attr
  <2>1. vons[n] \in Attr
    BY <1>1 DEF TypeOK, VonNames, CondNames
  <2> QED BY <2>1, WithStrategyType
<1>2. ASSUME NEW n \in names \cap CondNames
      PROVE  [conds[n] EXCEPT !.lhs = WithStrategy(@, s, n)] \in Cond
  <2>1. conds[n] \in Cond
    BY <1>2 DEF TypeOK, CondNames
  <2>2. conds[n].lhs \in Attr
    BY <2>1 DEF Cond
  <2>3. WithStrategy(conds[n].lhs, s, n) \in Attr
    BY <2>2, WithStrategyType
  <2> QED BY <2>1, <2>3 DEF Cond
<1>3. vons' \in [Name -> Attr \cup {Absent}]
  BY <1>1 DEF Rebinned, TypeOK
<1>4. conds' \in [Name -> Cond \cup {Absent}]
  BY <1>2 DEF Rebinned, TypeOK
<1> QED BY <1>3, <1>4

\* TypeOK holds throughout: no sequence of calls, erasures or failures stores
\* anything but attributes and conditions in the maps.
THEOREM TypeCorrect == Spec => []TypeOK
<1>1. Init => TypeOK
  BY NewAttrType, NewCondType DEF Init, TypeOK
<1>2. TypeOK /\ [Next]_vars => TypeOK'
  <2> SUFFICES ASSUME TypeOK, [Next]_vars PROVE TypeOK'
    OBVIOUS
  <2>1. CASE UNCHANGED vars
    BY <2>1 DEF vars, TypeOK
  <2>2. CASE status = "alive" /\ Edit
    <3>1. CASE \E sv, sc \in SUBSET Name : EditSpec(sv, sc)
      BY <2>2, <3>1, EditSpecType
    <3>2. CASE /\ status' = "removeConditional"
               /\ UNCHANGED <<specVons, specConds, vons, conds, binStrategy, method, summary>>
      BY <3>2 DEF TypeOK
    <3> QED BY <2>2, <3>1, <3>2, EditShape
  <2>3. ASSUME NEW n \in Name, NEW op \in UsedOp, NEW a \in Text, NEW b \in Text,
               FixConditional(n, op, a, b)
        PROVE  TypeOK'
    <3>1. op \in Op
      BY ConstantsAssumption
    <3>2. [lhs |-> NewAttr(n), op |-> op, a |-> a, b |-> b] \in Cond
      BY <3>1, NewAttrType DEF Cond
    <3> QED BY <2>3, <3>2 DEF FixConditional, TypeOK
  <2>4. ASSUME NEW s \in Strategy, NEW override \in BOOLEAN,
               SetBinStrategy(s, override)
        PROVE  TypeOK'
    <3>1. PICK names \in SUBSET (VonNames \cup CondNames) : Rebinned(names, s)
      BY <2>4, SetBinStrategyShape
    <3>2. /\ vons' \in [Name -> Attr \cup {Absent}]
          /\ conds' \in [Name -> Cond \cup {Absent}]
      BY <3>1, RebinnedType
    <3> QED BY <2>4, <3>2, SetBinStrategyShape DEF TypeOK
  <2>5. CASE \E m \in {"client", "server"} : SetExecutionMethod(m)
    BY <2>5 DEF SetExecutionMethod, TypeOK
  <2>6. CASE Execute
    <3>1. NotRun \in Summary
      BY DEF NotRun, Summary
    <3>2. \A ran, valid \in BOOLEAN : Outcome(ran, valid) \in Summary
      BY DEF Outcome, Summary
    <3>3. summary' \in Summary
      BY <2>6, <3>1, <3>2 DEF Execute
    <3>4. status' \in {status, "execute"}
      BY <2>6 DEF Execute
    <3>5. UNCHANGED <<specVons, specConds, vons, conds, binStrategy, method>>
      BY <2>6 DEF Execute
    <3> QED BY <3>3, <3>4, <3>5 DEF TypeOK
  <2>7. CASE ToString
    BY <2>7 DEF ToString, TypeOK
  <2> QED BY <2>1, <2>2, <2>3, <2>4, <2>5, <2>6, <2>7 DEF Next
<1> QED BY <1>1, <1>2, PTL DEF Spec

-----------------------------------------------------------------------------
(* The safety invariants.  Together with the types they are inductive: that  *)
(* execute never meets a null bin rests on null bins being those of unknown  *)
(* names, and that no name of the specification is missing from the maps on  *)
(* what a synchronisation may erase.                                          *)

IInv ==
  /\ TypeOK
  /\ SpecIsInstantiated
  /\ BinsFollowStrategy
  /\ ExecuteIsGuarded
  /\ OnlyUnknownNamesKill

\* A new attribute has the default bin, if its name is a field.
LEMMA NewAttrFollows == \A n \in Name : FollowsStrategy(NewAttr(n), n)
<1> TAKE n \in Name
<1>1. DefaultWidth(n) # NoBin
  BY DefaultWidthType, ConstantsAssumption
<1> QED BY <1>1 DEF NewAttr, FollowsStrategy, OK

\* Applying a strategy to an attribute in order leaves it in order.
LEMMA WithStrategyFollows ==
  ASSUME NEW n \in Name, NEW attr \in Attr, NEW s \in Strategy,
         FollowsStrategy(attr, n)
  PROVE  FollowsStrategy(WithStrategy(attr, s, n), n)
<1>1. /\ StrategyWidth(s, n) # NoBin
      /\ DefaultWidth(n) # NoBin
      /\ \A t \in Strategy : StrategyWidth(t, n) # NoBin
  BY StrategyWidthType, DefaultWidthType, ConstantsAssumption
<1>2. CASE n \notin Field
  BY <1>2 DEF WithStrategy, FollowsStrategy, OK
<1>3. CASE n \in Field /\ ~Throws(s, n)
  BY <1>3 DEF WithStrategy, FollowsStrategy
<1>4. CASE n \in Field /\ Throws(s, n)
  <2>1. OK(attr)
    BY <1>1, <1>4 DEF FollowsStrategy, OK
  <2> QED BY <1>4, <2>1 DEF WithStrategy, FollowsStrategy, OK
<1> QED BY <1>2, <1>3, <1>4

\* What a surviving edit makes of the maps: an entry is kept, new or gone, and
\* it is not gone when the specification has its name.
LEMMA EditSpecMaps ==
  ASSUME TypeOK, NEW sv \in SUBSET Name, NEW sc \in SUBSET Name,
         SyncWithSpec(sv, sc), NEW n \in Name
  PROVE  /\ vons'[n] \in {Absent, vons[n], NewAttr(n)}
         /\ conds'[n] \in {Absent, conds[n], NewCond(n)}
         /\ n \in sv => vons'[n] # Absent
         /\ n \in sc => conds'[n] # Absent
<1>1. NewAttr(n) # Absent /\ NewCond(n) # Absent
  BY NewAttrType, NewCondType, AbsentAssumption
<1>2. PICK gone \in Erased(VonNames \ sv) : vons' = Without(FilledVons(sv), gone)
  BY DEF SyncWithSpec
<1>3. PICK out \in Erased(CondNames \ sc) : conds' = Without(FilledConds(sc), out)
  BY DEF SyncWithSpec
<1>4. gone \subseteq VonNames \ sv /\ out \subseteq CondNames \ sc
  BY <1>2, <1>3, ErasedSubset
<1> QED BY <1>1, <1>2, <1>3, <1>4 DEF Without, FilledVons, FilledConds

\* An edit keeps the invariant.
LEMMA EditSpecInv ==
  ASSUME IInv, status = "alive",
         NEW sv \in SUBSET Name, NEW sc \in SUBSET Name, EditSpec(sv, sc)
  PROVE  SpecIsInstantiated' /\ BinsFollowStrategy'
         /\ ExecuteIsGuarded' /\ OnlyUnknownNamesKill'
<1>1. CASE /\ specVons' = sv /\ specConds' = sc /\ SyncWithSpec(sv, sc)
           /\ UNCHANGED <<binStrategy, method, summary, status>>
  <2>1. SpecIsInstantiated'
    BY <1>1, EditSpecMaps DEF IInv, SpecIsInstantiated, VonNames, CondNames
  <2>2. ASSUME NEW n \in VonNames' PROVE FollowsStrategy(vons'[n], n)
    BY <1>1, <2>2, EditSpecMaps, NewAttrFollows
       DEF IInv, BinsFollowStrategy, VonNames
  <2>3. ASSUME NEW n \in CondNames' PROVE FollowsStrategy(conds'[n].lhs, n)
    <3>1. conds'[n] \in {conds[n], NewCond(n)}
      BY <1>1, <2>3, EditSpecMaps DEF IInv, CondNames
    <3>2. CASE conds'[n] = conds[n]
      BY <2>3, <3>2 DEF IInv, BinsFollowStrategy, CondNames
    <3>3. CASE conds'[n] = NewCond(n)
      BY <2>3, <3>3, NewAttrFollows DEF NewCond, CondNames
    <3> QED BY <3>1, <3>2, <3>3
  <2>4. BinsFollowStrategy'
    BY <2>2, <2>3 DEF BinsFollowStrategy
  <2> QED BY <1>1, <2>1, <2>4 DEF ExecuteIsGuarded, OnlyUnknownNamesKill
<1>2. CASE /\ status' = "syncWithSpec"
           /\ UNCHANGED <<specVons, specConds, vons, conds, binStrategy, method, summary>>
  BY <1>2 DEF IInv, SpecIsInstantiated, BinsFollowStrategy, ExecuteIsGuarded,
              OnlyUnknownNamesKill, VonNames, CondNames
<1> QED BY <1>1, <1>2 DEF EditSpec

\* Applying a strategy to some attributes keeps the maps' names and their order.
LEMMA RebinnedInv ==
  ASSUME TypeOK, BinsFollowStrategy, NEW s \in Strategy,
         NEW names \in SUBSET (VonNames \cup CondNames), Rebinned(names, s)
  PROVE  VonNames' = VonNames /\ CondNames' = CondNames /\ BinsFollowStrategy'
<1>1. ASSUME NEW n \in VonNames
      PROVE  vons'[n] # Absent /\ FollowsStrategy(vons'[n], n)
  <2>1. vons[n] \in Attr /\ n \in Name /\ FollowsStrategy(vons[n], n)
    BY <1>1 DEF TypeOK, VonNames, BinsFollowStrategy
  <2>2. vons'[n] \in {vons[n], WithStrategy(vons[n], s, n)}
    BY <2>1 DEF Rebinned
  <2>3. WithStrategy(vons[n], s, n) # Absent
    BY <2>1, WithStrategyType, AbsentAssumption
  <2>4. FollowsStrategy(WithStrategy(vons[n], s, n), n)
    BY <2>1, WithStrategyFollows
  <2> QED BY <1>1, <2>1, <2>2, <2>3, <2>4 DEF VonNames
<1>2. ASSUME NEW n \in CondNames
      PROVE  conds'[n] # Absent /\ FollowsStrategy(conds'[n].lhs, n)
  <2>1. conds[n] \in Cond /\ n \in Name /\ FollowsStrategy(conds[n].lhs, n)
    BY <1>2 DEF TypeOK, CondNames, BinsFollowStrategy
  <2>2. conds[n].lhs \in Attr
    BY <2>1 DEF Cond
  <2> DEFINE new == [conds[n] EXCEPT !.lhs = WithStrategy(@, s, n)]
  <2>3. WithStrategy(conds[n].lhs, s, n) \in Attr
        /\ FollowsStrategy(WithStrategy(conds[n].lhs, s, n), n)
    BY <2>1, <2>2, WithStrategyType, WithStrategyFollows
  <2>4. new \in Cond /\ new.lhs = WithStrategy(conds[n].lhs, s, n)
    BY <2>1, <2>3 DEF Cond
  <2>5. conds'[n] \in {conds[n], new}
    BY <2>1 DEF Rebinned
  <2>6. new # Absent
    BY <2>4, AbsentAssumption
  <2> HIDE DEF new
  <2> QED BY <1>2, <2>1, <2>3, <2>4, <2>5, <2>6 DEF CondNames
<1>3. ASSUME NEW n \in Name
      PROVE  /\ vons[n] = Absent => vons'[n] = Absent
             /\ conds[n] = Absent => conds'[n] = Absent
  BY DEF Rebinned, VonNames, CondNames
<1>4. VonNames' = VonNames /\ CondNames' = CondNames
  BY <1>1, <1>2, <1>3 DEF VonNames, CondNames
<1> QED BY <1>1, <1>2, <1>4 DEF BinsFollowStrategy

\* The inductive invariant holds in every state of every behaviour.
THEOREM Invariance == Spec => []IInv
<1>1. Init => IInv
  BY NewAttrType, NewCondType, NewAttrFollows, AbsentAssumption
     DEF Init, IInv, TypeOK, SpecIsInstantiated, BinsFollowStrategy, ExecuteIsGuarded,
         OnlyUnknownNamesKill, VonNames, CondNames, NewCond
<1>2. IInv /\ TypeOK' /\ [Next]_vars => IInv'
  <2> SUFFICES ASSUME IInv, TypeOK', [Next]_vars
               PROVE  SpecIsInstantiated' /\ BinsFollowStrategy'
                      /\ ExecuteIsGuarded' /\ OnlyUnknownNamesKill'
    BY DEF IInv
  <2> TypeOK /\ BinsFollowStrategy /\ SpecIsInstantiated
    BY DEF IInv
  <2>1. ASSUME UNCHANGED <<specVons, specConds, vons, conds>>, ExecuteIsGuarded',
               OnlyUnknownNamesKill'
        PROVE  SpecIsInstantiated' /\ BinsFollowStrategy'
    BY <2>1 DEF SpecIsInstantiated, BinsFollowStrategy, VonNames, CondNames
  <2>2. CASE UNCHANGED vars
    BY <2>1, <2>2 DEF vars, IInv, ExecuteIsGuarded, OnlyUnknownNamesKill,
                      VonNames, CondNames
  <2>3. CASE status = "alive" /\ Edit
    <3>1. CASE \E sv, sc \in SUBSET Name : EditSpec(sv, sc)
      BY <2>3, <3>1, EditSpecInv
    <3>2. ASSUME NEW n \in CondNames, ~OK(conds[n].lhs),
                 status' = "removeConditional",
                 UNCHANGED <<specVons, specConds, vons, conds>>
          PROVE  ExecuteIsGuarded' /\ OnlyUnknownNamesKill'
      <4>1. n \notin Field
        <5>1. FollowsStrategy(conds[n].lhs, n)
          BY DEF BinsFollowStrategy
        <5>2. conds[n] \in Cond
          BY DEF TypeOK, CondNames
        <5> QED BY <3>2, <5>1, <5>2, StrategyWidthType, DefaultWidthType,
                   ConstantsAssumption DEF FollowsStrategy, OK
      <4> QED BY <3>2, <4>1 DEF ExecuteIsGuarded, OnlyUnknownNamesKill, VonNames, CondNames
    <3> QED BY <2>1, <2>3, <3>1, <3>2, EditShape
  <2>4. ASSUME status = "alive", NEW n \in Name, NEW op \in UsedOp,
               NEW a \in Text, NEW b \in Text, FixConditional(n, op, a, b)
        PROVE  SpecIsInstantiated' /\ BinsFollowStrategy'
               /\ ExecuteIsGuarded' /\ OnlyUnknownNamesKill'
    <3> DEFINE new == [lhs |-> NewAttr(n), op |-> op, a |-> a, b |-> b]
    <3>1. new \in Cond /\ new # Absent
      BY NewAttrType, ConstantsAssumption, AbsentAssumption DEF Cond
    <3>2. FollowsStrategy(new.lhs, n)
      BY NewAttrFollows
    <3>3. \A m \in Name : conds'[m] = IF m = n THEN new ELSE conds[m]
      BY <2>4 DEF FixConditional, TypeOK
    <3>4. VonNames' = VonNames /\ CondNames' = CondNames \cup {n}
      BY <2>4, <3>1, <3>3 DEF FixConditional, VonNames, CondNames
    <3>5. SpecIsInstantiated'
      BY <2>4, <3>4 DEF SpecIsInstantiated, FixConditional
    <3>6. BinsFollowStrategy'
      BY <2>4, <3>2, <3>3, <3>4 DEF BinsFollowStrategy, FixConditional, CondNames
    <3> QED BY <2>4, <3>5, <3>6 DEF FixConditional, ExecuteIsGuarded, OnlyUnknownNamesKill
  <2>5. ASSUME status = "alive", NEW s \in Strategy, NEW override \in BOOLEAN,
               SetBinStrategy(s, override)
        PROVE  SpecIsInstantiated' /\ BinsFollowStrategy'
               /\ ExecuteIsGuarded' /\ OnlyUnknownNamesKill'
    <3>1. PICK names \in SUBSET (VonNames \cup CondNames) : Rebinned(names, s)
      BY <2>5, SetBinStrategyShape
    <3>2. VonNames' = VonNames /\ CondNames' = CondNames /\ BinsFollowStrategy'
      BY <3>1, RebinnedInv
    <3>3. UNCHANGED <<specVons, specConds>>
      BY <2>5, SetBinStrategyShape
    <3>4. SpecIsInstantiated'
      BY <3>2, <3>3 DEF SpecIsInstantiated
    <3>5. CASE status' = status
      BY <2>5, <3>2, <3>4, <3>5 DEF ExecuteIsGuarded, OnlyUnknownNamesKill
    <3>6. ASSUME NEW n \in VonNames \cup CondNames, ~OK(Attribute(n)),
                 status' = "setBinStrategy"
          PROVE  ExecuteIsGuarded' /\ OnlyUnknownNamesKill'
      <4>1. FollowsStrategy(Attribute(n), n)
        BY <3>6 DEF Attribute, BinsFollowStrategy
      <4>2. n \notin Field
        BY <3>6, <4>1, StrategyWidthType, DefaultWidthType, ConstantsAssumption
           DEF FollowsStrategy, OK
      <4> QED BY <3>2, <3>6, <4>2 DEF ExecuteIsGuarded, OnlyUnknownNamesKill
    <3> QED BY <2>5, <3>2, <3>4, <3>5, <3>6, SetBinStrategyShape
  <2>6. CASE status = "alive" /\ \E m \in {"client", "server"} : SetExecutionMethod(m)
    BY <2>1, <2>6 DEF SetExecutionMethod, ExecuteIsGuarded, OnlyUnknownNamesKill
  <2>7. CASE status = "alive" /\ Execute
    <3>1. ~(IsComplete /\ NullBin)
      BY DEF IsComplete, NullBin, OK
    <3>2. UNCHANGED <<specVons, specConds, vons, conds, status>>
      BY <2>7, <3>1 DEF Execute
    <3> QED BY <2>1, <2>7, <3>2 DEF ExecuteIsGuarded, OnlyUnknownNamesKill
  <2>8. CASE status = "alive" /\ ToString
    <3>1. PICK n \in CondNames : ~OK(conds[n].lhs)
      BY <2>8 DEF ToString
    <3>2. FollowsStrategy(conds[n].lhs, n)
      BY DEF BinsFollowStrategy
    <3>3. n \notin Field
      BY <3>1, <3>2, StrategyWidthType, DefaultWidthType, ConstantsAssumption
         DEF FollowsStrategy, OK
    <3> QED BY <2>1, <2>8, <3>3
            DEF ToString, ExecuteIsGuarded, OnlyUnknownNamesKill, VonNames, CondNames
  <2> QED BY <2>2, <2>3, <2>4, <2>5, <2>6, <2>7, <2>8 DEF Next
<1> QED BY <1>1, <1>2, TypeCorrect, PTL DEF Spec

\* However the maps were edited, whatever an erasure skipped and whichever call
\* failed half-way: every name of the specification is in the maps.
THEOREM MapsNeverLagBehind == Spec => []SpecIsInstantiated
<1>1. IInv => SpecIsInstantiated
  BY DEF IInv
<1> QED BY <1>1, Invariance, PTL

\* Every bin has the width its attribute's strategy gives, through failed and
\* partly applied bin strategies.
THEOREM BinsAreInOrder == Spec => []BinsFollowStrategy
<1>1. IInv => BinsFollowStrategy
  BY DEF IInv
<1> QED BY <1>1, Invariance, PTL

\* isComplete protects execute from every null bin;
THEOREM NullBinsAreContained == Spec => []ExecuteIsGuarded
<1>1. IInv => ExecuteIsGuarded
  BY DEF IInv
<1> QED BY <1>1, Invariance, PTL

\* the operations without that guard are brought down only by names that are no
\* fields of the table.
THEOREM UnknownNamesKill == Spec => []OnlyUnknownNamesKill
<1>1. IInv => OnlyUnknownNamesKill
  BY DEF IInv
<1> QED BY <1>1, Invariance, PTL

-----------------------------------------------------------------------------
(* What an edit may never do. *)

\* A condition that was fixed keeps its operator and constants until it is
\* fixed anew or its name leaves the specification.
THEOREM FixedConditionsAreKept == Spec => FixedConditionsSurvive
<1> DEFINE Kept(n) == \/ n \in CondNames' /\ RHS(conds'[n]) = RHS(conds[n])
                      \/ n \notin specConds'
                      \/ \E op \in UsedOp, a, b \in Text : FixConditional(n, op, a, b)
<1>1. TypeOK /\ [Next]_vars => [\A n \in CondNames : Kept(n)]_vars
  <2> SUFFICES ASSUME TypeOK, Next, NEW n \in CondNames PROVE Kept(n)
    OBVIOUS
  <2>0. n \in Name /\ conds[n] \in Cond /\ conds[n] # Absent
    BY DEF TypeOK, CondNames
  <2>1. CASE conds' = conds
    BY <2>0, <2>1 DEF CondNames
  <2>2. CASE \E sv, sc \in SUBSET Name : EditSpec(sv, sc)
    <3> PICK sv \in SUBSET Name, sc \in SUBSET Name : EditSpec(sv, sc)
      BY <2>2
    <3>1. CASE specConds' = sc /\ SyncWithSpec(sv, sc)
      <4>1. n \in sc => conds'[n] = conds[n]
        <5>1. PICK out \in Erased(CondNames \ sc) : conds' = Without(FilledConds(sc), out)
          BY <3>1 DEF SyncWithSpec
        <5>2. out \subseteq CondNames \ sc
          BY ErasedSubset
        <5> QED BY <2>0, <5>1, <5>2 DEF Without, FilledConds
      <4> QED BY <2>0, <3>1, <4>1 DEF CondNames
    <3>2. CASE UNCHANGED conds
      BY <2>1, <3>2
    <3> QED BY <3>1, <3>2 DEF EditSpec
  <2>3. ASSUME NEW m \in Name, NEW op \in UsedOp, NEW a \in Text, NEW b \in Text,
               FixConditional(m, op, a, b)
        PROVE  Kept(n)
    <3>1. CASE m = n
      BY <2>3, <3>1
    <3>2. CASE m # n
      <4>1. conds'[n] = conds[n]
        BY <2>0, <2>3, <3>2 DEF FixConditional, TypeOK
      <4> QED BY <2>0, <4>1 DEF CondNames
    <3> QED BY <3>1, <3>2
  <2>4. ASSUME NEW s \in Strategy, NEW override \in BOOLEAN,
               SetBinStrategy(s, override)
        PROVE  Kept(n)
    <3>1. PICK names \in SUBSET (VonNames \cup CondNames) : Rebinned(names, s)
      BY <2>4, SetBinStrategyShape
    <3> DEFINE new == [conds[n] EXCEPT !.lhs = WithStrategy(@, s, n)]
    <3>2. conds'[n] \in {conds[n], new}
      BY <2>0, <3>1 DEF Rebinned
    <3>3. WithStrategy(conds[n].lhs, s, n) \in Attr
      BY <2>0, WithStrategyType DEF Cond
    <3>4. new \in Cond /\ RHS(new) = RHS(conds[n])
      BY <2>0, <3>3 DEF Cond, RHS
    <3>5. new # Absent
      BY <3>4, AbsentAssumption
    <3> HIDE DEF new
    <3> QED BY <2>0, <3>2, <3>4, <3>5 DEF CondNames
  <2>5. CASE Edit
    BY <2>1, <2>2, <2>5, EditShape
  <2>6. CASE \/ \E m \in {"client", "server"} : SetExecutionMethod(m)
             \/ Execute
             \/ ToString
    BY <2>1, <2>6 DEF SetExecutionMethod, Execute, ToString
  <2> QED BY <2>3, <2>4, <2>5, <2>6 DEF Next
<1> QED BY <1>1, TypeCorrect, PTL DEF Spec, FixedConditionsSurvive

\* Of at most one stale entry nothing is left once something is erased.
LEMMA ErasedAll ==
  ASSUME NEW stale \in SUBSET Name, Cardinality(stale) <= 1, NEW gone \in Erased(stale)
  PROVE  gone = stale
<1>1. IsFiniteSet(stale)
  BY ConstantsAssumption, FS_Subset
<1>2. CASE stale = {}
  BY <1>2 DEF Erased
<1>3. CASE stale # {}
  <2>1. Cardinality(stale) = 1
    <3>1. Cardinality(stale) \in Nat
      BY <1>1, FS_CardinalityType
    <3>2. Cardinality(stale) # 0
      BY <1>1, <1>3, FS_EmptySet
    <3> QED BY <3>1, <3>2
  <2>2. PICK n : stale = {n}
    BY <1>1, <2>1, FS_Singleton, Zenon
  <2>3. gone \in SUBSET {n} /\ gone # {}
    BY <1>3, <2>2 DEF Erased
  <2> QED BY <2>2, <2>3
<1> QED BY <1>2, <1>3

\* No edit disturbs the bin of a VON that stays: the maps are filled, never built
\* anew.
THEOREM BinsAreKept == Spec => BinsSurvive
<1> DEFINE Kept(n) == \/ vons'[n] = vons[n]
                      \/ \E s \in Strategy, override \in BOOLEAN : SetBinStrategy(s, override)
<1>1. TypeOK /\ SpecIsInstantiated /\ [Next]_vars => [\A n \in specVons \cap specVons' : Kept(n)]_vars
  <2> SUFFICES ASSUME TypeOK, SpecIsInstantiated, Next, NEW n \in specVons \cap specVons' PROVE Kept(n)
    OBVIOUS
  <2>1. n \in Name /\ vons[n] # Absent
    BY DEF SpecIsInstantiated, VonNames
  <2>2. CASE \E sv, sc \in SUBSET Name : EditSpec(sv, sc)
    <3> PICK sv \in SUBSET Name, sc \in SUBSET Name : EditSpec(sv, sc)
      BY <2>2
    <3>1. CASE specVons' = sv /\ SyncWithSpec(sv, sc)
      <4>1. PICK gone \in Erased(VonNames \ sv) : vons' = Without(FilledVons(sv), gone)
        BY <3>1 DEF SyncWithSpec
      <4>2. gone \subseteq VonNames \ sv
        BY ErasedSubset
      <4> QED BY <2>1, <3>1, <4>1, <4>2 DEF Without, FilledVons
    <3>2. CASE UNCHANGED vons
      BY <3>2
    <3> QED BY <3>1, <3>2 DEF EditSpec
  <2>3. CASE UNCHANGED vons
    BY <2>3
  <2>4. CASE Edit
    BY <2>2, <2>3, <2>4, EditShape
  <2>5. CASE \E m \in Name, op \in UsedOp, a, b \in Text : FixConditional(m, op, a, b)
    BY <2>3, <2>5 DEF FixConditional
  <2>6. CASE (\E m \in {"client", "server"} : SetExecutionMethod(m)) \/ Execute \/ ToString
    BY <2>3, <2>6 DEF SetExecutionMethod, Execute, ToString
  <2>7. CASE \E s \in Strategy, override \in BOOLEAN : SetBinStrategy(s, override)
    BY <2>7
  <2> QED BY <2>4, <2>5, <2>6, <2>7 DEF Next
<1> QED BY <1>1, TypeCorrect, MapsNeverLagBehind, PTL DEF Spec, BinsSurvive

\* An edit that left no more than one stale entry in either map, and did not end
\* the process, ends with exactly the names of the specification in the maps.
THEOREM EditsSettle == Spec => SettledAfterEdit
<1> DEFINE Settles ==
      /\ spec' # spec
      /\ status' = "alive"
      /\ Cardinality(VonNames \ specVons') <= 1
      /\ Cardinality(CondNames \ specConds') <= 1
      => VonNames' = specVons' /\ CondNames' = specConds'
<1>1. TypeOK /\ [Next]_vars => [Settles]_vars
  <2> SUFFICES ASSUME TypeOK, Next,
                      spec' # spec,
                      status' = "alive",
                      Cardinality(VonNames \ specVons') <= 1,
                      Cardinality(CondNames \ specConds') <= 1
               PROVE  VonNames' = specVons' /\ CondNames' = specConds'
    OBVIOUS
  <2>1. \E sv, sc \in SUBSET Name : EditSpec(sv, sc)
    <3>1. CASE Edit
      BY <3>1, EditShape
    <3>2. CASE UNCHANGED spec
      BY <3>2
    <3>3. CASE \E m \in Name, op \in UsedOp, a, b \in Text : FixConditional(m, op, a, b)
      BY <3>2, <3>3 DEF FixConditional, spec
    <3>4. CASE \/ \E s \in Strategy, override \in BOOLEAN : SetBinStrategy(s, override)
               \/ (\E m \in {"client", "server"} : SetExecutionMethod(m)) \/ Execute \/ ToString
      BY <3>2, <3>4 DEF SetBinStrategy, SetExecutionMethod, Execute, ToString, spec
    <3> QED BY <3>1, <3>3, <3>4 DEF Next
  <2>2. PICK sv \in SUBSET Name, sc \in SUBSET Name :
          specVons' = sv /\ specConds' = sc /\ SyncWithSpec(sv, sc)
    BY <2>1 DEF EditSpec
  <2>3. PICK gone \in Erased(VonNames \ sv) : vons' = Without(FilledVons(sv), gone)
    BY <2>2 DEF SyncWithSpec
  <2>4. PICK out \in Erased(CondNames \ sc) : conds' = Without(FilledConds(sc), out)
    BY <2>2 DEF SyncWithSpec
  <2>5. VonNames \ sv \in SUBSET Name /\ CondNames \ sc \in SUBSET Name
    BY DEF VonNames, CondNames
  <2>6. gone = VonNames \ sv /\ out = CondNames \ sc
    BY <2>2, <2>3, <2>4, <2>5, ErasedAll
  <2>7. \A n \in Name : NewAttr(n) # Absent /\ NewCond(n) # Absent
    BY NewAttrType, NewCondType, AbsentAssumption
  <2>8. \A n \in Name : vons'[n] # Absent <=> n \in sv
    BY <2>3, <2>6, <2>7 DEF Without, FilledVons, VonNames
  <2>9. \A n \in Name : conds'[n] # Absent <=> n \in sc
    BY <2>4, <2>6, <2>7 DEF Without, FilledConds, CondNames
  <2> QED BY <2>2, <2>8, <2>9 DEF VonNames, CondNames
<1> QED BY <1>1, TypeCorrect, PTL DEF Spec, SettledAfterEdit

-----------------------------------------------------------------------------
(* Strategies. *)

\* Rebinning gives each of the names the strategy, and changes no other attribute.
LEMMA RebinnedHave ==
  ASSUME TypeOK, NEW names \in SUBSET (VonNames \cup CondNames), NEW s \in Strategy,
         Rebinned(names, s), NEW n \in Name
  PROVE  /\ vons[n] # Absent =>
              vons'[n].strategy = IF n \in names \ CondNames THEN s ELSE vons[n].strategy
         /\ conds[n] # Absent =>
              conds'[n].lhs.strategy = IF n \in names THEN s ELSE conds[n].lhs.strategy
<1>1. \A attr : WithStrategy(attr, s, n).strategy = s
  BY DEF WithStrategy
<1>2. vons'[n] = IF n \in names \ CondNames THEN WithStrategy(vons[n], s, n) ELSE vons[n]
  BY DEF Rebinned
<1>3. conds'[n] = IF n \in names \cap CondNames
                  THEN [conds[n] EXCEPT !.lhs = WithStrategy(@, s, n)] ELSE conds[n]
  BY DEF Rebinned
<1>4. conds[n] # Absent => n \in CondNames /\ conds[n] \in Cond
  BY DEF CondNames, TypeOK
<1>5. conds[n] # Absent /\ n \in names =>
        conds'[n].lhs = WithStrategy(conds[n].lhs, s, n)
  BY <1>3, <1>4 DEF Cond
<1> QED BY <1>1, <1>2, <1>3, <1>4, <1>5

\* Where a call of setBinStrategy fails on no attribute it reaches each one it sees,
\* and no other operation parts an attribute from its strategy but fixConditional.
THEOREM NoneFallsBehind == Spec => StrategiesKeepUp
<1> DEFINE VonKeepsUp(n) == vons[n].strategy = binStrategy =>
             \/ vons'[n].strategy = binStrategy'
             \/ binStrategy' # binStrategy /\ (n \in CondNames \/ SomeAttributeThrows)
           CondKeepsUp(n) == conds[n].lhs.strategy = binStrategy =>
             \/ conds'[n].lhs.strategy = binStrategy'
             \/ binStrategy' # binStrategy /\ SomeAttributeThrows
             \/ \E op \in UsedOp, a, b \in Text : FixConditional(n, op, a, b)
           KeepUp == /\ \A n \in VonNames \cap VonNames' : VonKeepsUp(n)
                     /\ \A n \in CondNames \cap CondNames' : CondKeepsUp(n)
<1>1. TypeOK /\ [Next]_vars => [KeepUp]_vars
  <2> SUFFICES ASSUME TypeOK, Next PROVE KeepUp
    OBVIOUS
  <2>1. CASE UNCHANGED <<vons, conds, binStrategy>>
    BY <2>1
  <2>2. CASE \E sv, sc \in SUBSET Name : EditSpec(sv, sc)
    <3> PICK sv \in SUBSET Name, sc \in SUBSET Name : EditSpec(sv, sc)
      BY <2>2
    <3>1. CASE SyncWithSpec(sv, sc) /\ UNCHANGED binStrategy
      <4>1. PICK gone \in SUBSET Name : vons' = Without(FilledVons(sv), gone)
        BY <3>1, ErasedSubset DEF SyncWithSpec, VonNames
      <4>2. PICK out \in SUBSET Name : conds' = Without(FilledConds(sc), out)
        BY <3>1, ErasedSubset DEF SyncWithSpec, CondNames
      <4>3. \A n \in VonNames \cap VonNames' : vons'[n] = vons[n]
        BY <4>1 DEF Without, FilledVons, VonNames
      <4>4. \A n \in CondNames \cap CondNames' : conds'[n] = conds[n]
        BY <4>2 DEF Without, FilledConds, CondNames
      <4> QED BY <3>1, <4>3, <4>4
    <3>2. CASE UNCHANGED <<vons, conds, binStrategy>>
      BY <2>1, <3>2
    <3> QED BY <3>1, <3>2 DEF EditSpec
  <2>3. CASE Edit
    BY <2>1, <2>2, <2>3, EditShape
  <2>4. ASSUME NEW m \in Name, NEW op \in UsedOp, NEW a \in Text, NEW b \in Text,
               FixConditional(m, op, a, b)
        PROVE  KeepUp
    <3>1. UNCHANGED <<vons, binStrategy>>
      BY <2>4 DEF FixConditional
    <3>2. \A n \in Name : n # m => conds'[n] = conds[n]
      BY <2>4 DEF FixConditional, TypeOK
    <3>4. \A n \in CondNames : CondKeepsUp(n)
      <4> SUFFICES ASSUME NEW n \in CondNames PROVE CondKeepsUp(n)
        OBVIOUS
      <4>1. CASE n = m
        BY <2>4, <4>1
      <4>2. CASE n # m
        BY <3>1, <3>2, <4>2 DEF CondNames
      <4> QED BY <4>1, <4>2
    <3> QED BY <3>1, <3>4
  <2>5. CASE (\E m \in {"client", "server"} : SetExecutionMethod(m)) \/ Execute \/ ToString
    BY <2>1, <2>5 DEF SetExecutionMethod, Execute, ToString
  <2>6. ASSUME NEW s \in Strategy, NEW override \in BOOLEAN, SetBinStrategy(s, override)
        PROVE  KeepUp
    <3> DEFINE visited == {n \in VonNames \cup CondNames : override \/ ~HasBinStrategy(Attribute(n))}
               failing == {n \in visited : ~OK(Attribute(n)) \/ Throws(s, n)}
    <3>1. visited = VonNames \cup CondNames /\ binStrategy' = s
      BY <2>6 DEF HasBinStrategy, SetBinStrategy
    <3>2. PICK names \in SUBSET visited :
            Rebinned(names, s) /\ (names = visited \/ failing # {})
      BY <2>6 DEF SetBinStrategy
    <3>3. failing # {} => SomeAttributeThrows
      BY <3>1 DEF SomeAttributeThrows
    <3> HIDE DEF visited, failing
    <3>4. ASSUME NEW n \in Name
          PROVE  /\ vons[n] # Absent =>
                      vons'[n].strategy = IF n \in names \ CondNames THEN s ELSE vons[n].strategy
                 /\ conds[n] # Absent =>
                      conds'[n].lhs.strategy = IF n \in names THEN s ELSE conds[n].lhs.strategy
      BY <3>1, <3>2, RebinnedHave
    <3>5. ASSUME NEW n \in VonNames PROVE VonKeepsUp(n)
      BY <3>1, <3>2, <3>3, <3>4 DEF VonNames
    <3>6. ASSUME NEW n \in CondNames PROVE CondKeepsUp(n)
      BY <3>1, <3>2, <3>3, <3>4 DEF CondNames
    <3> QED BY <3>5, <3>6
  <2> QED BY <2>3, <2>4, <2>5, <2>6 DEF Next
<1> QED BY <1>1, TypeCorrect, PTL DEF Spec, StrategiesKeepUp

=============================================================================
