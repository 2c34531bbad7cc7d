---------------------------- MODULE QCATInstance ----------------------------
(***************************************************************************)
(* The QCAT object (src/src/qcat.h, qcat.cpp): a specification (which      *)
(* fields are conditionals, which are VONs) instantiated against a table,  *)
(* as its caller configures and runs it.                                   *)
(*                                                                         *)
(* m_spec holds two sets of names; m_vons and m_conditionals hold the      *)
(* attributes and conditions built for those names.  Every edit of the     *)
(* specification ends in syncWithSpec, which brings the maps in line.  The *)
(* object is used by one thread; what makes it hard is the order of legal  *)
(* calls, the exceptions and null bins on the way, and the erasure of map  *)
(* entries during the traversal of the map.                                *)
(***************************************************************************)
EXTENDS Integers, FiniteSets

CONSTANTS
  Name,        \* field names a caller may use
  FieldType,   \* the fields of the table: a function from some names to types
  Strategy,    \* the bin strategies a caller may apply
  Value,       \* nonempty texts of constants
  Blank,       \* the empty text (also what trim_copy makes of spaces)
  Literal,     \* for each type, the texts that form a constant of it in SQL
  UsedOp,      \* the operators callers pass to fixConditional
  Absent,      \* marks a name that is not in a map
  NoStrategy,  \* a null shared_ptr<QCATBinStrategy>
  NoBin,       \* a null shared_ptr<QCATBin>: the attribute's field is unknown
  NoSummary    \* nothing has been executed yet

\* fieldTypeFromStr never yields fft_time.
Type == {"integer", "double", "string", "boolean", "date"}
Op == {"equal", "less", "less_equal", "more", "more_equal", "between"}
Text == Value \cup {Blank}
Field == DOMAIN FieldType

\* An exact strategy is given its width in halves, so that 0.5 can be passed.
StrategyShape ==
  [kind : {"unit", "divide"}] \cup [kind : {"exact"}, halves : Nat]

ASSUME ConstantsAssumption ==
  /\ IsFiniteSet(Name)
  /\ Field \subseteq Name
  /\ \A n \in Field : FieldType[n] \in Type
  /\ Strategy \subseteq StrategyShape
  /\ NoStrategy \notin Strategy
  /\ UsedOp \subseteq Op
  /\ Blank \notin Value
  /\ NoBin \notin Nat

Attr == [strategy : Strategy \cup {NoStrategy}, width : Nat \cup {NoBin}]
Cond == [lhs : Attr, op : Op, a : Text, b : Text]

\* success and isValid() of a QCATSummary; ran is history: whether the
\* statement behind it was run and answered.
Summary == [ran : BOOLEAN, success : BOOLEAN, valid : BOOLEAN]

ASSUME AbsentAssumption == Absent \notin Attr \cup Cond
ASSUME NoSummaryAssumption == NoSummary \notin Summary

VARIABLES
  specVons,    \* m_spec.m_vons
  specConds,   \* m_spec.m_conditionals
  vons,        \* m_vons: name -> attribute
  conds,       \* m_conditionals: name -> condition
  binStrategy, \* m_binStrategy of the QCAT
  method,      \* m_executionMethod
  summary,     \* the QCATSummary of the last execution
  status       \* "alive", or the operation in which the process died

vars == <<specVons, specConds, vons, conds, binStrategy, method, summary, status>>
spec == <<specVons, specConds>>

-----------------------------------------------------------------------------
(* Attributes, bins and bin strategies. *)

\* isQuantitative(): numeric and timestamp bins, not the passthrough bin.
Quantitative(n) == FieldType[n] \in {"integer", "double", "date"}

DefaultWidth(n) == IF FieldType[n] = "date" THEN 15 ELSE 1

\* Faulty variant: setDefaultBin without its case for integers.
NewAttrNoIntegerBin(n) ==
  [strategy |-> NoStrategy,
   width |-> IF n \in Field /\ FieldType[n] # "integer" THEN DefaultWidth(n) ELSE NoBin]

\* make_shared<QCATAttribute>(m_db->fieldForName(n)): an unknown name gives a
\* null field, hence no bin.
NewAttr(n) ==
  [strategy |-> NoStrategy,
   width |-> IF n \in Field THEN DefaultWidth(n) ELSE NoBin]

OK(attr) == attr.width # NoBin

\* The comparison is of m_binStrategy with a freshly allocated object.
HasBinStrategy(attr) == FALSE

\* QCATBinStrategy::width: the exact one keeps its width as an int; the
\* dividing ones read 1 for a bin that cannot be divided and otherwise send a
\* bare expression (wrap = false) that no statement can be, whose empty answer
\* lexical_cast rejects with an exception.
Throws(s, n) == s.kind = "divide" /\ Quantitative(n)
StrategyWidth(s, n) == IF s.kind = "exact" THEN s.halves \div 2 ELSE 1

\* Faulty variant: setBinStrategy without applyBinStrategy.
WithStrategyUnapplied(attr, s, n) == [attr EXCEPT !.strategy = s]

\* QCATAttribute::setBinStrategy stores the strategy before it asks its width.
WithStrategy(attr, s, n) ==
  [strategy |-> s,
   width |-> IF n \notin Field \/ Throws(s, n) THEN attr.width
                                               ELSE StrategyWidth(s, n)]

-----------------------------------------------------------------------------
(* Completeness, and what the database makes of the statement built. *)

VonNames == {n \in Name : vons[n] # Absent}
CondNames == {n \in Name : conds[n] # Absent}

\* Faulty variant: the conditions' fields are not checked.
IsCompleteUnchecked ==
  /\ \A n \in CondNames : conds[n].a # Blank
  /\ VonNames # {}
  /\ \A n \in VonNames : OK(vons[n])

IsComplete ==
  /\ \A n \in CondNames : conds[n].a # Blank /\ OK(conds[n].lhs)
  /\ VonNames # {}
  /\ \A n \in VonNames : OK(vons[n])

\* Some bin the statement needs is a null pointer.
NullBin ==
  \/ \E n \in VonNames : vons[n].width = NoBin
  \/ \E n \in CondNames : conds[n].lhs.width = NoBin

\* A bin of width 0 divides by zero.
BinOK(attr, n) == Quantitative(n) => attr.width # 0

\* strForOp knows two operators; BETWEEN needs both of its constants.
CondOK(c, n) ==
  /\ c.op \in {"equal", "between"}
  /\ c.a \in Literal[FieldType[n]]
  /\ c.op = "between" => c.b \in Literal[FieldType[n]]
  /\ BinOK(c.lhs, n)

\* A constant is divided whether or not there are rows,
StatementOK == \A n \in CondNames : CondOK(conds[n], n)

\* the VONs of each row that is selected.
RowsOK == \A n \in VonNames : BinOK(vons[n], n)

-----------------------------------------------------------------------------
(* Editing the specification. *)

\* Faulty variants: every attribute, every condition is built anew.
FilledVonsAnew(sv) == [n \in Name |-> IF n \in sv THEN NewAttr(n) ELSE vons[n]]

FilledVons(sv) == [n \in Name |-> IF n \in sv /\ vons[n] = Absent
                                  THEN NewAttr(n) ELSE vons[n]]

NewCond(n) == [lhs |-> NewAttr(n), op |-> "equal", a |-> Blank, b |-> Blank]

FilledCondsAnew(sc) == [n \in Name |-> IF n \in sc THEN NewCond(n) ELSE conds[n]]

FilledConds(sc) == [n \in Name |-> IF n \in sc /\ conds[n] = Absent
                                   THEN NewCond(n) ELSE conds[n]]

\* Faulty variant: stale entries are left alone.
ErasedNever(stale) == {{}}

\* What erasing from a map while a range-for traverses it can leave behind:
\* the erased node is used to find the next, so when the process survives,
\* any stale entry after the first erased one may have been passed over.
Erased(stale) == IF stale = {} THEN {{}} ELSE (SUBSET stale) \ {{}}

\* Faulty variant: the pointer is reset, its entry stays.
WithoutButKept(map, gone) == [n \in Name |-> IF n \in gone THEN NoBin ELSE map[n]]

Without(map, gone) == [n \in Name |-> IF n \in gone THEN Absent ELSE map[n]]

\* Faulty variant: conditions are not created.
SyncWithSpecVonsOnly(sv, sc) ==
  /\ \E gone \in Erased(VonNames \ sv) : vons' = Without(FilledVons(sv), gone)
  /\ \E gone \in Erased(CondNames \ sc) : conds' = Without(conds, gone)

SyncWithSpec(sv, sc) ==
  /\ \E gone \in Erased(VonNames \ sv) : vons' = Without(FilledVons(sv), gone)
  /\ \E gone \in Erased(CondNames \ sc) : conds' = Without(FilledConds(sc), gone)

\* Every edit stores the new specification and synchronises with it.  A stale
\* entry can also end the process in the traversal of its map.
EditSpec(sv, sc) ==
  \/ /\ specVons' = sv
     /\ specConds' = sc
     /\ SyncWithSpec(sv, sc)
     /\ UNCHANGED <<binStrategy, method, summary, status>>
  \/ /\ (VonNames \ sv) \cup (CondNames \ sc) # {}
     /\ status' = "syncWithSpec"
     /\ UNCHANGED <<specVons, specConds, vons, conds, binStrategy, method, summary>>

SetSpec(sv, sc) == EditSpec(sv, sc)

\* The overload that takes a name accepts any; the others take a field.
AddVON(n) == EditSpec(specVons \cup {n}, specConds)
RemoveVON(n) == n \in Field /\ EditSpec(specVons \ {n}, specConds)
AddConditional(n) == n \in Field /\ EditSpec(specVons, specConds \cup {n})
ClearVONs == EditSpec({}, specConds)
ClearConditions == EditSpec(specVons, {})

\* Takes one of the conditions the QCAT holds, and its name from its field.
RemoveConditional(n) ==
  /\ n \in CondNames
  /\ IF OK(conds[n].lhs)
     THEN EditSpec(specVons, specConds \ {n})
     ELSE /\ status' = "removeConditional"
          /\ UNCHANGED <<specVons, specConds, vons, conds, binStrategy, method, summary>>

\* A new condition in place of whatever the name had; the specification is
\* not consulted.  Overloads with one constant leave the second one empty,
\* the one with two takes any operator.
FixConditional(n, op, a, b) ==
  /\ conds' = [conds EXCEPT ![n] = [lhs |-> NewAttr(n), op |-> op, a |-> a, b |-> b]]
  /\ UNCHANGED <<specVons, specConds, vons, binStrategy, method, summary, status>>

-----------------------------------------------------------------------------
(* Bin strategies. *)

\* attributes(): a conditional hides the VON of the same name.
Attribute(n) == IF n \in CondNames THEN conds[n].lhs ELSE vons[n]

\* Faulty variant of Rebinned: attributes() are the VONs.
RebinnedVonsOnly(names, s) ==
  /\ vons' = [n \in Name |-> IF n \in names \cap VonNames
                             THEN WithStrategy(vons[n], s, n) ELSE vons[n]]
  /\ UNCHANGED conds

\* Rebinned(names, s): s stored in, and applied to, the attributes of names.
Rebinned(names, s) ==
  /\ vons' = [n \in Name |-> IF n \in names \ CondNames
                             THEN WithStrategy(vons[n], s, n) ELSE vons[n]]
  /\ conds' = [n \in Name |-> IF n \in names \cap CondNames
                              THEN [conds[n] EXCEPT !.lhs = WithStrategy(@, s, n)]
                              ELSE conds[n]]

\* The attributes are visited in the order of their names, here any order.
\* The first null bin ends the process, the first exception the call; those
\* visited before have the strategy by then.
SetBinStrategy(s, override) ==
  LET visited == {n \in VonNames \cup CondNames :
                    override \/ ~HasBinStrategy(Attribute(n))}
      failing == {n \in visited : ~OK(Attribute(n)) \/ Throws(s, n)}
  IN /\ binStrategy' = s
     /\ \/ /\ failing = {}
           /\ Rebinned(visited, s)
           /\ UNCHANGED status
        \/ \E first \in failing, before \in SUBSET (visited \ failing) :
             /\ Rebinned(before \cup {first}, s)
             /\ status' = IF OK(Attribute(first)) THEN status ELSE "setBinStrategy"
     /\ UNCHANGED <<specVons, specConds, method, summary>>

-----------------------------------------------------------------------------
(* Running and printing. *)

SetExecutionMethod(m) ==
  /\ method' = m
  /\ UNCHANGED <<specVons, specConds, vons, conds, binStrategy, summary, status>>

\* operator(): clientRun does not ask executeSQL whether the statement
\* succeeded; it counts the rows of the result, none if it failed.
Outcome(ran, valid) ==
  [ran |-> ran,
   success |-> method = "client" \/ ran,
   valid |-> ran /\ valid]

NotRun == [ran |-> FALSE, success |-> FALSE, valid |-> FALSE]

Execute ==
  /\ \/ /\ ~IsComplete
        /\ summary' = NotRun
     \/ /\ IsComplete
        /\ \E ran, valid \in BOOLEAN :
             /\ ran => ~NullBin /\ StatementOK
             /\ ran /\ valid => RowsOK
             /\ summary' = Outcome(ran, valid)
  /\ status' = IF IsComplete /\ NullBin THEN "execute" ELSE status
  /\ UNCHANGED <<specVons, specConds, vons, conds, binStrategy, method>>

\* Prints the SQL of every condition, complete or not.
ToString ==
  /\ \E n \in CondNames : ~OK(conds[n].lhs)
  /\ status' = "toString"
  /\ UNCHANGED <<specVons, specConds, vons, conds, binStrategy, method, summary>>

-----------------------------------------------------------------------------
\* Both constructors end in setSpec, on empty maps.
Init ==
  /\ specVons \in SUBSET Name
  /\ specConds \in SUBSET Name
  /\ vons = [n \in Name |-> IF n \in specVons THEN NewAttr(n) ELSE Absent]
  /\ conds = [n \in Name |-> IF n \in specConds THEN NewCond(n) ELSE Absent]
  /\ binStrategy = NoStrategy
  /\ method = "client"
  /\ summary = NoSummary
  /\ status = "alive"

Edit ==
  \/ \E sv, sc \in SUBSET Name : SetSpec(sv, sc)
  \/ \E n \in Name : AddVON(n) \/ RemoveVON(n)
  \/ \E n \in Name : AddConditional(n) \/ RemoveConditional(n)
  \/ ClearVONs
  \/ ClearConditions

Next ==
  /\ status = "alive"
  /\ \/ Edit
     \/ \E n \in Name, op \in UsedOp, a, b \in Text : FixConditional(n, op, a, b)
     \/ \E s \in Strategy, override \in BOOLEAN : SetBinStrategy(s, override)
     \/ \E m \in {"client", "server"} : SetExecutionMethod(m)
     \/ Execute
     \/ ToString

Spec == Init /\ [][Next]_vars

-----------------------------------------------------------------------------
(* Properties. *)

\* Every variable has its type.
TypeOK ==
  /\ specVons \in SUBSET Name
  /\ specConds \in SUBSET Name
  /\ vons \in [Name -> Attr \cup {Absent}]
  /\ conds \in [Name -> Cond \cup {Absent}]
  /\ binStrategy \in Strategy \cup {NoStrategy}
  /\ method \in {"client", "server"}
  /\ summary \in Summary \cup {NoSummary}
  /\ status \in {"alive", "syncWithSpec", "removeConditional", "setBinStrategy",
                 "execute", "toString"}

\* Whatever edits, erasures and failed calls came before, every name of the
\* specification has its attribute or condition: the maps never lag behind.
SpecIsInstantiated == specVons \subseteq VonNames /\ specConds \subseteq CondNames

\* syncWithSpec keeps what the caller fixed: the operator and constants of a
\* condition change only when that condition is fixed anew or its name is no
\* longer in the specification.
RHS(c) == <<c.op, c.a, c.b>>
FixedConditionsSurvive ==
  [][\A n \in CondNames :
       \/ n \in CondNames' /\ RHS(conds'[n]) = RHS(conds[n])
       \/ n \notin specConds'
       \/ \E op \in UsedOp, a, b \in Text : FixConditional(n, op, a, b)]_vars

\* Editing the specification keeps the bins of the VONs that stay in it: only
\* setBinStrategy changes them.
BinsSurvive ==
  [][\A n \in specVons \cap specVons' :
       \/ vons'[n] = vons[n]
       \/ \E s \in Strategy, override \in BOOLEAN : SetBinStrategy(s, override)]_vars

\* An edit with at most one stale entry in each map, when the process survives
\* it, leaves exactly the specification's names in the maps.
SettledAfterEdit ==
  [][/\ spec' # spec
     /\ status' = "alive"
     /\ Cardinality(VonNames \ specVons') <= 1
     /\ Cardinality(CondNames \ specConds') <= 1
     => VonNames' = specVons' /\ CondNames' = specConds']_vars

\* The width of a bin is the one its attribute's strategy gives, or the default
\* without a strategy; a strategy that failed on the attribute is the exception.
\* The bin is missing exactly when the name is no field.
FollowsStrategy(attr, n) ==
  IF n \in Field
  THEN \/ attr.strategy = NoStrategy /\ attr.width = DefaultWidth(n)
       \/ /\ attr.strategy \in Strategy
          /\ \/ Throws(attr.strategy, n) /\ OK(attr)
             \/ attr.width = StrategyWidth(attr.strategy, n)
  ELSE ~OK(attr)
BinsFollowStrategy ==
  /\ \A n \in VonNames : FollowsStrategy(vons[n], n)
  /\ \A n \in CondNames : FollowsStrategy(conds[n].lhs, n)

\* isComplete keeps every null bin out of the statements built to execute.
ExecuteIsGuarded == status # "execute"

\* The operations without such a guard die only of a name that is no field.
OnlyUnknownNamesKill ==
  status \in {"removeConditional", "setBinStrategy", "toString"}
    => (VonNames \cup CondNames) \ Field # {}

\* Some attribute makes a call of setBinStrategy throw.
SomeAttributeThrows ==
  \E n \in VonNames \cup CondNames : ~OK(Attribute(n)) \/ Throws(binStrategy', n)

\* An attribute that has the QCAT's strategy falls behind it only when setBinStrategy
\* fails on some attribute or does not see a VON for the conditional of its name, or
\* when its condition is fixed anew: no edit takes a strategy away, and the visit
\* passes over no other attribute.
StrategiesKeepUp ==
  [][/\ \A n \in VonNames \cap VonNames' :
          vons[n].strategy = binStrategy =>
            \/ vons'[n].strategy = binStrategy'
            \/ binStrategy' # binStrategy /\ (n \in CondNames \/ SomeAttributeThrows)
     /\ \A n \in CondNames \cap CondNames' :
          conds[n].lhs.strategy = binStrategy =>
            \/ conds'[n].lhs.strategy = binStrategy'
            \/ binStrategy' # binStrategy /\ SomeAttributeThrows
            \/ \E op \in UsedOp, a, b \in Text : FixConditional(n, op, a, b)]_vars

-----------------------------------------------------------------------------
(* What the documentation claims and the code does not do. *)

\* qcat.h:339: without override_existing, an attribute that has a bin strategy
\* keeps it.
ExistingStrategyKept ==
  [][\A s \in Strategy : SetBinStrategy(s, FALSE) =>
       \A n \in VonNames : vons[n].strategy # NoStrategy => vons'[n] = vons[n]]_vars

\* qcat.h:337: the strategy goes to all attributes; when the call is over, each
\* has it.
StrategyApplies ==
  [][\A s \in Strategy : SetBinStrategy(s, TRUE) /\ status' = "alive" =>
       /\ \A n \in VonNames : vons'[n].strategy = s
       /\ \A n \in CondNames : conds'[n].lhs.strategy = s]_vars

\* qcat.cpp:294 reports "Successfully run QCAT." only of a QCAT that ran: not of
\* one with an operator strForOp does not know, a constant of another type, or a
\* width of 0 to divide a constant by, all of which are complete.
SuccessMeansRan == summary # NoSummary => (summary.success => summary.ran)

=============================================================================
