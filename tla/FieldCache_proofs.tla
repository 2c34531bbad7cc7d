-------------------------- MODULE FieldCache_proofs -------------------------
(***************************************************************************)
(* Proofs about FieldCache, for any number of calls and processes.         *)
(***************************************************************************)
EXTENDS FieldCache, FieldStats_proofs

At == {"idle", "listing", "constructing", "pointing", "owning", "returning",
       "copying", "returned", "torn", "listed", "threw", "killed"}

\* No construction in the process of c began during another.
Calm(c) == Of[c] \notin overlapped

\* The pointer and the owner of a process are objects of its own, and without an
\* overlap it owns nothing that it does not point to.
ObjectsInOrder ==
  \A p \in Process :
    /\ pointer[p] # NoObject => Of[pointer[p]] = p
    /\ owner[p] # NoObject => Of[owner[p]] = p
    /\ p \notin overlapped /\ pointer[p] = NoObject => owner[p] = NoObject

\* Only where constructions overlapped is anything destroyed.
DestroyedInOrder == \A c \in destroyed : Of[c] \in overlapped

\* Otherwise one call assigns the cache, and it assigns it while it is empty;
OneAssigns ==
  \A c, d \in Client :
    /\ Calm(c) /\ Of[c] = Of[d]
    /\ at[c] \in {"constructing", "pointing", "owning"}
    /\ at[d] \in {"constructing", "pointing", "owning"}
    => c = d

\* and whoever returns has the object the cache was once and for all given.
CallsInOrder ==
  \A c \in Client : Calm(c) =>
    /\ at[c] \in {"constructing", "pointing"} => pointer[Of[c]] = NoObject
    /\ at[c] = "owning" => pointer[Of[c]] = c /\ owner[Of[c]] = NoObject
    /\ at[c] \in {"returning", "copying", "returned"} => pointer[Of[c]] # NoObject
    /\ at[c] \in {"copying", "returned"} => held[c] = pointer[Of[c]]
    /\ at[c] # "torn"

CacheIInv ==
  /\ CacheTypeOK
  /\ ObjectsInOrder
  /\ DestroyedInOrder
  /\ OneAssigns
  /\ CallsInOrder

-----------------------------------------------------------------------------
\* Whatever the calls do, they construct statistics as FieldStats has it: its
\* theorems hold of every client of the composition.
THEOREM CallsConstruct == CacheSpec => Spec
<1>1. CacheInit => Init
  BY DEF CacheInit
<1>2. [CacheNext]_allVars => [Next]_vars
  <2> SUFFICES ASSUME [CacheNext]_allVars PROVE [Next]_vars
    OBVIOUS
  <2>1. ASSUME NEW c \in Client, Call(c) \/ Proceed(c) \/ Throw(c) PROVE [Next]_vars
    BY <2>1 DEF Call, Proceed, Throw, FindNull, FindCached, List, Construct, Statement,
                SwapPointer, SwapOwner, Dereference, Copy, Next, Step, vars
  <2>2. CASE Write \/ NextDay
    BY <2>2 DEF Next
  <2>3. CASE UNCHANGED allVars
    BY <2>3 DEF allVars
  <2> QED BY <2>1, <2>2, <2>3 DEF CacheNext
<1> QED BY <1>1, <1>2, PTL DEF CacheSpec, Spec

\* In particular the placeholders of crashed calls are never accepted.
THEOREM AcceptedInComposition == CacheSpec => []AcceptableIsSaved
BY CallsConstruct, AcceptableRowsAreSaved, PTL

\* and to the callers of stats() and fieldStats(), racing or not, the cache table is
\* one saved compilation.
THEOREM CompositionImplements == CacheSpec => CacheImplemented
BY CallsConstruct, CacheIsImplemented

-----------------------------------------------------------------------------
\* A step that leaves the cache alone, and moves one call to where it assigns
\* nothing it did not assign before.
LEMMA MovesAside ==
  ASSUME CacheIInv, NEW c \in Client, NEW label,
         Move(c, label), UNCHANGED <<pointer, owner, destroyed, held, overlapped>>,
         \/ label \in {"listing", "listed", "threw", "killed"}
         \/ at[c] = "constructing" /\ label \in {"constructing", "pointing"}
         \/ at[c] = "idle" /\ label = "returning" /\ pointer[Of[c]] # NoObject
  PROVE  CacheIInv'
<1> USE DEF CacheIInv
<1>1. at' = [at EXCEPT ![c] = label] /\ label \in At
  BY DEF Move, At
<1>2. CacheTypeOK'
  BY <1>1 DEF CacheTypeOK, At
<1>3. ObjectsInOrder' /\ DestroyedInOrder'
  BY DEF ObjectsInOrder, DestroyedInOrder
<1>4. \A d \in Client : at'[d] = IF d = c THEN label ELSE at[d]
  BY <1>1 DEF CacheTypeOK
<1>5. OneAssigns'
  BY <1>4 DEF OneAssigns, Calm
<1>6. CallsInOrder'
  BY <1>4 DEF CallsInOrder, Calm
<1> QED BY <1>2, <1>3, <1>5, <1>6

\* The inductive invariant holds throughout.
THEOREM CacheInvariance == CacheSpec => []CacheIInv
<1> USE ProcessAssumption
<1>1. CacheInit => CacheIInv
  BY DEF CacheInit, CacheIInv, CacheTypeOK, ObjectsInOrder, DestroyedInOrder, OneAssigns,
         CallsInOrder
<1>2. CacheIInv /\ [CacheNext]_allVars => CacheIInv'
  <2> SUFFICES ASSUME CacheIInv, [CacheNext]_allVars PROVE CacheIInv'
    OBVIOUS
  <2> USE DEF CacheIInv
  <2>1. ASSUME NEW c \in Client, FindNull(c) PROVE CacheIInv'
    <3> DEFINE p == Of[c]
    <3>1. /\ at[c] = "idle" /\ pointer[p] = NoObject
          /\ at' = [at EXCEPT ![c] = "constructing"]
          /\ UNCHANGED <<pointer, owner, destroyed, held>>
          /\ overlapped' = overlapped \cup {q \in {p} : Assigning(q) # {}}
          /\ p \in Process
      BY <2>1 DEF FindNull, Move, IsNull
    <3>2. \A d \in Client : at'[d] = IF d = c THEN "constructing" ELSE at[d]
      BY <3>1 DEF CacheTypeOK
    <3>3. \A d \in Client : Calm(d)' => Calm(d)
      BY <3>1 DEF Calm
    <3>4. ASSUME Calm(c)', NEW d \in Client, Of[d] = p
          PROVE  at[d] \notin {"constructing", "pointing", "owning"}
      BY <3>1, <3>4 DEF Calm, Assigning
    <3>5. CacheTypeOK'
      BY <3>1 DEF CacheTypeOK
    <3>6. ObjectsInOrder' /\ DestroyedInOrder'
      BY <3>1 DEF ObjectsInOrder, DestroyedInOrder
    <3>7. OneAssigns'
      BY <3>2, <3>3, <3>4 DEF OneAssigns, Calm
    <3>8. CallsInOrder'
      BY <3>1, <3>2, <3>3 DEF CallsInOrder
    <3> QED BY <3>5, <3>6, <3>7, <3>8
  <2>2. ASSUME NEW c \in Client, FindCached(c) PROVE CacheIInv'
    BY <2>2, MovesAside DEF FindCached, IsNull
  <2>3. ASSUME NEW c \in Client, List(c) PROVE CacheIInv'
    BY <2>3, MovesAside DEF List
  <2>4. ASSUME NEW c \in Client, Construct(c) PROVE CacheIInv'
    <3>1. \E label \in {"killed", "listed", "pointing", at[c]} :
            /\ Move(c, label)
            /\ label \in {"pointing", "constructing"} => at[c] = "constructing"
      BY <2>4 DEF Construct
    <3>2. at[c] \in {"constructing", "listing"}
      BY <2>4 DEF Construct
    <3> QED BY <2>4, <3>1, <3>2, MovesAside DEF Construct
  <2>5. ASSUME NEW c \in Client, Throw(c) PROVE CacheIInv'
    BY <2>5, MovesAside DEF Throw
  <2>6. ASSUME NEW c \in Client, SwapPointer(c) PROVE CacheIInv'
    <3> DEFINE p == Of[c]
    <3>1. /\ at[c] = "pointing" /\ at' = [at EXCEPT ![c] = "owning"]
          /\ pointer' = [pointer EXCEPT ![p] = c]
          /\ UNCHANGED <<owner, destroyed, held, overlapped>>
          /\ p \in Process
      BY <2>6 DEF SwapPointer, Move
    <3>2. \A d \in Client : at'[d] = IF d = c THEN "owning" ELSE at[d]
      BY <3>1 DEF CacheTypeOK
    <3>3. \A q \in Process : pointer'[q] = IF q = p THEN c ELSE pointer[q]
      BY <3>1 DEF CacheTypeOK
    <3>4. CacheTypeOK'
      BY <3>1 DEF CacheTypeOK
    <3>5. ObjectsInOrder' /\ DestroyedInOrder'
      BY <3>1, <3>3 DEF ObjectsInOrder, DestroyedInOrder
    <3>6. OneAssigns'
      BY <3>1, <3>2 DEF OneAssigns, Calm
    <3>7. Calm(c) => pointer[p] = NoObject /\ owner[p] = NoObject
      BY <3>1 DEF CallsInOrder, ObjectsInOrder, Calm
    <3>8. ASSUME NEW d \in Client, d # c, Of[d] = p, Calm(c)
          PROVE  at[d] \notin {"constructing", "pointing", "owning", "returning",
                               "copying", "returned"}
      BY <3>1, <3>7, <3>8 DEF CallsInOrder, OneAssigns, Calm
    <3>9. CallsInOrder'
      <4>1. ASSUME NEW d \in Client, Of[d] # p, Calm(d)
            PROVE  at'[d] = at[d] /\ pointer'[Of[d]] = pointer[Of[d]]
        BY <3>2, <3>3, <4>1
      <4> QED BY <3>1, <3>2, <3>3, <3>7, <3>8, <4>1 DEF CallsInOrder, Calm
    <3> QED BY <3>4, <3>5, <3>6, <3>9
  <2>7. ASSUME NEW c \in Client, SwapOwner(c) PROVE CacheIInv'
    <3> DEFINE p == Of[c]
    <3>1. /\ at[c] = "owning" /\ at' = [at EXCEPT ![c] = "returning"]
          /\ owner' = [owner EXCEPT ![p] = c]
          /\ destroyed' = destroyed \cup ({owner[p]} \ {NoObject})
          /\ UNCHANGED <<pointer, held, overlapped>>
          /\ p \in Process
      BY <2>7 DEF SwapOwner, Move, Released
    <3>2. \A d \in Client : at'[d] = IF d = c THEN "returning" ELSE at[d]
      BY <3>1 DEF CacheTypeOK
    <3>3. \A q \in Process : owner'[q] = IF q = p THEN c ELSE owner[q]
      BY <3>1 DEF CacheTypeOK
    <3>4. CacheTypeOK'
      BY <3>1 DEF CacheTypeOK
    <3>5. Calm(c) => pointer[p] = c /\ owner[p] = NoObject
      BY <3>1 DEF CallsInOrder
    <3>6. ObjectsInOrder'
      BY <3>1, <3>3, <3>5 DEF ObjectsInOrder, Calm
    <3>7. DestroyedInOrder'
      BY <3>1, <3>5 DEF DestroyedInOrder, ObjectsInOrder, Calm
    <3>8. OneAssigns'
      BY <3>1, <3>2 DEF OneAssigns, Calm
    <3>9. CallsInOrder'
      <4>1. ASSUME NEW d \in Client, d # c, Calm(d), at[d] = "owning" PROVE Of[d] # p
        BY <3>1, <4>1 DEF OneAssigns, Calm
      <4> QED BY <3>1, <3>2, <3>3, <3>5, <4>1 DEF CallsInOrder, Calm
    <3> QED BY <3>4, <3>6, <3>7, <3>8, <3>9
  <2>8. ASSUME NEW c \in Client, Dereference(c) PROVE CacheIInv'
    <3>1. /\ at[c] = "returning" /\ at' = [at EXCEPT ![c] = "copying"]
          /\ held' = [held EXCEPT ![c] = pointer[Of[c]]]
          /\ UNCHANGED <<pointer, owner, destroyed, overlapped>>
          /\ Of[c] \in Process
      BY <2>8 DEF Dereference, Move
    <3>2. \A d \in Client : /\ at'[d] = IF d = c THEN "copying" ELSE at[d]
                            /\ held'[d] = IF d = c THEN pointer[Of[c]] ELSE held[d]
      BY <3>1 DEF CacheTypeOK
    <3>3. CacheTypeOK'
      BY <3>1 DEF CacheTypeOK
    <3>4. ObjectsInOrder' /\ DestroyedInOrder' /\ OneAssigns'
      BY <3>1, <3>2 DEF ObjectsInOrder, DestroyedInOrder, OneAssigns, Calm
    <3>5. CallsInOrder'
      BY <3>1, <3>2 DEF CallsInOrder, Calm
    <3> QED BY <3>3, <3>4, <3>5
  <2>9. ASSUME NEW c \in Client, Copy(c) PROVE CacheIInv'
    <3>1. /\ at[c] = "copying"
          /\ at' = [at EXCEPT ![c] = IF held[c] \in destroyed THEN "torn" ELSE "returned"]
          /\ UNCHANGED <<pointer, owner, destroyed, held, overlapped>>
          /\ Of[c] \in Process
      BY <2>9 DEF Copy, Move
    <3>2. \A d \in Client : at'[d] = IF d # c THEN at[d]
                            ELSE IF held[c] \in destroyed THEN "torn" ELSE "returned"
      BY <3>1 DEF CacheTypeOK
    <3>3. CacheTypeOK'
      BY <3>1 DEF CacheTypeOK
    <3>4. ObjectsInOrder' /\ DestroyedInOrder' /\ OneAssigns'
      BY <3>1, <3>2 DEF ObjectsInOrder, DestroyedInOrder, OneAssigns, Calm
    <3>5. Calm(c) => held[c] \notin destroyed
      BY <3>1 DEF CallsInOrder, ObjectsInOrder, DestroyedInOrder, Calm
    <3>6. CallsInOrder'
      BY <3>1, <3>2, <3>5 DEF CallsInOrder, Calm
    <3> QED BY <3>3, <3>4, <3>6
  <2>10. CASE UNCHANGED cacheVars
    BY <2>10 DEF cacheVars, CacheTypeOK, ObjectsInOrder, DestroyedInOrder, OneAssigns,
                 CallsInOrder, Calm
  <2> QED BY <2>1, <2>2, <2>3, <2>4, <2>5, <2>6, <2>7, <2>8, <2>9, <2>10
          DEF CacheNext, Call, Proceed, allVars
<1> QED BY <1>1, <1>2, PTL DEF CacheSpec

\* Every variable of the cache has its type.
THEOREM CacheTypeCorrect == CacheSpec => []CacheTypeOK
<1>1. CacheIInv => CacheTypeOK
  BY DEF CacheIInv
<1> QED BY <1>1, CacheInvariance, PTL

\* A call copies a destroyed object only where two constructions overlapped.
THEOREM NothingTornAlone == CacheSpec => []TornNeedsOverlap
<1>1. CacheIInv => TornNeedsOverlap
  BY DEF CacheIInv, CallsInOrder, Calm, TornNeedsOverlap
<1> QED BY <1>1, CacheInvariance, PTL

\* Only there do the calls of a process get different statistics.
THEOREM CallsAgree == CacheSpec => []SequentialCallsAgree
<1>1. CacheIInv => SequentialCallsAgree
  BY DEF CacheIInv, CallsInOrder, Calm, SequentialCallsAgree
<1> QED BY <1>1, CacheInvariance, PTL

=============================================================================
