-------------------------- MODULE DataSource_proofs --------------------------
(***************************************************************************)
(* Proofs about DataSource, for any threads, data sources and calls.       *)
(***************************************************************************)
EXTENDS DataSource, TLAPS

\* A call is in progress exactly when a thread is not idle; it waits only for
\* the mutex; whoever is inside with a locked call holds it.
CallsInOrder ==
  \A t \in Thread :
    /\ pc[t] = "idle" <=> call[t] = None
    /\ pc[t] = "wait" => call[t].kind \in Locked
    /\ pc[t] = "inside" /\ call[t].kind \in Locked => mutex = t

\* A source in construction is used by the scan of one thread and no other
\* call; totalRecords and unique come later, and are recorded.
SourcesInOrder ==
  /\ \A t \in Thread :
       pc[t] # "idle" =>
         IF call[t].kind = "scan" THEN phase[call[t].src] = "opening"
                                  ELSE call[t].src \in Usable
  /\ \A t, u \in Thread :
       /\ pc[t] # "idle" /\ call[t].kind = "scan"
       /\ pc[u] # "idle" /\ call[u].kind = "scan"
       /\ call[t].src = call[u].src
       => t = u
  /\ bypassed \subseteq Usable
  /\ \A t \in Thread :
       pc[t] = "inside" /\ call[t].kind \in Bypass => call[t].src \in bypassed

SpoiledInOrder ==
  \A t \in spoiled : pc[t] = "inside" /\ call[t].src \in bypassed

IInv ==
  /\ TypeOK
  /\ CallsInOrder
  /\ SourcesInOrder
  /\ SpoiledInOrder
  /\ GoodMeansAnswered

-----------------------------------------------------------------------------
\* A statement whose exchange was not overlapped gives rows or an error.
LEMMA CleanAnswers ==
  ASSUME NEW t \in Thread, t \notin spoiled
  PROVE  Answers(t) \subseteq {"rows", "error"}
BY DEF Answers

\* Entering PQexec on s spoils threads only where s was bypassed or will be:
\* one that enters with the mutex finds no other thread with a locked call.
LEMMA EnterSpoils ==
  ASSUME IInv, NEW t \in Thread, NEW s \in Source, Enter(t, s), pc[t] # "inside",
         call'[t].src = s, \A u \in Thread \ {t} : call'[u] = call[u],
         bypassed \subseteq bypassed', mutex = Free \/ s \in bypassed'
  PROVE  SpoiledInOrder'
<1>1. pc' = [pc EXCEPT ![t] = "inside"]
  BY DEF Enter
<1>2. ASSUME NEW u \in spoiled PROVE pc'[u] = "inside" /\ call'[u].src \in bypassed'
  <2>1. u \in Thread /\ pc[u] = "inside" /\ call[u].src \in bypassed
    BY DEF IInv, TypeOK, SpoiledInOrder
  <2> QED BY <1>1, <2>1 DEF IInv, TypeOK
<1>3. ASSUME NEW u \in Inside(s)
      PROVE  pc'[u] = "inside" /\ call'[u].src = s /\ s \in bypassed'
  <2>1. u \in Thread /\ pc[u] = "inside" /\ call[u].src = s /\ call[u] \in Call
    BY DEF IInv, TypeOK, CallsInOrder, Inside
  <2>2. mutex = Free => call[u].kind \notin Locked
    BY <2>1, ConstantsAssumption DEF IInv, CallsInOrder
  <2>3. mutex = Free => s \in bypassed
    BY <2>1, <2>2 DEF IInv, SourcesInOrder, Call, Kind
  <2> QED BY <1>1, <2>1, <2>3 DEF IInv, TypeOK
<1>4. CASE Inside(s) = {}
  BY <1>2, <1>4 DEF Enter, SpoiledInOrder
<1>5. CASE Inside(s) # {}
  <2>1. s \in bypassed'
    BY <1>3, <1>5
  <2>2. pc'[t] = "inside"
    BY <1>1 DEF IInv, TypeOK
  <2>3. spoiled' = spoiled \cup Inside(s) \cup {t}
    BY <1>5 DEF Enter
  <2> QED BY <1>2, <1>3, <2>1, <2>2, <2>3 DEF SpoiledInOrder
<1> QED BY <1>4, <1>5

-----------------------------------------------------------------------------
\* The inductive invariant holds throughout.
THEOREM Invariance == Spec => []IInv
<1> USE ConstantsAssumption, NoneAssumption
<1>1. Init => IInv
  BY DEF Init, IInv, TypeOK, CallsInOrder, SourcesInOrder, SpoiledInOrder,
         GoodMeansAnswered, Usable
<1>2. IInv /\ [Next]_vars => IInv'
  <2> SUFFICES ASSUME IInv, [Next]_vars PROVE IInv'
    OBVIOUS
  <2> TypeOK
    BY DEF IInv
  <2>1. ASSUME NEW t \in Thread, NEW s \in Source, Open(t, s) PROVE IInv'
    <3>1. /\ pc[t] = "idle" /\ made[t] < MaxCalls /\ phase[s] = "new"
          /\ made' = [made EXCEPT ![t] = @ + 1]
          /\ UNCHANGED <<mutex, spoiled, status, bypassed, answered>>
      BY <2>1 DEF Open
    <3>2. made' \in [Thread -> 0..MaxCalls]
      BY <3>1 DEF TypeOK
    <3>3. CASE /\ phase' = [phase EXCEPT ![s] = "opening"]
               /\ online' = online \cup {s}
               /\ pc' = [pc EXCEPT ![t] = "wait"]
               /\ call' = [call EXCEPT ![t] = [kind |-> "scan", src |-> s]]
      <4>1. [kind |-> "scan", src |-> s] \in Call
        BY DEF Call, Kind, Locked
      <4>2. TypeOK'
        BY <3>1, <3>2, <3>3, <4>1 DEF TypeOK
      <4>3. CallsInOrder'
        BY <3>1, <3>3, <4>1 DEF IInv, TypeOK, CallsInOrder, Locked
      <4>4. s \notin Usable /\ Usable' = Usable
        BY <3>1, <3>3 DEF Usable, TypeOK
      <4>5. \A u \in Thread : pc[u] # "idle" => call[u].src # s
        BY <3>1, <4>4 DEF IInv, SourcesInOrder
      <4>6. SourcesInOrder'
        <5>1. \A u \in Thread \ {t} : pc'[u] = pc[u] /\ call'[u] = call[u]
          BY <3>3 DEF TypeOK
        <5>2. pc'[t] = "wait" /\ call'[t] = [kind |-> "scan", src |-> s]
          BY <3>3 DEF TypeOK
        <5>3. /\ phase'[s] = "opening"
              /\ \A r \in Source \ {s} : phase'[r] = phase[r]
          BY <3>3 DEF TypeOK
        <5>4. \A u \in Thread : pc[u] # "idle" => call[u].src \in Source
          BY DEF IInv, CallsInOrder, TypeOK, Call
        <5> QED BY <3>1, <4>4, <4>5, <5>1, <5>2, <5>3, <5>4 DEF IInv, SourcesInOrder
      <4>7. SpoiledInOrder'
        BY <3>1, <3>3 DEF IInv, TypeOK, SpoiledInOrder
      <4>8. GoodMeansAnswered'
        BY <3>1, <3>3 DEF IInv, GoodMeansAnswered, TypeOK
      <4> QED BY <4>2, <4>3, <4>6, <4>7, <4>8 DEF IInv
    <3>4. CASE phase' = [phase EXCEPT ![s] = "bad"] /\ UNCHANGED <<online, pc, call>>
      <4>1. TypeOK'
        BY <3>1, <3>2, <3>4 DEF TypeOK
      <4>2. \A u \in Thread : pc[u] # "idle" => call[u].src # s
        BY <3>1 DEF IInv, SourcesInOrder, Usable
      <4>3. Usable \subseteq Usable'
        BY <3>4 DEF Usable, TypeOK
      <4>4. SourcesInOrder'
        <5>1. \A r \in Source \ {s} : phase'[r] = phase[r]
          BY <3>4 DEF TypeOK
        <5>2. \A u \in Thread : pc[u] # "idle" => call[u].src \in Source
          BY DEF IInv, CallsInOrder, TypeOK, Call
        <5> QED BY <3>1, <3>4, <4>2, <4>3, <5>1, <5>2 DEF IInv, SourcesInOrder
      <4> QED BY <3>1, <3>4, <4>1, <4>4
              DEF IInv, TypeOK, CallsInOrder, SpoiledInOrder, GoodMeansAnswered
    <3> QED BY <2>1, <3>3, <3>4 DEF Open
  <2>2. ASSUME NEW t \in Thread, NEW s \in Source, Execute(t, s) PROVE IInv'
    <3> DEFINE c == [kind |-> "execute", src |-> s]
    <3>1. /\ pc[t] = "idle" /\ made[t] < MaxCalls /\ s \in Usable
          /\ made' = [made EXCEPT ![t] = @ + 1]
          /\ call' = [call EXCEPT ![t] = c]
          /\ pc' = [pc EXCEPT ![t] = "wait"]
          /\ UNCHANGED <<phase, online, mutex, spoiled, status, bypassed, answered>>
      BY <2>2 DEF Execute
    <3>2. c \in Call /\ c.kind \in Locked /\ c.kind # "scan"
      BY DEF Call, Kind, Locked
    <3>3. made' \in [Thread -> 0..MaxCalls]
      BY <3>1 DEF TypeOK
    <3>4. TypeOK'
      BY <3>1, <3>2, <3>3 DEF TypeOK
    <3>5. CallsInOrder' /\ SpoiledInOrder' /\ GoodMeansAnswered'
      BY <3>1, <3>2 DEF IInv, TypeOK, CallsInOrder, SpoiledInOrder, GoodMeansAnswered
    <3>6. SourcesInOrder'
      BY <3>1, <3>2 DEF IInv, TypeOK, SourcesInOrder, Usable
    <3> QED BY <3>4, <3>5, <3>6 DEF IInv
  <2>3. ASSUME NEW t \in Thread, NEW s \in Source, NEW kind \in Bypass,
               CallBypass(t, s, kind)
        PROVE  IInv'
    <3> DEFINE c == [kind |-> kind, src |-> s]
    <3>1. /\ pc[t] = "idle" /\ made[t] < MaxCalls /\ s \in Usable
          /\ made' = [made EXCEPT ![t] = @ + 1]
          /\ call' = [call EXCEPT ![t] = c]
          /\ bypassed' = bypassed \cup {s}
          /\ Enter(t, s)
          /\ UNCHANGED <<phase, online, mutex, status, answered>>
      BY <2>3 DEF CallBypass
    <3>2. c \in Call /\ c.kind \notin Locked /\ c.kind # "scan" /\ c.src = s
      BY DEF Call, Kind, Locked, Bypass
    <3>3. made' \in [Thread -> 0..MaxCalls]
      BY <3>1 DEF TypeOK
    <3>4. /\ pc' = [pc EXCEPT ![t] = "inside"]
          /\ spoiled' \in SUBSET Thread
      BY <3>1 DEF Enter, TypeOK, Inside
    <3>5. TypeOK'
      BY <3>1, <3>2, <3>3, <3>4 DEF TypeOK
    <3>6. CallsInOrder' /\ GoodMeansAnswered'
      BY <3>1, <3>2, <3>4 DEF IInv, TypeOK, CallsInOrder, GoodMeansAnswered
    <3>7. SourcesInOrder'
      BY <3>1, <3>2, <3>4 DEF IInv, TypeOK, SourcesInOrder, Usable
    <3>8. call'[t].src = s /\ \A u \in Thread \ {t} : call'[u] = call[u]
      BY <3>1, <3>2 DEF TypeOK
    <3>9. SpoiledInOrder'
      BY <3>1, <3>8, EnterSpoils
    <3> QED BY <3>5, <3>6, <3>7, <3>9 DEF IInv
  <2>4. ASSUME NEW t \in Thread, Lock(t) PROVE IInv'
    <3>1. /\ pc[t] = "wait" /\ mutex = Free /\ mutex' = t
          /\ Enter(t, call[t].src)
          /\ UNCHANGED <<phase, online, call, made, status, bypassed, answered>>
      BY <2>4 DEF Lock
    <3>2. call[t] \in Call /\ call[t].kind \in Locked /\ call[t].src \in Source
      BY <3>1 DEF IInv, CallsInOrder, TypeOK, Call
    <3>3. /\ pc' = [pc EXCEPT ![t] = "inside"]
          /\ spoiled' \in SUBSET Thread
      BY <3>1 DEF Enter, TypeOK, Inside
    <3>4. TypeOK'
      BY <3>1, <3>3 DEF TypeOK
    <3>5. CallsInOrder' /\ GoodMeansAnswered'
      BY <3>1, <3>2, <3>3 DEF IInv, TypeOK, CallsInOrder, GoodMeansAnswered
    <3>6. SourcesInOrder'
      <4>1. call[t].kind \notin Bypass
        BY <3>2 DEF Locked, Bypass
      <4> QED BY <3>1, <3>3, <4>1 DEF IInv, TypeOK, SourcesInOrder, Usable
    <3>7. SpoiledInOrder'
      BY <3>1, <3>2, EnterSpoils
    <3> QED BY <3>4, <3>5, <3>6, <3>7 DEF IInv
  <2>5. ASSUME NEW t \in Thread, Return(t) PROVE IInv'
    <3>1. /\ pc[t] = "inside"
          /\ pc' = [pc EXCEPT ![t] = "idle"]
          /\ call' = [call EXCEPT ![t] = None]
          /\ spoiled' = spoiled \ {t}
          /\ UNCHANGED <<online, made, bypassed>>
      BY <2>5 DEF Return
    <3>2. call[t] \in Call /\ call[t].src \in Source
      BY <3>1 DEF IInv, CallsInOrder, TypeOK, Call
    <3>2a. PICK answer \in Answers(t) :
            /\ mutex' = Released(t, answer)
            /\ answered' = IF answer = "rows" THEN answered \cup {call[t].src} ELSE answered
            /\ \E fields \in FieldsOf(answer) :
                 phase' = IF call[t].kind = "scan"
                          THEN [phase EXCEPT ![call[t].src] = fields] ELSE phase
            /\ status' \in Ends(t, answer)
      BY <2>5 DEF Return
    <3>2b. PICK fields \in FieldsOf(answer) :
            phase' = IF call[t].kind = "scan"
                     THEN [phase EXCEPT ![call[t].src] = fields] ELSE phase
      BY <3>2a
    <3>3. /\ mutex' = Released(t, answer)
          /\ answered' = IF answer = "rows" THEN answered \cup {call[t].src} ELSE answered
          /\ phase' = IF call[t].kind = "scan"
                      THEN [phase EXCEPT ![call[t].src] = fields] ELSE phase
          /\ status' \in Ends(t, answer)
      BY <3>2a, <3>2b
    <3>4. fields \in {"good", "empty"} /\ answer \in {"rows", "error", "garbled"}
      BY <3>3 DEF FieldsOf, Answers
    <3>5. status' \in {"alive", "totalRecords", "PQexec", "fieldForName"}
      BY <3>3, <3>4 DEF Ends
    <3>6. TypeOK'
      BY <3>1, <3>2, <3>3, <3>4, <3>5 DEF TypeOK, Released
    <3>7. CallsInOrder'
      BY <3>1, <3>3 DEF IInv, TypeOK, CallsInOrder, Released
    <3>8. Usable \subseteq Usable'
      BY <3>2, <3>3, <3>4 DEF Usable, TypeOK
    <3>9. SourcesInOrder'
      <4>1. CASE call[t].kind = "scan"
        <5>1. phase[call[t].src] = "opening"
          BY <3>1, <4>1 DEF IInv, SourcesInOrder
        <5>2. \A u \in Thread \ {t} : pc[u] # "idle" => call[u].src # call[t].src
          BY <3>1, <4>1, <5>1 DEF IInv, SourcesInOrder, Usable
        <5>3. \A r \in Source : r # call[t].src => phase'[r] = phase[r]
          BY <3>2, <3>3, <4>1 DEF TypeOK
        <5>4. \A u \in Thread : pc[u] # "idle" => call[u].src \in Source
          BY DEF IInv, CallsInOrder, TypeOK, Call
        <5> QED BY <3>1, <3>8, <5>2, <5>3, <5>4 DEF IInv, TypeOK, SourcesInOrder
      <4>2. CASE call[t].kind # "scan"
        BY <3>1, <3>3, <3>8, <4>2 DEF IInv, TypeOK, SourcesInOrder
      <4> QED BY <4>1, <4>2
    <3>10. SpoiledInOrder'
      BY <3>1 DEF IInv, TypeOK, SpoiledInOrder
    <3>11. GoodMeansAnswered'
      <4>1. CASE call[t].kind = "scan"
        <5>1. t \notin spoiled
          BY <3>1, <4>1 DEF IInv, SpoiledInOrder, SourcesInOrder, Usable
        <5>2. answer \in {"rows", "error"}
          BY <5>1, CleanAnswers
        <5>3. fields = "good" => answer = "rows"
          BY <3>3, <5>2 DEF FieldsOf
        <5> QED BY <3>2, <3>3, <4>1, <5>3 DEF IInv, TypeOK, GoodMeansAnswered
      <4>2. CASE call[t].kind # "scan"
        BY <3>3, <4>2 DEF IInv, GoodMeansAnswered
      <4> QED BY <4>1, <4>2
    <3> QED BY <3>6, <3>7, <3>9, <3>10, <3>11 DEF IInv
  <2>6. CASE (\E s \in Source : FieldForName(s) \/ Disconnect(s)) \/ UNCHANGED vars
    <3>1. /\ UNCHANGED <<phase, mutex, call, pc, spoiled, made, bypassed, answered>>
          /\ online' \subseteq online
          /\ status' \in {status, "fieldForName"}
      BY <2>6 DEF FieldForName, Disconnect, vars
    <3>2. TypeOK'
      BY <3>1 DEF TypeOK
    <3>3. Usable' = Usable
      BY <3>1 DEF Usable
    <3> QED BY <3>1, <3>2, <3>3
            DEF IInv, CallsInOrder, SourcesInOrder, SpoiledInOrder, GoodMeansAnswered
  <2> QED BY <2>1, <2>2, <2>3, <2>4, <2>5, <2>6 DEF Next
<1> QED BY <1>1, <1>2, PTL DEF Spec

\* Sources, connections and threads have their types (qcatdatasource.cpp).
THEOREM TypeCorrect == Spec => []TypeOK
<1>1. IInv => TypeOK
  BY DEF IInv
<1> QED BY <1>1, Invariance, PTL

\* db_mutex does exclude: of all the threads and data sources of the process, at
\* most one is in a statement sent by executeSQL.
THEOREM StatementsExclude == Spec => []OneStatementAtATime
<1>1. IInv => OneStatementAtATime
  BY DEF IInv, CallsInOrder, OneStatementAtATime
<1> QED BY <1>1, Invariance, PTL

\* A process that calls neither totalRecords nor unique on a data source never
\* has two threads on its connection.
THEOREM OnlyBypassSpoils == Spec => []SpoiledNeedsBypass
<1>1. IInv => SpoiledNeedsBypass
  BY DEF IInv, SpoiledInOrder, SpoiledNeedsBypass
<1> QED BY <1>1, Invariance, PTL

\* A good connection has answered the scan of its columns.
THEOREM GoodConnections == Spec => []GoodMeansAnswered
<1>1. IInv => GoodMeansAnswered
  BY DEF IInv
<1> QED BY <1>1, Invariance, PTL

=============================================================================
