----------------------------- MODULE DataSource -----------------------------
(***************************************************************************)
(* Data sources shared by threads (src/src/qcatdatasource.cpp).            *)
(*                                                                         *)
(* Each QCATDataSource has one PGconn, which libpq allows one thread at a  *)
(* time.  executeSQL holds db_mutex, one mutex for all the data sources of *)
(* the process, around PQexec; totalRecords and unique call PQexec without *)
(* it.  When two threads are in PQexec on one connection, what either gets *)
(* is undefined.                                                           *)
(***************************************************************************)
EXTENDS Integers

CONSTANTS
  Thread,
  Source,    \* the data sources of the process
  MaxCalls,  \* bound on the calls each thread makes
  Free,      \* db_mutex is not held
  None       \* no call

ASSUME ConstantsAssumption == MaxCalls \in Nat /\ Free \notin Thread

\* Calls that reach the connection: the constructor's scan of the columns and
\* every statement of the library go through executeSQL.
Locked == {"scan", "execute"}
Bypass == {"totalRecords", "unique"}
Kind == Locked \cup Bypass

Call == [kind : Kind, src : Source]

ASSUME NoneAssumption == None \notin Call

VARIABLES
  phase,    \* of each source: "new", "opening", "good", "empty" or "bad"
  online,   \* the sources whose connection works
  mutex,    \* the thread that holds db_mutex, or Free
  call,     \* what each thread is calling
  pc,       \* where each thread is in its call
  spoiled,  \* threads whose PQexec overlapped another on the same connection
  made,     \* calls each thread has made
  status,   \* "alive", or the call in which the process died
  \* History variables.
  bypassed, \* the sources totalRecords or unique was called on
  answered  \* the sources that have answered a statement with rows

vars == <<phase, online, mutex, call, pc, spoiled, made, status, bypassed, answered>>

-----------------------------------------------------------------------------
\* Threads in PQexec on the connection of s.
Inside(s) == {t \in Thread : pc[t] = "inside" /\ call[t].src = s}

Usable == {s \in Source : phase[s] \notin {"new", "opening"}}

\* Entering PQexec: with anyone there already, all of them are spoiled.
Enter(t, s) ==
  /\ pc' = [pc EXCEPT ![t] = "inside"]
  /\ spoiled' = IF Inside(s) = {} THEN spoiled ELSE spoiled \cup Inside(s) \cup {t}

-----------------------------------------------------------------------------
\* The constructor: PQconnectdb, and on a good connection the scan of the
\* columns of the table; on a bad one it leaves the fields null.
Open(t, s) ==
  /\ pc[t] = "idle" /\ made[t] < MaxCalls
  /\ phase[s] = "new"
  /\ made' = [made EXCEPT ![t] = @ + 1]
  /\ \/ /\ phase' = [phase EXCEPT ![s] = "opening"]
        /\ online' = online \cup {s}
        /\ pc' = [pc EXCEPT ![t] = "wait"]
        /\ call' = [call EXCEPT ![t] = [kind |-> "scan", src |-> s]]
     \/ /\ phase' = [phase EXCEPT ![s] = "bad"]
        /\ UNCHANGED <<online, pc, call>>
  /\ UNCHANGED <<mutex, spoiled, status, bypassed, answered>>

\* executeSQL, called by anything that sends a statement.
Execute(t, s) ==
  /\ pc[t] = "idle" /\ made[t] < MaxCalls
  /\ s \in Usable
  /\ made' = [made EXCEPT ![t] = @ + 1]
  /\ call' = [call EXCEPT ![t] = [kind |-> "execute", src |-> s]]
  /\ pc' = [pc EXCEPT ![t] = "wait"]
  /\ UNCHANGED <<phase, online, mutex, spoiled, status, bypassed, answered>>

\* totalRecords and unique go straight to PQexec.
CallBypass(t, s, kind) ==
  /\ pc[t] = "idle" /\ made[t] < MaxCalls
  /\ s \in Usable
  /\ made' = [made EXCEPT ![t] = @ + 1]
  /\ call' = [call EXCEPT ![t] = [kind |-> kind, src |-> s]]
  /\ bypassed' = bypassed \cup {s}
  /\ Enter(t, s)
  /\ UNCHANGED <<phase, online, mutex, status, answered>>

\* Faulty variant of Lock: the lock is a temporary, gone before PQexec.
LockMomentarily(t) ==
  /\ pc[t] = "wait" /\ mutex = Free
  /\ Enter(t, call[t].src)
  /\ UNCHANGED <<phase, online, mutex, call, made, status, bypassed, answered>>

Lock(t) ==
  /\ pc[t] = "wait" /\ mutex = Free
  /\ mutex' = t
  /\ Enter(t, call[t].src)
  /\ UNCHANGED <<phase, online, call, made, status, bypassed, answered>>

\* Faulty variant of Released: a failed statement returns with the mutex held.
ReleasedIfAnswered(t, answer) ==
  IF mutex = t /\ answer = "rows" THEN Free ELSE mutex
\* The scoped_lock goes out of scope on every way out.
Released(t, answer) == IF mutex = t THEN Free ELSE mutex

\* Faulty variant of FieldsOf: goodConnection does not depend on the scan.
FieldsOfUnchecked(answer) == {"good"}
\* m_goodConnection: the scan found at least one field.
FieldsOf(answer) == IF answer = "error" THEN {"empty"} ELSE {"good", "empty"}

\* What PQexec can give: rows, if the connection works; an error; anything at
\* all, once it has been overlapped.
Answers(t) ==
  IF t \in spoiled THEN {"rows", "error", "garbled"}
  ELSE IF call[t].src \in online THEN {"rows", "error"}
  ELSE {"error"}

\* Faulty variant of Ends: every call looks at the first row of its result.
EndsAnyCall(t, answer) ==
  IF answer = "rows" THEN {"alive"} ELSE {call[t].kind}

\* totalRecords dereferences the null value of a result without rows; a garbled
\* exchange can end the process by itself.
Ends(t, answer) ==
  CASE answer = "rows" -> {"alive"}
    [] answer = "garbled" -> {"alive", "PQexec"}
    [] answer = "error" ->
         IF call[t].kind = "totalRecords" THEN {"totalRecords"} ELSE {"alive"}

Return(t) ==
  /\ pc[t] = "inside"
  /\ \E answer \in Answers(t) :
       /\ mutex' = Released(t, answer)
       /\ answered' = IF answer = "rows" THEN answered \cup {call[t].src} ELSE answered
       /\ \E fields \in FieldsOf(answer) :
            phase' = IF call[t].kind = "scan"
                     THEN [phase EXCEPT ![call[t].src] = fields] ELSE phase
       /\ status' \in Ends(t, answer)
  /\ pc' = [pc EXCEPT ![t] = "idle"]
  /\ call' = [call EXCEPT ![t] = None]
  /\ spoiled' = spoiled \ {t}
  /\ UNCHANGED <<online, made, bypassed>>

\* fieldForName looks the name up in m_fields, null on a source that never
\* connected; on any other it changes nothing.
FieldForName(s) ==
  /\ phase[s] = "bad"
  /\ status' = "fieldForName"
  /\ UNCHANGED <<phase, online, mutex, call, pc, spoiled, made, bypassed, answered>>

\* The server goes away; no code resets the connection.
Disconnect(s) ==
  /\ s \in online
  /\ online' = online \ {s}
  /\ UNCHANGED <<phase, mutex, call, pc, spoiled, made, status, bypassed, answered>>

Init ==
  /\ phase = [s \in Source |-> "new"]
  /\ online = {}
  /\ mutex = Free
  /\ call = [t \in Thread |-> None]
  /\ pc = [t \in Thread |-> "idle"]
  /\ spoiled = {}
  /\ made = [t \in Thread |-> 0]
  /\ status = "alive"
  /\ bypassed = {}
  /\ answered = {}

Next ==
  /\ status = "alive"
  /\ \/ \E t \in Thread, s \in Source :
          Open(t, s) \/ Execute(t, s) \/ \E kind \in Bypass : CallBypass(t, s, kind)
     \/ \E t \in Thread : Lock(t) \/ Return(t)
     \/ \E s \in Source : FieldForName(s) \/ Disconnect(s)

Spec == Init /\ [][Next]_vars

\* A free mutex is taken, and the server or a lost connection ends each PQexec.
FairSpec ==
  Spec /\ \A t \in Thread : WF_vars(status = "alive" /\ Lock(t))
                         /\ WF_vars(status = "alive" /\ Return(t))

-----------------------------------------------------------------------------
(* Properties. *)

TypeOK ==
  /\ phase \in [Source -> {"new", "opening", "good", "empty", "bad"}]
  /\ online \in SUBSET Source
  /\ mutex \in Thread \cup {Free}
  /\ call \in [Thread -> Call \cup {None}]
  /\ pc \in [Thread -> {"idle", "wait", "inside"}]
  /\ spoiled \in SUBSET Thread
  /\ made \in [Thread -> 0..MaxCalls]
  /\ status \in {"alive", "totalRecords", "PQexec", "fieldForName"}
  /\ bypassed \in SUBSET Source
  /\ answered \in SUBSET Source

\* db_mutex keeps statements apart: two threads are never in the PQexec of
\* executeSQL together, on one data source or on two.
OneStatementAtATime ==
  \A t, u \in Thread :
    /\ pc[t] = "inside" /\ call[t].kind \in Locked
    /\ pc[u] = "inside" /\ call[u].kind \in Locked
    => t = u

\* A connection is used by two threads at once only if totalRecords or unique
\* was called on that data source: the others are safe from those calls too.
SpoiledNeedsBypass == \A t \in spoiled : call[t].src \in bypassed

\* goodConnection() is the word of a scan that was answered, by itself, before
\* anyone could use the data source.
GoodMeansAnswered == \A s \in Source : phase[s] = "good" => s \in answered

\* Every statement gets the mutex and returns, whatever failed before it: no
\* way out of executeSQL keeps the mutex.
CallReturns ==
  \A t \in Thread :
    pc[t] # "idle" ~> pc[t] = "idle" \/ status # "alive"

=============================================================================
