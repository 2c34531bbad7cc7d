----------------------------- MODULE FieldCache -----------------------------
(***************************************************************************)
(* QCATField::stats() (src/src/qcatfield.cpp): the statistics of one field *)
(* as the threads of several processes ask for them.                       *)
(*                                                                         *)
(* Composed with FieldStats: a client is one call, of stats() or of        *)
(* QCATDataSource::fieldStats(), and its construction of the statistics    *)
(* goes through the steps of FieldStats.  Each process has one QCATField,  *)
(* whose m_cachedStats is checked, assigned and copied without a lock.     *)
(* The assignment swaps the pointer, then its owner, and releases what it  *)
(* swapped out.  An object is known by the client that built it.           *)
(***************************************************************************)
EXTENDS FieldStats

CONSTANTS
  Process,
  Of,          \* the process each client belongs to
  NoObject     \* the null pointer

ASSUME ProcessAssumption == Of \in [Client -> Process] /\ NoObject \notin Client

VARIABLES
  at,          \* where each call is
  pointer,     \* the object m_cachedStats of each process points to,
  owner,       \* and the one whose reference count it holds
  destroyed,   \* objects whose last reference is gone
  held,        \* the object each call copies or has copied
  \* History variable.
  overlapped   \* processes in which a construction began during another

cacheVars == <<at, pointer, owner, destroyed, held, overlapped>>
allVars == <<vars, cacheVars>>

-----------------------------------------------------------------------------
Move(c, label) == at' = [at EXCEPT ![c] = label]

\* A client whose statement failed in compileFromCache takes its process along.
Runs(p) == \A c \in Client : Of[c] = p => at[c] # "killed"

\* Calls that will assign the cache of p, or may.
Assigning(p) ==
  {c \in Client : Of[c] = p /\ at[c] \in {"constructing", "pointing", "owning"}}

\* Faulty variant: the cache is filled by every call.
IsNullOrNot(p) == TRUE
IsNull(p) == pointer[p] = NoObject

\* stats() begins with a look at the pointer.
FindNull(c) ==
  /\ at[c] = "idle" /\ Runs(Of[c])
  /\ IsNull(Of[c])
  /\ UNCHANGED tableExists /\ Start(c)
  /\ Move(c, "constructing")
  /\ overlapped' = overlapped \cup {p \in {Of[c]} : Assigning(p) # {}}
  /\ UNCHANGED <<pointer, owner, destroyed, held>>

FindCached(c) ==
  /\ at[c] = "idle" /\ Runs(Of[c])
  /\ ~IsNull(Of[c])
  /\ Move(c, "returning")
  /\ UNCHANGED <<vars, pointer, owner, destroyed, held, overlapped>>

\* QCATDataSource::fieldStats() constructs anew and leaves the cache alone.
List(c) ==
  /\ at[c] = "idle" /\ Runs(Of[c])
  /\ Start(c)
  /\ Move(c, "listing")
  /\ UNCHANGED <<pointer, owner, destroyed, held, overlapped>>

\* The constructor, statement by statement.
Statement(c) == Check(c) \/ Compile(c) \/ Ensure(c) \/ Save(c) \/ Load(c)

Construct(c) ==
  /\ at[c] \in {"constructing", "listing"} /\ Runs(Of[c])
  /\ Statement(c)
  /\ Move(c, CASE pc'[c] = "dead" -> "killed"
               [] pc'[c] \in {"compiled", "loaded"} ->
                    IF at[c] = "listing" THEN "listed" ELSE "pointing"
               [] OTHER -> at[c])
  /\ UNCHANGED <<pointer, owner, destroyed, held, overlapped>>

\* An exception ends the call while it compiles; nothing is assigned.
Throw(c) ==
  /\ at[c] \in {"constructing", "listing"} /\ Runs(Of[c])
  /\ pc[c] = "compile" /\ Crash(c)
  /\ Move(c, "threw")
  /\ UNCHANGED <<pointer, owner, destroyed, held, overlapped>>

\* The assignment does not look whether another call came first.
SwapPointer(c) ==
  /\ at[c] = "pointing" /\ Runs(Of[c])
  /\ pointer' = [pointer EXCEPT ![Of[c]] = c]
  /\ Move(c, "owning")
  /\ UNCHANGED <<vars, owner, destroyed, held, overlapped>>

\* Faulty variants: the object is released instead of owned; null is released.
ReleasedSelf(c) == {c}
ReleasedAny(c) == {owner[Of[c]]}

\* What the assignment releases: the object owned before it.
Released(c) == {owner[Of[c]]} \ {NoObject}

SwapOwner(c) ==
  /\ at[c] = "owning" /\ Runs(Of[c])
  /\ owner' = [owner EXCEPT ![Of[c]] = c]
  /\ destroyed' = destroyed \cup Released(c)
  /\ Move(c, "returning")
  /\ UNCHANGED <<vars, pointer, held, overlapped>>

\* return *m_cachedStats: the pointer is read anew, then the object is copied.
Dereference(c) ==
  /\ at[c] = "returning" /\ Runs(Of[c])
  /\ held' = [held EXCEPT ![c] = pointer[Of[c]]]
  /\ Move(c, "copying")
  /\ UNCHANGED <<vars, pointer, owner, destroyed, overlapped>>

Copy(c) ==
  /\ at[c] = "copying" /\ Runs(Of[c])
  /\ Move(c, IF held[c] \in destroyed THEN "torn" ELSE "returned")
  /\ UNCHANGED <<vars, pointer, owner, destroyed, held, overlapped>>

Call(c) == FindNull(c) \/ FindCached(c) \/ List(c)

Proceed(c) ==
  \/ Construct(c) \/ SwapPointer(c) \/ SwapOwner(c)
  \/ Dereference(c) \/ Copy(c)

CacheInit ==
  /\ Init
  /\ at = [c \in Client |-> "idle"]
  /\ pointer = [p \in Process |-> NoObject]
  /\ owner = [p \in Process |-> NoObject]
  /\ destroyed = {}
  /\ held = [c \in Client |-> NoObject]
  /\ overlapped = {}

CacheNext ==
  \/ \E c \in Client : Call(c) \/ Proceed(c) \/ Throw(c)
  \/ (Write \/ NextDay) /\ UNCHANGED cacheVars

\* A process may stop between any two steps: it is then never scheduled again.
CacheSpec == CacheInit /\ [][CacheNext]_allVars

\* Calls that have begun go on: their statements return, the rest is their own.
FairCacheSpec == CacheSpec /\ WF_allVars(\E c \in Client : Proceed(c))

-----------------------------------------------------------------------------
(* Properties. *)

CacheTypeOK ==
  /\ at \in [Client -> {"idle", "listing", "constructing", "pointing", "owning",
                        "returning", "copying", "returned", "torn", "listed",
                        "threw", "killed"}]
  /\ pointer \in [Process -> Client \cup {NoObject}]
  /\ owner \in [Process -> Client \cup {NoObject}]
  /\ destroyed \subseteq Client
  /\ held \in [Client -> Client \cup {NoObject}]
  /\ overlapped \subseteq Process

\* The unguarded cache is safe for calls that do not overlap while it is empty:
\* only where two constructions of a process overlapped does a call copy an object
\* that was destroyed under it.
TornNeedsOverlap == \A c \in Client : at[c] = "torn" => Of[c] \in overlapped

\* And only there do two calls of the process get different statistics, however
\* the table, the rows of the cache and the days have changed between them.
SequentialCallsAgree ==
  \A c, d \in Client :
    /\ at[c] \in {"copying", "returned"} /\ at[d] \in {"copying", "returned"}
    /\ Of[c] = Of[d] /\ held[c] # held[d]
    => Of[c] \in overlapped

\* Every placeholder gets its statistics, unless a statement failed.
PlaceholderIsTemporary == []<>(failures > 0 \/ \A c \in Rows : Saved(c))

=============================================================================
