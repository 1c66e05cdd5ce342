------------------------- MODULE TransactionClients -------------------------
(***************************************************************************)
(* Transactions run against TransactionManager by callers that keep to the *)
(* rules the documentation gives: lock a resource before touching it, keep *)
(* every lock until commit or rollback, log every write, and when a lock   *)
(* is refused ask detect_deadlock, roll back if it says yes and otherwise  *)
(* try again.  Each caller is a thread; every call is one step, because    *)
(* TransactionManager holds its mutex throughout.  The callers are outside *)
(* the library: nothing under src/ runs transactions through it but tests. *)
(***************************************************************************)
EXTENDS TransactionManager

CONSTANT NoRequest   \* a caller that is not waiting for a lock

VARIABLES want,        \* the request each caller retries, or NoRequest
          last_writer, \* who last wrote each resource, 0 at first
          accesses,    \* history: who has read and written each resource
          precedes     \* history: pairs whose accesses conflicted, in order

cvars == <<want, last_writer, accesses, precedes>>
vars == <<tmvars, cvars>>

Request == [res : Resources, type : LockTypes]

-----------------------------------------------------------------------------
(* Waiting.                                                                *)

Waiting(t) == Active(t) /\ want[t] # NoRequest

\* Whose entries make acquire_lock refuse the request t retries.
WaitsFor(t) ==
    {e.txn : e \in {x \in Others(t, want[t].res) :
                        "EXCLUSIVE" \in {x.type, want[t].type}}}

\* Some transactions wait for each other in a circle: in a finite graph,
\* a set of waiters each of which waits for another of the set.
Deadlocked ==
    \E D \in SUBSET {t \in Txns : Waiting(t)} :
        /\ D # {}
        /\ \A t \in D : WaitsFor(t) \cap D # {}

\* Fault: the search the comment in the code asks for instead, over
\* wait_graph_, which is always empty.
SearchWaitGraph == FALSE

\* detect_deadlock: there is more than one entry in the whole lock table.
\* The depth-first search it also defines is never called.
DetectDeadlock ==
    Cardinality(UNION {{r} \X lock_table_[r] : r \in Resources}) > 1

-----------------------------------------------------------------------------
(* The callers.                                                            *)

CInit ==
    /\ Init
    /\ want = [t \in Txns |-> NoRequest]
    /\ last_writer = [r \in Resources |-> 0]
    /\ accesses = [r \in Resources |-> {}]
    /\ precedes = {}

CallBegin(t) == BeginTransaction(t) /\ UNCHANGED cvars

\* A first call of acquire_lock for a lock the caller does not have yet; the
\* caller will retry if it is refused.
CallAcquire(t, r, m) ==
    /\ Active(t)
    /\ want[t] = NoRequest
    /\ ~Holds(t, r, m) /\ ~Holds(t, r, "EXCLUSIVE")
    /\ AcquireLock(t, r, m)
    /\ want' = [want EXCEPT ![t] = IF CanAcquire(t, r, m)
                                   THEN NoRequest
                                   ELSE [res |-> r, type |-> m]]
    /\ UNCHANGED <<last_writer, accesses, precedes>>

\* A retry that is granted; one that is refused changes nothing.
CallAgain(t) ==
    /\ Waiting(t)
    /\ CanAcquire(t, want[t].res, want[t].type)
    /\ AcquireLock(t, want[t].res, want[t].type)
    /\ want' = [want EXCEPT ![t] = NoRequest]
    /\ UNCHANGED <<last_writer, accesses, precedes>>

\* A read under any lock, or a write under an exclusive one.  A write calls
\* log_operation with the old value.  Repeating an access, or reading back
\* what t itself wrote, would add nothing to the history.
Access(t, r, m) ==
    /\ Active(t)
    /\ Holds(t, r, m) \/ Holds(t, r, "EXCLUSIVE")
    /\ {Entry(t, m), Entry(t, "EXCLUSIVE")} \cap accesses[r] = {}
    /\ accesses' = [accesses EXCEPT ![r] = @ \cup {Entry(t, m)}]
    /\ precedes' = precedes \cup
           {<<e.txn, t>> : e \in {x \in accesses[r] :
                x.txn # t /\ "EXCLUSIVE" \in {x.type, m}}}
    /\ IF m = "EXCLUSIVE"
       THEN LogOperation(t) /\ last_writer' = [last_writer EXCEPT ![r] = t]
       ELSE UNCHANGED <<tmvars, last_writer>>
    /\ UNCHANGED want

CallCommit(t) ==
    /\ want[t] = NoRequest
    /\ CommitTransaction(t)
    /\ UNCHANGED cvars

\* rollback_transaction, by choice or as the victim of detect_deadlock.  It
\* prints the undo log and writes nothing back, so last_writer stays.
CallRollback(t) ==
    /\ want[t] = NoRequest \/ DetectDeadlock
    /\ RollbackTransaction(t)
    /\ want' = [want EXCEPT ![t] = NoRequest]
    /\ UNCHANGED <<last_writer, accesses, precedes>>

CNext ==
    \E t \in Txns :
        \/ CallBegin(t)
        \/ CallAgain(t)
        \/ CallCommit(t)
        \/ CallRollback(t)
        \/ \E r \in Resources, m \in LockTypes :
               CallAcquire(t, r, m) \/ Access(t, r, m)

\* A caller that can finish, by being granted what it waits for, by
\* committing or as a victim, is not suspended for ever.
Progress(t) == CallAgain(t) \/ CallCommit(t) \/ (Waiting(t) /\ CallRollback(t))

CSpec == CInit /\ [][CNext]_vars /\ \A t \in Txns : WF_vars(Progress(t))

-----------------------------------------------------------------------------
(* Properties.                                                             *)

\* Types of the callers' variables.
CTypeOK ==
    /\ want \in [Txns -> Request \cup {NoRequest}]
    /\ last_writer \in [Resources -> Txns \cup {0}]
    /\ accesses \in [Resources -> SUBSET LockEntry]
    /\ precedes \subseteq Txns \X Txns

\* Conflict serializability: accesses that conflict never order transactions
\* in a circle.  It is what the lock table is for.
Serializable ==
    ~ \E D \in SUBSET Txns :
          /\ D # {}
          /\ \A t \in D : \E u \in D : <<t, u>> \in precedes

\* Rolling back takes a transaction's writes back: no one reads them later.
ReadsNoAbortedWriter ==
    [][\A t \in Txns, r \in Resources :
           Entry(t, "SHARED") \in accesses'[r] \ accesses[r] =>
               \/ last_writer[r] = 0
               \/ txn_state[last_writer[r]] # "ABORTED"]_vars

\* detect_deadlock misses no circle of waiting transactions.  (The converse is
\* false: two unrelated locks are enough for it to say yes.)
DetectionComplete == Deadlocked => DetectDeadlock

\* Callers that obey detect_deadlock all finish: refused requests that are
\* retried neither deadlock nor retry for ever.  Stated once for all the
\* transactions: MaxTxns of them begin and none begins twice, so each ends
\* exactly when there is always a later state in which none is active.
EveryTransactionEnds == []<>(\A t \in Txns : ~Active(t))
=============================================================================
