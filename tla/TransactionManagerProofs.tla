---------------------- MODULE TransactionManagerProofs ----------------------
(***************************************************************************)
(* TransactionManager for every set of resources and every bound: its      *)
(* invariants, the two action properties and the implementation of         *)
(* LockService.  Everything rests on IInv, which is inductive: OneEntryEach *)
(* is what makes an upgrade leave a single entry, HoldersActive is what    *)
(* makes it safe to test compatibility against the lock table alone, and   *)
(* FreshIds is what makes an identifier new when it is begun.              *)
(***************************************************************************)
EXTENDS TransactionClients, FiniteSetTheorems, TLAPS

-----------------------------------------------------------------------------
(* What the helpers on the lock table return.                              *)

\* A granted request leaves t one entry and the others' entries as they are.
LEMMA GrantedEntries ==
    ASSUME IInv, NEW t \in Txns, NEW r \in Resources, NEW m \in LockTypes,
           CanAcquire(t, r, m)
    PROVE  /\ Granted(t, r, m) \subseteq LockEntry
           /\ \A e \in Granted(t, r, m) :
                  e.txn = t \/ e \in lock_table_[r]
           /\ \A e, f \in Granted(t, r, m) :
                  e.type = "EXCLUSIVE" => e.txn = f.txn
           /\ \A e, f \in Granted(t, r, m) : e.txn = f.txn => e = f
<1> USE DEF IInv, TypeOK, LocksCompatible, OneEntryEach, LockEntry, LockTypes,
            Entry, Own, Others, Holds, CanAcquire, Compatible, Granted
<1>1. CASE Holds(t, r, "EXCLUSIVE")
  BY <1>1
<1>2. CASE ~Holds(t, r, "EXCLUSIVE")
  <2>1. Granted(t, r, m) = Others(t, r) \cup {Entry(t, m)}
    BY <1>2
  <2>2. Entry(t, m) \in LockEntry /\ Entry(t, m).txn = t /\ Entry(t, m).type = m
    OBVIOUS
  <2>3. \A e \in Others(t, r) : e \in lock_table_[r] /\ e.txn # t
    OBVIOUS
  <2>4. m = "EXCLUSIVE" => Others(t, r) = {}
    <3>1. CASE Own(t, r) = {}
      BY <3>1
    <3>2. CASE Own(t, r) # {}
      BY <3>2, <1>2
    <3>3. QED
      BY <3>1, <3>2
  <2>5. \A e \in Others(t, r) : e.type # "EXCLUSIVE"
    <3>1. CASE Own(t, r) = {}
      BY <3>1, <2>4
    <3>2. CASE Own(t, r) # {}
      BY <3>2
    <3>3. QED
      BY <3>1, <3>2
  <2>6. QED
    BY <2>1, <2>2, <2>3, <2>4, <2>5
<1>3. QED
  BY <1>1, <1>2

-----------------------------------------------------------------------------
(* IInv holds initially and every operation preserves it.                  *)

\* A manager without transactions has no locks.
LEMMA InitIInv == Init => IInv
  BY MaxTxnsAssumption, MaxLogAssumption
  DEF Init, IInv, TypeOK, LocksCompatible, OneEntryEach, HoldersActive,
      FreshIds, Active, Txns, LockEntry

\* A new identifier has no locks yet.
LEMMA BeginIInv ==
    ASSUME IInv, NEW t \in Txns, BeginTransaction(t)
    PROVE  IInv'
<1> USE DEF IInv, BeginTransaction
<1>1. TypeOK'
  BY MaxTxnsAssumption DEF TypeOK, Txns
<1>2. LocksCompatible' /\ OneEntryEach'
  BY DEF LocksCompatible, OneEntryEach
<1>3. HoldersActive'
  BY DEF TypeOK, HoldersActive, Active, LockEntry
<1>4. FreshIds'
  BY MaxTxnsAssumption DEF TypeOK, FreshIds, Txns
<1>5. QED
  BY <1>1, <1>2, <1>3, <1>4

\* Commit and rollback differ only in the state they end in.
LEMMA EndIInv ==
    ASSUME IInv, NEW t \in Txns, NEW s \in {"COMMITTED", "ABORTED"},
           Active(t),
           txn_state' = [txn_state EXCEPT ![t] = s],
           lock_table_' = ReleaseAllLocks(t),
           UNCHANGED <<next_txn_id_, undo_log>>
    PROVE  IInv'
<1> USE DEF IInv, ReleaseAllLocks, Own, Others
<1>1. TypeOK'
  BY DEF TypeOK
<1>2. LocksCompatible' /\ OneEntryEach'
  BY DEF LocksCompatible, OneEntryEach
<1>3. HoldersActive'
  BY DEF TypeOK, HoldersActive, Active, LockEntry
<1>4. FreshIds'
  BY DEF TypeOK, FreshIds, Active
<1>5. QED
  BY <1>1, <1>2, <1>3, <1>4

\* A granted lock leaves one entry, compatible with all others.
LEMMA AcquireIInv ==
    ASSUME IInv, NEW t \in Txns, NEW r \in Resources, NEW m \in LockTypes,
           AcquireLock(t, r, m)
    PROVE  IInv'
<1>1. CASE ~CanAcquire(t, r, m)
  BY <1>1 DEF AcquireLock, IInv, TypeOK, LocksCompatible, OneEntryEach,
              HoldersActive, FreshIds, Active
<1>2. CASE CanAcquire(t, r, m)
  <2>1. /\ lock_table_' = [lock_table_ EXCEPT ![r] = Granted(t, r, m)]
        /\ UNCHANGED <<next_txn_id_, txn_state, undo_log>>
    BY <1>2 DEF AcquireLock
  <2>2. /\ lock_table_'[r] = Granted(t, r, m)
        /\ \A q \in Resources \ {r} : lock_table_'[q] = lock_table_[q]
    BY <2>1 DEF IInv, TypeOK
  <2>3. TypeOK'
    BY <1>2, <2>1, GrantedEntries DEF IInv, TypeOK
  <2>4. LocksCompatible' /\ OneEntryEach'
    BY <1>2, <2>2, GrantedEntries DEF IInv, LocksCompatible, OneEntryEach
  <2>5. HoldersActive'
    BY <1>2, <2>1, <2>2, GrantedEntries
    DEF IInv, HoldersActive, Active, CanAcquire
  <2>6. FreshIds'
    BY <2>1 DEF IInv, FreshIds
  <2>7. QED
    BY <2>3, <2>4, <2>5, <2>6 DEF IInv
<1>3. QED
  BY <1>1, <1>2

\* Fewer entries disturb nothing.
LEMMA ReleaseIInv ==
    ASSUME IInv, NEW t \in Txns, NEW r \in Resources, ReleaseLock(t, r)
    PROVE  IInv'
  BY DEF IInv, ReleaseLock, Own, Others, TypeOK, LocksCompatible,
         OneEntryEach, HoldersActive, FreshIds, Active

\* Undo entries are not looked at by the other parts.
LEMMA LogIInv ==
    ASSUME IInv, NEW t \in Txns, LogOperation(t)
    PROVE  IInv'
<1>1. TypeOK'
  BY MaxLogAssumption DEF IInv, TypeOK, LogOperation
<1>2. QED
  BY <1>1 DEF IInv, LogOperation, LocksCompatible, OneEntryEach,
              HoldersActive, FreshIds, Active

\* Every operation keeps IInv.
LEMMA NextIInv == IInv /\ [Next]_tmvars => IInv'
<1> SUFFICES ASSUME IInv, [Next]_tmvars
             PROVE  IInv'
  OBVIOUS
<1>1. ASSUME NEW t \in Txns, BeginTransaction(t)
      PROVE  IInv'
  BY <1>1, BeginIInv
<1>2. ASSUME NEW t \in Txns, CommitTransaction(t)
      PROVE  IInv'
  BY <1>2, EndIInv DEF CommitTransaction
<1>3. ASSUME NEW t \in Txns, RollbackTransaction(t)
      PROVE  IInv'
  BY <1>3, EndIInv DEF RollbackTransaction
<1>4. ASSUME NEW t \in Txns, LogOperation(t)
      PROVE  IInv'
  BY <1>4, LogIInv
<1>5. ASSUME NEW t \in Txns, NEW r \in Resources, NEW m \in LockTypes,
             AcquireLock(t, r, m)
      PROVE  IInv'
  BY <1>5, AcquireIInv
<1>6. ASSUME NEW t \in Txns, NEW r \in Resources, ReleaseLock(t, r)
      PROVE  IInv'
  BY <1>6, ReleaseIInv
<1>7. CASE UNCHANGED tmvars
  BY <1>7 DEF tmvars, IInv, TypeOK, LocksCompatible, OneEntryEach,
              HoldersActive, FreshIds, Active
<1>8. QED
  BY <1>1, <1>2, <1>3, <1>4, <1>5, <1>6, <1>7 DEF Next

\* The tables always satisfy the inductive invariant.
THEOREM Invariance == Spec => []IInv
<1>1. Init => IInv
  BY InitIInv
<1>2. IInv /\ [Next]_tmvars => IInv'
  BY NextIInv
<1>3. QED
  BY <1>1, <1>2, PTL DEF Spec

\* Every variable keeps its type, and ROLLING_BACK is never left behind.
THEOREM TypeCorrect == Spec => []TypeOK
<1>1. IInv => TypeOK
  BY DEF IInv
<1>2. QED
  BY <1>1, Invariance, PTL

\* acquire_lock never lets two transactions hold conflicting locks.
THEOREM LockExclusion == Spec => []LocksCompatible
<1>1. IInv => LocksCompatible
  BY DEF IInv
<1>2. QED
  BY <1>1, Invariance, PTL

\* acquire_lock never gives a transaction a second entry on a resource.
THEOREM SingleEntry == Spec => []OneEntryEach
<1>1. IInv => OneEntryEach
  BY DEF IInv
<1>2. QED
  BY <1>1, Invariance, PTL

\* No lock outlives its transaction: commit and rollback release them all,
\* and acquire_lock refuses whoever has ended.
THEOREM NoOrphanLock == Spec => []HoldersActive
<1>1. IInv => HoldersActive
  BY DEF IInv
<1>2. QED
  BY <1>1, Invariance, PTL

-----------------------------------------------------------------------------
(* What one step may do.                                                   *)

\* COMMITTED and ABORTED are final, and begin_transaction hands out new
\* identifiers only: FreshIds says next_txn_id_ has never been begun.
THEOREM EndedStaysEnded == Spec => EndedIsFinal
<1> DEFINE Step ==
      \A t \in Txns :
          /\ txn_state[t] \in {"COMMITTED", "ABORTED"} => UNCHANGED txn_state[t]
          /\ txn_state[t] # "NONE" => txn_state'[t] # "NONE"
<1>1. ASSUME IInv, Next
      PROVE  Step
  <2> USE DEF IInv, TypeOK, Active
  <2>1. ASSUME NEW u \in Txns, BeginTransaction(u)
        PROVE  Step
    <3>1. txn_state[u] = "NONE"
      BY <1>1, <2>1 DEF BeginTransaction, FreshIds, Txns
    <3>2. QED
      BY <1>1, <2>1, <3>1 DEF BeginTransaction
  <2>2. ASSUME NEW u \in Txns, CommitTransaction(u)
        PROVE  Step
    BY <1>1, <2>2 DEF CommitTransaction
  <2>3. ASSUME NEW u \in Txns, RollbackTransaction(u)
        PROVE  Step
    BY <1>1, <2>3 DEF RollbackTransaction
  <2>4. ASSUME NEW u \in Txns, LogOperation(u)
        PROVE  Step
    BY <1>1, <2>4 DEF LogOperation
  <2>5. ASSUME NEW u \in Txns, NEW r \in Resources,
               ReleaseLock(u, r) \/ \E m \in LockTypes : AcquireLock(u, r, m)
        PROVE  Step
    BY <1>1, <2>5 DEF ReleaseLock, AcquireLock
  <2>6. QED
    BY <1>1, <2>1, <2>2, <2>3, <2>4, <2>5 DEF Next
<1>2. IInv /\ [Next]_tmvars => [Step]_tmvars
  BY <1>1
<1>3. QED
  BY <1>2, Invariance, PTL DEF Spec, EndedIsFinal

\* A transaction loses a lock only as it ends, or by a step that removes
\* that entry alone: no grant, upgrade or release disturbs anyone else's.
THEOREM LocksAreKept == Spec => LocksKept
<1> DEFINE Lost(t, r, m) ==
             /\ Holds(t, r, m)
             /\ ~ (Holds(t, r, m) \/ Holds(t, r, "EXCLUSIVE"))'
           Excused(t, r) ==
             \/ Active(t) /\ ~ Active(t)'
             \/ lock_table_' = [lock_table_ EXCEPT ![r] = Others(t, r)]
           Step == \A t \in Txns, r \in Resources, m \in LockTypes :
                       Lost(t, r, m) => Excused(t, r)
<1>1. ASSUME IInv, Next
      PROVE  Step
  <2> SUFFICES ASSUME NEW t \in Txns, NEW r \in Resources, NEW m \in LockTypes,
                      Lost(t, r, m)
               PROVE  Excused(t, r)
    OBVIOUS
  <2> USE DEF IInv, TypeOK, Holds, Own, Others, Entry, LockTypes
  <2>1. ASSUME NEW u \in Txns, BeginTransaction(u) \/ LogOperation(u)
        PROVE  FALSE
    BY <1>1, <2>1 DEF BeginTransaction, LogOperation
  <2>2. ASSUME NEW u \in Txns, CommitTransaction(u) \/ RollbackTransaction(u)
        PROVE  Excused(t, r)
    <3>1. u = t
      BY <1>1, <2>2 DEF CommitTransaction, RollbackTransaction, ReleaseAllLocks
    <3>2. QED
      BY <1>1, <2>2, <3>1 DEF CommitTransaction, RollbackTransaction, Active
  <2>3. ASSUME NEW u \in Txns, NEW q \in Resources, ReleaseLock(u, q)
        PROVE  Excused(t, r)
    <3>1. u = t /\ q = r
      BY <1>1, <2>3 DEF ReleaseLock
    <3>2. QED
      BY <1>1, <2>3, <3>1 DEF ReleaseLock
  <2>4. ASSUME NEW u \in Txns, NEW q \in Resources, NEW n \in LockTypes,
               AcquireLock(u, q, n)
        PROVE  FALSE
    <3>1. CanAcquire(u, q, n) /\ q = r
      BY <1>1, <2>4 DEF AcquireLock
    <3>2. lock_table_'[r] = Granted(u, r, n)
      BY <1>1, <2>4, <3>1 DEF AcquireLock
    <3>3. CASE u # t
      BY <1>1, <3>2, <3>3 DEF Granted
    <3>4. CASE u = t
      BY <1>1, <3>2, <3>4, <3>1 DEF Granted, OneEntryEach
    <3>5. QED
      BY <3>3, <3>4
  <2>5. QED
    BY <1>1, <2>1, <2>2, <2>3, <2>4 DEF Next
<1>2. IInv /\ [Next]_tmvars => [Step]_tmvars
  BY <1>1
<1>3. QED
  BY <1>2, Invariance, PTL DEF Spec, LocksKept

-----------------------------------------------------------------------------
(* The implementation of LockService.                                      *)

\* A step that grants a lock, seen as readers and writers.
LEMMA GrantRefines ==
    ASSUME IInv, NEW t \in Txns, NEW r \in Resources, NEW m \in LockTypes,
           AcquireLock(t, r, m), CanAcquire(t, r, m)
    PROVE  \/ LS!LockShared(t, r)
           \/ LS!LockExclusive(t, r)
           \/ UNCHANGED LS!lsvars
<1> USE DEF IInv, TypeOK, LockEntry, LockTypes, Entry, Own, Others, Holds,
            Holders, Active
<1>1. /\ lock_table_' = [lock_table_ EXCEPT ![r] = Granted(t, r, m)]
      /\ UNCHANGED txn_state
  BY DEF AcquireLock
<1>2. CASE Holds(t, r, "EXCLUSIVE")
  <2>1. UNCHANGED lock_table_
    BY <1>1, <1>2 DEF Granted
  <2>2. QED
    BY <1>1, <2>1 DEF LS!lsvars
<1>3. CASE ~Holds(t, r, "EXCLUSIVE") /\ m = "SHARED"
  <2>1. /\ \A e \in lock_table_[r] : e.type # "EXCLUSIVE"
        /\ \A q \in Resources, n \in LockTypes :
               Holders(q, n)' = IF q = r /\ n = "SHARED"
                                THEN Holders(q, n) \cup {t}
                                ELSE Holders(q, n)
    <3>1. CASE Own(t, r) # {}
      BY <1>1, <1>3, <3>1 DEF LocksCompatible, Granted
    <3>2. CASE Own(t, r) = {}
      BY <1>1, <1>3, <3>2 DEF CanAcquire, Compatible, Granted
    <3>3. QED
      BY <3>1, <3>2
  <2>2. Holders(r, "EXCLUSIVE") = {}
    BY <2>1
  <2>3. LS!LockShared(t, r)
    BY <1>1, <2>1, <2>2 DEF LS!LockShared, CanAcquire
  <2>4. QED
    BY <2>3
<1>4. CASE ~Holds(t, r, "EXCLUSIVE") /\ m = "EXCLUSIVE"
  <2>1. Others(t, r) = {}
    BY <1>4 DEF CanAcquire, Compatible
  <2>2. lock_table_'[r] = {Entry(t, "EXCLUSIVE")}
    BY <1>1, <1>4, <2>1 DEF Granted
  <2>3. Holders(r, "EXCLUSIVE") = {} /\ Holders(r, "SHARED") \subseteq {t}
    BY <1>4, <2>1
  <2>4. \A q \in Resources, n \in LockTypes :
            Holders(q, n)' = IF q = r
                             THEN IF n = "EXCLUSIVE" THEN {t} ELSE {}
                             ELSE Holders(q, n)
    BY <1>1, <2>2
  <2>5. LS!LockExclusive(t, r)
    BY <1>1, <2>3, <2>4 DEF LS!LockExclusive, CanAcquire
  <2>6. QED
    BY <2>5
<1>5. QED
  BY <1>2, <1>3, <1>4

\* A step that ends a transaction, seen as readers and writers.
LEMMA EndRefines ==
    ASSUME IInv, NEW t \in Txns, NEW s \in {"COMMITTED", "ABORTED"},
           Active(t),
           txn_state' = [txn_state EXCEPT ![t] = s],
           lock_table_' = ReleaseAllLocks(t)
    PROVE  LS!End(t)
<1>1. \A q \in Resources, n \in LockTypes : Holders(q, n)' = Holders(q, n) \ {t}
  BY DEF ReleaseAllLocks, IInv, TypeOK, Entry, Own, Others, Holds, Holders
<1>2. {u \in Txns : Active(u)}' = {u \in Txns : Active(u)} \ {t}
  BY DEF IInv, TypeOK, Active
<1>3. {u \in Txns : txn_state[u] \in {"COMMITTED", "ABORTED"}}' =
      {u \in Txns : txn_state[u] \in {"COMMITTED", "ABORTED"}} \cup {t}
  BY DEF IInv, TypeOK
<1>4. QED
  BY <1>1, <1>2, <1>3 DEF LS!End, LockTypes

\* The transaction and lock tables implement LockService.
THEOREM Implementation == Spec => ImplementsLockService
<1>1. Init => LS!Init
  BY DEF Init, LS!Init, Active, Holders, Holds
<1>2. ASSUME IInv, [Next]_tmvars
      PROVE  [LS!Next]_LS!lsvars
  <2>1. ASSUME NEW t \in Txns, BeginTransaction(t)
        PROVE  LS!Begin(t)
    <3>1. txn_state[t] = "NONE"
      BY <1>2, <2>1 DEF IInv, TypeOK, FreshIds, BeginTransaction, Txns
    <3>2. QED
      BY <1>2, <2>1, <3>1
      DEF LS!Begin, IInv, TypeOK, BeginTransaction, Active, Holders, Holds
  <2>2. ASSUME NEW t \in Txns, CommitTransaction(t) \/ RollbackTransaction(t)
        PROVE  LS!End(t)
    BY <1>2, <2>2, EndRefines DEF CommitTransaction, RollbackTransaction
  <2>3. ASSUME NEW t \in Txns, LogOperation(t)
        PROVE  UNCHANGED LS!lsvars
    BY <2>3 DEF LogOperation, LS!lsvars, Active, Holders, Holds
  <2>4. ASSUME NEW t \in Txns, NEW r \in Resources, NEW m \in LockTypes,
               AcquireLock(t, r, m)
        PROVE  \/ LS!LockShared(t, r)
               \/ LS!LockExclusive(t, r)
               \/ UNCHANGED LS!lsvars
    <3>1. CASE CanAcquire(t, r, m)
      BY <1>2, <2>4, <3>1, GrantRefines
    <3>2. CASE ~CanAcquire(t, r, m)
      BY <2>4, <3>2 DEF AcquireLock, LS!lsvars, Active, Holders, Holds
    <3>3. QED
      BY <3>1, <3>2
  <2>5. ASSUME NEW t \in Txns, NEW r \in Resources, ReleaseLock(t, r)
        PROVE  LS!Unlock(t, r)
    <3>1. \A q \in Resources, n \in LockTypes :
              Holders(q, n)' = IF q = r THEN Holders(q, n) \ {t}
                                        ELSE Holders(q, n)
      BY <1>2, <2>5
      DEF ReleaseLock, IInv, TypeOK, Entry, Own, Others, Holds, Holders
    <3>2. QED
      BY <2>5, <3>1 DEF LS!Unlock, ReleaseLock, Active, LockTypes
  <2>6. CASE UNCHANGED tmvars
    BY <2>6 DEF tmvars, LS!lsvars, Active, Holders, Holds
  <2>7. QED
    BY <1>2, <2>1, <2>2, <2>3, <2>4, <2>5, <2>6 DEF Next, LS!Next
<1>3. QED
  BY <1>1, <1>2, Invariance, PTL DEF Spec, ImplementsLockService, LS!Spec

-----------------------------------------------------------------------------
(***************************************************************************)
(* What the lock table is for, for every number of transactions, resources *)
(* and writes: callers that keep their locks to the end are serializable,  *)
(* and detect_deadlock misses no circle of them.                           *)
(*                                                                         *)
(* The argument: two conflicting locks are never held together             *)
(* (LocksCompatible) and a lock that covers an access is kept until its    *)
(* transaction ends (Covered), so that a conflict is always with one that  *)
(* has ended (FromEnded); an edge therefore never leads out of a           *)
(* transaction that is still active, and no new edge closes a circle.      *)
(***************************************************************************)

Ended(t) == txn_state[t] \in {"COMMITTED", "ABORTED"}

\* Who has accessed a resource and not ended holds a lock that covers it.
Covered ==
    \A r \in Resources : \A e \in accesses[r] :
        \/ Ended(e.txn)
        \/ Active(e.txn) /\ (e \in lock_table_[r] \/ Holds(e.txn, r, "EXCLUSIVE"))

\* Who precedes another transaction has ended.
FromEnded == \A p \in precedes : Ended(p[1])

\* The inductive invariant.
ClientsInv == IInv /\ CTypeOK /\ Covered /\ FromEnded /\ Serializable

-----------------------------------------------------------------------------
(* The callers' steps on the two tables.                                   *)

\* Callers use the transaction manager through its operations only.
LEMMA CallsAreSteps == CTypeOK /\ [CNext]_vars => [Next]_tmvars
<1> SUFFICES ASSUME CTypeOK, CNext PROVE Next \/ UNCHANGED tmvars
  BY DEF vars
<1>1. ASSUME NEW t \in Txns, NEW r \in Resources, NEW m \in LockTypes,
             CallAcquire(t, r, m)
      PROVE  Next
  BY <1>1 DEF CallAcquire, Next
<1>2. ASSUME NEW t \in Txns, NEW r \in Resources, NEW m \in LockTypes,
             Access(t, r, m)
      PROVE  Next \/ UNCHANGED tmvars
  BY <1>2 DEF Access, Next
<1>3. ASSUME NEW t \in Txns, CallBegin(t) \/ CallCommit(t) \/ CallRollback(t)
      PROVE  Next
  BY <1>3 DEF CallBegin, CallCommit, CallRollback, Next
<1>4. ASSUME NEW t \in Txns, CallAgain(t) PROVE Next
  <2>1. want[t].res \in Resources /\ want[t].type \in LockTypes
    BY <1>4 DEF CTypeOK, CallAgain, Waiting, Request
  <2> QED
    BY <1>4, <2>1 DEF CallAgain, Next
<1> QED
  BY <1>1, <1>2, <1>3, <1>4 DEF CNext

\* The callers' variables keep their types.
LEMMA CTypesStep ==
    ASSUME IInv, CTypeOK, [CNext]_vars
    PROVE  CTypeOK'
<1> USE DEF CTypeOK, cvars
<1>1. ASSUME NEW t \in Txns, NEW r \in Resources, NEW m \in LockTypes,
             CallAcquire(t, r, m)
      PROVE  CTypeOK'
  <2>1. [res |-> r, type |-> m] \in Request
    BY DEF Request
  <2> QED
    BY <1>1, <2>1 DEF CallAcquire
<1>2. ASSUME NEW t \in Txns, NEW r \in Resources, NEW m \in LockTypes,
             Access(t, r, m)
      PROVE  CTypeOK'
  <2>1. /\ accesses' = [accesses EXCEPT ![r] = @ \cup {Entry(t, m)}]
        /\ precedes' = precedes \cup
               {<<e.txn, t>> : e \in {x \in accesses[r] :
                    x.txn # t /\ "EXCLUSIVE" \in {x.type, m}}}
        /\ want' = want
        /\ last_writer' = last_writer
           \/ last_writer' = [last_writer EXCEPT ![r] = t]
    BY <1>2 DEF Access
  <2>2. Entry(t, m) \in LockEntry
    BY DEF Entry, LockEntry
  <2>3. accesses' \in [Resources -> SUBSET LockEntry]
    BY <2>1, <2>2
  <2>4. \A e \in accesses[r] : <<e.txn, t>> \in Txns \X Txns
    BY DEF LockEntry
  <2>5. precedes' \subseteq Txns \X Txns
    BY <2>1, <2>4
  <2>6. last_writer' \in [Resources -> Txns \cup {0}]
    BY <2>1
  <2> QED
    BY <2>1, <2>3, <2>5, <2>6
<1>3. ASSUME NEW t \in Txns,
             CallBegin(t) \/ CallAgain(t) \/ CallCommit(t) \/ CallRollback(t)
      PROVE  CTypeOK'
  BY <1>3 DEF CallBegin, CallAgain, CallCommit, CallRollback
<1>4. CASE UNCHANGED vars
  BY <1>4 DEF vars
<1> QED
  BY <1>1, <1>2, <1>3, <1>4 DEF CNext

-----------------------------------------------------------------------------
(* Locks cover accesses until the end.                                     *)

\* A caller's request leaves every entry in the table, or its holder with an
\* exclusive lock instead.
LEMMA AcquireKeeps ==
    ASSUME IInv, NEW t \in Txns, NEW r \in Resources, NEW m \in LockTypes,
           AcquireLock(t, r, m),
           NEW q \in Resources, NEW e \in LockEntry,
           e \in lock_table_[q] \/ Holds(e.txn, q, "EXCLUSIVE")
    PROVE  e \in lock_table_'[q] \/ Holds(e.txn, q, "EXCLUSIVE")'
<1> USE DEF Holds
<1>1. CASE lock_table_'[q] = lock_table_[q]
  BY <1>1
<1>2. CASE lock_table_'[q] # lock_table_[q]
  <2>1. q = r /\ lock_table_'[r] = Granted(t, r, m)
    BY <1>2 DEF AcquireLock, IInv, TypeOK
  <2>2. Granted(t, r, m) = Others(t, r) \cup {Entry(t, m)}
    BY <1>2, <2>1 DEF Granted
  <2>3. ~Holds(t, r, "EXCLUSIVE")
    BY <1>2, <2>1 DEF Granted
  <2>4. CASE e.txn = t
    <3>1. e = Entry(t, "SHARED")
      <4>1. e = Entry(e.txn, e.type) /\ e.type \in LockTypes
        BY DEF LockEntry, Entry
      <4>2. e.type # "EXCLUSIVE"
        BY <2>1, <2>3, <2>4, <4>1
      <4> QED
        BY <2>4, <4>1, <4>2 DEF LockTypes
    <3>2. m = "SHARED" \/ m = "EXCLUSIVE"
      BY DEF LockTypes
    <3> QED
      BY <2>1, <2>2, <2>4, <3>1, <3>2
  <2>5. CASE e.txn # t
    <3>1. Entry(e.txn, "EXCLUSIVE").txn # t
      BY <2>5 DEF Entry
    <3> QED
      BY <2>1, <2>2, <2>5, <3>1 DEF Others, Own
  <2> QED
    BY <2>4, <2>5
<1> QED
  BY <1>1, <1>2

\* Commit and rollback release the locks of the one who has ended.
LEMMA EndKeeps ==
    ASSUME IInv, CTypeOK, Covered, NEW t \in Txns,
           CommitTransaction(t) \/ RollbackTransaction(t), UNCHANGED accesses
    PROVE  Covered'
<1> SUFFICES ASSUME NEW r \in Resources, NEW e \in accesses[r]
             PROVE  \/ Ended(e.txn)'
                    \/ /\ Active(e.txn)'
                       /\ e \in lock_table_'[r] \/ Holds(e.txn, r, "EXCLUSIVE")'
  BY DEF Covered
<1>1. /\ lock_table_' = [q \in Resources |-> Others(t, q)]
      /\ Ended(t)' /\ Active(t)
      /\ \A u \in Txns \ {t} : txn_state'[u] = txn_state[u]
  BY DEF CommitTransaction, RollbackTransaction, ReleaseAllLocks, Ended, IInv,
         TypeOK, Active
<1>2. e.txn \in Txns
  BY DEF CTypeOK, LockEntry
<1>3. CASE e.txn = t
  BY <1>1, <1>3
<1>4. CASE e.txn # t
  <2>1. Entry(e.txn, "EXCLUSIVE").txn # t
    BY <1>4 DEF Entry
  <2> QED
    BY <1>1, <1>2, <1>4, <2>1
    DEF Covered, Holds, Others, Own, Ended, Active
<1> QED
  BY <1>3, <1>4

\* No call of a caller takes a lock from an access that it covers, but the one
\* that ends its transaction.
LEMMA CoveredStep ==
    ASSUME IInv, CTypeOK, Covered, [CNext]_vars
    PROVE  Covered'
<1>1. ASSUME NEW t \in Txns, NEW r \in Resources, NEW m \in LockTypes,
             AcquireLock(t, r, m), UNCHANGED accesses
      PROVE  Covered'
  <2> SUFFICES ASSUME NEW q \in Resources, NEW e \in accesses[q]
               PROVE  \/ Ended(e.txn)'
                      \/ /\ Active(e.txn)'
                         /\ e \in lock_table_'[q] \/ Holds(e.txn, q, "EXCLUSIVE")'
    BY <1>1 DEF Covered
  <2>1. e \in LockEntry
    BY DEF CTypeOK
  <2>2. UNCHANGED txn_state
    BY <1>1 DEF AcquireLock
  <2>3. CASE Ended(e.txn)
    BY <2>2, <2>3 DEF Ended
  <2>4. CASE Active(e.txn) /\ (e \in lock_table_[q] \/ Holds(e.txn, q, "EXCLUSIVE"))
    BY <1>1, <2>1, <2>2, <2>4, AcquireKeeps DEF Active
  <2> QED
    BY <2>3, <2>4 DEF Covered
<1>2. ASSUME NEW t \in Txns, NEW r \in Resources, NEW m \in LockTypes,
             CallAcquire(t, r, m)
      PROVE  Covered'
  BY <1>1, <1>2 DEF CallAcquire
<1>3. ASSUME NEW t \in Txns, CallAgain(t) PROVE Covered'
  <2>1. want[t].res \in Resources /\ want[t].type \in LockTypes
    BY <1>3 DEF CTypeOK, CallAgain, Waiting, Request
  <2> QED
    BY <1>1, <1>3, <2>1 DEF CallAgain
<1>4. ASSUME NEW t \in Txns, NEW r \in Resources, NEW m \in LockTypes,
             Access(t, r, m)
      PROVE  Covered'
  <2>1. /\ Active(t) /\ (Holds(t, r, m) \/ Holds(t, r, "EXCLUSIVE"))
        /\ accesses' = [accesses EXCEPT ![r] = @ \cup {Entry(t, m)}]
        /\ UNCHANGED <<txn_state, lock_table_>>
    BY <1>4 DEF Access, LogOperation, tmvars
  <2>2. ASSUME NEW q \in Resources, NEW e \in accesses'[q]
        PROVE  \/ Ended(e.txn)
               \/ Active(e.txn) /\ (e \in lock_table_[q] \/ Holds(e.txn, q, "EXCLUSIVE"))
    <3>1. CASE e \in accesses[q]
      BY <3>1 DEF Covered
    <3>2. CASE e \notin accesses[q]
      <4>1. q = r /\ e = Entry(t, m)
        BY <2>1, <2>2, <3>2 DEF CTypeOK
      <4> QED
        BY <2>1, <4>1 DEF Holds, Entry
    <3> QED
      BY <3>1, <3>2
  <2> QED
    BY <2>1, <2>2 DEF Covered, Ended, Active, Holds
<1>5. ASSUME NEW t \in Txns, CallBegin(t) PROVE Covered'
  <2>1. /\ txn_state[t] = "NONE"
        /\ \A u \in Txns \ {t} : txn_state'[u] = txn_state[u]
        /\ UNCHANGED <<lock_table_, accesses>>
    BY <1>5 DEF CallBegin, BeginTransaction, IInv, TypeOK, FreshIds, cvars
  <2>2. \A r \in Resources : \A e \in accesses[r] : e.txn \in Txns
    BY DEF CTypeOK, LockEntry
  <2>3. \A r \in Resources : \A e \in accesses[r] : e.txn # t
    BY <2>1 DEF Covered, Ended, Active
  <2> QED
    BY <2>1, <2>2, <2>3 DEF Covered, Ended, Active, Holds
<1>6. ASSUME NEW t \in Txns, CallCommit(t) \/ CallRollback(t) PROVE Covered'
  BY <1>6, EndKeeps DEF CallCommit, CallRollback, cvars
<1>7. CASE UNCHANGED vars
  BY <1>7 DEF vars, tmvars, cvars, Covered, Ended, Active, Holds
<1> QED
  BY <1>2, <1>3, <1>4, <1>5, <1>6, <1>7 DEF CNext
-----------------------------------------------------------------------------
(* Conflicts are with transactions that have ended.                        *)

\* The edges that an access adds come from transactions that have ended: the
\* lock of one that is still active would exclude the lock of this access.
LEMMA NewEdges ==
    ASSUME IInv, CTypeOK, Covered, NEW t \in Txns, NEW r \in Resources,
           NEW m \in LockTypes, Access(t, r, m)
    PROVE  \A p \in precedes' \ precedes : Ended(p[1]) /\ p[2] = t
<1> SUFFICES ASSUME NEW e \in accesses[r], e.txn # t,
                    e.type = "EXCLUSIVE" \/ m = "EXCLUSIVE"
             PROVE  Ended(e.txn)
  BY DEF Access
<1>1. e \in LockEntry /\ e = Entry(e.txn, e.type)
  BY DEF CTypeOK, LockEntry, Entry
<1>2. PICK f \in lock_table_[r] :
          f.txn = t /\ (m = "EXCLUSIVE" => f.type = "EXCLUSIVE")
  BY DEF Access, Holds, Entry
<1>3. ASSUME NEW g \in lock_table_[r], g.txn = e.txn,
             e.type = "EXCLUSIVE" => g.type = "EXCLUSIVE"
      PROVE  FALSE
  BY <1>2, <1>3 DEF IInv, LocksCompatible
<1>4. e \notin lock_table_[r]
  BY <1>3
<1>5. ~Holds(e.txn, r, "EXCLUSIVE")
  <2>1. Entry(e.txn, "EXCLUSIVE").txn = e.txn
        /\ Entry(e.txn, "EXCLUSIVE").type = "EXCLUSIVE"
    BY DEF Entry
  <2> QED
    BY <1>3, <2>1 DEF Holds
<1> QED
  BY <1>4, <1>5 DEF Covered

\* A transaction that has ended stays so.
LEMMA EndedStays ==
    ASSUME IInv, CTypeOK, [CNext]_vars, NEW t \in Txns, Ended(t)
    PROVE  Ended(t)'
<1>1. [Next]_tmvars
  BY CallsAreSteps
<1>2. ASSUME NEW u \in Txns, BeginTransaction(u) PROVE Ended(t)'
  BY <1>2 DEF BeginTransaction, IInv, TypeOK, FreshIds, Ended
<1>3. ASSUME NEW u \in Txns, CommitTransaction(u) \/ RollbackTransaction(u)
      PROVE  Ended(t)'
  BY <1>3 DEF CommitTransaction, RollbackTransaction, IInv, TypeOK, Ended, Active
<1>4. CASE UNCHANGED txn_state
  BY <1>4 DEF Ended
<1> QED
  BY <1>1, <1>2, <1>3, <1>4
  DEF Next, LogOperation, AcquireLock, ReleaseLock, tmvars

\* An edge is added by an access only.
LEMMA EdgesAre ==
    ASSUME [CNext]_vars
    PROVE  \/ UNCHANGED precedes
           \/ \E t \in Txns, r \in Resources, m \in LockTypes : Access(t, r, m)
  BY DEF CNext, CallBegin, CallAgain, CallAcquire, CallCommit, CallRollback,
         cvars, vars

\* No step adds an edge from a transaction that has not ended.
LEMMA FromEndedStep ==
    ASSUME IInv, CTypeOK, Covered, FromEnded, [CNext]_vars
    PROVE  FromEnded'
<1> SUFFICES ASSUME NEW p \in precedes' PROVE Ended(p[1])'
  BY DEF FromEnded
<1>1. p[1] \in Txns
  BY CTypesStep DEF CTypeOK
<1>2. CASE p \in precedes
  BY <1>1, <1>2, EndedStays DEF FromEnded
<1>3. CASE p \notin precedes
  <2>1. Ended(p[1])
    BY <1>3, EdgesAre, NewEdges
  <2> QED
    BY <1>1, <2>1, EndedStays
<1> QED
  BY <1>2, <1>3

\* A new edge leads to a transaction that is active, and from there no edge
\* leads on, so that it closes no circle.
LEMMA SerializableStep ==
    ASSUME IInv, CTypeOK, Covered, FromEnded, Serializable, [CNext]_vars
    PROVE  Serializable'
<1>1. CASE UNCHANGED precedes
  BY <1>1 DEF Serializable
<1>2. ASSUME NEW t \in Txns, NEW r \in Resources, NEW m \in LockTypes,
             Access(t, r, m)
      PROVE  Serializable'
  <2> SUFFICES ASSUME NEW D \in SUBSET Txns, D # {},
                      \A u \in D : \E v \in D : <<u, v>> \in precedes'
               PROVE  FALSE
    BY DEF Serializable
  <2>1. Active(t) /\ \A p \in precedes' \ precedes : Ended(p[1]) /\ p[2] = t
    BY <1>2, NewEdges DEF Access
  <2>2. \A p \in precedes' : p[1] # t
    BY <2>1 DEF FromEnded, Ended, Active
  <2>3. t \notin D
    BY <2>2
  <2>4. \A u \in D : \E v \in D : <<u, v>> \in precedes
    BY <2>1, <2>3
  <2> QED
    BY <2>4 DEF Serializable
<1> QED
  BY <1>1, <1>2, EdgesAre

\* Nothing has been accessed at first.
LEMMA InitClients == CInit => ClientsInv
<1> SUFFICES ASSUME CInit PROVE ClientsInv
  OBVIOUS
<1>1. IInv
  BY InitIInv DEF CInit
<1>2. CTypeOK /\ Covered /\ FromEnded /\ Serializable
  BY DEF CInit, CTypeOK, Covered, FromEnded, Serializable
<1> QED
  BY <1>1, <1>2 DEF ClientsInv

\* The invariant, for the theorems below.
THEOREM ClientsInvariant == CSpec => []ClientsInv
<1>1. ClientsInv /\ [CNext]_vars => ClientsInv'
  <2> SUFFICES ASSUME ClientsInv, [CNext]_vars PROVE ClientsInv'
    OBVIOUS
  <2>1. IInv'
    BY CallsAreSteps, NextIInv DEF ClientsInv
  <2> QED
    BY <2>1, CTypesStep, CoveredStep, FromEndedStep, SerializableStep
    DEF ClientsInv
<1> QED
  BY <1>1, InitClients, PTL DEF CSpec

\* Callers that lock what they touch and keep their locks until commit or
\* rollback are serializable, however acquire_lock, upgrades, retries and
\* rollbacks interleave.
THEOREM ClientsSerializable == CSpec => []Serializable
<1>1. ClientsInv => Serializable
  BY DEF ClientsInv
<1> QED
  BY <1>1, ClientsInvariant, PTL

-----------------------------------------------------------------------------
(* detect_deadlock.                                                        *)

\* A set with two different members has more than one.
LEMMA TwoMembers ==
    ASSUME NEW S, IsFiniteSet(S), NEW a \in S, NEW b \in S, a # b
    PROVE  Cardinality(S) > 1
<1>1. IsFiniteSet({a}) /\ Cardinality({a}) = 1
  BY FS_Singleton
<1>2. Cardinality({a} \cup {b}) = 2 /\ IsFiniteSet({a} \cup {b})
  <2>1. b \notin {a}
    OBVIOUS
  <2>2. Cardinality({a} \cup {b}) = Cardinality({a}) + 1
    BY <1>1, <2>1, FS_AddElement
  <2> QED
    BY <1>1, <2>2, FS_AddElement
<1>3. Cardinality({a} \cup {b}) <= Cardinality(S)
  <2>1. {a} \cup {b} \in SUBSET S
    OBVIOUS
  <2> QED
    BY <2>1, FS_Subset
<1>4. Cardinality(S) \in Nat
  BY FS_CardinalityType
<1> QED
  BY <1>2, <1>3, <1>4

\* There are finitely many different lock entries.
LEMMA EntriesFinite == IsFiniteSet(LockEntry)
<1>1. IsFiniteSet(Txns)
  BY MaxTxnsAssumption, FS_Interval DEF Txns
<1>2. IsFiniteSet(LockTypes)
  <2>1. LockTypes = {"SHARED"} \cup {"EXCLUSIVE"}
    BY DEF LockTypes
  <2>2. IsFiniteSet({"SHARED"})
    BY FS_Singleton
  <2> QED
    BY <2>1, <2>2, FS_AddElement
<1>3. IsFiniteSet(Txns \X LockTypes)
  BY <1>1, <1>2, FS_Product
<1> DEFINE f == [x \in Txns \X LockTypes |-> Entry(x[1], x[2])]
<1>4. f \in Surjection(Txns \X LockTypes, LockEntry)
  <2>1. f \in [Txns \X LockTypes -> LockEntry]
    BY DEF Entry, LockEntry
  <2>2. ASSUME NEW e \in LockEntry
        PROVE  \E x \in Txns \X LockTypes : f[x] = e
    <3>1. <<e.txn, e.type>> \in Txns \X LockTypes /\ e = Entry(e.txn, e.type)
      BY DEF LockEntry, Entry
    <3> QED
      BY <3>1
  <2> QED
    BY <2>1, <2>2 DEF Surjection
<1> QED
  BY <1>3, <1>4, FS_Surjection

\* For any finite number of resources, detect_deadlock says yes whenever some
\* transactions wait for each other: two of them hold an entry each.
THEOREM DeadlocksDetected ==
    ASSUME IsFiniteSet(Resources)
    PROVE  CSpec => []DetectionComplete
<1>1. ClientsInv => DetectionComplete
  <2> SUFFICES ASSUME ClientsInv, Deadlocked PROVE DetectDeadlock
    BY DEF DetectionComplete
  <2> DEFINE All == UNION {{r} \X lock_table_[r] : r \in Resources}
  <2>1. IsFiniteSet(All)
    <3>1. IsFiniteSet(Resources \X LockEntry)
      BY EntriesFinite, FS_Product
    <3>2. All \in SUBSET (Resources \X LockEntry)
      BY DEF ClientsInv, IInv, TypeOK
    <3> HIDE DEF All
    <3> QED
      BY <3>1, <3>2, FS_Subset
  \* Who waits in the circle waits for an entry of another one of it.
  <2>2. PICK D \in SUBSET {t \in Txns : Waiting(t)} :
            D # {} /\ \A t \in D : WaitsFor(t) \cap D # {}
    BY DEF Deadlocked
  <2>3. ASSUME NEW t \in D
        PROVE  \E r \in Resources : \E e \in lock_table_[r] :
                   e.txn \in D /\ e.txn # t
    <3>1. want[t].res \in Resources
      BY <2>2 DEF ClientsInv, CTypeOK, Waiting, Request
    <3>2. PICK e \in Others(t, want[t].res) : e.txn \in D
      BY <2>2 DEF WaitsFor
    <3> QED
      BY <3>1, <3>2 DEF Others, Own
  <2>4. PICK t \in D : TRUE
    BY <2>2
  <2>5. PICK r \in Resources : \E e \in lock_table_[r] : e.txn \in D
    BY <2>3, <2>4
  <2>6. PICK e \in lock_table_[r] : e.txn \in D
    BY <2>5
  <2>7. PICK q \in Resources : \E f \in lock_table_[q] : f.txn # e.txn
    BY <2>3, <2>6
  <2>8. PICK f \in lock_table_[q] : f.txn # e.txn
    BY <2>7
  <2>9. <<r, e>> \in All /\ <<q, f>> \in All /\ <<r, e>> # <<q, f>>
    BY <2>8
  <2> HIDE DEF All
  <2>10. Cardinality(All) > 1
    BY <2>1, <2>9, TwoMembers
  <2> QED
    BY <2>10 DEF DetectDeadlock, All
<1> QED
  BY <1>1, ClientsInvariant, PTL
==============================================================================
