------------------------- MODULE TransactionManager -------------------------
(***************************************************************************)
(* src/transaction_manager/transaction_manager.cpp: the transaction table  *)
(* and the lock table.  Every public method holds mutex_ from its first    *)
(* statement to its last, so each is one step here, a refused call         *)
(* included: it is the step that changes nothing.                          *)
(*                                                                         *)
(* The entries of a resource's vector are a set: every loop over them asks *)
(* whether some entry satisfies a condition, and none depends on order.    *)
(* wait_graph_ is left out: the code erases from it and never inserts.     *)
(* Operators marked "Fault" are deliberate defects that the mutation runs  *)
(* substitute for the definition after them; nothing else uses them.       *)
(***************************************************************************)
EXTENDS Integers, FiniteSets

CONSTANTS Resources,   \* the strings passed as `resource`
          MaxTxns,     \* bound: number of begin_transaction calls
          MaxLog       \* bound: log_operation calls for one transaction

ASSUME MaxTxnsAssumption == MaxTxns \in Nat
ASSUME MaxLogAssumption == MaxLog \in Nat

VARIABLES next_txn_id_,  \* the identifier the next transaction will get
          txn_state,     \* state of every transaction, "NONE" if not begun
          undo_log,      \* length of each transaction's undo_log
          lock_table_    \* lock entries of every resource

tmvars == <<next_txn_id_, txn_state, undo_log, lock_table_>>

Txns == 1..MaxTxns
LockTypes == {"SHARED", "EXCLUSIVE"}
LockEntry == [txn : Txns, type : LockTypes]

Entry(t, m) == [txn |-> t, type |-> m]

-----------------------------------------------------------------------------
(* Reading the tables.                                                     *)

Active(t) == txn_state[t] = "ACTIVE"

Own(t, r) == {e \in lock_table_[r] : e.txn = t}
Others(t, r) == lock_table_[r] \ Own(t, r)
Holds(t, r, m) == Entry(t, m) \in lock_table_[r]

\* Fault: a holder is granted every request, the upgrade check is missing.
UpgradeUnchecked(t, r, m) ==
    \/ Own(t, r) # {}
    \/ m = "EXCLUSIVE" /\ lock_table_[r] = {}
    \/ m = "SHARED" /\ \A e \in lock_table_[r] : e.type # "EXCLUSIVE"

\* Fault: a shared request is not checked against an exclusive holder.
SharedUnchecked(t, r, m) ==
    IF Own(t, r) # {}
    THEN m = "EXCLUSIVE" /\ Holds(t, r, "SHARED") => Others(t, r) = {}
    ELSE m = "EXCLUSIVE" => lock_table_[r] = {}

\* Whether acquire_lock finds the request compatible with the entries: a
\* holder is, unless it asks for an upgrade and is not alone; any other
\* transaction needs a resource without entries, or without exclusive ones.
Compatible(t, r, m) ==
    IF Own(t, r) # {}
    THEN m = "EXCLUSIVE" /\ Holds(t, r, "SHARED") => Others(t, r) = {}
    ELSE IF m = "EXCLUSIVE"
         THEN lock_table_[r] = {}
         ELSE \A e \in lock_table_[r] : e.type # "EXCLUSIVE"

\* Fault: an upgrade appends a second entry and leaves the first.
GrantAppended(t, r, m) == lock_table_[r] \cup {Entry(t, m)}

\* The entries of r once a compatible request of t is granted.  An exclusive
\* holder that asks for a shared lock keeps what it has.
Granted(t, r, m) ==
    IF Holds(t, r, "EXCLUSIVE")
    THEN lock_table_[r]
    ELSE Others(t, r) \cup {Entry(t, m)}

\* The answer of acquire_lock.
CanAcquire(t, r, m) == Active(t) /\ Compatible(t, r, m)

\* Fault: only exclusive locks are released when a transaction ends.
ReleaseExclusiveOnly(t) ==
    [r \in Resources |-> lock_table_[r] \ {Entry(t, "EXCLUSIVE")}]

\* Fault: the vectors in which t has an entry are cleared.
ReleaseSharers(t) ==
    [r \in Resources |-> IF Own(t, r) = {} THEN lock_table_[r] ELSE {}]

\* release_all_locks_internal
ReleaseAllLocks(t) == [r \in Resources |-> Others(t, r)]

-----------------------------------------------------------------------------
(* The operations.                                                         *)

Init ==
    /\ next_txn_id_ = 1
    /\ txn_state = [t \in Txns |-> "NONE"]
    /\ undo_log = [t \in Txns |-> 0]
    /\ lock_table_ = [r \in Resources |-> {}]

BeginTransaction(t) ==
    /\ t = next_txn_id_
    /\ next_txn_id_' = next_txn_id_ + 1
    /\ txn_state' = [txn_state EXCEPT ![t] = "ACTIVE"]
    /\ UNCHANGED <<undo_log, lock_table_>>

CommitTransaction(t) ==
    /\ Active(t)
    /\ txn_state' = [txn_state EXCEPT ![t] = "COMMITTED"]
    /\ lock_table_' = ReleaseAllLocks(t)
    /\ UNCHANGED <<next_txn_id_, undo_log>>

\* Fault: the state is left at ROLLING_BACK.
RollbackUnfinished(t) ==
    /\ Active(t)
    /\ txn_state' = [txn_state EXCEPT ![t] = "ROLLING_BACK"]
    /\ lock_table_' = ReleaseAllLocks(t)
    /\ UNCHANGED <<next_txn_id_, undo_log>>

\* Fault: a transaction that has ended can be rolled back.
RollbackUnchecked(t) ==
    /\ txn_state[t] # "NONE"
    /\ txn_state' = [txn_state EXCEPT ![t] = "ABORTED"]
    /\ lock_table_' = ReleaseAllLocks(t)
    /\ UNCHANGED <<next_txn_id_, undo_log>>

\* ROLLING_BACK is written and overwritten while mutex_ is held, so nobody
\* reads it; the loop over undo_log prints its entries and undoes nothing.
RollbackTransaction(t) ==
    /\ Active(t)
    /\ txn_state' = [txn_state EXCEPT ![t] = "ABORTED"]
    /\ lock_table_' = ReleaseAllLocks(t)
    /\ UNCHANGED <<next_txn_id_, undo_log>>

\* The parameter `wait` is not read: a refused request returns at once.
AcquireLock(t, r, m) ==
    /\ lock_table_' = IF CanAcquire(t, r, m)
                      THEN [lock_table_ EXCEPT ![r] = Granted(t, r, m)]
                      ELSE lock_table_
    /\ UNCHANGED <<next_txn_id_, txn_state, undo_log>>

\* Fault: the resource's whole vector is cleared.
ReleaseResource(t, r) ==
    /\ lock_table_' = [lock_table_ EXCEPT ![r] = {}]
    /\ UNCHANGED <<next_txn_id_, txn_state, undo_log>>

\* Checks neither that t exists nor that it is active.
ReleaseLock(t, r) ==
    /\ lock_table_' = [lock_table_ EXCEPT ![r] = Others(t, r)]
    /\ UNCHANGED <<next_txn_id_, txn_state, undo_log>>

\* Asks only that t is in the table, whatever its state.
LogOperation(t) ==
    /\ txn_state[t] # "NONE"
    /\ undo_log[t] < MaxLog
    /\ undo_log' = [undo_log EXCEPT ![t] = @ + 1]
    /\ UNCHANGED <<next_txn_id_, txn_state, lock_table_>>

Next ==
    \E t \in Txns :
        \/ BeginTransaction(t)
        \/ CommitTransaction(t)
        \/ RollbackTransaction(t)
        \/ LogOperation(t)
        \/ \E r \in Resources :
               \/ \E m \in LockTypes : AcquireLock(t, r, m)
               \/ ReleaseLock(t, r)

Spec == Init /\ [][Next]_tmvars

-----------------------------------------------------------------------------
(* Properties.                                                             *)

\* Types.  ROLLING_BACK is not among the states: no step ends in it.
TypeOK ==
    /\ next_txn_id_ \in 1..(MaxTxns + 1)
    /\ txn_state \in [Txns -> {"NONE", "ACTIVE", "COMMITTED", "ABORTED"}]
    /\ undo_log \in [Txns -> 0..MaxLog]
    /\ lock_table_ \in [Resources -> SUBSET LockEntry]

\* An exclusive lock excludes the locks of all other transactions, however
\* it was obtained: fresh, re-requested or by an upgrade.
LocksCompatible ==
    \A r \in Resources : \A e, f \in lock_table_[r] :
        e.type = "EXCLUSIVE" => e.txn = f.txn

\* A transaction has at most one entry on a resource: release_lock and the
\* upgrade loop, which stops at the first entry, both rely on it.
OneEntryEach ==
    \A r \in Resources : \A e, f \in lock_table_[r] : e.txn = f.txn => e = f

\* Whoever holds a lock is active: no lock outlives its transaction, and a
\* transaction that has ended never gets one again.
HoldersActive ==
    \A r \in Resources : \A e \in lock_table_[r] : Active(e.txn)

\* Identifiers at and above next_txn_id_ have not been handed out.
FreshIds == \A t \in Txns : txn_state[t] = "NONE" <=> t >= next_txn_id_

\* The inductive invariant behind the theorems.
IInv == TypeOK /\ LocksCompatible /\ OneEntryEach /\ HoldersActive /\ FreshIds

\* A lock goes only with its transaction or alone: when a step loses or
\* weakens t's lock on r, either t ended in that step, or the step took
\* nothing else out of the lock table and put nothing in.
LocksKept ==
    [][\A t \in Txns, r \in Resources, m \in LockTypes :
           /\ Holds(t, r, m)
           /\ ~ (Holds(t, r, m) \/ Holds(t, r, "EXCLUSIVE"))'
           => \/ Active(t) /\ ~ Active(t)'
              \/ lock_table_' = [lock_table_ EXCEPT ![r] = Others(t, r)]]_tmvars

\* COMMITTED and ABORTED are final, and an identifier is begun only once.
EndedIsFinal ==
    [][\A t \in Txns :
           /\ txn_state[t] \in {"COMMITTED", "ABORTED"} => UNCHANGED txn_state[t]
           /\ txn_state[t] # "NONE" => txn_state'[t] # "NONE"]_tmvars

\* The lock table implements the lock service.
Holders(r, m) == {t \in Txns : Holds(t, r, m)}

LS == INSTANCE LockService WITH
          live    <- {t \in Txns : Active(t)},
          ended   <- {t \in Txns : txn_state[t] \in {"COMMITTED", "ABORTED"}},
          readers <- [r \in Resources |-> Holders(r, "SHARED")],
          writers <- [r \in Resources |-> Holders(r, "EXCLUSIVE")]

\* Every step on the two tables is a step of LockService or changes nothing
\* it can see; in particular all of a transaction's locks go as it ends.
ImplementsLockService == LS!Spec
=============================================================================
