---------------------------- MODULE LockService ----------------------------
(***************************************************************************)
(* What a lock manager for transactions promises, with no lock table: every *)
(* resource is a readers-writer lock, a transaction obtains locks only     *)
(* while it is live, and all its locks go in the one step that ends it.    *)
(* TransactionManager implements this specification.                       *)
(***************************************************************************)
CONSTANTS Txns,       \* transaction identifiers
          Resources   \* names of lockable resources

VARIABLES live,       \* transactions that have begun and not ended
          ended,      \* transactions that have ended, never to run again
          readers,    \* readers[r]: transactions with a shared lock on r
          writers     \* writers[r]: the transaction with the exclusive lock

lsvars == <<live, ended, readers, writers>>

Init ==
    /\ live = {}
    /\ ended = {}
    /\ readers = [r \in Resources |-> {}]
    /\ writers = [r \in Resources |-> {}]

Begin(t) ==
    /\ t \notin live \cup ended
    /\ live' = live \cup {t}
    /\ UNCHANGED <<ended, readers, writers>>

LockShared(t, r) ==
    /\ t \in live
    /\ writers[r] = {}
    /\ readers' = [readers EXCEPT ![r] = @ \cup {t}]
    /\ UNCHANGED <<live, ended, writers>>

\* A fresh exclusive lock, or the upgrade of the only shared one.
LockExclusive(t, r) ==
    /\ t \in live
    /\ writers[r] = {}
    /\ readers[r] \subseteq {t}
    /\ readers' = [readers EXCEPT ![r] = {}]
    /\ writers' = [writers EXCEPT ![r] = {t}]
    /\ UNCHANGED <<live, ended>>

Unlock(t, r) ==
    /\ readers' = [readers EXCEPT ![r] = @ \ {t}]
    /\ writers' = [writers EXCEPT ![r] = @ \ {t}]
    /\ UNCHANGED <<live, ended>>

End(t) ==
    /\ t \in live
    /\ live' = live \ {t}
    /\ ended' = ended \cup {t}
    /\ readers' = [r \in Resources |-> readers[r] \ {t}]
    /\ writers' = [r \in Resources |-> writers[r] \ {t}]

Next ==
    \E t \in Txns :
        \/ Begin(t)
        \/ End(t)
        \/ \E r \in Resources :
               LockShared(t, r) \/ LockExclusive(t, r) \/ Unlock(t, r)

Spec == Init /\ [][Next]_lsvars
=============================================================================
