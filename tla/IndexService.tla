----------------------------- MODULE IndexService -----------------------------
(***************************************************************************)
(* What the indexes of IndexManager give to those that search them: each   *)
(* key is found with the value it was last inserted with, or not at all.   *)
(* An index is allowed to forget keys when an insertion makes it reach its *)
(* capacity, and at no other time.                                         *)
(***************************************************************************)
EXTENDS Integers, FiniteSets

CONSTANTS Names, Tables, Keys, Values, none, Capacity

VARIABLES table,   \* the table an index is on
          latest,  \* by index and key, the value inserted last, not deleted
          found    \* what a search in an index returns

vars == <<table, latest, found>>

Empty == [k \in Keys |-> none]
Known(f) == {k \in Keys : f[k] # none}

Init ==
    /\ table = [n \in Names |-> none]
    /\ latest = [n \in Names |-> Empty]
    /\ found = [n \in Names |-> Empty]

Create(n, t) ==
    /\ table[n] # t
    /\ table' = [table EXCEPT ![n] = t]
    /\ latest' = [latest EXCEPT ![n] = Empty]
    /\ found' = [found EXCEPT ![n] = Empty]

Drop(n, t) ==
    /\ table[n] = t
    /\ table' = [table EXCEPT ![n] = none]
    /\ latest' = [latest EXCEPT ![n] = Empty]
    /\ found' = [found EXCEPT ![n] = Empty]

Insert(n, k, v) ==
    /\ table[n] # none
    /\ latest' = [latest EXCEPT ![n][k] = v]
    /\ LET all == [found[n] EXCEPT ![k] = v]
       IN  \E forgets \in SUBSET Known(all) :
               /\ forgets # {} => Cardinality(Known(all)) >= Capacity
               /\ forgets # Known(all)
               /\ found' = [found EXCEPT ![n] =
                      [j \in Keys |-> IF j \in forgets THEN none ELSE all[j]]]
    /\ UNCHANGED table

Delete(n, k) ==
    /\ table[n] # none
    /\ latest' = [latest EXCEPT ![n][k] = none]
    /\ found' = [found EXCEPT ![n][k] = none]
    /\ UNCHANGED table

Next ==
    \E n \in Names :
        \/ \E t \in Tables : Create(n, t) \/ Drop(n, t)
        \/ \E k \in Keys : Delete(n, k) \/ \E v \in Values : Insert(n, k, v)

Spec == Init /\ [][Next]_vars
=============================================================================
