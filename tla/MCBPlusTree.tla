------------------------------ MODULE MCBPlusTree ------------------------------
(* BPlusTree for TLC: names, tables and values are interchangeable.        *)
EXTENDS BPlusTree, TLC

Symmetry == Permutations(Names) \cup Permutations(Tables) \cup Permutations(Values)
=============================================================================
