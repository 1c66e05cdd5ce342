--------------------------- MODULE MCDatabaseManager ---------------------------
(* DatabaseManager for TLC: databases are interchangeable, and so are the    *)
(* tables but for the system table.                                          *)
EXTENDS DatabaseManager, TLC

Symmetry == Permutations(Databases) \cup Permutations(Tables \ {SystemTable})
=============================================================================
