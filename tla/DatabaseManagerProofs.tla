------------------------ MODULE DatabaseManagerProofs ------------------------
(***************************************************************************)
(* Theorems about DatabaseManager, for every number of databases, tables,  *)
(* failures and restarts.                                                  *)
(***************************************************************************)
EXTENDS DatabaseManager, TLAPS

\* A database that is not in the map has no list.
Unlisted == \A d \in Databases \ opened : database_tables_[d] = {}

\* The inductive invariant.  ListsMatchFiles needs Unlisted, for the empty
\* entry that operator[] makes; NothingOverwritten needs ListsMatchFiles, for
\* a table that is not listed has no file, and InUseExists, for a database
\* without a directory has no files.
DatabasesInv ==
    /\ TypeOK
    /\ InUseExists
    /\ Unlisted
    /\ ListsMatchFiles
    /\ NothingOverwritten

\* The invariant holds where there is no database yet.
LEMMA InitDatabases == Init => DatabasesInv
<1> USE BoundsAssumption, TablesAssumption DEF Init
<1>1. Init => TypeOK
  <2> SUFFICES ASSUME Init PROVE TypeOK
      OBVIOUS
  <2>1. /\ database_tables_ \in [Databases -> SUBSET Tables]
        /\ files \in [Databases -> SUBSET Tables]
    OBVIOUS
  <2>2. failures \in 0..MaxFailures /\ restarts \in 0..MaxRestarts
    OBVIOUS
  <2> QED
    BY <2>1, <2>2 DEF TypeOK
<1>2. Init => InUseExists /\ Unlisted /\ ListsMatchFiles /\ NothingOverwritten
  BY DEF InUseExists, Unlisted, ListsMatchFiles, NothingOverwritten
<1> QED
  BY <1>1, <1>2 DEF DatabasesInv

-----------------------------------------------------------------------------
\* No action takes a variable out of its type.
LEMMA TypeStep == TypeOK /\ [Next]_vars => TypeOK'
<1> SUFFICES ASSUME TypeOK, [Next]_vars PROVE TypeOK'
    OBVIOUS
<1> USE BoundsAssumption, TablesAssumption, NoneAssumption DEF TypeOK
<1>1. ASSUME NEW d \in Databases, CreateDatabase(d) PROVE TypeOK'
  BY <1>1 DEF CreateDatabase, Fails
<1>2. ASSUME NEW d \in Databases, DropDatabase(d) PROVE TypeOK'
  BY <1>2 DEF DropDatabase, Fails
<1>3. ASSUME NEW d \in Databases, UseDatabase(d) PROVE TypeOK'
  BY <1>3 DEF UseDatabase, Fails, disk
<1>4. ASSUME NEW t \in Tables, CreateTable(t) PROVE TypeOK'
  <2>1. /\ files' \in [Databases -> SUBSET Tables]
        /\ database_tables_' \in [Databases -> SUBSET Tables]
        /\ overwritten' \subseteq Databases \X Tables
        /\ failures' \in 0..MaxFailures
    BY <1>4 DEF CreateTable, Fails
  <2> QED
    BY <1>4, <2>1 DEF CreateTable
<1>6. ASSUME NEW t \in Tables, DropTable(t) PROVE TypeOK'
  BY <1>6 DEF DropTable, Fails, Entry
<1>7. CASE ListTables
  BY <1>7 DEF ListTables, Entry, disk
<1>8. CASE GetTableMetadata
  BY <1>8 DEF GetTableMetadata, disk
<1>9. CASE Close
  BY <1>9 DEF Close, disk
<1>10. CASE Restart
  <2>2. database_tables_' \in [Databases -> SUBSET Tables]
    BY <1>10 DEF Restart, Fresh
  <2>3. restarts' \in 0..MaxRestarts
    BY <1>10 DEF Restart
  <2>4. opened' = {} /\ current_database_' = None /\ is_closed_' = FALSE
            /\ mutex_' = "free" /\ hidden' = {} /\ torn' = {} /\ overwritten' = {}
    BY <1>10 DEF Restart, Fresh
  <2>5. UNCHANGED <<directories, files, failures>>
    BY <1>10 DEF Restart, disk
  <2> QED
    BY <2>2, <2>3, <2>4, <2>5
<1>11. CASE UNCHANGED vars
  BY <1>11 DEF vars, memory, disk
<1> QED
  BY <1>1, <1>2, <1>3, <1>4, <1>6, <1>7, <1>8, <1>9, <1>10, <1>11
     DEF Next

\* Every action keeps the lists, the files and their exceptions in step.
LEMMA ListsStep ==
    DatabasesInv /\ [Next]_vars
        => (InUseExists /\ Unlisted /\ ListsMatchFiles /\ NothingOverwritten)'
<1> SUFFICES ASSUME DatabasesInv, [Next]_vars
             PROVE  (InUseExists /\ Unlisted /\ ListsMatchFiles
                        /\ NothingOverwritten)'
    OBVIOUS
<1> USE NoneAssumption, TablesAssumption
    DEF DatabasesInv, TypeOK, InUseExists, Unlisted, ListsMatchFiles,
        NothingOverwritten
<1>1. ASSUME NEW d \in Databases, CreateDatabase(d)
      PROVE  (InUseExists /\ Unlisted /\ ListsMatchFiles /\ NothingOverwritten)'
  <2>1. files[d] # {} => d \in hidden'
    BY <1>1 DEF CreateDatabase
  <2>2. InUseExists'
    BY <1>1 DEF CreateDatabase
  <2>3. (Unlisted /\ ListsMatchFiles)'
    BY <1>1, <2>1 DEF CreateDatabase
  <2>4. NothingOverwritten'
    BY <1>1, <2>1 DEF CreateDatabase
  <2> QED
    BY <2>2, <2>3, <2>4
<1>2. ASSUME NEW d \in Databases, DropDatabase(d)
      PROVE  (InUseExists /\ Unlisted /\ ListsMatchFiles /\ NothingOverwritten)'
  BY <1>2 DEF DropDatabase
<1>3. ASSUME NEW d \in Databases, UseDatabase(d)
      PROVE  (InUseExists /\ Unlisted /\ ListsMatchFiles /\ NothingOverwritten)'
  BY <1>3 DEF UseDatabase, disk
<1>4. ASSUME NEW t \in Tables, CreateTable(t)
      PROVE  (InUseExists /\ Unlisted /\ ListsMatchFiles /\ NothingOverwritten)'
  <2> DEFINE d == current_database_
  <2>1. CASE /\ d \in opened /\ t \notin database_tables_[d]
             /\ files' = [files EXCEPT ![d] = @ \cup {t}]
             /\ database_tables_' = [database_tables_ EXCEPT ![d] = @ \cup {t}]
             /\ overwritten' = IF t \in files[d] THEN {<<d, t>>} ELSE {}
    <3>1. t \in files[d] => d \in hidden
      BY <2>1
    <3> QED
      BY <1>4, <2>1, <3>1 DEF CreateTable
  <2>2. CASE UNCHANGED <<database_tables_, files>> /\ overwritten' = {}
    BY <1>4, <2>2 DEF CreateTable
  <2> QED
    BY <1>4, <2>1, <2>2 DEF CreateTable
<1>6. ASSUME NEW t \in Tables, DropTable(t)
      PROVE  (InUseExists /\ Unlisted /\ ListsMatchFiles /\ NothingOverwritten)'
  BY <1>6 DEF DropTable, Entry
<1>7. CASE ListTables
  BY <1>7 DEF ListTables, Entry, disk
<1>8. CASE GetTableMetadata
  BY <1>8 DEF GetTableMetadata, disk
<1>9. CASE Close
  BY <1>9 DEF Close, disk
<1>10. CASE Restart
  BY <1>10 DEF Restart, Fresh, disk
<1>11. CASE UNCHANGED vars
  BY <1>11 DEF vars, memory, disk
<1> QED
  BY <1>1, <1>2, <1>3, <1>4, <1>6, <1>7, <1>8, <1>9, <1>10, <1>11
     DEF Next

\* The invariant holds throughout, for all the theorems below.
THEOREM DatabasesInvariant == Spec => []DatabasesInv
<1>1. DatabasesInv /\ [Next]_vars => DatabasesInv'
  BY TypeStep, ListsStep DEF DatabasesInv
<1> QED
  BY <1>1, InitDatabases, PTL DEF Spec

-----------------------------------------------------------------------------
\* The variables keep their types.
THEOREM DatabaseTypes == Spec => []TypeOK
<1>1. DatabasesInv => TypeOK
  BY DEF DatabasesInv
<1> QED
  BY <1>1, DatabasesInvariant, PTL

\* The current database, and every database in the map, is on disk.
THEOREM DatabaseInUseExists == Spec => []InUseExists
<1>1. DatabasesInv => InUseExists
  BY DEF DatabasesInv
<1> QED
  BY <1>1, DatabasesInvariant, PTL

\* Lists and files agree but for the databases that are excepted.
THEOREM DatabaseListsAgree == Spec => []ListsMatchFiles
<1>1. DatabasesInv => ListsMatchFiles
  BY DEF DatabasesInv
<1> QED
  BY <1>1, DatabasesInvariant, PTL

\* A table that exists is overwritten only where files were hidden.
THEOREM TablesNotOverwritten == Spec => []NothingOverwritten
<1>1. DatabasesInv => NothingOverwritten
  BY DEF DatabasesInv
<1> QED
  BY <1>1, DatabasesInvariant, PTL
=============================================================================
