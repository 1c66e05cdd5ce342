--------------------------- MODULE DatabaseManager ---------------------------
(***************************************************************************)
(* src/core/database_manager.cpp: the databases and their tables, in       *)
(* memory and as directories and files, and the current database, which    *)
(* all sessions share.                                                     *)
(*                                                                         *)
(* Every operation holds mutex_ while it reads and writes these, so it is  *)
(* one step: CreateTable without a database name passes current_database_  *)
(* by reference to the one that takes the mutex.  A crash in the middle of *)
(* an operation leaves what a file system error in it leaves, followed by  *)
(* Restart.  What a table's file holds is abstracted to whether it was     *)
(* overwritten.  table_storages_ stays empty, the methods for transactions *)
(* and for key locks are stubs, and those for pages go to the buffer pool: *)
(* these are left out.                                                     *)
(***************************************************************************)
EXTENDS Naturals

CONSTANTS Databases,
          Tables,
          SystemTable,  \* "__tables__"
          None,         \* the empty string: no database
          MaxFailures,  \* bound: file system errors
          MaxRestarts   \* bound

ASSUME TablesAssumption == SystemTable \in Tables
ASSUME NoneAssumption == None \notin Databases
ASSUME BoundsAssumption == MaxFailures \in Nat /\ MaxRestarts \in Nat

VARIABLES opened,             \* the keys of database_tables_
          database_tables_,   \* the table names of each, none if not opened
          current_database_,
          is_closed_,
          mutex_,             \* "free", or "stuck" for ever

          directories,        \* the databases that have one
          files,              \* the tables that have a file, of each database

          hidden,       \* history: databases listed without all their files
          torn,         \* history: databases with fewer files than listed
          overwritten,  \* history: tables whose file was made anew
          failures, restarts  \* counters for the bounds

memory == <<opened, database_tables_, current_database_, is_closed_, mutex_>>
disk == <<directories, files>>
vars == <<memory, disk, hidden, torn, overwritten, failures, restarts>>

\* What the constructor makes.
Fresh ==
    /\ opened' = {}
    /\ database_tables_' = [d \in Databases |-> {}]
    /\ current_database_' = None
    /\ is_closed_' = FALSE
    /\ mutex_' = "free"

Init ==
    /\ opened = {}
    /\ database_tables_ = [d \in Databases |-> {}]
    /\ current_database_ = None
    /\ is_closed_ = FALSE
    /\ mutex_ = "free"
    /\ directories = {}
    /\ files = [d \in Databases |-> {}]
    /\ hidden = {} /\ torn = {} /\ overwritten = {}
    /\ failures = 0 /\ restarts = 0

Fails ==
    /\ failures < MaxFailures
    /\ failures' = failures + 1

\* operator[] of database_tables_: it makes an empty entry if there is none,
\* which happens to the current database once Close has cleared the map.
\* Its files are hidden from then on.
Entry(d) ==
    /\ opened' = opened \cup {d}
    /\ hidden' = IF d \in opened THEN hidden ELSE hidden \cup {d}

-----------------------------------------------------------------------------
(* The operations: each starts when mutex_ is free.                        *)

\* Only the map is asked whether the database exists: a directory that is
\* there already is taken over, and its tables are not listed.  The table's
\* file may fail to open, which is not tested.
CreateDatabase(d) ==
    /\ mutex_ = "free"
    /\ d \notin opened
    /\ opened' = opened \cup {d}
    /\ database_tables_' = [database_tables_ EXCEPT ![d] = {SystemTable}]
    /\ directories' = directories \cup {d}
    /\ \/ /\ files' = [files EXCEPT ![d] = @ \cup {SystemTable}]
          /\ overwritten' = IF SystemTable \in files[d]
                          THEN {<<d, SystemTable>>} ELSE {}
          /\ UNCHANGED <<torn, failures>>
       \/ /\ Fails
          /\ torn' = torn \cup {d}
          /\ UNCHANGED files
          /\ overwritten' = {}
    /\ hidden' = IF d \in directories THEN hidden \cup {d} ELSE hidden
    /\ UNCHANGED <<current_database_, is_closed_, mutex_, restarts>>

\* Fault: the current database is dropped as well.
DropAny(d) ==
    /\ mutex_ = "free"
    /\ d \in opened
    /\ directories' = directories \ {d}
    /\ files' = [files EXCEPT ![d] = {}]
    /\ opened' = opened \ {d}
    /\ database_tables_' = [database_tables_ EXCEPT ![d] = {}]
    /\ hidden' = hidden \ {d}
    /\ torn' = torn \ {d}
    /\ overwritten' = {}
    /\ UNCHANGED <<current_database_, is_closed_, mutex_, failures,
                   restarts>>

\* remove_all may throw when some of the files are gone: the database is then
\* still there, with all its tables listed.
DropDatabase(d) ==
    /\ mutex_ = "free"
    /\ d \in opened
    /\ current_database_ # d
    /\ \/ /\ directories' = directories \ {d}
          /\ files' = [files EXCEPT ![d] = {}]
          /\ opened' = opened \ {d}
          /\ database_tables_' = [database_tables_ EXCEPT ![d] = {}]
          /\ hidden' = hidden \ {d}
          /\ torn' = torn \ {d}
          /\ UNCHANGED failures
       \/ /\ Fails
          /\ \E left \in SUBSET files[d] : files' = [files EXCEPT ![d] = left]
          /\ torn' = torn \cup {d}
          /\ UNCHANGED <<opened, database_tables_, directories, hidden>>
    /\ overwritten' = {}
    /\ UNCHANGED <<current_database_, is_closed_, mutex_, restarts>>

\* A database that is not in the map is loaded from its directory.  When that
\* fails half way, the names read so far are kept and the result is true.
UseDatabase(d) ==
    /\ mutex_ = "free"
    /\ d \in opened \cup directories
    /\ current_database_' = d
    /\ opened' = opened \cup {d}
    /\ \/ /\ d \in opened
          /\ UNCHANGED <<database_tables_, hidden, failures>>
       \/ /\ d \notin opened
          /\ database_tables_' = [database_tables_ EXCEPT ![d] = files[d]]
          /\ UNCHANGED <<hidden, failures>>
       \/ /\ d \notin opened
          /\ Fails
          /\ \E read \in SUBSET files[d] :
                 database_tables_' = [database_tables_ EXCEPT ![d] = read]
          /\ hidden' = hidden \cup {d}
    /\ overwritten' = {}
    /\ UNCHANGED <<is_closed_, mutex_, disk, torn, restarts>>

\* Fault: CreateTable does not look whether the table is listed.
CreateTableAgain(t) ==
    /\ mutex_ = "free"
    /\ LET d == current_database_
       IN  /\ d \in opened
           /\ files' = [files EXCEPT ![d] = @ \cup {t}]
           /\ database_tables_' = [database_tables_ EXCEPT ![d] = @ \cup {t}]
           /\ overwritten' = IF t \in files[d] THEN {<<d, t>>} ELSE {}
    /\ UNCHANGED <<opened, current_database_, is_closed_, mutex_, directories,
                   hidden, torn, failures, restarts>>

\* CreateTable in the current database, the version that is called.  Opening
\* the file truncates it.  A call that is refused, or cannot open the file,
\* changes nothing.
CreateTable(t) ==
    /\ mutex_ = "free"
    /\ LET d == current_database_
       IN  \/ /\ d \in opened /\ t \notin database_tables_[d]
              /\ files' = [files EXCEPT ![d] = @ \cup {t}]
              /\ database_tables_' = [database_tables_ EXCEPT ![d] = @ \cup {t}]
              /\ overwritten' = IF t \in files[d] THEN {<<d, t>>} ELSE {}
              /\ UNCHANGED failures
           \/ /\ d \in opened /\ t \notin database_tables_[d]
              /\ Fails
              /\ UNCHANGED <<database_tables_, files>>
              /\ overwritten' = {}
           \/ /\ d \in opened => t \in database_tables_[d]
              /\ UNCHANGED <<database_tables_, files, failures>>
              /\ overwritten' = {}
    /\ UNCHANGED <<opened, current_database_, is_closed_, mutex_, directories,
                   hidden, torn, restarts>>

\* Fault: the file stays when the table is dropped.
DropFromList(t) ==
    /\ mutex_ = "free"
    /\ current_database_ # None
    /\ Entry(current_database_)
    /\ database_tables_' = [database_tables_ EXCEPT ![current_database_] = @ \ {t}]
    /\ overwritten' = {}
    /\ UNCHANGED <<current_database_, is_closed_, mutex_, disk, torn,
                   failures, restarts>>

\* The file is removed first; if that throws, the table stays listed.
DropTable(t) ==
    /\ mutex_ = "free"
    /\ current_database_ # None
    /\ Entry(current_database_)
    /\ LET d == current_database_
       IN  \/ /\ t \in database_tables_[d]
              /\ files' = [files EXCEPT ![d] = @ \ {t}]
              /\ database_tables_' = [database_tables_ EXCEPT ![d] = @ \ {t}]
              /\ UNCHANGED failures
           \/ /\ t \in database_tables_[d]
              /\ Fails
              /\ UNCHANGED <<database_tables_, files>>
           \/ /\ t \notin database_tables_[d]
              /\ UNCHANGED <<database_tables_, files, failures>>
    /\ overwritten' = {}
    /\ UNCHANGED <<current_database_, is_closed_, mutex_, directories,
                   torn, restarts>>

\* TableExists and ListTables, which may make an entry.
ListTables ==
    /\ mutex_ = "free"
    /\ current_database_ # None
    /\ Entry(current_database_)
    /\ overwritten' = {}
    /\ UNCHANGED <<database_tables_, current_database_, is_closed_, mutex_, disk,
                   torn, failures, restarts>>

\* It calls TableExists, which takes the mutex that this thread has: no one
\* gets it any more.
GetTableMetadata ==
    /\ mutex_ = "free"
    /\ current_database_ # None
    /\ mutex_' = "stuck"
    /\ overwritten' = {}
    /\ UNCHANGED <<opened, database_tables_, current_database_, is_closed_, disk,
                   hidden, torn, failures, restarts>>

\* The maps are cleared, the current database is not.  None of the operations
\* above asks is_closed_.
Close ==
    /\ mutex_ = "free"
    /\ ~is_closed_
    /\ is_closed_' = TRUE
    /\ opened' = {}
    /\ database_tables_' = [d \in Databases |-> {}]
    /\ hidden' = {} /\ torn' = {}
    /\ overwritten' = {}
    /\ UNCHANGED <<current_database_, mutex_, disk, failures, restarts>>

\* The process ends, in whatever state it is, and starts again.
Restart ==
    /\ restarts < MaxRestarts
    /\ restarts' = restarts + 1
    /\ Fresh
    /\ hidden' = {} /\ torn' = {}
    /\ overwritten' = {}
    /\ UNCHANGED <<disk, failures>>

Next ==
    \/ \E d \in Databases : CreateDatabase(d) \/ DropDatabase(d) \/ UseDatabase(d)
    \/ \E t \in Tables : CreateTable(t) \/ DropTable(t)
    \/ ListTables \/ GetTableMetadata \/ Close \/ Restart

Spec == Init /\ [][Next]_vars

-----------------------------------------------------------------------------
(* Properties.                                                             *)

\* Every variable has its type; the counters stay within their bounds.
TypeOK ==
    /\ opened \subseteq Databases
    /\ database_tables_ \in [Databases -> SUBSET Tables]
    /\ current_database_ \in Databases \cup {None}
    /\ is_closed_ \in BOOLEAN
    /\ mutex_ \in {"free", "stuck"}
    /\ directories \subseteq Databases
    /\ files \in [Databases -> SUBSET Tables]
    /\ hidden \subseteq Databases /\ torn \subseteq Databases
    /\ overwritten \subseteq Databases \X Tables
    /\ failures \in 0..MaxFailures
    /\ restarts \in 0..MaxRestarts

\* The databases in the map, and the one all sessions work in, exist on disk,
\* whoever drops what in between, after Close and after a drop that failed;
\* and a table's file is always in a directory.
InUseExists ==
    /\ opened \subseteq directories
    /\ current_database_ \in directories \cup {None}
    /\ \A d \in Databases : files[d] # {} => d \in directories

\* What the map lists of a database is what the next start will find on disk,
\* and the other way round.  Excepted are databases whose files were hidden: by
\* CreateDatabase over an existing directory, by a directory that could not be
\* read to its end, by a call after Close; and those torn by a file system
\* error that CreateDatabase or DropDatabase met.
ListsMatchFiles ==
    \A d \in opened :
        /\ d \notin hidden => files[d] \subseteq database_tables_[d]
        /\ d \notin torn => database_tables_[d] \subseteq files[d]

\* CREATE TABLE and CREATE DATABASE never replace the file of a table that
\* exists, unless its database has hidden files.
NothingOverwritten ==
    \A f \in overwritten : f[1] \in hidden
=============================================================================
