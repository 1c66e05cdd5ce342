# Verification of SQLCC's transactional core

TLA+ models of SQLCC, a relational database written in C++, checked with TLC
and, where stated, proved with TLAPS. The models are translated from the code;
`PROJECT.json` says, for every definition, which lines it stands for.

## 1. Inventory

SQLCC is a library (`src/src`, headers in `src/include`) with a server, a
client and a shell on top. Paths below are relative to `src/src`.

| part | state it keeps | operations | interacts with |
|---|---|---|---|
| TransactionManager (`transaction_manager/transaction_manager.cpp`) | transactions by id, their undo logs, lock entries by resource | begin, commit, rollback, savepoints, acquire and release a lock, log an operation, detect deadlocks | called by tests only; every call holds one mutex |
| WALManager (`transaction_manager/wal_manager.cpp`) | next LSN, buffer of records, last flushed and last checkpoint LSN, checkpoint history; the log file | log a record or a batch, flush, take a checkpoint | called by several threads; a mutex for the buffer, one for the metrics and one for the history; none for the file |
| BufferPoolSharded (`storage_engine/buffer_pool_sharded.cpp`) and StorageEngine, which forwards to it | per shard: page table, LRU list, counts; the next page id | fetch, unpin, new page, flush, flush all, delete | DiskManager below; TableStorage and B+ tree above, which hold pointers to pinned pages |
| UserManager (`sql_executor/user_manager.cpp`) | users, roles, permissions; a permission matrix and current roles derived from them; three files | create, drop and alter users and roles, grant, revoke, set the current role, check a permission, save, load | PermissionValidator and the executor ask it |
| DiskManager (`storage_engine/disk_manager.cpp`) | file, next page id, free list | read, write, allocate, deallocate, batch read, prefetch, sync | buffer pools above |
| BPlusTree (`storage_engine/b_plus_tree.cpp`) and IndexManager | nodes in pages | insert with splits, delete, search, range search | StorageEngine below, executors above |
| TableStorage (`storage_engine/table_storage.cpp`) | tables, records in slotted pages | create, drop, insert, update, delete, get | StorageEngine below |
| DatabaseManager (`core/database_manager.cpp`) | databases, tables, current database, one mutex | create, drop, use, metadata, close | StorageEngine, TransactionManager, IndexManager below |
| ConfigManager (`config_manager/config_manager.cpp`) | settings, change callbacks | load, reload, get, set | everything at start |
| Network (`network/network.cpp`) | sessions, connections with read and write queues, keys | accept, connect, authenticate, exchange keys, query, close | epoll, one thread, a signal handler that stops it; executor above |
| Parser, executors, query plan, set operations, joins | none between statements | pure transformations and loops over rows | storage, DatabaseManager, UserManager |
| SystemDatabase, PermissionValidator | catalogue tables | keep and query the catalogue | executor, UserManager |

`buffer_pool_new.cpp`, `constraint_executor.cpp`, `schema_manager.cpp` and
`view_manager.cpp` are in no build target.

What is hard in these parts, and what makes each correct:

* **TransactionManager**: sequences of calls by several transactions. Locks
  must stay compatible through upgrades and re-requests, belong to active
  transactions only, and suffice for serializability; deadlock detection must
  find every deadlock, and only deadlocks.
* **WALManager**: threads interleave between taking an LSN, pushing the record,
  swapping the buffer, writing the batch, which takes several writes to a file
  without a mutex, and publishing the LSN; the file may fail; the program may
  crash. No record may be lost, written twice or reported before it is written; a
  batch must be written in its order; a checkpoint must not claim more than the
  file has.
* **BufferPoolSharded**: long sequences of fetches, evictions, unpins and
  deletions, with failing transfers. Pinned pages stay, the lists, table and
  counts agree, and what a user wrote is never silently replaced by old bytes.
* **UserManager**: the matrix and the current roles are copies; each operation
  must keep them in step with the tables they are derived from, although a user
  and a role of the same name share a row of the matrix. Three files are
  saved one after the other, and a crash or a failure between them leaves files
  of different moments.
* **Network**: a byte stream delivers parts of messages or several at once, a
  socket may be full, and the session changes under the messages. Replies stay
  in order, a request that arrives whole gets a whole answer, a query needs the
  login of its own session, and both ends use the same key. One loop serves all
  connections: events name handlers that earlier events may have deleted,
  descriptors are reused as soon as they are closed, and a signal handler stops
  the server between any two system calls. Nothing may be confused with its
  successor, and everyone must be served.
* **BPlusTree and IndexManager**: all indexes share the pages of one engine. A
  split must keep every entry, in order, reachable by the descent and by the
  chain of leaves; no search may leave its index or loop.
* **DatabaseManager**: a map in memory mirrors directories and files, all
  callers share the current database, the file system fails half way, and a
  restart begins with an empty map. The map and the files must agree, what is in
  use must exist, and no table may be replaced by a new one of its name.
* The parts not modelled yet are in `PROJECT.json` under "components", and the
  places where they can go wrong under "hazards".

## 2. Modules

| module | models | state and steps |
|---|---|---|
| `LockService` | what a lock manager promises, with no lock table | a readers-writer lock for each resource; begin, lock, unlock, end |
| `TransactionManager` | `transaction_manager.cpp` | one variable per member, one action per public method. Each method holds `mutex_` throughout, so it is one step |
| `TransactionManagerProofs` | | the theorems of section 5, those about the callers too |
| `TransactionClients` | callers of TransactionManager, `detect_deadlock` | a caller per transaction: begins, asks for locks and asks again, reads, writes, commits, rolls back. EXTENDS TransactionManager and conjoins each call with the caller's own step |
| `WALManager` | `wal_manager.cpp`, several threads | a program counter per thread; a step ends where another thread can come in: at a mutex, an atomic or the write |
| `WALManagerProofs` | | the theorems of section 5 |
| `BufferPoolSharded` | `buffer_pool_sharded.cpp`, over the disk | one action per operation and outcome, with the eviction inside it; users who pin, change and unpin pages |
| `BufferPoolShardedProofs` | | the theorems of section 5 |
| `UserManager` | `user_manager.cpp` | one action per operation, with the save inside it; restarts |
| `UserManagerProofs` | | the theorems of section 5 |
| `ConnectionHandler` | one connection of `network.cpp`, with `client_main.cpp` | the handler's session and write queue, the two streams as sequences of message parts, the client's key and what it waits for; a read event takes any prefix of what was sent |
| `MCUserManager` | | the targets of grants for TLC |
| `ConnectionHandlerProofs` | | the theorems of section 5 |
| `ServerNetworkManager` | the loop of `network.cpp` over all connections, with SessionManager | descriptors, `epoll`'s list, the batch of events being handled, handlers, the map of connections, sessions; a step for each system call or event, and `Stop` between any two of them |
| `ServerNetworkManagerProofs` | | the theorems of section 5 |
| `IndexService` | what an index gives to those that search it | by index and key the value inserted last; an insertion at capacity may make it forget other keys |
| `BPlusTree` | `b_plus_tree.cpp` and `index_manager.cpp` | the pages as nodes, the indexes by name; one action per operation, the node operations as operators |
| `BPlusTreeProofs` | | the theorems of section 5 |
| `MCBPlusTree` | | symmetry for TLC |
| `DatabaseManager` | `database_manager.cpp` with the directories and files | one action per operation, which holds `mutex_` throughout, with the ways it can fail; restarts |
| `DatabaseManagerProofs` | | the theorems of section 5 |
| `MCDatabaseManager` | | symmetry for TLC |

Two abstractions recur. A loop over a vector that only asks whether some
element satisfies a condition is a set (lock entries, permissions). Data that
no property tells apart is a model value or a flag: a log record is its LSN, a
page is whether its bytes are the newest, a resource is a name.

Operators whose comment begins with *Fault* are deliberate defects. They are
substituted for the definition that follows them in order to see that a
property notices; no action uses them otherwise.

### What each model leaves out

* TransactionManager: savepoints (their methods check the status and print),
  `wait_graph_` (never filled), isolation level (stored, never read).
* WALManager: metrics (`GetMetrics` returns zeros whatever they are), the
  background flusher (never started), the checkpoint file (its reader is never
  called), recovery (`ReadRecordFromDisk` is a stub, so it replays nothing).
  Of the bytes of a record only the last count, its LSN: where another flush
  writes in the middle of a record, or a failed write leaves half of one, what
  stands between the bytes is not modelled (nothing reads the file). After a
  failed write the stream still holds what it could not write, and tries again
  when it is closed; the model lets it write all, some or none of it, and
  records may then be in the file twice.
* BufferPoolSharded: more than one calling thread. `ReplacePage` gives the
  shard's mutex away and its caller carries on without it and then unlocks it a
  second time, which is undefined (section 6). Statistics are left out. (`StorageEngine::GetStats` asks
  for a key that the pool never sets.)
* UserManager: passwords, `is_active`, times, the optional copy in
  SystemDatabase. A call that is refused changes nothing and is not a step. The
  permissions are a set; the order of the list, on which it depends which of two
  entries of a shared row a restart leaves in the matrix, is a choice.
* ConnectionHandler: TLS, and everything that ServerNetworkManager models. A head
  is never split, and a recv returns all that has arrived (messages are shorter than the 4096 bytes of its buffer), so the
  level-triggered loop is a read of any prefix. The client sends CONNECT first
  and waits for every answer except a query's, as `client_main.cpp` does; an
  AUTH before any CONNECT would use a null session. Where an encrypted message
  is incomplete the code verifies an HMAC over bytes beyond the buffer; the
  model takes it to fail. A send to a client that is gone succeeds or closes
  the connection; that it may raise SIGPIPE is left out.
* ServerNetworkManager: what a connection does with its messages, but for what
  they do to sessions; TLS but for the wait in the handshake; a failing `Start`,
  which closes what it opened. A connection is made once, so a client stands
  for its handler too. Messages that are torn are in ConnectionHandler only.
  `Stop` itself is one step: that a second signal comes in the middle of it, and
  closes a descriptor again, is not seen; nor is the end of the process by
  SIGPIPE when it writes to a client that has left.
* BPlusTree: parent ids (never read), `Merge` (never called), the metadata file
  (nothing reads it), entries too long for their page, several threads (the code
  has no lock). The pool is assumed to have room: every page keeps the pin that
  `NewPage` gave it. Internal nodes never get a key, which TypeOK checks, so that
  no internal node is split and a descent is one step long.
* DatabaseManager: the contents of table files but for their being made anew,
  the methods for transactions and key locks (stubs), those for pages
  (passed on to the pool), `table_storages_` (always empty). `CreateTable` with a database name
  has no other caller than `CreateTable` without one. A crash inside an operation
  leaves what an error at the same place leaves, and then `Restart`.

## 3. Runs

Passing runs:

| run | what it asks | size |
|---|---|---|
| `transaction_manager` | Whatever calls three transactions make on two resources, in any order: are locks compatible, single, and held by active transactions; does a release take only the caller's lock; is an end final; does the lock table implement `LockService`? | 4 thousand states |
| `transaction_clients` | Do callers that lock in two phases get serializable executions, does `detect_deadlock` report every deadlock, and does every transaction end? | 0.8 million |
| `wal` | Two threads that log, log batches, flush and take checkpoints, with a failing write and a restart: is each record in exactly one place, is nothing left in the buffer, is a batch written in its order though its writes are not together, does the buffer drain? Deadlock is checked | 1.9 million |
| `buffer_pool` | Three pages in two frames, two pins each, a failing transfer: do pinned pages stay with the right count, do the structures agree, are updates kept? | 0.2 million |
| `user_manager` | Five calls or restarts over two users and three roles, one of which may have the name of a user, a failing save: do the listed permissions have grantees, does `CheckPermission` answer what the tables say, does a restart lose nothing? | 0.5 million |
| `connection_handler` | One client, four requests, room for two message parts in the socket: do replies keep their order, does a query need the login of its own session, is every whole request answered? | 62 thousand |
| `server_events` | Two clients, two events at a time, a server that is stopped at any moment and started again, descriptors that run out: is every pointer of a batch live, are descriptors never confused, is each login its own client's, is a connection read exactly as long as the server that accepted it runs, is everyone served? | 0.2 million |
| `b_plus_tree` | Two indexes, three keys, leaves that split at three entries: is every entry still in a page of its index, does a range search return what `Search` finds, in order, and do searches implement `IndexService`? | 0.3 million |
| `database_manager` | Any calls on two databases and two tables beside the system table, two failures of the file system, a restart: do the databases in use exist, do the lists match the files, is no table overwritten? | 0.1 million |

Runs that show a disagreement between the code and what it says of itself; each
states what a comment or document says, and TLC finds it violated:

| run | what TLC shows |
|---|---|
| `rollback_undoes` | a rolled back transaction's writes are read by the next one |
| `wal_flushed_on_return` | `Log` returns before its record is written, when another thread has taken it |
| `every_key_found` | after the first split of an index a key that was inserted is not found |

Seen while modelling, without a run of their own:

* Transactions: `detect_deadlock` says yes for any two entries in the lock table.
* Log: a checkpoint can name an LSN above records that are still in another
  thread's batch (nothing reads checkpoints yet). `LogBatch` says that its LSNs are
  consecutive (`wal_manager.cpp` line 145), but `Log` in another thread takes one in
  between, outside `buffer_mutex_`.
* Pool: `FlushAllPages` clears dirty marks without writing the pages
  (`storage_engine.h` line 132 says it writes them). `NewPage` numbers pages from
  0 with every pool, so on an existing file it hands out ids of existing pages.
* Users: a user created under a dropped user's name has the old permissions,
  which `DropUser` leaves in the matrix. The key of the matrix has no `is_role`
  (lines 154 to 166), so a grant to the user of some name takes the row of the role
  of that name, whose permission stays in the list (line 577: "synchronise to the
  permission matrix") and counts no more.
* Connection: `HandleWrite` pops a message sent in part and never asks for
  EPOLLOUT. After the key exchange the client's key is one it drew itself, so
  the server refuses every encrypted query (`network.cpp` lines 431 and 834).
* Server: a TLS handshake blocks the loop for everyone. `max_connections_` is
  never read. `Stop` leaves connections open, and after another `Start` nobody
  reads them. No entry of `sessions_` is ever erased.
* Indexes: `CreateIndex` with a name that is in use on another table replaces
  that index (`index_manager.cpp` lines 26 and 41). The last leaf's `next` is 0,
  so a range search goes on into page 0, which may be another index's
  (`RangeCoversSearch` therefore says nothing of what comes after). `Drop` frees
  no page. The executors call `GetIndex(table_name, column_name)`, whose
  parameters are an index name and a table name (`execution_engine.cpp` line 211).
* Databases: after a restart `CreateDatabase`, which asks only the map, takes over
  the directory of a database that exists, without its tables. `CreateTable` then
  finds no table of that name (line 219: "check whether the table exists already";
  `database_manager_test.cpp` line 83 expects false) and truncates its file.
  `GetTableMetadata` takes the mutex twice and blocks everyone for
  ever. `UseDatabase` and the operations that create, drop and list do not ask
  whether the manager was closed (`DatabaseExists`, the methods for transactions
  and pages, `FlushAllPages` and `GetIndexManager` do). Four expectations of
  `tests/unit/database_manager_test.cpp` are not what the code does: dropping the
  current database succeeds (lines 66 and 232; the code refuses, line 115),
  `ListTables` has two names after two tables were created (line 91; it has
  `__tables__` as well), and `CreateDatabase` fails after `Close` (lines 169 and
  187; it succeeds).
* TableStorage (not modelled): an `UpdateRecord` that fails after deleting loses
  the record; deleting a record twice counts it twice; pages stay pinned and are
  never marked dirty.

### Properties that carry an exception, and why

`UpdatesKept` excepts pages whose bytes the pool itself gave up (a write back
that failed, a read that failed, `FlushAllPages`); without the exceptions it is
false of the code. `AnswersExplained` excepts users and roles whose name was
dropped or renamed, or whose role was changed behind the matrix: such a user
may have permissions of an earlier holder of the name. It also lets an answer be
no where the list says yes, when a user and a role of the same name were granted
the same: one grant then takes the row of the other. `GranteesExist` excepts tables
loaded from files of different saves. `EachRecordOnce` says nothing of
records that a failed write still had to write: they may be gone, or in the file
twice. `EveryRequestAnswered` excepts runs where a recv
returned something else than one message, or the socket had no room: there the
code drops or mutilates messages, or leaves the reply in the queue for ever; it
also excepts encrypted requests, which the server cannot decrypt, and clients
that left. `EveryoneServed` excepts a client that keeps the server in a TLS
handshake, connections that wait while there is no free descriptor, and a server
that is stopped. `RangeCoversSearch` speaks of the entries that `Search` finds,
and `IndexService` lets an index forget keys when an insertion makes it reach
its capacity: `every_key_found` shows what the code does there. `ServedByItsServer`
allows what the code does with a connection that was given to `epoll` just before
`Stop`: it is put into the map after it, and kept there unread like all those that
`Stop` leaves behind. `ListsMatchFiles`
and `NothingOverwritten` except databases that are `hidden` (`CreateDatabase`
over an existing directory, a directory read in part, an entry made after
`Close`) or `torn` (an error in `CreateDatabase` or `DropDatabase`). Each exception is a history variable that the
actions of the code set, so that the property says of everything else what a
user expects.

### Bounds, and why they are enough

* `MaxTxns = 3`, two resources: a deadlock over two resources needs two
  transactions, a cycle of three accesses three, and a third is needed to see
  an upgrade among sharers.
* `wal`: two threads show every pairwise interleaving; `MaxLSN = 2` with
  `BatchSize = 2` gives two single records, a batch, or a batch of which another
  thread's record comes before or in the middle, the last LSN passing the bound
  (a call starts below it); a batch of two can go out in two writes. `HistoryCap = 1` (100 in the code) makes the history
  overflow.
* `buffer_pool`: the frames of one shard are never seen by another, so one
  shard with one frame less than there are pages shows evictions; two pins are
  needed for an unpin that is not the last.
* `user_manager`: drop, create and grant, or grant, rename and restart, take
  three or four calls; five let one save fail before them. A role with a user's
  name, two grants and a revocation take four: create role and user, grant to
  the role before the user is there, grant to the user.
* `connection_handler`: a reply is overtaken only after one filled the socket,
  one was queued and the client has read: CONNECT and three queries. A second
  CONNECT after a login, followed by a query, takes four requests too.
* `server_events`: confusion of a descriptor takes one connection that closes
  and one that is accepted, and a stale pointer two connections in one batch, so
  two clients and two events at a time do; with three pointers that may be ready
  the batch is then shorter than the list. `MaxFd = 3`
  leaves two descriptors for connections. Descriptors are also reused for the
  listening socket and `epoll` by a second `Start`.
* `b_plus_tree`: the first split needs `MaxKeys` insertions (250 in the code);
  four pages hold a split index of three and a second index, or two indexes
  created and dropped again; five insertions fill a leaf after its split.
* `database_manager`: one database is in use while the other is dropped; a drop that fails half way followed by a load
  that fails half way takes two failures.

The theorems of section 5 state every safety property of these runs for all
values of these constants. So the bounds matter for the four liveness properties
only, and for finding, before a proof, that a formula is false.

### Fairness

Safety needs none. `TransactionClients` assumes weak fairness of each caller's
progress: granting what it waits for, committing, or rolling back when
`detect_deadlock` says so. It is what a caller that retries in a loop and
finishes its transaction does; starting transactions, asking for more locks and
rolling back by choice are not fair. `WALManager` assumes weak fairness of each
thread's next step inside a call: the operating system runs a thread that is
not blocked, and no step of another thread keeps `buffer_mutex_` for ever.
Starting a call is not fair. `ConnectionHandler` assumes weak fairness of the
handler's read events, which the level-triggered loop repeats until all is read,
and of the client's reads, which its programs do after every request; sending
and leaving are not fair. `ServerNetworkManager` assumes weak fairness of the
loop's next step, because `server_main.cpp` calls `ProcessEvents` in an endless
loop; the handshake, which waits for the client, is not fair, nor are `Start`,
`Stop` and the clients. The pool, UserManager, the indexes and DatabaseManager
have no liveness property: their calls return in one step.

## 4. Correspondence in detail

* `acquire_lock` is `AcquireLock`: `Compatible` is its decision tree, `Granted`
  the entries it leaves, and a refused request is a step that changes nothing,
  because the parameter `wait` is never read. `ReleaseLock` checks, like the
  code, neither that the transaction exists nor that it is active.
  `RollbackTransaction` goes from ACTIVE to ABORTED: ROLLING_BACK is set and
  overwritten under the mutex. It undoes nothing.
* `Log` takes an LSN in one step and pushes the record in another; `LogBatch`
  takes one LSN per record under `buffer_mutex_`, while `Log` elsewhere can take
  LSNs in between. `ForceFlush` is `SwapBuffer`, `WriteRecords`,
  `PublishFlushed`. `WriteRecords` is one write of the stream (`WriteSome`), of any
  number of records, because the stream writes when its buffer of some 8 KB is
  full; a write that fails (`FailWrite`), or the end of the call after a failure
  (`GiveUp`): by an exception, or unnoticed when the final `flush` failed.
* `FetchPage` is `FetchHit` or `FetchMiss`; `Room` decides between a free place,
  an eviction and failure, `Victim` is `ReplacePage`'s scan from the tail,
  `WriteBack` its write whose result is ignored. A failed fetch changes nothing;
  a failed `NewPage` uses up its id (`NewPageFails`).
* `Save` in UserManager is `SaveToFileInternal`: three files in order, stopping
  at the first that cannot be opened, with no caller looking at the result. A
  permission carries `is_role`, the matrix has one row for a name and a target
  (`SameKey`), which the last grant takes (`AddPermissionToMatrix`). A `Restart`
  follows a crash, or an exit, whose destructor saves once more.
* `SendMessage` in ConnectionHandler has `HandleWrite` inside it: a reply is sent
  only if it found the queue empty, a part of it counts as the whole, and with
  no room it stays. `ProcessMessage` looks at the first message of a chunk and
  at nothing behind it. Keys are numbers, so that the server's key of an
  exchange and the one the client draws differ.
* `ProcessEvents` in ServerNetworkManager takes the batch from `epoll`, which
  returns what is ready and moves it to the end of its list; each event of the
  batch is a later step (`HandleMessage`, `HandleHangup`, or `AcceptConnection`,
  `Handshake`, `Register`, which is `epoll_ctl`, and `Insert`, which puts the
  handler into the map). `Stop` comes between them because it runs in the
  signal handler. `RemoveHandler` is lines 1027 to 1032 with the `close` before
  them. `accept` gives the lowest free descriptor.
* `Serves` is `epoll_wait`, of which the code sees the pointers returned only: of
  those that are ready, the first `MaxEvents` at most, which go to the end of its
  list while the others keep their order. It is stated by where each pointer stood
  before.
* `Place` is `lower_bound` in a leaf, `LeafRange` the loop of the leaf's
  `SearchRange` from there up to the first key above the upper bound, and `Walk` the
  loop of the index's `SearchRange` over the chain of leaves, turn by turn, with the
  pages it has visited.
* `Insert` in BPlusTree is the recursive insertion followed by the new root.
  `Stored` is what writing an internal node and reading it again leaves: one
  child for each key, and the last. A node read from a new page has the child 0.
* Every operation of DatabaseManager holds `mutex_`; `Entry` is `operator[]` of
  the map, which makes an entry where there is none. `GetTableMetadata` leaves
  the mutex `"stuck"`, after which only `Restart` can happen. `CreateTable(table)`
  passes `current_database_` by reference to the `CreateTable` that takes the mutex,
  so it is one step as well.

## 5. Proofs

A theorem is about every value of the constants; the assumptions on them are in
the module that declares them. Where an invariant needs others to be inductive,
the conjunction that is proved has a name ending in `Inv`.

**TransactionManagerProofs**: any number of transactions, any set of resources.

* `TypeCorrect`, `LockExclusion`, `SingleEntry`, `NoOrphanLock`: TypeOK,
  LocksCompatible, OneEntryEach and HoldersActive are invariants.
* `EndedStaysEnded`, `LocksAreKept`: the action properties.
* `Implementation`: `Spec => LS!Spec`, the lock table implements `LockService`.
* `ClientsSerializable`, `DeadlocksDetected`: of callers that lock before they
  access (`CSpec`), Serializable and DetectionComplete are invariants.

The inductive invariant of the table is `IInv`: its four invariants and `FreshIds`,
that identifiers from `next_txn_id_` on were never begun. The invariants need
one another: an upgrade keeps LocksCompatible because a transaction that asks
for it holds one entry (OneEntryEach) and is alone on the resource; a new
transaction has no locks because locks belong to active transactions
(HoldersActive) and it was not active before (FreshIds). The refinement maps
`live` to the active transactions, `readers` and `writers` to the holders of
the two types; every operation maps to the abstract operation of the same
purpose or to a stuttering step.

Serializability (`ClientsInv`) does not need an order of all transactions. The
lock that covers an access is kept until its transaction ends (`Covered`), and
conflicting locks are never held together, so a transaction that accesses
something conflicts only with accesses of ended ones (`FromEnded`). Edges of the
conflict graph therefore never leave an active transaction, and a new edge into
one closes no circle. `DeadlocksDetected` assumes in addition that there are
finitely many resources, since `detect_deadlock` counts lock entries.

**BufferPoolShardedProofs**: any number of pages, shards and frames, for a pool
built on an empty file (`FilePages = {}`; the premise is needed, since on a file
with pages `NewPage` hands out ids in use).

* `PinsAreCounted`, `UpdatesAreKept`, `PoolTypes`, `ListsAlwaysAgree`:
  PinsCounted, UpdatesKept, TypeOK and ListsAgree are invariants.

`PoolInv` says that counts equal pins on every page and vanish outside the pool,
that users have only ids below `next_page_id_`, and the pool only pages of theirs.
Evicting keeps it, since `Victim` passes pinned pages over; `NewPage` keeps it
because its id is not in the pool. UpdatesKept is inductive relative to it: an
evicted page is pinned by nobody, so nobody has changed it without saying so, so
it is dirty or in the file already. `ListsInv` adds that a shard's list has its
pages in the pool, each once, and that `current_size` is its length and within the
shard (`ShardLists`); ListsAgree counts pages, and follows because a sequence
without repetition is as long as its set.

**ServerNetworkManagerProofs**: any set of clients and any number of descriptors,
events and starts, for clients that are told apart from the other kinds of
descriptor and from `nullptr`.

* `DescriptorsAlwaysAgree`, `PointersStayLive`, `LoginsAreOwn`, `ServerTypes`:
  DescriptorsAgree, PointersLive, LoginIsOwn and TypeOK are invariants.
* `ConnectionsServed`: ServedByItsServer is an invariant.

`DescriptorsInv` says beside the types and DescriptorsAgree that the server has its
two descriptors exactly while it runs (so that `epoll_ctl` fails after `Stop`),
that a client waiting to be accepted waits once and has no descriptor (so that
`accept` gives it its only one), and that one connection at a time is between
`accept` and the map (so that giving one up, or registering it, concerns no
other). `SessionsInv` adds that a handler was given to `epoll` exactly when it is in
the map or between `epoll_ctl` and the insertion (`Watches`, which counts the `Start`
whose `epoll` got it), that the present `epoll` has these handlers, each once, and
the batch only handlers in the map (`Queues`), that a handler's session was made for its own client and
only handlers that were registered have one (`SessionsOwn`), and that a client logs
in after the server has handled its CONNECT (`ConnectsFirst`).

**DatabaseManagerProofs**: any databases, tables, failures and restarts,
for a system table that is a table and no database with the empty name.

* `DatabaseTypes`, `DatabaseInUseExists`, `DatabaseListsAgree`,
  `TablesNotOverwritten`: TypeOK, InUseExists, ListsMatchFiles and
  NothingOverwritten are invariants.

`DatabasesInv` is their conjunction with `Unlisted`, that a database outside the map
has no list. They need one another: `CreateTable` overwrites nothing because an
unlisted table has no file (ListsMatchFiles); a database without a directory has no
files (InUseExists), so creating one overwrites nothing either; the empty entry
that `operator[]` makes lists nothing that is not there (Unlisted).

**UserManagerProofs**: any users, roles and targets, any number of calls, restarts
and failed saves; a user and a role may have the same name.

* `UserTypes`, `PermissionsHaveGrantees`, `UsersSurviveRestart`,
  `PermissionAnswers`: TypeOK, GranteesExist, RestartKeeps and AnswersExplained are
  invariants.

`UsersInv` says of the files what the invariants say of the tables, because a
restart makes the files the tables: grantees in files of one save exist in them
(`FilesConsistent`), and without a failed save the files are the tables
(`SavedWhole`). For the answers it relates the two copies to what they were derived
from: matrix entries to permissions (`MatrixAgrees`) and current roles to users
(`CurrentAgrees`), with the exceptions of section 3: an entry of the list may be
missing from the matrix while the list also has the entry of the role, or user, of
the same name (`Other`), whose row it shares.

**WALManagerProofs**: any number of threads, LSNs, failed writes and restarts, any
batch of two records or more, any length of the history.

* `WALTypes`, `WALLeavesNothing`, `WALRecordsOnce`, `WALBatchesInOrder`: TypeOK,
  NothingLeftBehind, EachRecordOnce and BatchesInOrder are invariants.

`WALInv` states EachRecordOnce without counting, as `OnePlace`: no record is twice
in one place, nor in two places, and only those a failed write still had to write
are nowhere. It is kept because
no place has an LSN that was not handed out (`HandedOut`), so a new LSN is nowhere
yet. `Filling` says that the thread in `LogBatch` holds `buffer_mutex_` and
that the buffer ends with its last record, so that its next record comes right
behind. `BatchesKept` follows a batch from there: it is in order in the buffer, in the
batch of every thread and in the file. A thread writes its batch in parts, others
between them, and the next part follows the earlier ones because what was sent is
in the file (`SentWritten`). A thread that left records in the buffer is
itself on the way to swap it (`NothingLeftBehind`): it is enough that swapping takes
all there is.

**ConnectionHandlerProofs**: any session, replies and cuts of the stream, any number
of requests and any room in the socket.

* `ConnectionTypes`, `ResultsNeedLogin`, `RepliesKeepOrder`: TypeOK, LoginRequired
  and RepliesInOrder are invariants.

`ConnectionInv` says where the session comes from: it was made by the CONNECT that the
last CONN_ACK answers, and it is logged in only if that CONNECT asked for no login
or an AUTH was accepted since (`SessionMade`). That a session is there when another
message is handled follows from the client's first message being CONNECT
(`ConnectsFirst`), through every cut of the stream. Every reply answers a request that was sent (`AnswersRequests`), so
that a later request changes nothing about an earlier session. RepliesInOrder needs
only the types and ConnectsFirst: what is sent or queued next has the number of the
last reply.

**BPlusTreeProofs**: any tables, values, number of keys, pages and insertions, and any
capacity of a leaf from 2.

* `TreeTypes`, `EntriesStay`, `RangesCover`: TypeOK, NothingErased and
  RangeCoversSearch are invariants.
* `TreeRefinement`: `Spec => IX!Spec`, the pages implement `IndexService`.

`TreeInv` says that every page is a sorted leaf with room, or an internal node with one
child that is a leaf of the same index (`PagesGood`), and that indexes share no
page (`IndexesApart`), without which an insertion into one would erase an
entry of another. So there is one leaf where an index looks for all keys, and what
`Search` finds are the entries of that leaf: an insertion replaces the entry of its
key there, and a split forgets the keys of the left half, which only happens at
capacity, as the abstract insertion requires. That a split reaches capacity follows from the keys of a sorted leaf being as many
as its entries (`KeyCount`). For `RangesCover`, what the first leaf has in the range
comes first in the result, and the turns of `SearchRange`'s loop only add to it, wherever
the chain leads. The induction over the turns is stated with a set in the place of a
predicate (`UpTo`, proved from the pigeonhole principle), because the provers cannot
instantiate the library's induction theorems; for the same reason it is proved
first that the recursive function in `Walk` exists (`WalkIs`).

Only model-checked: the four liveness properties, EveryTransactionEnds,
BufferDrains, EveryRequestAnswered and EveryoneServed, because TLAPS supports
neither fairness nor ENABLED; and the three runs that show a disagreement, which
need a counterexample and not a proof.

## 6. Plan

Done: the transaction manager with its abstract lock service and its callers;
the log; the pool for one thread; users and permissions; one network connection,
and the loop that serves all of them; the indexes with their abstract service;
databases and tables; the theorems of section 5.

Every property of the passing runs that is not about liveness is proved. Left:

1. Shorter proofs of the B+ tree, the log and one connection, which make up most
   of the lines: their lemmas about taking a sequence apart have much in common.
2. TransactionManager's callers with the log, once the code connects them.

Not modelled, and why:

* `ReplacePage` under several threads: after it has given the mutex away the
  code accesses the list and the map without it, and unlocks a mutex it does not
  hold. What happens then is undefined and has no finite set of outcomes to model.
* TableStorage: the executors make a new TableStorageManager for every statement
  (`unified_executor.cpp` line 696), which knows no table and refuses the
  statement; scanning and indexing are stubs.
* DiskManager's allocator: only the first BufferPool calls it (`buffer_pool.cpp`
  lines 391 and 690). Its reads and writes are in the pool.
* ConfigManager, parser, query plan, executors, set operations, joins: sequential
  and without state between calls; scans are stubs that return no rows.
* SystemDatabase: rows written through SQL statements that the executors do not
  store; PermissionValidator: no state of its own.
* Encryption: functions of OpenSSL.
* The first BufferPool, which is built and which only its own tests use, and the
  files that are in no build target.
