-------------------------- MODULE BufferPoolSharded --------------------------
(***************************************************************************)
(* src/storage_engine/buffer_pool_sharded.cpp, over the disk manager and   *)
(* under StorageEngine, whose page operations only forward to it.          *)
(*                                                                         *)
(* The pool is called by one thread at a time, so an operation is one      *)
(* step.  (With more threads nothing protects a shard any more after       *)
(* ReplacePage has left its mutex: that is out of this module.)            *)
(* A page's bytes are abstracted to whether they are the newest ones: what *)
(* its last user left, or the zeros it was created with.  allocated_pages_ *)
(* and stats_ are written and never tested, so they are left out.          *)
(***************************************************************************)
EXTENDS Integers, FiniteSets, Sequences
SeqExt == INSTANCE SequencesExt

CONSTANTS MaxPage,      \* bound: the largest page id
          NumShards,    \* num_shards_
          ShardSize,    \* max_size of every shard
          FilePages,    \* pages already in the file when the pool is built
          MaxPins,      \* bound: pins of one page at a time
          MaxFailures   \* bound: reads and writes that fail

ASSUME MaxPageAssumption == MaxPage \in Nat
ASSUME NumShardsAssumption == NumShards \in Nat \ {0}
ASSUME ShardSizeAssumption == ShardSize \in Nat
ASSUME FilePagesAssumption == FilePages \subseteq 0..MaxPage
ASSUME FailuresAssumption == MaxFailures \in Nat

VARIABLES next_page_id_,
          page_table,    \* the pages in the pool
          ref_count, is_dirty,
          lru_list,      \* of each shard, most recently used first
          current_size,  \* of each shard
          in_frame,      \* whether a page in the pool has the newest bytes
          in_file        \* whether the file has a page's newest bytes

pool == <<next_page_id_, page_table, ref_count, is_dirty, lru_list,
          current_size>>

VARIABLES known,     \* ids that users have: of FilePages, or from NewPage
          pins,      \* how often each page was handed out and not unpinned
          wrote,     \* pages changed by a user who has not said so yet
          forgotten, \* history: pages whose newest bytes the pool gave up
          failures   \* counter that MaxFailures bounds

users == <<known, pins, wrote>>
vars == <<pool, in_frame, in_file, users, forgotten, failures>>

Pages == 0..MaxPage
Shards == 0..(NumShards - 1)
Shard(p) == p % NumShards          \* GetShardIndex, num_shards_ a power of two

Pinned(p) == ref_count[p] > 0
MoveToHead(s, p) == <<p>> \o SeqExt!RemoveFirst(s, p)

-----------------------------------------------------------------------------
\* The constructor: page ids start at 0 whatever is in the file.
Init ==
    /\ next_page_id_ = 0
    /\ page_table = {}
    /\ ref_count = [p \in Pages |-> 0]
    /\ is_dirty = [p \in Pages |-> FALSE]
    /\ lru_list = [s \in Shards |-> <<>>]
    /\ current_size = [s \in Shards |-> 0]
    /\ in_frame = [p \in Pages |-> FALSE]
    /\ in_file = [p \in Pages |-> TRUE]
    /\ known = FilePages
    /\ pins = [p \in Pages |-> 0]
    /\ wrote = {} /\ forgotten = {} /\ failures = 0

\* Fault: a page is taken although it is pinned.
PinnedVictim(s) ==
    {{lru_list[s][i]} : i \in {j \in DOMAIN lru_list[s] : j = Len(lru_list[s])}}

\* ReplacePage's choice in shard s: the unpinned page that was used least
\* recently, if there is one.  An id without an entry in page_table is passed
\* over.  As a set with the set of pages to take out.
Victim(s) ==
    LET free(i) == /\ lru_list[s][i] \in page_table
                   /\ ~Pinned(lru_list[s][i])
    IN  {{lru_list[s][i]} : i \in {j \in DOMAIN lru_list[s] :
             /\ free(j)
             /\ \A k \in (j + 1)..Len(lru_list[s]) : ~free(k)}}

\* Fault: a shard takes one page more than it has room for.
RoomLate(s) == IF current_size[s] <= ShardSize THEN {{}} ELSE Victim(s)

\* What makes room in shard s for one more page: nothing, or one eviction;
\* no choice at all when the shard is full of pinned pages.
Room(s) == IF current_size[s] < ShardSize THEN {{}} ELSE Victim(s)

\* Fault: a page just evicted is not taken off the list.
InstallOnly(s, p, evicted) == <<p>> \o lru_list[s]

\* The list of shard s once the evicted pages are off it and p is on it.
ListWith(s, p, evicted) ==
    <<p>> \o (IF evicted = {} THEN lru_list[s]
              ELSE SeqExt!RemoveFirst(lru_list[s], CHOOSE q \in evicted : TRUE))

\* The pool with p in a frame of its own, pinned and clean, instead of the
\* evicted pages.  If p has an entry already it is replaced.
Install(p, evicted) ==
    LET s == Shard(p)
    IN  /\ page_table' = (page_table \ evicted) \cup {p}
        /\ ref_count' = [ref_count EXCEPT ![p] = 1]
        /\ is_dirty' = [q \in Pages |-> q \notin evicted \cup {p} /\ is_dirty[q]]
        /\ lru_list' = [lru_list EXCEPT ![s] = ListWith(s, p, evicted)]
        /\ current_size' =
               [current_size EXCEPT ![s] = @ - Cardinality(evicted) + 1]
        /\ pins' = [pins EXCEPT ![p] = @ + 1]

\* Fault: an evicted page is dropped without being written.
DropEvicted(evicted, written) == in_file

\* The file after the evicted pages have been written, if they were dirty.
\* The result of WritePage is not looked at: the page goes in any case.
WriteBack(evicted, written) ==
    [q \in Pages |-> IF q \in evicted /\ is_dirty[q] /\ written
                     THEN in_frame[q] ELSE in_file[q]]

\* How many of the two kinds of transfer fail in this step.
Fails(n) ==
    /\ failures + n <= MaxFailures
    /\ failures' = failures + n

-----------------------------------------------------------------------------
(* The operations.                                                         *)

FetchHit(p) ==
    /\ p \in known \cap page_table
    /\ pins[p] < MaxPins
    /\ ref_count' = [ref_count EXCEPT ![p] = @ + 1]
    /\ lru_list' = [lru_list EXCEPT ![Shard(p)] = MoveToHead(@, p)]
    /\ pins' = [pins EXCEPT ![p] = @ + 1]
    /\ UNCHANGED <<next_page_id_, page_table, is_dirty, current_size, in_frame,
                   in_file, known, wrote, forgotten, failures>>

\* A page that cannot be read is taken for a new one, full of zeros.
FetchMiss(p) ==
    /\ p \in known \ page_table
    /\ \E evicted \in Room(Shard(p)), written, read \in BOOLEAN :
           /\ Install(p, evicted)
           /\ in_file' = WriteBack(evicted, written)
           /\ in_frame' = [in_frame EXCEPT ![p] = read /\ in_file[p]]
           /\ forgotten' = forgotten
                  \cup {q \in evicted : is_dirty[q] /\ ~written}
                  \cup (IF read THEN {} ELSE {p})
           /\ Fails((IF written THEN 0 ELSE 1) + (IF read THEN 0 ELSE 1))
    /\ UNCHANGED <<next_page_id_, known, wrote>>

\* The new page is clean, so it reaches the file only once a user changes it.
NewPage ==
    LET p == next_page_id_
    IN  /\ p <= MaxPage
        /\ next_page_id_' = p + 1
        /\ \E evicted \in Room(Shard(p)), written \in BOOLEAN :
               /\ Install(p, evicted)
               /\ in_file' = [WriteBack(evicted, written)
                                  EXCEPT ![p] = p \notin FilePages]
               /\ in_frame' = [in_frame EXCEPT ![p] = TRUE]
               /\ forgotten' = forgotten
                      \cup {q \in evicted : is_dirty[q] /\ ~written}
               /\ Fails(IF written THEN 0 ELSE 1)
        /\ known' = known \cup {p}
        /\ UNCHANGED wrote

\* NewPage in a shard full of pinned pages: the id is used up all the same.
NewPageFails ==
    /\ next_page_id_ <= MaxPage
    /\ Room(Shard(next_page_id_)) = {}
    /\ next_page_id_' = next_page_id_ + 1
    /\ UNCHANGED <<page_table, ref_count, is_dirty, lru_list, current_size,
                   in_frame, in_file, users, forgotten, failures>>

\* A user changes the bytes of a page it has pinned, through the pointer.
Write(p) ==
    /\ pins[p] > 0
    /\ wrote' = wrote \cup {p}
    /\ in_frame' = [in_frame EXCEPT ![p] = TRUE]
    /\ in_file' = [in_file EXCEPT ![p] = FALSE]
    /\ forgotten' = forgotten \ {p}
    /\ UNCHANGED <<pool, known, pins, failures>>

\* Fault: a clean unpin also takes an earlier dirty mark away.
UnpinOverwrites(p, dirty) ==
    /\ pins[p] > 0
    /\ pins' = [pins EXCEPT ![p] = @ - 1]
    /\ wrote' = IF dirty THEN wrote \ {p} ELSE wrote
    /\ ref_count' = [ref_count EXCEPT ![p] = @ - 1]
    /\ is_dirty' = [is_dirty EXCEPT ![p] = dirty]
    /\ UNCHANGED <<next_page_id_, page_table, lru_list, current_size, in_frame,
                   in_file, known, forgotten, failures>>

\* Users unpin what they pinned, and the last of them says if the page was
\* changed.  An id that is not in the pool is refused.
UnpinPage(p, dirty) ==
    /\ pins[p] > 0
    /\ p \in wrote /\ pins[p] = 1 => dirty
    /\ pins' = [pins EXCEPT ![p] = @ - 1]
    /\ wrote' = IF dirty THEN wrote \ {p} ELSE wrote
    /\ IF p \in page_table
       THEN /\ ref_count' = [ref_count EXCEPT ![p] = IF @ > 0 THEN @ - 1 ELSE @]
            /\ is_dirty' = [is_dirty EXCEPT ![p] = @ \/ dirty]
       ELSE UNCHANGED <<ref_count, is_dirty>>
    /\ UNCHANGED <<next_page_id_, page_table, lru_list, current_size, in_frame,
                   in_file, known, forgotten, failures>>

\* A failed write leaves the page dirty; a clean page is not written.
FlushPage(p) ==
    /\ p \in page_table
    /\ is_dirty[p]
    /\ \/ /\ in_file' = [in_file EXCEPT ![p] = in_frame[p]]
          /\ is_dirty' = [is_dirty EXCEPT ![p] = FALSE]
          /\ UNCHANGED failures
       \/ Fails(1) /\ UNCHANGED <<in_file, is_dirty>>
    /\ UNCHANGED <<next_page_id_, page_table, ref_count, lru_list, current_size,
                   in_frame, users, forgotten>>

\* Every page is marked clean, and none is written.
FlushAllPages ==
    /\ is_dirty' = [p \in Pages |-> FALSE]
    /\ forgotten' = forgotten \cup {p \in page_table : is_dirty[p]}
    /\ UNCHANGED <<next_page_id_, page_table, ref_count, lru_list, current_size,
                   in_frame, in_file, users, failures>>

\* Fault: the deleted page stays on the list.
DeleteListed(p) ==
    /\ p \in known \cap page_table
    /\ ~Pinned(p)
    /\ page_table' = page_table \ {p}
    /\ current_size' = [current_size EXCEPT ![Shard(p)] = @ - 1]
    /\ is_dirty' = [is_dirty EXCEPT ![p] = FALSE]
    /\ known' = known \ {p}
    /\ UNCHANGED <<next_page_id_, ref_count, lru_list, in_frame, in_file, pins,
                   wrote, forgotten, failures>>

\* Only a page that is in the pool and not pinned can be deleted.
DeletePage(p) ==
    /\ p \in known \cap page_table
    /\ ~Pinned(p)
    /\ page_table' = page_table \ {p}
    /\ lru_list' = [lru_list EXCEPT ![Shard(p)] = SeqExt!RemoveFirst(@, p)]
    /\ current_size' = [current_size EXCEPT ![Shard(p)] = @ - 1]
    /\ is_dirty' = [is_dirty EXCEPT ![p] = FALSE]
    /\ known' = known \ {p}
    /\ UNCHANGED <<next_page_id_, ref_count, in_frame, in_file, pins, wrote,
                   forgotten, failures>>

Next ==
    \/ NewPage \/ NewPageFails \/ FlushAllPages
    \/ \E p \in Pages :
           \/ FetchHit(p) \/ FetchMiss(p) \/ Write(p)
           \/ \E dirty \in BOOLEAN : UnpinPage(p, dirty)
           \/ FlushPage(p) \/ DeletePage(p)

Spec == Init /\ [][Next]_vars

-----------------------------------------------------------------------------
(* Properties.                                                             *)

TypeOK ==
    /\ next_page_id_ \in 0..(MaxPage + 1)
    /\ page_table \subseteq Pages
    /\ ref_count \in [Pages -> Nat]
    /\ is_dirty \in [Pages -> BOOLEAN]
    /\ DOMAIN lru_list = Shards
    /\ current_size \in [Shards -> 0..ShardSize]
    /\ {in_frame, in_file} \subseteq [Pages -> BOOLEAN]
    /\ known \subseteq Pages
    /\ pins \in [Pages -> Nat]
    /\ wrote \subseteq Pages /\ forgotten \subseteq Pages
    /\ failures \in 0..MaxFailures

\* A page that a user has pinned is in the pool, and its count is exactly the
\* number of pins: whoever holds a pointer, it is to the page in the table,
\* and a page nobody holds can be evicted.
PinsCounted ==
    /\ \A p \in Pages : pins[p] > 0 => p \in page_table
    /\ \A p \in page_table : ref_count[p] = pins[p]

\* The list of a shard has exactly its pages in the pool, each of them once,
\* and current_size is their number.
ListsAgree ==
    \A s \in Shards :
        LET mine == {p \in page_table : Shard(p) = s}
        IN  /\ {lru_list[s][i] : i \in DOMAIN lru_list[s]} = mine
            /\ Len(lru_list[s]) = Cardinality(mine)
            /\ current_size[s] = Cardinality(mine)

\* What users wrote is not lost: the newest bytes of a page are in the pool,
\* and on their way to the file unless they are there; those of a page that
\* is not in the pool are in the file.  Excepted are the pages whose bytes the
\* pool has knowingly given up: FlushAllPages, a write back or read that failed.
UpdatesKept ==
    \A p \in known \ forgotten :
        IF p \in page_table
        THEN in_frame[p] /\ (in_file[p] \/ is_dirty[p] \/ p \in wrote)
        ELSE in_file[p]
=============================================================================
