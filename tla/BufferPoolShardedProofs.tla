----------------------- MODULE BufferPoolShardedProofs -----------------------
(***************************************************************************)
(* TypeOK, PinsCounted, ListsAgree and UpdatesKept hold for every number   *)
(* of pages, shards and frames, for a pool built on an empty file.  (On a  *)
(* file with pages NewPage hands out their ids again, and PinsCounted and  *)
(* UpdatesKept do not hold.)                                               *)
(***************************************************************************)
EXTENDS BufferPoolSharded, FiniteSetTheorems, SequenceTheorems, TLAPS

\* What the proofs need of the types.
Typed ==
    /\ next_page_id_ \in Nat
    /\ ref_count \in [Pages -> Nat]
    /\ pins \in [Pages -> Nat]
    /\ is_dirty \in [Pages -> BOOLEAN]
    /\ in_frame \in [Pages -> BOOLEAN]
    /\ in_file \in [Pages -> BOOLEAN]
    /\ known \subseteq Pages

\* Users have the ids below next_page_id_, the pool has pages of theirs.
IdsHandedOut ==
    /\ \A p \in known : p < next_page_id_
    /\ page_table \subseteq known

\* Pins and counts agree on all pages, and vanish outside the pool.
CountsAgree ==
    \A p \in Pages :
        /\ ref_count[p] = pins[p]
        /\ p \notin page_table => pins[p] = 0

\* Who has changed a page and not said so yet still has it pinned.
WritersPin == \A p \in wrote : p \in Pages /\ pins[p] > 0

PoolInv == Typed /\ IdsHandedOut /\ CountsAgree /\ WritersPin

-----------------------------------------------------------------------------
\* What ReplacePage takes out was in the pool and not pinned.
LEMMA RoomUnpinned ==
    ASSUME NEW s, NEW evicted \in Room(s)
    PROVE  \A q \in evicted : q \in page_table /\ ~Pinned(q)
BY DEF Room, Victim

\* Installing a page that is not in the pool keeps pins and counts together.
LEMMA InstallCounts ==
    ASSUME PoolInv, NEW p \in Pages, p \notin page_table,
           NEW evicted \in Room(Shard(p)), Install(p, evicted)
    PROVE  /\ CountsAgree'
           /\ ref_count' \in [Pages -> Nat]
           /\ pins' \in [Pages -> Nat]
           /\ is_dirty' \in [Pages -> BOOLEAN]
<1>1. \A q \in evicted : q \in page_table /\ ~Pinned(q)
  BY RoomUnpinned
<1>2. /\ page_table' = (page_table \ evicted) \cup {p}
      /\ ref_count' = [ref_count EXCEPT ![p] = 1]
      /\ pins' = [pins EXCEPT ![p] = @ + 1]
  BY DEF Install
<1>3. is_dirty' \in [Pages -> BOOLEAN]
  BY DEF Install
<1>4. ref_count' \in [Pages -> Nat] /\ pins' \in [Pages -> Nat]
  BY <1>2 DEF PoolInv, Typed
<1>5. ASSUME NEW q \in Pages
      PROVE  ref_count'[q] = pins'[q] /\ (q \notin page_table' => pins'[q] = 0)
  <2>1. CASE q = p
    BY <1>2, <2>1 DEF PoolInv, Typed, CountsAgree
  <2>2. CASE q # p
    <3>1. ref_count'[q] = ref_count[q] /\ pins'[q] = pins[q]
      BY <1>2, <2>2 DEF PoolInv, Typed
    <3>2. q \notin page_table' => q \notin page_table \/ q \in evicted
      BY <1>2, <2>2
    <3>3. q \in evicted => ref_count[q] = 0
      BY <1>1 DEF Pinned, PoolInv, Typed
    <3>4. QED
      BY <3>1, <3>2, <3>3 DEF PoolInv, CountsAgree
  <2>3. QED
    BY <2>1, <2>2
<1>6. QED
  BY <1>3, <1>4, <1>5 DEF CountsAgree

\* Writers keep their pins while another page is installed.
LEMMA InstallWriters ==
    ASSUME PoolInv, NEW p \in Pages, NEW evicted, Install(p, evicted),
           wrote' = wrote
    PROVE  WritersPin'
<1>1. pins' = [pins EXCEPT ![p] = @ + 1]
  BY DEF Install
<1>2. QED
  BY <1>1 DEF PoolInv, Typed, WritersPin

\* A page that is not in the pool is read or made into a frame: what both
\* operations do besides installing it.
LEMMA FetchMissInv ==
    ASSUME PoolInv, NEW p \in Pages, FetchMiss(p)
    PROVE  PoolInv'
<1>1. p \in known /\ p \notin page_table
  BY DEF FetchMiss
<1>2. PICK evicted \in Room(Shard(p)), written, read \in BOOLEAN :
          /\ Install(p, evicted)
          /\ in_file' = WriteBack(evicted, written)
          /\ in_frame' = [in_frame EXCEPT ![p] = read /\ in_file[p]]
  BY DEF FetchMiss
<1>3. /\ UNCHANGED <<next_page_id_, known, wrote>>
      /\ page_table' = (page_table \ evicted) \cup {p}
  BY <1>2 DEF FetchMiss, Install
<1>4. /\ CountsAgree'
      /\ ref_count' \in [Pages -> Nat]
      /\ pins' \in [Pages -> Nat]
      /\ is_dirty' \in [Pages -> BOOLEAN]
  BY <1>1, <1>2, InstallCounts
<1>5. in_file' \in [Pages -> BOOLEAN]
  BY <1>2 DEF WriteBack, PoolInv, Typed
<1>6. in_frame' \in [Pages -> BOOLEAN]
  BY <1>2 DEF PoolInv, Typed
<1>7. WritersPin'
  BY <1>2, <1>3, InstallWriters
<1>8. IdsHandedOut'
  BY <1>1, <1>3 DEF PoolInv, IdsHandedOut
<1>9. QED
  BY <1>3, <1>4, <1>5, <1>6, <1>7, <1>8 DEF PoolInv, Typed

\* NewPage's id is in no structure yet; its page gets the first pin.
LEMMA NewPageInv ==
    ASSUME PoolInv, NewPage
    PROVE  PoolInv'
<1> DEFINE p == next_page_id_
<1>1. p \in Pages /\ p \notin known /\ p \notin page_table
  BY MaxPageAssumption DEF NewPage, Pages, PoolInv, Typed, IdsHandedOut
<1>2. PICK evicted \in Room(Shard(p)), written \in BOOLEAN :
          /\ Install(p, evicted)
          /\ in_file' = [WriteBack(evicted, written)
                             EXCEPT ![p] = p \notin FilePages]
          /\ in_frame' = [in_frame EXCEPT ![p] = TRUE]
  BY DEF NewPage
<1>3. /\ next_page_id_' = p + 1 /\ known' = known \cup {p} /\ wrote' = wrote
      /\ page_table' = (page_table \ evicted) \cup {p}
  BY <1>2 DEF NewPage, Install
<1>4. /\ CountsAgree'
      /\ ref_count' \in [Pages -> Nat]
      /\ pins' \in [Pages -> Nat]
      /\ is_dirty' \in [Pages -> BOOLEAN]
  BY <1>1, <1>2, InstallCounts
<1>5. in_file' \in [Pages -> BOOLEAN]
  <2>1. WriteBack(evicted, written) \in [Pages -> BOOLEAN]
    BY DEF WriteBack, PoolInv, Typed
  <2>2. QED
    BY <1>2, <2>1
<1>6. in_frame' \in [Pages -> BOOLEAN]
  BY <1>2 DEF PoolInv, Typed
<1>7. WritersPin'
  BY <1>1, <1>2, <1>3, InstallWriters
<1>8. IdsHandedOut'
  <2>1. \A q \in known : q < next_page_id_ + 1
    BY DEF PoolInv, Typed, Pages, IdsHandedOut
  <2>2. p < next_page_id_ + 1
    BY DEF PoolInv, Typed
  <2>3. page_table' \subseteq known'
    BY <1>3 DEF PoolInv, IdsHandedOut
  <2>4. QED
    BY <1>3, <2>1, <2>2, <2>3 DEF IdsHandedOut
<1>9. QED
  BY <1>1, <1>3, <1>4, <1>5, <1>6, <1>7, <1>8 DEF PoolInv, Typed

\* UnpinPage takes one pin from a page that is in the pool.
LEMMA UnpinInv ==
    ASSUME PoolInv, NEW p \in Pages, NEW dirty \in BOOLEAN, UnpinPage(p, dirty)
    PROVE  PoolInv'
<1>1. pins[p] > 0 /\ (p \in wrote /\ pins[p] = 1 => dirty)
  BY DEF UnpinPage
<1>2. p \in page_table
  BY <1>1 DEF PoolInv, CountsAgree
<1>3. /\ pins' = [pins EXCEPT ![p] = @ - 1]
      /\ ref_count' = [ref_count EXCEPT ![p] = IF @ > 0 THEN @ - 1 ELSE @]
      /\ is_dirty' = [is_dirty EXCEPT ![p] = @ \/ dirty]
      /\ wrote' = IF dirty THEN wrote \ {p} ELSE wrote
      /\ UNCHANGED <<next_page_id_, page_table, in_frame, in_file, known>>
  BY <1>2 DEF UnpinPage
<1>4. /\ pins' \in [Pages -> Nat]
      /\ ref_count' \in [Pages -> Nat]
      /\ is_dirty' \in [Pages -> BOOLEAN]
  BY <1>1, <1>3 DEF PoolInv, Typed
<1>5. CountsAgree'
  BY <1>1, <1>3 DEF PoolInv, Typed, CountsAgree
<1>6. ASSUME NEW q \in wrote'
      PROVE  q \in Pages /\ pins'[q] > 0
  <2>1. q \in wrote /\ q \in Pages /\ pins[q] > 0
    BY <1>3, <1>6 DEF PoolInv, WritersPin
  <2>2. CASE q = p
    <3>1. ~dirty
      BY <1>3, <1>6, <2>2
    <3>2. QED
      BY <1>1, <1>3, <2>1, <2>2, <3>1 DEF PoolInv, Typed
  <2>3. CASE q # p
    BY <1>3, <2>1, <2>3 DEF PoolInv, Typed
  <2>4. QED
    BY <2>2, <2>3
<1>7. QED
  BY <1>3, <1>4, <1>5, <1>6 DEF PoolInv, Typed, IdsHandedOut, WritersPin

\* Every operation of the pool preserves the invariant.
LEMMA PoolInvStep ==
    ASSUME PoolInv, [Next]_vars
    PROVE  PoolInv'
<1> USE DEF PoolInv, Typed, IdsHandedOut, CountsAgree, WritersPin
<1>1. CASE NewPage
  BY <1>1, NewPageInv
<1>2. CASE NewPageFails
  <2>1. \A q \in known : q < next_page_id_ + 1
    BY DEF Pages
  <2>2. QED
    BY <1>2, <2>1 DEF NewPageFails, users
<1>3. CASE FlushAllPages
  BY <1>3 DEF FlushAllPages, users
<1>4. ASSUME NEW p \in Pages, FetchHit(p)
      PROVE  PoolInv'
  BY <1>4 DEF FetchHit
<1>5. ASSUME NEW p \in Pages, FetchMiss(p)
      PROVE  PoolInv'
  BY <1>5, FetchMissInv
<1>6. ASSUME NEW p \in Pages, Write(p)
      PROVE  PoolInv'
  BY <1>6 DEF Write, pool
<1>7. ASSUME NEW p \in Pages, NEW dirty \in BOOLEAN, UnpinPage(p, dirty)
      PROVE  PoolInv'
  BY <1>7, UnpinInv
<1>8. ASSUME NEW p \in Pages, FlushPage(p)
      PROVE  PoolInv'
  BY <1>8 DEF FlushPage, users
<1>9. ASSUME NEW p \in Pages, DeletePage(p)
      PROVE  PoolInv'
  BY <1>9 DEF DeletePage, Pinned
<1>10. CASE UNCHANGED vars
  BY <1>10 DEF vars, pool, users
<1>11. QED
  BY <1>1, <1>2, <1>3, <1>4, <1>5, <1>6, <1>7, <1>8, <1>9, <1>10 DEF Next

\* A pool built on an empty file starts that way.
LEMMA PoolInvInit ==
    ASSUME FilePages = {}, Init
    PROVE  PoolInv
BY DEF Init, PoolInv, Typed, IdsHandedOut, CountsAgree, WritersPin

\* PoolInv holds throughout, on a file that was empty.
LEMMA PoolInvAlways ==
    ASSUME FilePages = {}
    PROVE  Spec => []PoolInv
<1>1. Init => PoolInv
  BY PoolInvInit
<1>2. PoolInv /\ [Next]_vars => PoolInv'
  BY PoolInvStep
<1>3. QED
  BY <1>1, <1>2, PTL DEF Spec

\* Every page a user has pinned is in the pool, and the count of a page in
\* the pool is the number of its pins: fetches, evictions and unpins in any
\* order never leave a user with a pointer into another page's frame.
THEOREM PinsAreCounted ==
    ASSUME FilePages = {}
    PROVE  Spec => []PinsCounted
<1>1. PoolInv => PinsCounted
  <2>1. ASSUME PoolInv, NEW q \in page_table
        PROVE  q \in Pages
    BY <2>1 DEF PoolInv, Typed, IdsHandedOut
  <2>2. QED
    BY <2>1 DEF PoolInv, Typed, CountsAgree, PinsCounted
<1>2. QED
  BY <1>1, PoolInvAlways, PTL

-----------------------------------------------------------------------------
\* UpdatesKept for one page.
Kept(q) ==
    IF q \in page_table
    THEN in_frame[q] /\ (in_file[q] \/ is_dirty[q] \/ q \in wrote)
    ELSE in_file[q]

\* A page that is not the one being installed stays kept, evicted or not.
LEMMA EvictKeeps ==
    ASSUME PoolInv, NEW p \in Pages, NEW q \in Pages, q # p,
           NEW evicted \in Room(Shard(p)), NEW written \in BOOLEAN,
           Install(p, evicted), wrote' = wrote, Kept(q),
           in_frame'[q] = in_frame[q],
           in_file'[q] = WriteBack(evicted, written)[q],
           ~(q \in evicted /\ is_dirty[q] /\ ~written)
    PROVE  Kept(q)'
<1>1. \A r \in evicted : r \in page_table /\ ~Pinned(r)
  BY RoomUnpinned
<1>2. /\ page_table' = (page_table \ evicted) \cup {p}
      /\ is_dirty' = [r \in Pages |-> r \notin evicted \cup {p} /\ is_dirty[r]]
  BY DEF Install
<1>3. CASE q \in evicted
  <2>1. q \in page_table /\ q \notin page_table'
    BY <1>1, <1>2, <1>3
  <2>2. q \notin wrote
    <3>1. q \in wrote => pins[q] > 0 /\ ref_count[q] = pins[q]
      BY DEF PoolInv, WritersPin, CountsAgree
    <3>2. QED
      BY <1>1, <1>3, <3>1 DEF Pinned
  <2>3. in_frame[q] /\ (in_file[q] \/ is_dirty[q])
    BY <2>1, <2>2 DEF Kept
  <2>4. WriteBack(evicted, written)[q]
            = IF is_dirty[q] /\ written THEN in_frame[q] ELSE in_file[q]
    BY <1>3 DEF WriteBack
  <2>5. in_file'[q]
    BY <1>3, <2>3, <2>4
  <2>6. QED
    BY <2>1, <2>5 DEF Kept
<1>4. CASE q \notin evicted
  <2>1. q \in page_table' <=> q \in page_table
    BY <1>2, <1>4
  <2>2. in_file'[q] = in_file[q]
    BY <1>4 DEF WriteBack
  <2>3. is_dirty'[q] <=> is_dirty[q]
    BY <1>2, <1>4
  <2>4. QED
    BY <2>1, <2>2, <2>3 DEF Kept
<1>5. QED
  BY <1>3, <1>4

\* A page that is read has its newest bytes in the file, and one that is
\* evicted is written first if it is dirty.
LEMMA FetchMissKeeps ==
    ASSUME PoolInv, UpdatesKept, NEW p \in Pages, FetchMiss(p)
    PROVE  UpdatesKept'
<1>1. /\ p \in known /\ p \notin page_table
      /\ known' = known /\ wrote' = wrote
  BY DEF FetchMiss
<1>2. PICK evicted \in Room(Shard(p)), written, read \in BOOLEAN :
          /\ Install(p, evicted)
          /\ in_file' = WriteBack(evicted, written)
          /\ in_frame' = [in_frame EXCEPT ![p] = read /\ in_file[p]]
          /\ forgotten' = forgotten
                 \cup {r \in evicted : is_dirty[r] /\ ~written}
                 \cup (IF read THEN {} ELSE {p})
  BY DEF FetchMiss
<1>3. ASSUME NEW q \in known' \ forgotten'
      PROVE  Kept(q)'
  <2>1. q \in known \ forgotten /\ q \in Pages
    BY <1>1, <1>2 DEF PoolInv, Typed
  <2>2. Kept(q)
    BY <2>1 DEF UpdatesKept, Kept
  <2>3. CASE q = p
    <3>1. read
      BY <1>2, <2>3
    <3>2. in_file[p]
      BY <1>1, <2>2, <2>3 DEF Kept
    <3>3. p \notin evicted
      BY <1>1, <1>2, RoomUnpinned
    <3>4. in_file'[p]
      BY <1>2, <3>2, <3>3 DEF WriteBack
    <3>5. in_frame'[p]
      BY <1>2, <3>1, <3>2 DEF PoolInv, Typed
    <3>6. p \in page_table'
      BY <1>2 DEF Install
    <3>7. QED
      BY <2>3, <3>4, <3>5, <3>6 DEF Kept
  <2>4. CASE q # p
    <3>1. in_frame'[q] = in_frame[q]
      BY <1>2, <2>1, <2>4 DEF PoolInv, Typed
    <3>2. ~(q \in evicted /\ is_dirty[q] /\ ~written)
      BY <1>2, <1>3
    <3>3. QED
      BY <1>1, <1>2, <2>1, <2>2, <2>4, <3>1, <3>2, EvictKeeps
  <2>5. QED
    BY <2>3, <2>4
<1>4. QED
  BY <1>3 DEF UpdatesKept, Kept

\* The id is new, so nothing of the file is shadowed by its zeros.
LEMMA NewPageKeeps ==
    ASSUME FilePages = {}, PoolInv, UpdatesKept, NewPage
    PROVE  UpdatesKept'
<1> DEFINE p == next_page_id_
<1>1. /\ p \in Pages /\ p \notin page_table
      /\ known' = known \cup {p} /\ wrote' = wrote
  BY MaxPageAssumption DEF NewPage, Pages, PoolInv, Typed, IdsHandedOut
<1>2. PICK evicted \in Room(Shard(p)), written \in BOOLEAN :
          /\ Install(p, evicted)
          /\ in_file' = [WriteBack(evicted, written)
                             EXCEPT ![p] = p \notin FilePages]
          /\ in_frame' = [in_frame EXCEPT ![p] = TRUE]
          /\ forgotten' = forgotten
                 \cup {r \in evicted : is_dirty[r] /\ ~written}
  BY DEF NewPage
<1>3. WriteBack(evicted, written) \in [Pages -> BOOLEAN]
  BY DEF WriteBack, PoolInv, Typed
<1>4. ASSUME NEW q \in known' \ forgotten'
      PROVE  Kept(q)'
  <2>1. CASE q = p
    <3>1. in_file'[p] /\ in_frame'[p]
      BY <1>1, <1>2, <1>3 DEF PoolInv, Typed
    <3>2. p \in page_table'
      BY <1>2 DEF Install
    <3>3. QED
      BY <2>1, <3>1, <3>2 DEF Kept
  <2>2. CASE q # p
    <3>1. q \in known \ forgotten /\ q \in Pages
      BY <1>1, <1>2, <2>2 DEF PoolInv, Typed
    <3>2. Kept(q)
      BY <3>1 DEF UpdatesKept, Kept
    <3>3. in_frame'[q] = in_frame[q]
      BY <1>2, <2>2, <3>1 DEF PoolInv, Typed
    <3>4. in_file'[q] = WriteBack(evicted, written)[q]
      BY <1>2, <1>3, <2>2, <3>1
    <3>5. ~(q \in evicted /\ is_dirty[q] /\ ~written)
      BY <1>2, <1>4
    <3>6. QED
      BY <1>1, <1>2, <2>2, <3>1, <3>2, <3>3, <3>4, <3>5, EvictKeeps
  <2>3. QED
    BY <2>1, <2>2
<1>5. QED
  BY <1>4 DEF UpdatesKept, Kept

\* The last unpin after a change marks the page dirty.
LEMMA UnpinKeeps ==
    ASSUME PoolInv, UpdatesKept, NEW p \in Pages, NEW dirty \in BOOLEAN,
           UnpinPage(p, dirty)
    PROVE  UpdatesKept'
<1>1. p \in page_table
  BY DEF UnpinPage, PoolInv, CountsAgree
<1>2. /\ is_dirty' = [is_dirty EXCEPT ![p] = @ \/ dirty]
      /\ wrote' = IF dirty THEN wrote \ {p} ELSE wrote
      /\ UNCHANGED <<page_table, in_frame, in_file, known, forgotten>>
  BY <1>1 DEF UnpinPage
<1>3. ASSUME NEW q \in known' \ forgotten'
      PROVE  Kept(q)'
  <2>1. Kept(q) /\ q \in Pages
    BY <1>2 DEF UpdatesKept, Kept, PoolInv, Typed
  <2>2. CASE q = p /\ dirty
    <3>1. is_dirty'[q]
      BY <1>2, <2>1, <2>2 DEF PoolInv, Typed
    <3>2. QED
      BY <1>2, <2>1, <2>2, <1>1, <3>1 DEF Kept
  <2>3. CASE ~(q = p /\ dirty)
    <3>1. is_dirty'[q] = is_dirty[q]
      <4>1. CASE q = p
        <5>1. is_dirty'[p] = (is_dirty[p] \/ dirty)
          BY <1>2 DEF PoolInv, Typed
        <5>2. QED
          BY <2>3, <4>1, <5>1 DEF PoolInv, Typed
      <4>2. CASE q # p
        BY <1>2, <2>1, <4>2 DEF PoolInv, Typed
      <4>3. QED
        BY <4>1, <4>2
    <3>2. q \in wrote => q \in wrote'
      BY <1>2, <2>3
    <3>3. QED
      BY <1>2, <2>1, <3>1, <3>2 DEF Kept
  <2>4. QED
    BY <2>2, <2>3
<1>4. QED
  BY <1>3 DEF UpdatesKept, Kept

\* A user changes bytes in the pool only.
LEMMA WriteKeeps ==
    ASSUME PoolInv, UpdatesKept, NEW p \in Pages, Write(p)
    PROVE  UpdatesKept'
<1>1. p \in page_table
  BY DEF Write, PoolInv, CountsAgree
<1>2. /\ wrote' = wrote \cup {p}
      /\ in_frame' = [in_frame EXCEPT ![p] = TRUE]
      /\ in_file' = [in_file EXCEPT ![p] = FALSE]
      /\ forgotten' = forgotten \ {p}
      /\ UNCHANGED <<page_table, is_dirty, known>>
  BY DEF Write, pool
<1>3. ASSUME NEW q \in known' \ forgotten'
      PROVE  Kept(q)'
  <2>1. q \in Pages
    BY <1>2 DEF PoolInv, Typed
  <2>2. CASE q = p
    <3>1. in_frame'[p]
      BY <1>2 DEF PoolInv, Typed
    <3>2. QED
      BY <1>1, <1>2, <2>2, <3>1 DEF Kept
  <2>3. CASE q # p
    <3>1. Kept(q)
      BY <1>2, <2>3 DEF UpdatesKept, Kept
    <3>2. in_frame'[q] = in_frame[q] /\ in_file'[q] = in_file[q]
      BY <1>2, <2>1, <2>3 DEF PoolInv, Typed
    <3>3. QED
      BY <1>2, <3>1, <3>2 DEF Kept
  <2>4. QED
    BY <2>2, <2>3
<1>4. QED
  BY <1>3 DEF UpdatesKept, Kept

\* A page whose mark is cleared has been written.
LEMMA FlushKeeps ==
    ASSUME PoolInv, UpdatesKept, NEW p \in Pages, FlushPage(p)
    PROVE  UpdatesKept'
<1>1. /\ p \in page_table
      /\ UNCHANGED <<page_table, in_frame, known, wrote, forgotten>>
  BY DEF FlushPage, users
<1>2. CASE UNCHANGED <<in_file, is_dirty>>
  BY <1>1, <1>2 DEF UpdatesKept
<1>3. CASE /\ in_file' = [in_file EXCEPT ![p] = in_frame[p]]
           /\ is_dirty' = [is_dirty EXCEPT ![p] = FALSE]
  <2>1. ASSUME NEW q \in known' \ forgotten'
        PROVE  Kept(q)'
    <3>1. q \in Pages /\ Kept(q)
      BY <1>1 DEF PoolInv, Typed, UpdatesKept, Kept
    <3>2. CASE q = p
      <4>1. in_frame[p]
        BY <1>1, <3>1, <3>2 DEF Kept
      <4>2. in_file'[p]
        BY <1>3, <4>1 DEF PoolInv, Typed
      <4>3. QED
        BY <1>1, <3>2, <4>1, <4>2 DEF Kept
    <3>3. CASE q # p
      <4>1. in_file'[q] = in_file[q] /\ is_dirty'[q] = is_dirty[q]
        BY <1>3, <3>1, <3>3 DEF PoolInv, Typed
      <4>2. QED
        BY <1>1, <3>1, <4>1 DEF Kept
    <3>4. QED
      BY <3>2, <3>3
  <2>2. QED
    BY <2>1 DEF UpdatesKept, Kept
<1>4. QED
  BY <1>2, <1>3 DEF FlushPage

\* The page that is deleted is no longer any user's.
LEMMA DeleteKeeps ==
    ASSUME PoolInv, UpdatesKept, NEW p \in Pages, DeletePage(p)
    PROVE  UpdatesKept'
<1>1. /\ page_table' = page_table \ {p} /\ known' = known \ {p}
      /\ is_dirty' = [is_dirty EXCEPT ![p] = FALSE]
      /\ UNCHANGED <<in_frame, in_file, wrote, forgotten>>
  BY DEF DeletePage
<1>2. ASSUME NEW q \in known' \ forgotten'
      PROVE  Kept(q)'
  <2>1. q # p /\ q \in Pages /\ Kept(q)
    BY <1>1 DEF PoolInv, Typed, UpdatesKept, Kept
  <2>2. is_dirty'[q] = is_dirty[q]
    BY <1>1, <2>1 DEF PoolInv, Typed
  <2>3. QED
    BY <1>1, <2>1, <2>2 DEF Kept
<1>3. QED
  BY <1>2 DEF UpdatesKept, Kept

\* FlushAllPages gives up what was dirty.
LEMMA FlushAllKeeps ==
    ASSUME PoolInv, UpdatesKept, FlushAllPages
    PROVE  UpdatesKept'
<1>1. /\ forgotten' = forgotten \cup {p \in page_table : is_dirty[p]}
      /\ UNCHANGED <<page_table, in_frame, in_file, known, wrote>>
  BY DEF FlushAllPages, users
<1>2. ASSUME NEW q \in known' \ forgotten'
      PROVE  Kept(q)'
  <2>1. Kept(q)
    BY <1>1 DEF UpdatesKept, Kept
  <2>2. q \in page_table => ~is_dirty[q]
    BY <1>1, <1>2
  <2>3. QED
    BY <1>1, <2>1, <2>2 DEF Kept
<1>3. QED
  BY <1>2 DEF UpdatesKept, Kept

\* What users wrote stays in the pool or reaches the file, whatever is fetched,
\* evicted, flushed and deleted meanwhile, but for the pages whose bytes the
\* pool has given up: by FlushAllPages, or when a transfer failed.
THEOREM UpdatesAreKept ==
    ASSUME FilePages = {}
    PROVE  Spec => []UpdatesKept
<1>1. Init => UpdatesKept
  BY DEF Init, UpdatesKept
<1>2. PoolInv /\ UpdatesKept /\ [Next]_vars => UpdatesKept'
  <2> SUFFICES ASSUME PoolInv, UpdatesKept, [Next]_vars
               PROVE  UpdatesKept'
    OBVIOUS
  <2>1. CASE NewPage
    BY <2>1, NewPageKeeps
  <2>2. CASE NewPageFails
    BY <2>2 DEF NewPageFails, users, UpdatesKept
  <2>3. CASE FlushAllPages
    BY <2>3, FlushAllKeeps
  <2>4. ASSUME NEW p \in Pages, FetchHit(p)
        PROVE  UpdatesKept'
    BY <2>4 DEF FetchHit, UpdatesKept
  <2>5. ASSUME NEW p \in Pages, FetchMiss(p)
        PROVE  UpdatesKept'
    BY <2>5, FetchMissKeeps
  <2>6. ASSUME NEW p \in Pages, Write(p)
        PROVE  UpdatesKept'
    BY <2>6, WriteKeeps
  <2>7. ASSUME NEW p \in Pages, NEW dirty \in BOOLEAN, UnpinPage(p, dirty)
        PROVE  UpdatesKept'
    BY <2>7, UnpinKeeps
  <2>8. ASSUME NEW p \in Pages, FlushPage(p)
        PROVE  UpdatesKept'
    BY <2>8, FlushKeeps
  <2>9. ASSUME NEW p \in Pages, DeletePage(p)
        PROVE  UpdatesKept'
    BY <2>9, DeleteKeeps
  <2>10. CASE UNCHANGED vars
    BY <2>10 DEF vars, pool, users, UpdatesKept
  <2>11. QED
    BY <2>1, <2>2, <2>3, <2>4, <2>5, <2>6, <2>7, <2>8, <2>9, <2>10 DEF Next
<1>3. QED
  BY <1>1, <1>2, PoolInvAlways, PTL DEF Spec

-----------------------------------------------------------------------------
(* The LRU lists.                                                          *)

\* List l has exactly the pages of S, each of them once.
Lists(l, S) ==
    /\ l \in Seq(Pages)
    /\ \A i \in 1..Len(l) : l[i] \in S
    /\ \A p \in S : \E i \in 1..Len(l) : l[i] = p
    /\ \A i, j \in 1..Len(l) : l[i] = l[j] => i = j

Own(s) == {p \in page_table : Shard(p) = s}

\* The part of the invariant that ListsAgree needs: a list is no longer than
\* its shard has room, and its length is the shard's count.
ShardLists ==
    /\ lru_list \in [Shards -> Seq(Pages)] /\ current_size \in [Shards -> Nat]
    /\ \A s \in Shards : /\ Lists(lru_list[s], Own(s))
                         /\ current_size[s] = Len(lru_list[s])
                         /\ current_size[s] <= ShardSize

\* Every page has a shard.
LEMMA ShardIs ==
    ASSUME NEW p \in Pages
    PROVE  Shard(p) \in Shards
  BY MaxPageAssumption, NumShardsAssumption DEF Pages, Shards, Shard

\* The number of pages on a list is its length.
LEMMA ListCounts ==
    ASSUME NEW l, NEW S, Lists(l, S)
    PROVE  Cardinality(S) = Len(l) /\ {l[i] : i \in DOMAIN l} = S
<1>1. Len(l) \in Nat /\ DOMAIN l = 1..Len(l) /\ l \in [1..Len(l) -> Pages]
  BY LenProperties DEF Lists
<1>2. l \in [1..Len(l) -> S]
  BY <1>1 DEF Lists
<1>3. l \in Bijection(1..Len(l), S)
  <2>1. IsInjective(l)
    BY <1>1 DEF Lists, IsInjective
  <2>2. \A p \in S : \E i \in 1..Len(l) : l[i] = p
    BY DEF Lists
  <2> QED
    BY <1>2, <2>1, <2>2 DEF Bijection, Injection, Surjection
<1>4. ExistsBijection(1..Len(l), S)
  BY <1>3 DEF ExistsBijection
<1>5. Cardinality(S) = Len(l)
  <2>1. PICK n \in Nat : n = Len(l)
    BY <1>1
  <2>2. ExistsBijection(1..n, S)
    BY <1>4, <2>1
  <2>3. Cardinality(S) = n
    BY <2>2, FS_CountingElements
  <2> QED
    BY <2>1, <2>3
<1>6. {l[i] : i \in DOMAIN l} = S
  <2>1. \A i \in 1..Len(l) : l[i] \in S
    BY DEF Lists
  <2>2. \A p \in S : \E i \in 1..Len(l) : l[i] = p
    BY DEF Lists
  <2>3. DOMAIN l = 1..Len(l)
    BY <1>1
  <2>4. \A p \in S : p \in {l[i] : i \in DOMAIN l}
    BY <2>2, <2>3
  <2>5. \A p \in {l[i] : i \in DOMAIN l} : p \in S
    BY <2>1, <2>3
  <2> QED
    BY <2>4, <2>5
<1> QED
  BY <1>5, <1>6

\* A page that is put in front.
LEMMA ListMore ==
    ASSUME NEW l, NEW S, Lists(l, S), NEW p \in Pages, p \notin S
    PROVE  Lists(<<p>> \o l, S \cup {p}) /\ Len(<<p>> \o l) = Len(l) + 1
<1> DEFINE m == <<p>> \o l
           n == Len(l)
<1>1. l \in Seq(Pages) /\ n \in Nat /\ <<p>> \in Seq(Pages) /\ Len(<<p>>) = 1
  BY LenProperties DEF Lists
<1>2. /\ m \in Seq(Pages) /\ Len(m) = n + 1
      /\ \A i \in 1..(1 + n) : m[i] = IF i <= 1 THEN <<p>>[i] ELSE l[i - 1]
  BY <1>1, ConcatProperties
<1> HIDE DEF m, n
<1>3. m[1] = p /\ \A i \in 1..n : m[i + 1] = l[i]
  <2>1. m[1] = p
    BY <1>1, <1>2
  <2>2. ASSUME NEW i \in 1..n PROVE m[i + 1] = l[i]
    <3>1. i + 1 \in 1..(1 + n) /\ ~(i + 1 <= 1) /\ (i + 1) - 1 = i
      BY <1>1
    <3> QED
      BY <1>2, <3>1
  <2> QED
    BY <2>1, <2>2
<1>4. \A i \in 1..Len(m) : i = 1 \/ (i - 1 \in 1..n /\ m[i] = l[i - 1])
  <2>1. ASSUME NEW i \in 1..Len(m), i # 1 PROVE i - 1 \in 1..n /\ m[i] = l[i - 1]
    <3>1. i - 1 \in 1..n /\ (i - 1) + 1 = i
      BY <1>1, <1>2, <2>1
    <3> QED
      BY <1>3, <3>1
  <2> QED
    BY <2>1
<1>5. \A i \in 1..n : l[i] \in S
  BY DEF Lists, n
<1>6. \A i \in 1..Len(m) : m[i] \in S \cup {p}
  BY <1>3, <1>4, <1>5
<1>7. \A q \in S \cup {p} : \E i \in 1..Len(m) : m[i] = q
  <2>1. 1 \in 1..Len(m) /\ \A i \in 1..n : i + 1 \in 1..Len(m)
    BY <1>1, <1>2
  <2>2. \A q \in S : \E i \in 1..n : l[i] = q
    BY DEF Lists, n
  <2> QED
    BY <1>3, <2>1, <2>2
<1>8. ASSUME NEW i \in 1..Len(m), NEW j \in 1..Len(m), m[i] = m[j] PROVE i = j
  <2>1. CASE i = 1 \/ j = 1
    BY <1>3, <1>4, <1>5, <1>8, <2>1
  <2>2. CASE i # 1 /\ j # 1
    <3>1. /\ i - 1 \in 1..n /\ j - 1 \in 1..n
          /\ l[i - 1] = l[j - 1]
      BY <1>4, <1>8, <2>2
    <3>2. i - 1 = j - 1
      BY <3>1 DEF Lists, n
    <3> QED
      BY <1>2, <3>2
  <2> QED
    BY <2>1, <2>2
<1> QED
  BY <1>2, <1>6, <1>7, <1>8 DEF Lists, m, n

\* RemoveFirst takes out the only place of a page.
LEMMA RemoveFirstIs ==
    ASSUME NEW l, NEW i \in 1..Len(l),
           \A j \in 1..Len(l) : l[j] = l[i] => j = i
    PROVE  SeqExt!RemoveFirst(l, l[i]) = SubSeq(l, 1, i - 1) \o SubSeq(l, i + 1, Len(l))
<1> DEFINE I == {j \in 1..Len(l) : l[j] = l[i]}
<1>1. I = {i}
  OBVIOUS
<1>2. SeqExt!Min(I) = i
  <2>1. SeqExt!Min({i}) = i
    BY DEF SeqExt!Min
  <2> QED
    BY <1>1, <2>1
<1>3. SeqExt!RemoveFirst(l, l[i]) = SeqExt!RemoveAt(l, SeqExt!Min(I))
  <2>1. \E j \in 1..Len(l) : l[j] = l[i]
    OBVIOUS
  <2>2. I # {}
    BY <1>1
  <2> QED
    BY <2>1, <2>2, Zenon DEF SeqExt!RemoveFirst, SeqExt!SelectInSeq
<1> QED
  BY <1>2, <1>3 DEF SeqExt!RemoveAt

\* A page that is taken off.
LEMMA ListLess ==
    ASSUME NEW l, NEW S, Lists(l, S), NEW p \in S
    PROVE  Lists(SeqExt!RemoveFirst(l, p), S \ {p}) /\ Len(SeqExt!RemoveFirst(l, p)) = Len(l) - 1
<1> DEFINE m == SeqExt!RemoveFirst(l, p)
           n == Len(l)
<1>1. l \in Seq(Pages) /\ n \in Nat /\ \A k \in 1..n : l[k] \in Pages
  BY LenProperties, ElementOfSeq DEF Lists
<1>2. PICK i \in 1..n : l[i] = p
  BY DEF Lists
<1> DEFINE a == SubSeq(l, 1, i - 1)
           b == SubSeq(l, i + 1, n)
<1>3. m = a \o b
  <2>1. \A j \in 1..Len(l) : l[j] = l[i] => j = i
    BY DEF Lists
  <2> QED
    BY <1>2, <2>1, RemoveFirstIs
<1>4. /\ a \in Seq(Pages) /\ Len(a) = i - 1
      /\ \A k \in 1..(i - 1) : a[k] = l[k]
  <2>1. \A k \in 1..(i - 1) : l[k] \in Pages
    BY <1>1
  <2>2. /\ a \in Seq(Pages)
        /\ Len(a) = IF 1 <= i - 1 THEN (i - 1) - 1 + 1 ELSE 0
        /\ \A k \in 1..((i - 1) - 1 + 1) : a[k] = l[1 + k - 1]
    BY <2>1, SubSeqProperties
  <2> HIDE DEF a
  <2> QED
    BY <2>2
<1>5. /\ b \in Seq(Pages) /\ Len(b) = n - i
      /\ \A k \in 1..(n - i) : b[k] = l[i + k]
  <2>1. \A k \in (i + 1)..n : l[k] \in Pages
    BY <1>1
  <2>2. /\ b \in Seq(Pages)
        /\ Len(b) = IF i + 1 <= n THEN n - (i + 1) + 1 ELSE 0
        /\ \A k \in 1..(n - (i + 1) + 1) : b[k] = l[(i + 1) + k - 1]
    BY <1>1, <2>1, SubSeqProperties
  <2> HIDE DEF b
  <2> QED
    BY <1>1, <2>2
<1> HIDE DEF a, b, m, n
<1>6. /\ m \in Seq(Pages) /\ Len(m) = n - 1
      /\ \A k \in 1..(n - 1) : m[k] = IF k <= i - 1 THEN a[k] ELSE b[k - (i - 1)]
  <2>1. /\ a \o b \in Seq(Pages) /\ Len(a \o b) = Len(a) + Len(b)
        /\ \A k \in 1..(Len(a) + Len(b)) :
               (a \o b)[k] = IF k <= Len(a) THEN a[k] ELSE b[k - Len(a)]
    BY <1>4, <1>5, ConcatProperties
  <2>2. Len(a) + Len(b) = n - 1 /\ Len(a) = i - 1
    BY <1>1, <1>4, <1>5
  <2> QED
    BY <1>3, <2>1, <2>2
\* The place in l of what is at place k of m.
<1> DEFINE At(k) == IF k < i THEN k ELSE k + 1
<1>7. ASSUME NEW k \in 1..(n - 1)
      PROVE  At(k) \in (1..n) \ {i} /\ m[k] = l[At(k)]
  <2>1. CASE k < i
    <3>1. k <= i - 1 /\ k \in 1..(i - 1) /\ k \in (1..n) \ {i}
      BY <1>1, <2>1
    <3> QED
      BY <1>4, <1>6, <2>1, <3>1
  <2>2. CASE ~(k < i)
    <3>1. /\ ~(k <= i - 1) /\ k - (i - 1) \in 1..(n - i)
          /\ i + (k - (i - 1)) = k + 1 /\ k + 1 \in (1..n) \ {i}
      BY <1>1, <2>2
    <3> QED
      BY <1>5, <1>6, <2>2, <3>1
  <2> QED
    BY <2>1, <2>2
<1>8. /\ \A k \in 1..n : l[k] \in S
      /\ \A q \in S : \E k \in 1..n : l[k] = q
      /\ \A j, k \in 1..n : l[j] = l[k] => j = k
  BY DEF Lists, n
<1>9. ASSUME NEW k \in 1..Len(m) PROVE m[k] \in S \ {p}
  <2>1. At(k) \in (1..n) \ {i} /\ m[k] = l[At(k)]
    BY <1>6, <1>7
  <2> HIDE DEF At
  <2>2. l[At(k)] # l[i]
    BY <1>2, <1>8, <2>1
  <2> QED
    BY <1>2, <1>8, <2>1, <2>2
<1>10. ASSUME NEW q \in S \ {p} PROVE \E k \in 1..Len(m) : m[k] = q
  <2>1. PICK j \in 1..n : l[j] = q
    BY <1>8
  <2>2. j # i
    BY <1>2, <2>1
  <2>3. PICK k \in 1..(n - 1) : At(k) = j
    <3>1. CASE j < i
      <4>1. j \in 1..(n - 1) /\ At(j) = j
        BY <1>1, <3>1
      <4> QED
        BY <4>1
    <3>2. CASE ~(j < i)
      <4>1. j - 1 \in 1..(n - 1) /\ At(j - 1) = j
        BY <1>1, <2>2, <3>2
      <4> QED
        BY <4>1
    <3> QED
      BY <3>1, <3>2
  <2>4. m[k] = q
    BY <1>7, <2>1, <2>3
  <2> QED
    BY <1>6, <2>4
<1>11. ASSUME NEW j \in 1..Len(m), NEW k \in 1..Len(m), m[j] = m[k] PROVE j = k
  <2>1. j \in 1..(n - 1) /\ k \in 1..(n - 1)
    BY <1>6
  <2>2. At(j) = At(k)
    <3>1. /\ At(j) \in 1..n /\ m[j] = l[At(j)]
          /\ At(k) \in 1..n /\ m[k] = l[At(k)]
      BY <1>7, <2>1
    <3> HIDE DEF At
    <3> QED
      BY <1>8, <1>11, <3>1
  <2> QED
    BY <1>1, <2>1, <2>2
<1> QED
  BY <1>6, <1>9, <1>10, <1>11 DEF Lists, m, n

\* What makes room is nothing, in a shard with room left, or a page of the
\* shard.
LEMMA RoomEvicts ==
    ASSUME ShardLists, NEW s \in Shards, NEW evicted \in Room(s)
    PROVE  \/ evicted = {} /\ current_size[s] < ShardSize
           \/ \E q \in Own(s) : evicted = {q}
<1>1. CASE current_size[s] < ShardSize
  BY <1>1 DEF Room
<1>2. CASE ~(current_size[s] < ShardSize)
  <2>1. PICK i \in DOMAIN lru_list[s] : evicted = {lru_list[s][i]}
    BY <1>2 DEF Room, Victim
  <2>2. DOMAIN lru_list[s] = 1..Len(lru_list[s])
    BY LenProperties DEF ShardLists, Lists
  <2>3. lru_list[s][i] \in Own(s)
    BY <2>1, <2>2 DEF ShardLists, Lists
  <2> QED
    BY <2>1, <2>3
<1> QED
  BY <1>1, <1>2

\* A step that changes the list and the pages of one shard only.
LEMMA OneShard ==
    ASSUME ShardLists, NEW s \in Shards, NEW l, NEW n,
           lru_list' = [lru_list EXCEPT ![s] = l],
           current_size' = [current_size EXCEPT ![s] = n],
           \A t \in Shards : t # s => Own(t)' = Own(t),
           Lists(l, Own(s)'), n = Len(l), n <= ShardSize
    PROVE  ShardLists'
<1>1. l \in Seq(Pages) /\ n \in Nat
  BY LenProperties DEF Lists
<1>2. /\ lru_list' \in [Shards -> Seq(Pages)]
      /\ current_size' \in [Shards -> Nat]
      /\ lru_list'[s] = l /\ current_size'[s] = n
      /\ \A t \in Shards : t # s => /\ lru_list'[t] = lru_list[t]
                                    /\ current_size'[t] = current_size[t]
  BY <1>1 DEF ShardLists
<1>3. ASSUME NEW t \in Shards
      PROVE  /\ Lists(lru_list'[t], Own(t)')
             /\ current_size'[t] = Len(lru_list'[t])
             /\ current_size'[t] <= ShardSize
  <2>1. CASE t = s
    BY <1>2, <2>1
  <2>2. CASE t # s
    <3>1. /\ lru_list'[t] = lru_list[t] /\ current_size'[t] = current_size[t]
          /\ Own(t)' = Own(t)
      BY <1>2, <2>2
    <3>2. /\ Lists(lru_list[t], Own(t))
          /\ current_size[t] = Len(lru_list[t])
          /\ current_size[t] <= ShardSize
      BY DEF ShardLists
    <3> QED
      BY <3>1, <3>2
  <2> QED
    BY <2>1, <2>2
<1>4. \A t \in Shards : /\ Lists(lru_list[t], Own(t))'
                        /\ (current_size[t] = Len(lru_list[t]))'
                        /\ (current_size[t] <= ShardSize)'
  <2>1. \A t \in Shards : Lists(lru_list[t], Own(t))'
    BY <1>3 DEF Lists
  <2> QED
    BY <1>3, <2>1
<1> QED
  BY <1>2, <1>4 DEF ShardLists

\* A page that takes a place is put at the head of its list, and those that
\* were evicted for it are off the list.
LEMMA InstallLists ==
    ASSUME ShardLists, NEW p \in Pages, p \notin page_table,
           NEW evicted \in Room(Shard(p)), Install(p, evicted)
    PROVE  ShardLists'
<1> DEFINE s == Shard(p)
           l == lru_list[s]
<1>1. s \in Shards
  BY ShardIs
<1>2. /\ page_table' = (page_table \ evicted) \cup {p}
      /\ lru_list' = [lru_list EXCEPT ![s] = ListWith(s, p, evicted)]
      /\ current_size' = [current_size EXCEPT
                              ![s] = current_size[s] - Cardinality(evicted) + 1]
  BY DEF Install
<1>3. /\ Lists(l, Own(s)) /\ current_size[s] = Len(l)
      /\ current_size[s] <= ShardSize /\ current_size[s] \in Nat
  BY <1>1 DEF ShardLists
<1>4. p \notin Own(s)
  BY DEF Own
<1>5. CASE evicted = {} /\ current_size[s] < ShardSize
  <2>1. ListWith(s, p, evicted) = <<p>> \o l
    BY <1>5 DEF ListWith
  <2>2. Own(s)' = Own(s) \cup {p} /\ \A t \in Shards : t # s => Own(t)' = Own(t)
    BY <1>2, <1>5 DEF Own
  <2>3. Lists(<<p>> \o l, Own(s)') /\ Len(<<p>> \o l) = Len(l) + 1
    BY <1>3, <1>4, <2>2, ListMore
  <2>4. current_size[s] - Cardinality(evicted) + 1 = Len(l) + 1
    <3>1. Cardinality(evicted) = 0
      BY <1>5, FS_EmptySet
    <3> QED
      BY <1>3, <3>1
  <2>5. Len(l) + 1 <= ShardSize
    BY <1>3, <1>5, ShardSizeAssumption
  <2> QED
    BY <1>1, <1>2, <2>1, <2>2, <2>3, <2>4, <2>5, OneShard
<1>6. ASSUME NEW q \in Own(s), evicted = {q} PROVE ShardLists'
  <2> DEFINE m == SeqExt!RemoveFirst(l, q)
  <2>1. ListWith(s, p, evicted) = <<p>> \o m
    <3>1. evicted # {} /\ (CHOOSE r \in evicted : TRUE) = q
      BY <1>6
    <3> QED
      BY <3>1 DEF ListWith
  <2>2. /\ Own(s)' = (Own(s) \ {q}) \cup {p}
        /\ \A t \in Shards : t # s => Own(t)' = Own(t)
    <3>1. Shard(q) = s /\ Shard(p) = s
      BY DEF Own
    <3> QED
      BY <1>2, <1>4, <1>6, <3>1 DEF Own
  <2>3. Lists(m, Own(s) \ {q}) /\ Len(m) = Len(l) - 1
    BY <1>3, <1>6, ListLess
  <2> HIDE DEF m
  <2>4. Lists(<<p>> \o m, (Own(s) \ {q}) \cup {p}) /\ Len(<<p>> \o m) = Len(m) + 1
    <3>1. p \notin Own(s) \ {q}
      BY <1>4
    <3> QED
      BY <2>3, <3>1, ListMore
  <2>5. current_size[s] - Cardinality(evicted) + 1 = Len(<<p>> \o m)
    <3>1. Cardinality(evicted) = 1
      BY <1>6, FS_Singleton
    <3> QED
      BY <1>3, <2>3, <2>4, <3>1
  <2>6. current_size[s] - Cardinality(evicted) + 1 <= ShardSize
    BY <1>3, <2>3, <2>4, <2>5
  <2> QED
    BY <1>1, <1>2, <2>1, <2>2, <2>4, <2>5, <2>6, OneShard
<1> QED
  BY <1>1, <1>5, <1>6, RoomEvicts

\* A page that is fetched again moves to the head of its list.
LEMMA HitLists ==
    ASSUME ShardLists, NEW p \in Pages, FetchHit(p)
    PROVE  ShardLists'
<1> DEFINE s == Shard(p)
           l == lru_list[s]
           m == SeqExt!RemoveFirst(l, p)
<1>1. s \in Shards
  BY ShardIs
<1>2. /\ p \in page_table /\ UNCHANGED <<page_table, current_size>>
      /\ lru_list' = [lru_list EXCEPT ![s] = <<p>> \o m]
  BY DEF FetchHit, MoveToHead
<1>3. /\ Lists(l, Own(s)) /\ current_size[s] = Len(l)
      /\ current_size[s] <= ShardSize
      /\ current_size = [current_size EXCEPT ![s] = current_size[s]]
  BY <1>1 DEF ShardLists
<1>4. p \in Own(s)
  BY <1>2 DEF Own
<1>5. Lists(m, Own(s) \ {p}) /\ Len(m) = Len(l) - 1
  BY <1>3, <1>4, ListLess
<1>6. Len(l) \in Nat
  BY <1>3, LenProperties DEF Lists
<1> HIDE DEF m
<1>7. Lists(<<p>> \o m, Own(s)) /\ Len(<<p>> \o m) = Len(l)
  <2>1. p \notin Own(s) \ {p} /\ (Own(s) \ {p}) \cup {p} = Own(s)
    BY <1>4
  <2>2. /\ Lists(<<p>> \o m, (Own(s) \ {p}) \cup {p})
        /\ Len(<<p>> \o m) = Len(m) + 1
    BY <1>5, <2>1, ListMore
  <2>3. Lists(<<p>> \o m, Own(s))
    BY <2>1, <2>2, Zenon
  <2>4. Len(<<p>> \o m) = Len(l)
    BY <1>5, <1>6, <2>2
  <2> QED
    BY <2>3, <2>4
<1>8. \A t \in Shards : Own(t)' = Own(t)
  BY <1>2 DEF Own
<1> QED
  BY <1>1, <1>2, <1>3, <1>7, <1>8, OneShard

\* A page that is deleted leaves table, list and count together.
LEMMA DeleteLists ==
    ASSUME ShardLists, NEW p \in Pages, DeletePage(p)
    PROVE  ShardLists'
<1> DEFINE s == Shard(p)
           l == lru_list[s]
           m == SeqExt!RemoveFirst(l, p)
<1>1. s \in Shards
  BY ShardIs
<1>2. /\ p \in page_table /\ page_table' = page_table \ {p}
      /\ current_size' = [current_size EXCEPT ![s] = current_size[s] - 1]
      /\ lru_list' = [lru_list EXCEPT ![s] = m]
  BY DEF DeletePage
<1>3. /\ Lists(l, Own(s)) /\ current_size[s] = Len(l)
      /\ current_size[s] <= ShardSize /\ current_size[s] \in Nat
  BY <1>1 DEF ShardLists
<1>4. p \in Own(s)
  BY <1>2 DEF Own
<1>5. Lists(m, Own(s) \ {p}) /\ Len(m) = Len(l) - 1
  BY <1>3, <1>4, ListLess
<1>6. /\ Own(s)' = Own(s) \ {p}
      /\ \A t \in Shards : t # s => Own(t)' = Own(t)
  BY <1>2 DEF Own
<1> HIDE DEF m
<1>7. current_size[s] - 1 = Len(m) /\ current_size[s] - 1 <= ShardSize
  BY <1>3, <1>5, ShardSizeAssumption
<1> QED
  BY <1>1, <1>2, <1>5, <1>6, <1>7, OneShard
\* What bounds the model: ids, failures, and which pages are given up.
Bounded ==
    /\ next_page_id_ <= MaxPage + 1
    /\ forgotten \subseteq Pages
    /\ failures \in 0..MaxFailures

ListsInv == PoolInv /\ ShardLists /\ Bounded

\* An empty pool has empty lists.
LEMMA ListsInvInit ==
    ASSUME FilePages = {}, Init
    PROVE  ListsInv
<1>1. PoolInv
  BY PoolInvInit
<1>2. Bounded
  BY MaxPageAssumption, FailuresAssumption DEF Init, Bounded
<1>3. ShardLists
  <2>1. /\ lru_list = [s \in Shards |-> << >>] /\ page_table = {}
        /\ current_size = [s \in Shards |-> 0]
    BY DEF Init
  <2>2. << >> \in Seq(Pages) /\ Len(<< >>) = 0
    BY EmptySeq
  <2>3. \A s \in Shards : Own(s) = {}
    BY <2>1 DEF Own
  <2>4. Lists(<< >>, {})
    BY <2>2 DEF Lists
  <2>5. \A s \in Shards : lru_list[s] = << >> /\ current_size[s] = 0
    BY <2>1
  <2>6. \A s \in Shards : Lists(lru_list[s], Own(s))
    BY <2>3, <2>4, <2>5, Zenon
  <2>7. \A s \in Shards : /\ current_size[s] = Len(lru_list[s])
                           /\ current_size[s] <= ShardSize
    BY <2>2, <2>5, ShardSizeAssumption
  <2>8. lru_list \in [Shards -> Seq(Pages)] /\ current_size \in [Shards -> Nat]
    BY <2>1, <2>2
  <2> QED
    BY <2>6, <2>7, <2>8 DEF ShardLists
<1> QED
  BY <1>1, <1>2, <1>3 DEF ListsInv

\* The bounds of counters and flags are kept by every operation.
LEMMA BoundedStep ==
    ASSUME PoolInv, Bounded, [Next]_vars
    PROVE  Bounded'
<1>1. page_table \subseteq Pages /\ next_page_id_ \in Nat
  BY DEF PoolInv, Typed, IdsHandedOut
<1>2. CASE NewPage
  <2>1. PICK evicted \in Room(Shard(next_page_id_)), written \in BOOLEAN :
            /\ forgotten' = forgotten \cup {q \in evicted : is_dirty[q] /\ ~written}
            /\ Fails(IF written THEN 0 ELSE 1)
    BY <1>2 DEF NewPage
  <2>2. evicted \subseteq Pages
    BY <1>1, RoomUnpinned
  <2>3. failures' \in 0..MaxFailures
    BY <2>1, FailuresAssumption DEF Fails, Bounded
  <2>4. next_page_id_' <= MaxPage + 1
    BY <1>1, <1>2, MaxPageAssumption DEF NewPage
  <2>5. forgotten' \subseteq Pages
    BY <2>1, <2>2 DEF Bounded
  <2> QED
    BY <2>3, <2>4, <2>5 DEF Bounded
<1>3. CASE NewPageFails
  BY <1>1, <1>3, MaxPageAssumption DEF NewPageFails, Bounded
<1>4. CASE FlushAllPages
  BY <1>1, <1>4 DEF FlushAllPages, Bounded
<1>5. ASSUME NEW p \in Pages, FetchHit(p) PROVE Bounded'
  BY <1>5 DEF FetchHit, Bounded
<1>6. ASSUME NEW p \in Pages, FetchMiss(p) PROVE Bounded'
  <2>1. PICK evicted \in Room(Shard(p)), written \in BOOLEAN, read \in BOOLEAN :
            /\ forgotten' = forgotten
                   \cup {q \in evicted : is_dirty[q] /\ ~written}
                   \cup (IF read THEN {} ELSE {p})
            /\ Fails((IF written THEN 0 ELSE 1) + (IF read THEN 0 ELSE 1))
    BY <1>6 DEF FetchMiss
  <2>2. evicted \subseteq Pages
    BY <1>1, RoomUnpinned
  <2>3. failures' \in 0..MaxFailures
    BY <2>1, FailuresAssumption DEF Fails, Bounded
  <2> QED
    BY <1>6, <2>1, <2>2, <2>3 DEF FetchMiss, Bounded
<1>7. ASSUME NEW p \in Pages, Write(p) PROVE Bounded'
  BY <1>7 DEF Write, pool, Bounded
<1>8. ASSUME NEW p \in Pages, NEW dirty \in BOOLEAN, UnpinPage(p, dirty)
      PROVE  Bounded'
  BY <1>8 DEF UnpinPage, Bounded
<1>9. ASSUME NEW p \in Pages, FlushPage(p) PROVE Bounded'
  <2>1. failures' \in 0..MaxFailures
    BY <1>9, FailuresAssumption DEF FlushPage, Fails, Bounded
  <2> QED
    BY <1>9, <2>1 DEF FlushPage, Bounded
<1>10. ASSUME NEW p \in Pages, DeletePage(p) PROVE Bounded'
  BY <1>10 DEF DeletePage, Bounded
<1>11. CASE UNCHANGED vars
  BY <1>11 DEF vars, pool, Bounded
<1> QED
  BY <1>2, <1>3, <1>4, <1>5, <1>6, <1>7, <1>8, <1>9, <1>10, <1>11 DEF Next

\* Lists, table and counts agree after every operation.
LEMMA ShardListsStep ==
    ASSUME PoolInv, ShardLists, [Next]_vars
    PROVE  ShardLists'
<1>1. ASSUME UNCHANGED <<page_table, lru_list, current_size>> PROVE ShardLists'
  BY <1>1 DEF ShardLists, Own, Lists
<1>2. CASE NewPage
  <2> DEFINE p == next_page_id_
  <2>1. p \in Pages /\ p \notin page_table
    BY <1>2, MaxPageAssumption
    DEF NewPage, PoolInv, Typed, IdsHandedOut, Pages
  <2>2. PICK evicted \in Room(Shard(p)) : Install(p, evicted)
    BY <1>2 DEF NewPage
  <2> HIDE DEF p
  <2> QED
    BY <2>1, <2>2, InstallLists
<1>3. CASE NewPageFails
  BY <1>1, <1>3 DEF NewPageFails
<1>4. CASE FlushAllPages
  BY <1>1, <1>4 DEF FlushAllPages
<1>5. ASSUME NEW p \in Pages, FetchHit(p) PROVE ShardLists'
  BY <1>5, HitLists
<1>6. ASSUME NEW p \in Pages, FetchMiss(p) PROVE ShardLists'
  <2>1. p \notin page_table
    BY <1>6 DEF FetchMiss
  <2>2. PICK evicted \in Room(Shard(p)) : Install(p, evicted)
    BY <1>6 DEF FetchMiss
  <2> QED
    BY <2>1, <2>2, InstallLists
<1>7. ASSUME NEW p \in Pages, Write(p) PROVE ShardLists'
  BY <1>1, <1>7 DEF Write, pool
<1>8. ASSUME NEW p \in Pages, NEW dirty \in BOOLEAN, UnpinPage(p, dirty)
      PROVE  ShardLists'
  BY <1>1, <1>8 DEF UnpinPage
<1>9. ASSUME NEW p \in Pages, FlushPage(p) PROVE ShardLists'
  BY <1>1, <1>9 DEF FlushPage
<1>10. ASSUME NEW p \in Pages, DeletePage(p) PROVE ShardLists'
  BY <1>10, DeleteLists
<1>11. CASE UNCHANGED vars
  BY <1>1, <1>11 DEF vars, pool
<1> QED
  BY <1>2, <1>3, <1>4, <1>5, <1>6, <1>7, <1>8, <1>9, <1>10, <1>11 DEF Next

\* ListsInv holds throughout, on a file that was empty.
LEMMA ListsInvAlways ==
    ASSUME FilePages = {}
    PROVE  Spec => []ListsInv
<1>1. Init => ListsInv
  BY ListsInvInit
<1>2. ListsInv /\ [Next]_vars => ListsInv'
  BY PoolInvStep, ShardListsStep, BoundedStep DEF ListsInv
<1>3. QED
  BY <1>1, <1>2, PTL DEF Spec

\* Every variable keeps its type; in particular no shard ever holds more
\* pages than it has room for, although ReplacePage and the operations count
\* them apart from the table.
THEOREM PoolTypes ==
    ASSUME FilePages = {}
    PROVE  Spec => []TypeOK
<1>1. ListsInv => TypeOK
  <2> SUFFICES ASSUME ListsInv PROVE TypeOK
    OBVIOUS
  <2>1. next_page_id_ \in 0..(MaxPage + 1)
    BY MaxPageAssumption DEF ListsInv, PoolInv, Typed, Bounded
  <2>2. page_table \subseteq Pages /\ wrote \subseteq Pages
    BY DEF ListsInv, PoolInv, Typed, IdsHandedOut, WritersPin
  <2>3. DOMAIN lru_list = Shards /\ current_size \in [Shards -> 0..ShardSize]
    <3>1. \A s \in Shards : current_size[s] \in 0..ShardSize
      BY ShardSizeAssumption DEF ListsInv, ShardLists
    <3> QED
      BY <3>1 DEF ListsInv, ShardLists
  <2> QED
    BY <2>1, <2>2, <2>3 DEF TypeOK, ListsInv, PoolInv, Typed, Bounded
<1>2. QED
  BY <1>1, ListsInvAlways, PTL

\* The list of every shard has exactly its pages in the pool, each once, and
\* its counter is their number, after any fetches, evictions and deletions:
\* an eviction never meets an id without an entry, and every page in the pool
\* can be found by one.
THEOREM ListsAlwaysAgree ==
    ASSUME FilePages = {}
    PROVE  Spec => []ListsAgree
<1>1. ListsInv => ListsAgree
  <2> SUFFICES ASSUME ListsInv, NEW s \in Shards
               PROVE  /\ {lru_list[s][i] : i \in DOMAIN lru_list[s]} = Own(s)
                      /\ Len(lru_list[s]) = Cardinality(Own(s))
                      /\ current_size[s] = Cardinality(Own(s))
    BY DEF ListsAgree, Own
  <2>1. Lists(lru_list[s], Own(s)) /\ current_size[s] = Len(lru_list[s])
    BY DEF ListsInv, ShardLists
  <2> QED
    BY <2>1, ListCounts
<1>2. QED
  BY <1>1, ListsInvAlways, PTL

================================================================================
