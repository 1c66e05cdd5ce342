------------------------------- MODULE BPlusTree -------------------------------
(***************************************************************************)
(* src/storage_engine/b_plus_tree.cpp: the pages of B+ tree indexes, and   *)
(* src/sql_executor/index_manager.cpp, which keeps the indexes by name.    *)
(*                                                                         *)
(* All indexes live in the pages of one storage engine.  A page keeps the  *)
(* pin that NewPage gives it for ever, so none is evicted or deleted.  The *)
(* pool is taken to have room, and the entries to fit into a page.  Parent *)
(* ids are stored and never read, so they are left out; so is Merge, which *)
(* nothing calls.                                                          *)
(*                                                                         *)
(* No internal node ever has a key (TypeOK): its first child is added      *)
(* without one, and InsertChild adds no key to a node that has none.  So   *)
(* the root or its one stored child is a leaf, and a descent needs no      *)
(* recursion; internal nodes never fill up and their Split is left out.    *)
(***************************************************************************)
EXTENDS Integers, FiniteSets, Sequences
SeqExt == INSTANCE SequencesExt

CONSTANTS Names, Tables, Values, none,
          MaxKey,      \* bound: keys are 1..MaxKey
          MaxKeys,     \* BPLUS_TREE_MAX_KEYS
          MaxPages,    \* bound: pages of the storage engine
          MaxInserts   \* bound: insertions

ASSUME NoneAssumption == none \notin Tables \cup Values
ASSUME MaxKeysAssumption == MaxKeys \in Nat /\ MaxKeys >= 2
ASSUME BoundsAssumption ==
    MaxKey \in Nat /\ MaxPages \in Nat /\ MaxInserts \in Nat

VARIABLES indexes_,   \* by name: the index's table and root page
          pages       \* what the pages hold; page p is pages[p + 1]

VARIABLES latest,     \* history: by index and key, the value last inserted and
                      \* not deleted since
          owner       \* history: for each page, the first page of its index

VARIABLE inserts      \* counter that MaxInserts bounds

vars == <<indexes_, pages, latest, owner, inserts>>

Keys == 1..MaxKey
NoIndex == [table |-> none, root |-> -1]
Entry == [key : Keys, value : Values]

\* A page that NewPage has made is all zeros, and reads as these nodes.
EmptyLeaf == [leaf |-> TRUE, entries |-> <<>>, next |-> 0]
EmptyInternal == [leaf |-> FALSE, keys |-> <<>>, children |-> <<0>>]

Node(p) == pages[p + 1]
NewPage == Len(pages)     \* the id the next page will have

Init ==
    /\ indexes_ = [n \in Names |-> NoIndex]
    /\ pages = <<>>
    /\ latest = [n \in Names |-> [k \in Keys |-> none]]
    /\ owner = <<>> /\ inserts = 0

-----------------------------------------------------------------------------
(* Nodes.                                                                  *)

\* std::lower_bound: the place of the first element that is not below the key.
LowerBound(keys, key) ==
    1 + Cardinality({i \in DOMAIN keys : keys[i] < key})

KeysOf(entries) == [i \in DOMAIN entries |-> entries[i].key]
Place(node, key) == LowerBound(KeysOf(node.entries), key)
IsAt(node, pos, key) == pos <= Len(node.entries) /\ node.entries[pos].key = key

\* SerializeToPage and back: a child for each key, and the last one.
Stored(node) ==
    [node EXCEPT !.children =
         SubSeq(@, 1, Len(node.keys)) \o <<SeqExt!Last(@)>>]

\* BPlusTreeInternalNode::InsertChild.
InsertChild(node, child, key) ==
    LET pos == LowerBound(node.keys, key)
    IN  CASE node.keys = <<>> ->
                 [node EXCEPT !.children = Append(@, child)]
          [] node.keys # <<>> /\ pos > Len(node.keys) ->
                 [node EXCEPT !.keys = Append(@, key),
                              !.children = Append(@, child)]
          [] OTHER ->
                 [node EXCEPT !.keys = SeqExt!InsertAt(@, pos, key),
                              !.children = SeqExt!InsertAt(@, pos + 1, child)]

FindChildPageId(node, key) == node.children[LowerBound(node.keys, key)]

\* Fault: an entry with the same key is left in front of the new one.
InsertDuplicate(node, entry) ==
    [node EXCEPT !.entries = SeqExt!InsertAt(@, Place(node, entry.key), entry)]

\* BPlusTreeLeafNode::Insert.
InsertEntry(node, entry) ==
    LET pos == Place(node, entry.key)
    IN  [node EXCEPT !.entries = IF IsAt(node, pos, entry.key)
                                 THEN SeqExt!ReplaceAt(@, pos, entry)
                                 ELSE SeqExt!InsertAt(@, pos, entry)]

\* Fault: whatever is at the place of the key goes.
RemoveAtBound(node, key) ==
    LET pos == Place(node, key)
    IN  IF pos <= Len(node.entries)
        THEN [node EXCEPT !.entries = SeqExt!RemoveAt(@, pos)] ELSE node

\* BPlusTreeLeafNode::Remove.
RemoveEntry(node, key) ==
    LET pos == Place(node, key)
    IN  IF IsAt(node, pos, key)
        THEN [node EXCEPT !.entries = SeqExt!RemoveAt(@, pos)] ELSE node

IsFull(node) == Len(node.entries) >= MaxKeys

\* Fault: the middle entry goes to neither half.
SplitAround(node) ==
    LET mid == Len(node.entries) \div 2
    IN  <<[node EXCEPT !.entries = SubSeq(@, 1, mid), !.next = NewPage],
          [node EXCEPT !.entries = SubSeq(@, mid + 2, Len(@))]>>

\* BPlusTreeLeafNode::Split: the left half, and the right one in a new page.
Split(node) ==
    LET mid == Len(node.entries) \div 2
    IN  <<[node EXCEPT !.entries = SubSeq(@, 1, mid), !.next = NewPage],
          [node EXCEPT !.entries = SubSeq(@, mid + 1, Len(@))]>>

-----------------------------------------------------------------------------
(* Searching.                                                              *)

\* The leaf to which a descent from page p leads for a key.
LeafFor(p, key) ==
    IF Node(p).leaf THEN p ELSE FindChildPageId(Node(p), key)

\* BPlusTreeIndex::Search: at most one entry.
Search(n, key) ==
    LET leaf == Node(LeafFor(indexes_[n].root, key))
    IN  {leaf.entries[i] : i \in {j \in DOMAIN leaf.entries :
                                      leaf.entries[j].key = key}}

\* Where the loop of a range over a leaf ends: before the first key above high.
LastUpTo(node, high) ==
    Cardinality({i \in DOMAIN node.entries : node.entries[i].key <= high})

\* Fault: the range begins after its lower bound.
LeafRangeAbove(node, low, high) ==
    SubSeq(node.entries, LastUpTo(node, low) + 1, LastUpTo(node, high))

\* BPlusTreeLeafNode::SearchRange.
LeafRange(node, low, high) ==
    SubSeq(node.entries, Place(node, low), LastUpTo(node, high))

\* The loop of BPlusTreeIndex::SearchRange over the next leaves, up to its i-th
\* turn.  It ends when a leaf has nothing in the range, reaches the range's
\* end, or has been visited.
Walk(first, low, high) ==
    LET mine(p) == LeafRange(Node(p), low, high)
        ends(s) == s # <<>> /\ SeqExt!Last(s).key >= high
        stop(w) == \/ w.done \/ w.next = -1 \/ w.next \in w.visited
                   \/ ~Node(w.next).leaf \/ mine(w.next) = <<>>
        walk[i \in 0..Len(pages)] ==
            IF i = 0
            THEN [results |-> mine(first), next |-> Node(first).next,
                  visited |-> {first}, done |-> ends(mine(first))]
            ELSE LET w == walk[i - 1]
                 IN  IF stop(w) THEN [w EXCEPT !.done = TRUE]
                     ELSE [results |-> w.results \o mine(w.next),
                           next |-> Node(w.next).next,
                           visited |-> w.visited \cup {w.next},
                           done |-> ends(mine(w.next))]
    IN  walk

\* BPlusTreeIndex::SearchRange.
SearchRange(n, low, high) ==
    Walk(LeafFor(indexes_[n].root, low), low, high)[Len(pages)].results

-----------------------------------------------------------------------------
(* Operations.                                                             *)

\* IndexManager::CreateIndex with BPlusTreeIndex::Create.  An index of that
\* name on another table is replaced.
CreateIndex(n, t) ==
    /\ indexes_[n].table # t                    \* IndexExists
    /\ Len(pages) < MaxPages
    /\ indexes_' = [indexes_ EXCEPT ![n] = [table |-> t, root |-> NewPage]]
    /\ pages' = Append(pages, EmptyLeaf)
    /\ latest' = [latest EXCEPT ![n] = [k \in Keys |-> none]]
    /\ owner' = Append(owner, NewPage)
    /\ UNCHANGED inserts

\* IndexManager::DropIndex with BPlusTreeIndex::Drop: DeletePage refuses the
\* root page, which is pinned, and nobody looks at its answer.
DropIndex(n, t) ==
    /\ indexes_[n].table = t
    /\ indexes_' = [indexes_ EXCEPT ![n] = NoIndex]
    /\ latest' = [latest EXCEPT ![n] = [k \in Keys |-> none]]
    /\ UNCHANGED <<pages, owner, inserts>>

\* BPlusTreeIndex::Insert.  A leaf that is full by now is split.  If it was the
\* root, a new root gets both halves as children; an older root gets the new
\* half.  Either way only the last child is stored.
Insert(n, k, v) ==
    LET root == indexes_[n].root
        at == LeafFor(root, k)
        leaf == InsertEntry(Node(at), [key |-> k, value |-> v])
        halves == Split(leaf)
        promoted == halves[2].entries[1].key
        grown == InsertChild(InsertChild(EmptyInternal, at, 0), NewPage, promoted)
        halved == Append(SeqExt!ReplaceAt(pages, at + 1, halves[1]), halves[2])
        mine == owner[root + 1]
    IN  /\ indexes_[n] # NoIndex /\ inserts < MaxInserts
        /\ inserts' = inserts + 1
        /\ latest' = [latest EXCEPT ![n][k] = v]
        /\ IF ~IsFull(leaf)
           THEN /\ pages' = SeqExt!ReplaceAt(pages, at + 1, leaf)
                /\ UNCHANGED <<indexes_, owner>>
           ELSE IF at = root
           THEN /\ Len(pages) + 2 <= MaxPages
                /\ pages' = Append(halved, Stored(grown))
                /\ indexes_' = [indexes_ EXCEPT ![n].root = NewPage + 1]
                /\ owner' = owner \o <<mine, mine>>
           ELSE /\ Len(pages) + 1 <= MaxPages
                /\ pages' = SeqExt!ReplaceAt(halved, root + 1,
                       Stored(InsertChild(Node(root), NewPage, promoted)))
                /\ owner' = Append(owner, mine)
                /\ UNCHANGED indexes_

\* BPlusTreeIndex::Delete: leaves are never merged.
Delete(n, k) ==
    LET at == LeafFor(indexes_[n].root, k)
    IN  /\ indexes_[n] # NoIndex
        /\ pages' = SeqExt!ReplaceAt(pages, at + 1, RemoveEntry(Node(at), k))
        /\ latest' = [latest EXCEPT ![n][k] = none]
        /\ UNCHANGED <<indexes_, owner, inserts>>

Next ==
    \E n \in Names :
        \/ \E t \in Tables : CreateIndex(n, t) \/ DropIndex(n, t)
        \/ \E k \in Keys : Delete(n, k) \/ \E v \in Values : Insert(n, k, v)

Spec == Init /\ [][Next]_vars

-----------------------------------------------------------------------------
(* Properties.                                                             *)

Live == {n \in Names : indexes_[n] # NoIndex}

\* Types, and the shape of the nodes: leaves are sorted, without duplicates and
\* not full; an internal node has no key, and its one child is a leaf.
TypeOK ==
    /\ \A n \in Live : /\ indexes_[n].table \in Tables
                       /\ indexes_[n].root + 1 \in DOMAIN pages
    /\ Len(pages) <= MaxPages /\ inserts \in 0..MaxInserts
    /\ DOMAIN owner = DOMAIN pages
    /\ latest \in [Names -> [Keys -> Values \cup {none}]]
    /\ \A p \in DOMAIN pages :
           IF pages[p].leaf
           THEN /\ pages[p].entries \in Seq(Entry)
                /\ Len(pages[p].entries) < MaxKeys
                /\ \A i, j \in DOMAIN pages[p].entries :
                       i < j => pages[p].entries[i].key < pages[p].entries[j].key
                /\ pages[p].next + 1 \in DOMAIN pages
           ELSE /\ pages[p].keys = <<>> /\ Len(pages[p].children) = 1
                /\ Node(pages[p].children[1]).leaf

\* Splits move entries and searches do not find them all any more, but what
\* was inserted last under a key is still in a page of its index.
NothingErased ==
    \A n \in Live, k \in Keys : latest[n][k] # none =>
        \E p \in DOMAIN pages :
            /\ pages[p].leaf /\ owner[p] = owner[indexes_[n].root + 1]
            /\ [key |-> k, value |-> latest[n][k]]
                   \in SeqExt!ToSet(pages[p].entries)

\* The two ways of searching agree: a range search returns what Search finds
\* for every key of the range, before anything else it collects from pages
\* that the descent does not lead to.
RangeCoversSearch ==
    \A n \in Live, low, high \in Keys :
        LET r == SearchRange(n, low, high)
        IN  \A k \in low..high : \A e \in Search(n, k) :
                \E i \in DOMAIN r : r[i] = e /\ \A j \in 1..i : r[j].key <= k

\* What Search gives, for all indexes and keys.
Found ==
    [n \in Names |-> [k \in Keys |->
        IF n \in Live /\ Search(n, k) # {}
        THEN (CHOOSE e \in Search(n, k) : TRUE).value ELSE none]]

\* Searches give what IndexService promises: the value last inserted or
\* nothing, in the index asked for, and keys are forgotten only by a split.
IX == INSTANCE IndexService WITH
          Capacity <- MaxKeys, found <- Found,
          table <- [n \in Names |-> indexes_[n].table]
ImplementsIndexService == IX!Spec

\* Search, by its comment, returns all entries of the key: a key that was
\* inserted and not deleted is found.
EveryKeyFound ==
    \A n \in Live, k \in Keys : latest[n][k] # none => Search(n, k) # {}
=============================================================================
