---------------------------- MODULE BPlusTreeProofs ----------------------------
(***************************************************************************)
(* Theorems about BPlusTree, for every number of indexes, keys, pages and  *)
(* insertions and every capacity of a leaf.                                *)
(***************************************************************************)
EXTENDS BPlusTree, FiniteSetTheorems, SequenceTheorems, TLAPS

Leaves == [leaf : {TRUE}, entries : Seq(Entry), next : Nat]
Sorted(s) ==
    /\ s \in Seq(Entry)
    /\ \A i, j \in 1..Len(s) : i < j => s[i].key < s[j].key

\* A leaf between two operations, in an engine of that many pages.
GoodLeaf(x, count) ==
    /\ x \in Leaves /\ Sorted(x.entries)
    /\ Len(x.entries) < MaxKeys /\ x.next < count

\* An internal node as it is stored: no key and one child.
InnerTo(c) == [leaf |-> FALSE, keys |-> <<>>, children |-> <<c>>]

USE NoneAssumption, MaxKeysAssumption, BoundsAssumption

-----------------------------------------------------------------------------
(* Places in leaves.                                                       *)

\* How many there are tells which they are, if they are the first ones.
LEMMA FirstOnes ==
    ASSUME NEW n \in Nat, NEW S \in SUBSET (1..n),
           \A i \in S, j \in 1..n : j < i => j \in S
    PROVE  /\ Cardinality(S) \in 0..n
           /\ \A i \in 1..n : i \in S <=> i <= Cardinality(S)
<1>1. IsFiniteSet(1..n) /\ Cardinality(1..n) = n
  BY FS_Interval
<1>2. IsFiniteSet(S) /\ Cardinality(S) <= n
  BY <1>1, FS_Subset
<1>3. Cardinality(S) \in Nat
  BY <1>2, FS_CardinalityType
<1>4. ASSUME NEW i \in S PROVE i <= Cardinality(S)
  <2>1. (1..i) \in SUBSET S
    OBVIOUS
  <2>2. Cardinality(1..i) <= Cardinality(S)
    BY <1>2, <2>1, FS_Subset
  <2>3. Cardinality(1..i) = i
    BY FS_Interval
  <2> QED
    BY <2>2, <2>3
<1>5. ASSUME NEW i \in (1..n) \ S PROVE Cardinality(S) < i
  <2>1. S \in SUBSET (1..(i - 1))
    OBVIOUS
  <2>2. IsFiniteSet(1..(i - 1)) /\ Cardinality(1..(i - 1)) = i - 1
    BY FS_Interval
  <2>3. Cardinality(S) <= Cardinality(1..(i - 1))
    BY <2>1, <2>2, FS_Subset
  <2> QED
    BY <1>3, <2>2, <2>3
<1> QED
  BY <1>2, <1>3, <1>4, <1>5

\* Keys are numbers.
LEMMA SortedIs ==
    ASSUME NEW s, Sorted(s)
    PROVE  /\ s \in Seq(Entry) /\ DOMAIN s = 1..Len(s) /\ Len(s) \in Nat
           /\ \A i \in 1..Len(s) :
                  s[i] \in Entry /\ s[i].key \in Keys /\ s[i].key \in Int
<1>1. s \in Seq(Entry)
  BY DEF Sorted
<1>2. \A i \in 1..Len(s) : s[i] \in Entry
  BY <1>1, ElementOfSeq
<1>3. \A e \in Entry : e.key \in Keys /\ e.key \in Int
  BY DEF Entry, Keys
<1> QED
  BY <1>1, <1>2, <1>3, LenProperties

\* std::lower_bound on a sorted leaf.
LEMMA PlaceIs ==
    ASSUME NEW x \in Leaves, Sorted(x.entries), NEW key \in Int
    PROVE  /\ Place(x, key) \in 1..(Len(x.entries) + 1)
           /\ \A i \in 1..Len(x.entries) :
                  x.entries[i].key < key <=> i < Place(x, key)
<1> DEFINE s == x.entries
           S == {i \in 1..Len(s) : s[i].key < key}
<1>1. /\ s \in Seq(Entry) /\ DOMAIN s = 1..Len(s) /\ Len(s) \in Nat
      /\ \A i \in 1..Len(s) : s[i].key \in Int
  BY SortedIs
<1>2. Place(x, key) = 1 + Cardinality(S)
  <2>1. DOMAIN KeysOf(s) = 1..Len(s)
        /\ \A i \in 1..Len(s) : KeysOf(s)[i] = s[i].key
    BY <1>1 DEF KeysOf
  <2>2. {i \in DOMAIN KeysOf(s) : KeysOf(s)[i] < key} = S
    BY <2>1
  <2> QED
    BY <2>2 DEF Place, LowerBound
<1>3. \A i, j \in 1..Len(s) : i < j => s[i].key < s[j].key
  BY DEF Sorted
<1>4. \A i \in S, j \in 1..Len(s) : j < i => j \in S
  BY <1>1, <1>3
<1>5. /\ Cardinality(S) \in 0..Len(s)
      /\ \A i \in 1..Len(s) : i \in S <=> i <= Cardinality(S)
  <2> HIDE DEF s
  <2>1. Len(s) \in Nat /\ S \in SUBSET (1..Len(s))
    BY <1>1
  <2> HIDE DEF S
  <2> QED
    BY <1>4, <2>1, FirstOnes
<1>6. \A i \in 1..Len(s) : i \in S <=> s[i].key < key
  OBVIOUS
<1> HIDE DEF S
<1> QED
  BY <1>1, <1>2, <1>5, <1>6

\* Where the loop of a range search stops.
LEMMA LastIs ==
    ASSUME NEW x \in Leaves, Sorted(x.entries), NEW high \in Int
    PROVE  /\ LastUpTo(x, high) \in 0..Len(x.entries)
           /\ \A i \in 1..Len(x.entries) :
                  x.entries[i].key <= high <=> i <= LastUpTo(x, high)
<1> DEFINE s == x.entries
           S == {i \in DOMAIN s : s[i].key <= high}
<1>1. /\ s \in Seq(Entry) /\ DOMAIN s = 1..Len(s) /\ Len(s) \in Nat
      /\ \A i \in 1..Len(s) : s[i].key \in Int
  BY SortedIs
<1>2. LastUpTo(x, high) = Cardinality(S)
  BY DEF LastUpTo
<1>3. \A i, j \in 1..Len(s) : i < j => s[i].key < s[j].key
  BY DEF Sorted
<1>4. \A i \in S, j \in 1..Len(s) : j < i => j \in S
  BY <1>1, <1>3
<1>5. /\ Cardinality(S) \in 0..Len(s)
      /\ \A i \in 1..Len(s) : i \in S <=> i <= Cardinality(S)
  <2> HIDE DEF s
  <2>1. Len(s) \in Nat /\ S \in SUBSET (1..Len(s))
    BY <1>1
  <2> HIDE DEF S
  <2> QED
    BY <1>4, <2>1, FirstOnes
<1>6. \A i \in 1..Len(s) : i \in S <=> s[i].key <= high
  BY <1>1
<1> HIDE DEF S
<1> QED
  BY <1>2, <1>5, <1>6
-----------------------------------------------------------------------------
(* What the operations on a leaf leave.                                    *)

\* Putting an element into a sequence.
LEMMA InsertAtIs ==
    ASSUME NEW S, NEW s \in Seq(S), NEW i \in 1..(Len(s) + 1), NEW e \in S
    PROVE  /\ SeqExt!InsertAt(s, i, e) \in Seq(S)
           /\ Len(SeqExt!InsertAt(s, i, e)) = Len(s) + 1
           /\ \A j \in 1..(Len(s) + 1) :
                  SeqExt!InsertAt(s, i, e)[j] =
                      IF j < i THEN s[j] ELSE IF j = i THEN e ELSE s[j - 1]
<1> DEFINE a == SubSeq(s, 1, i - 1)
           b == SubSeq(s, i, Len(s))
           c == a \o <<e>>
<1>0. Len(s) \in Nat /\ i - 1 \in Int /\ \A j \in 1..Len(s) : s[j] \in S
  BY ElementOfSeq, LenProperties
<1>1. a \in Seq(S) /\ Len(a) = i - 1 /\ \A j \in 1..(i - 1) : a[j] = s[j]
  <2>1. \A j \in 1..(i - 1) : s[j] \in S
    BY <1>0
  <2> QED
    BY <1>0, <2>1, SubSeqProperties
<1>2. /\ b \in Seq(S) /\ Len(b) = Len(s) - i + 1
      /\ \A j \in 1..(Len(s) - i + 1) : b[j] = s[i + j - 1]
  <2>1. \A j \in i..Len(s) : s[j] \in S
    BY <1>0
  <2> QED
    BY <1>0, <2>1, SubSeqProperties
<1>3. <<e>> \in Seq(S) /\ Len(<<e>>) = 1 /\ <<e>>[1] = e
  OBVIOUS
<1> HIDE DEF a, b
<1>4. /\ c \in Seq(S) /\ Len(c) = i
      /\ \A j \in 1..i : c[j] = IF j < i THEN s[j] ELSE e
  <2>1. /\ c \in Seq(S) /\ Len(c) = Len(a) + Len(<<e>>)
        /\ \A j \in 1..(Len(a) + Len(<<e>>)) :
               c[j] = IF j <= Len(a) THEN a[j] ELSE <<e>>[j - Len(a)]
    BY <1>1, <1>3, ConcatProperties
  <2> HIDE DEF c
  <2> QED
    BY <1>0, <1>1, <1>3, <2>1
<1> HIDE DEF c
<1>5. /\ c \o b \in Seq(S) /\ Len(c \o b) = Len(c) + Len(b)
      /\ \A j \in 1..(Len(c) + Len(b)) :
             (c \o b)[j] = IF j <= Len(c) THEN c[j] ELSE b[j - Len(c)]
  BY <1>2, <1>4, ConcatProperties
<1>6. SeqExt!InsertAt(s, i, e) = c \o b
  BY DEF SeqExt!InsertAt, a, b, c
<1> DEFINE d == c \o b
<1>7. d \in Seq(S) /\ Len(d) = Len(s) + 1
  BY <1>0, <1>2, <1>4, <1>5
<1>8. ASSUME NEW j \in 1..(Len(s) + 1)
      PROVE  d[j] = IF j < i THEN s[j] ELSE IF j = i THEN e ELSE s[j - 1]
  <2>1. CASE j <= i
    <3>1. j \in 1..i /\ j \in 1..(Len(c) + Len(b)) /\ j <= Len(c)
      BY <1>0, <1>2, <1>4, <2>1
    <3>2. d[j] = c[j] /\ c[j] = IF j < i THEN s[j] ELSE e
      BY <1>4, <1>5, <3>1
    <3>3. j < i \/ j = i
      BY <1>0, <2>1
    <3> HIDE DEF d
    <3> QED
      BY <1>0, <3>2, <3>3
  <2>2. CASE j > i
    <3>1. /\ j \in 1..(Len(c) + Len(b)) /\ ~(j <= Len(c))
          /\ j - Len(c) \in 1..(Len(s) - i + 1) /\ i + (j - Len(c)) - 1 = j - 1
      BY <1>0, <1>2, <1>4, <2>2
    <3>2. d[j] = b[j - Len(c)] /\ b[j - Len(c)] = s[j - 1]
      BY <1>2, <1>5, <3>1
    <3> QED
      BY <2>2, <3>2
  <2>3. j <= i \/ j > i
    BY <1>0
  <2> HIDE DEF d
  <2> QED
    BY <2>1, <2>2, <2>3
<1> HIDE DEF d
<1> QED
  BY <1>6, <1>7, <1>8 DEF d

\* What is left of a sequence behind its place m.
LEMMA RestOf ==
    ASSUME NEW S, NEW s, NEW m \in Nat, NEW n \in Nat, m <= n,
           \A i \in (m + 1)..n : s[i] \in S
    PROVE  /\ SubSeq(s, m + 1, n) \in Seq(S) /\ Len(SubSeq(s, m + 1, n)) = n - m
           /\ \A i \in 1..(n - m) : SubSeq(s, m + 1, n)[i] = s[m + i]
<1> DEFINE b == SubSeq(s, m + 1, n)
<1>1. m + 1 \in Int /\ n \in Int
  OBVIOUS
<1>2. /\ b \in Seq(S) /\ Len(b) = IF m + 1 <= n THEN n - (m + 1) + 1 ELSE 0
      /\ \A i \in 1..(n - (m + 1) + 1) : b[i] = s[(m + 1) + i - 1]
  BY <1>1, SubSeqProperties
<1> HIDE DEF b
<1>3. Len(b) = n - m
  BY <1>2
<1>4. ASSUME NEW i \in 1..(n - m) PROVE b[i] = s[m + i]
  <2>1. i \in 1..(n - (m + 1) + 1) /\ (m + 1) + i - 1 = m + i
    OBVIOUS
  <2> QED
    BY <1>2, <2>1
<1> QED
  BY <1>2, <1>3, <1>4 DEF b

\* Taking an element out of a sequence.
LEMMA RemoveAtIs ==
    ASSUME NEW S, NEW s \in Seq(S), NEW i \in 1..Len(s)
    PROVE  LET t == SeqExt!RemoveAt(s, i)
           IN  /\ t \in Seq(S) /\ Len(t) = Len(s) - 1
               /\ \A j \in 1..Len(t) : t[j] = IF j < i THEN s[j] ELSE s[j + 1]
<1> DEFINE a == SubSeq(s, 1, i - 1)
           b == SubSeq(s, i + 1, Len(s))
<1>0. Len(s) \in Nat /\ i - 1 \in Int /\ \A j \in 1..Len(s) : s[j] \in S
  BY ElementOfSeq, LenProperties
<1>1. a \in Seq(S) /\ Len(a) = i - 1 /\ \A j \in 1..(i - 1) : a[j] = s[j]
  <2>1. \A j \in 1..(i - 1) : s[j] \in S
    BY <1>0
  <2> QED
    BY <1>0, <2>1, SubSeqProperties
<1>2. /\ b \in Seq(S) /\ Len(b) = Len(s) - i
      /\ \A j \in 1..(Len(s) - i) : b[j] = s[i + j]
  <2>1. i \in Nat /\ i <= Len(s) /\ \A j \in (i + 1)..Len(s) : s[j] \in S
    BY <1>0
  <2> QED
    BY <1>0, <2>1, RestOf
<1> HIDE DEF a, b
<1>3. /\ a \o b \in Seq(S) /\ Len(a \o b) = Len(a) + Len(b)
      /\ \A j \in 1..(Len(a) + Len(b)) :
             (a \o b)[j] = IF j <= Len(a) THEN a[j] ELSE b[j - Len(a)]
  <2>1. a \in Seq(S) /\ b \in Seq(S)
    BY <1>1, <1>2
  <2> QED
    BY ONLY <2>1, ConcatProperties
<1>4. SeqExt!RemoveAt(s, i) = a \o b
  BY DEF SeqExt!RemoveAt, a, b
<1>5. \A j \in i..(Len(s) - 1) : j - (i - 1) \in 1..(Len(s) - i)
                               /\ i + (j - (i - 1)) = j + 1
  BY <1>0
<1>6. ASSUME NEW j \in 1..(Len(s) - 1)
      PROVE  (a \o b)[j] = IF j < i THEN s[j] ELSE s[j + 1]
  <2>1. CASE j < i
    <3>1. j <= Len(a) /\ j \in 1..(i - 1) /\ j \in 1..(Len(a) + Len(b))
      BY <1>0, <1>1, <1>2, <2>1
    <3> QED
      BY <1>1, <1>3, <2>1, <3>1
  <2>2. CASE j >= i
    <3>1. ~(j <= Len(a)) /\ j \in 1..(Len(a) + Len(b)) /\ j \in i..(Len(s) - 1)
          /\ j - Len(a) = j - (i - 1)
      BY <1>0, <1>1, <1>2, <2>2
    <3>2. b[j - (i - 1)] = s[i + (j - (i - 1))]
      BY <1>2, <1>5, <3>1
    <3> QED
      BY <1>0, <1>3, <1>5, <2>2, <3>1, <3>2
  <2>3. j < i \/ j >= i
    BY <1>0
  <2> QED
    BY <2>1, <2>2, <2>3
<1>7. Len(a \o b) = Len(s) - 1
  BY <1>0, <1>1, <1>2, <1>3
<1> QED
  BY <1>3, <1>4, <1>6, <1>7

\* The elements of a sequence by their places.
LEMMA Elements ==
    ASSUME NEW S, NEW s \in Seq(S)
    PROVE  \A e : e \in SeqExt!ToSet(s) <=> \E i \in 1..Len(s) : s[i] = e
<1>1. DOMAIN s = 1..Len(s)
  BY LenProperties
<1> QED
  BY <1>1 DEF SeqExt!ToSet

\* An insertion leaves the leaf sorted, with the new entry as its key's.
LEMMA Inserted ==
    ASSUME NEW x \in Leaves, Sorted(x.entries), NEW e \in Entry
    PROVE  LET y == InsertEntry(x, e)
           IN  /\ y \in Leaves /\ y.next = x.next /\ Sorted(y.entries)
               /\ Len(y.entries) \in {Len(x.entries), Len(x.entries) + 1}
               /\ SeqExt!ToSet(y.entries) =
                      {f \in SeqExt!ToSet(x.entries) : f.key # e.key} \cup {e}
<1> DEFINE s == x.entries
           pos == Place(x, e.key)
           y == InsertEntry(x, e)
           t == IF IsAt(x, pos, e.key) THEN SeqExt!ReplaceAt(s, pos, e)
                ELSE SeqExt!InsertAt(s, pos, e)
<1>1. /\ s \in Seq(Entry) /\ Len(s) \in Nat
      /\ \A i \in 1..Len(s) : s[i] \in Entry /\ s[i].key \in Int
  BY SortedIs
<1>2. e.key \in Int
  BY DEF Entry, Keys
<1>3. /\ pos \in 1..(Len(s) + 1)
      /\ \A i \in 1..Len(s) : s[i].key < e.key <=> i < pos
  BY <1>2, PlaceIs
<1>4. \A i, j \in 1..Len(s) : i < j => s[i].key < s[j].key
  BY DEF Sorted
<1>5. y = [x EXCEPT !.entries = t]
  BY DEF InsertEntry
<1>6. IsAt(x, pos, e.key) <=> pos <= Len(s) /\ s[pos].key = e.key
  BY DEF IsAt
<1>7. /\ t \in Seq(Entry) /\ Len(t) \in {Len(s), Len(s) + 1}
      /\ \A i, j \in 1..Len(t) : i < j => t[i].key < t[j].key
      /\ \A f : (\E i \in 1..Len(t) : t[i] = f)
                <=> f = e \/ (f.key # e.key /\ \E i \in 1..Len(s) : s[i] = f)
  <2> HIDE DEF pos
  <2>1. CASE IsAt(x, pos, e.key)
    <3>1. t = [s EXCEPT ![pos] = e] /\ pos \in 1..Len(s) /\ s[pos].key = e.key
      BY <1>3, <1>6, <2>1 DEF SeqExt!ReplaceAt
    <3>2. /\ t \in Seq(Entry) /\ Len(t) = Len(s)
          /\ \A j \in 1..Len(s) : t[j] = IF j = pos THEN e ELSE s[j]
      BY <1>1, <3>1, ExceptSeq
    <3> HIDE DEF t, s
    <3>3. \A j \in 1..Len(s) : t[j].key = s[j].key
      BY <3>1, <3>2
    <3>4. \A i, j \in 1..Len(t) : i < j => t[i].key < t[j].key
      BY <1>4, <3>2, <3>3
    <3>5. \A j \in 1..Len(s) : j # pos => s[j].key # e.key
      BY <1>1, <1>2, <1>3, <1>4, <3>1
    <3>6. ASSUME NEW f
          PROVE  (\E i \in 1..Len(t) : t[i] = f)
                 <=> f = e \/ (f.key # e.key /\ \E i \in 1..Len(s) : s[i] = f)
      BY <3>1, <3>2, <3>5
    <3> QED
      BY <3>2, <3>4, <3>6
  <2>2. CASE ~IsAt(x, pos, e.key)
    <3>1. t = SeqExt!InsertAt(s, pos, e)
      BY <2>2
    <3> HIDE DEF t
    <3>2. /\ t \in Seq(Entry) /\ Len(t) = Len(s) + 1
          /\ \A j \in 1..Len(t) :
               t[j] = IF j < pos THEN s[j] ELSE IF j = pos THEN e ELSE s[j - 1]
      <4> DEFINE w == SeqExt!InsertAt(s, pos, e)
      <4>1. s \in Seq(Entry) /\ pos \in 1..(Len(s) + 1) /\ e \in Entry
        BY <1>1, <1>3
      <4> HIDE DEF s
      <4>2. /\ w \in Seq(Entry) /\ Len(w) = Len(s) + 1
            /\ \A j \in 1..(Len(s) + 1) :
                 w[j] = IF j < pos THEN s[j] ELSE IF j = pos THEN e ELSE s[j - 1]
        BY ONLY <4>1, InsertAtIs
      <4> HIDE DEF w
      <4>3. t = w
        BY <3>1 DEF w
      <4> QED
        BY <4>2, <4>3
    <3>3. \A j \in 1..Len(s) : (j < pos => s[j].key < e.key)
                               /\ (j >= pos => s[j].key > e.key)
      <4>1. pos <= Len(s) => s[pos].key # e.key
        BY <1>6, <2>2
      <4> HIDE DEF s
      <4> QED
        BY <1>1, <1>2, <1>3, <1>4, <4>1
    <3> HIDE DEF t, s
    <3>4. ASSUME NEW i \in 1..Len(t), NEW j \in 1..Len(t), i < j
          PROVE  t[i].key < t[j].key
      <4>1. CASE j < pos
        BY <1>1, <1>3, <1>4, <3>2, <3>4, <4>1
      <4>2. CASE j = pos
        BY <1>1, <1>3, <3>2, <3>3, <3>4, <4>2
      <4>3. CASE j > pos /\ i = pos
        <5>1. t[i] = e /\ t[j] = s[j - 1] /\ j - 1 \in 1..Len(s) /\ j - 1 >= pos
          BY <1>1, <1>3, <3>2, <4>3
        <5> QED
          BY <1>1, <1>2, <3>3, <5>1
      <4>4. CASE j > pos /\ i < pos
        <5>1. /\ t[i] = s[i] /\ t[j] = s[j - 1] /\ j - 1 \in 1..Len(s)
              /\ i \in 1..Len(s) /\ i < j - 1
          BY <1>1, <1>3, <3>2, <4>4
        <5> QED
          BY <1>4, <5>1
      <4>5. CASE j > pos /\ i > pos
        <5>1. /\ t[i] = s[i - 1] /\ t[j] = s[j - 1] /\ j - 1 \in 1..Len(s)
              /\ i - 1 \in 1..Len(s) /\ i - 1 < j - 1
          BY <1>1, <1>3, <3>2, <3>4, <4>5
        <5> QED
          BY <1>4, <5>1
      <4> QED
        BY <1>1, <1>3, <3>2, <4>1, <4>2, <4>3, <4>4, <4>5
    <3>5. ASSUME NEW f
          PROVE  (\E i \in 1..Len(t) : t[i] = f)
                 <=> f = e \/ (f.key # e.key /\ \E i \in 1..Len(s) : s[i] = f)
      <4>1. ASSUME NEW i \in 1..Len(t), t[i] = f
            PROVE  f = e \/ (f.key # e.key /\ \E j \in 1..Len(s) : s[j] = f)
        <5>1. CASE i < pos
          <6>1. i \in 1..Len(s) /\ t[i] = s[i]
            BY <1>1, <1>3, <3>2, <5>1
          <6> QED
            BY <1>1, <1>2, <3>3, <4>1, <5>1, <6>1
        <5>2. CASE i = pos
          BY <3>2, <4>1, <5>2
        <5>3. CASE i > pos
          <6>1. i - 1 \in 1..Len(s) /\ t[i] = s[i - 1] /\ i - 1 >= pos
            BY <1>1, <1>3, <3>2, <5>3
          <6> QED
            BY <1>1, <1>2, <3>3, <4>1, <6>1
        <5> QED
          BY <1>3, <3>2, <5>1, <5>2, <5>3
      <4>2. \E i \in 1..Len(t) : t[i] = e
        <5>1. pos \in 1..Len(t) /\ t[pos] = e
          BY <1>1, <1>3, <3>2
        <5> QED
          BY <5>1
      <4>3. ASSUME NEW j \in 1..Len(s)
            PROVE  \E i \in 1..Len(t) : t[i] = s[j]
        <5>1. CASE j < pos
          <6>1. j \in 1..Len(t) /\ t[j] = s[j]
            BY <1>1, <3>2, <5>1
          <6> QED
            BY <6>1
        <5>2. CASE j >= pos
          <6>1. j + 1 \in 1..Len(t) /\ t[j + 1] = s[j]
            BY <1>1, <1>3, <3>2, <5>2
          <6> QED
            BY <6>1
        <5> QED
          BY <1>3, <5>1, <5>2
      <4> QED
        BY <4>1, <4>2, <4>3
    <3> QED
      BY <3>2, <3>4, <3>5
  <2> QED
    BY <2>1, <2>2
<1> HIDE DEF t
<1>8. y \in Leaves /\ y.next = x.next /\ y.entries = t
  BY <1>5, <1>7 DEF Leaves
<1>9. Sorted(t)
  BY <1>7 DEF Sorted
<1>10. SeqExt!ToSet(t) = {f \in SeqExt!ToSet(s) : f.key # e.key} \cup {e}
  <2>1. \A f : f \in SeqExt!ToSet(t) <=> \E i \in 1..Len(t) : t[i] = f
    BY <1>7, Elements
  <2>2. \A f : f \in SeqExt!ToSet(s) <=> \E i \in 1..Len(s) : s[i] = f
    BY <1>1, Elements
  <2> QED
    BY <1>7, <2>1, <2>2
<1> HIDE DEF y
<1> QED
  BY <1>7, <1>8, <1>9, <1>10 DEF y

\* A removal leaves the leaf sorted, without an entry for the key.
LEMMA Removed ==
    ASSUME NEW x \in Leaves, Sorted(x.entries), NEW k \in Keys
    PROVE  LET y == RemoveEntry(x, k)
           IN  /\ y \in Leaves /\ y.next = x.next /\ Sorted(y.entries)
               /\ Len(y.entries) <= Len(x.entries)
               /\ SeqExt!ToSet(y.entries) =
                      {f \in SeqExt!ToSet(x.entries) : f.key # k}
<1> DEFINE s == x.entries
           pos == Place(x, k)
           y == RemoveEntry(x, k)
           t == SeqExt!RemoveAt(s, pos)
<1>1. /\ s \in Seq(Entry) /\ Len(s) \in Nat
      /\ \A i \in 1..Len(s) : s[i] \in Entry /\ s[i].key \in Int
  BY SortedIs
<1>2. k \in Int
  BY DEF Keys
<1>3. /\ pos \in 1..(Len(s) + 1)
      /\ \A i \in 1..Len(s) : s[i].key < k <=> i < pos
  BY <1>2, PlaceIs
<1>4. \A i, j \in 1..Len(s) : i < j => s[i].key < s[j].key
  BY DEF Sorted
<1>5. IsAt(x, pos, k) <=> pos <= Len(s) /\ s[pos].key = k
  BY DEF IsAt
<1>6. \A f : f \in SeqExt!ToSet(s) <=> \E i \in 1..Len(s) : s[i] = f
  BY <1>1, Elements
<1>7. CASE ~IsAt(x, pos, k)
  <2>1. y = x
    BY <1>7 DEF RemoveEntry
  <2>2. \A i \in 1..Len(s) : s[i].key # k
    <3>1. pos <= Len(s) => s[pos].key # k
      BY <1>5, <1>7
    <3> HIDE DEF s, pos
    <3> QED
      BY <1>1, <1>2, <1>3, <1>4, <3>1
  <2>3. SeqExt!ToSet(s) = {f \in SeqExt!ToSet(s) : f.key # k}
    BY <1>6, <2>2
  <2> QED
    BY <1>1, <2>1, <2>3
<1>8. CASE IsAt(x, pos, k)
  <2>1. pos \in 1..Len(s) /\ s[pos].key = k
    BY <1>3, <1>5, <1>8
  <2>2. /\ t \in Seq(Entry) /\ Len(t) = Len(s) - 1
        /\ \A j \in 1..Len(t) : t[j] = IF j < pos THEN s[j] ELSE s[j + 1]
    <3> HIDE DEF s, pos
    <3> QED
      BY ONLY <1>1, <2>1, RemoveAtIs
  <2>3. \A j \in 1..Len(s) : j # pos => s[j].key # k
    BY <1>1, <1>2, <1>3, <1>4, <2>1
  <2> HIDE DEF t
  <2>4. y = [x EXCEPT !.entries = t]
    BY <1>8 DEF RemoveEntry, t
  <2>5. y \in Leaves /\ y.next = x.next /\ y.entries = t
    BY <2>2, <2>4 DEF Leaves
  <2> HIDE DEF s, y, pos
  <2>6. \A i \in 1..Len(t) : /\ i < pos => i \in 1..Len(s) /\ t[i] = s[i] /\ i # pos
                             /\ i >= pos => /\ i + 1 \in 1..Len(s) /\ i + 1 # pos
                                            /\ t[i] = s[i + 1]
    BY <1>1, <2>1, <2>2
  <2>7. ASSUME NEW i \in 1..Len(t), NEW j \in 1..Len(t), i < j
        PROVE  t[i].key < t[j].key
    <3>1. CASE j < pos
      <4>1. t[i] = s[i] /\ t[j] = s[j] /\ i \in 1..Len(s) /\ j \in 1..Len(s)
        BY <1>1, <2>1, <2>2, <2>6, <2>7, <3>1
      <4> QED
        BY <1>4, <2>7, <4>1
    <3>2. CASE i < pos /\ j >= pos
      <4>1. /\ t[i] = s[i] /\ t[j] = s[j + 1] /\ i \in 1..Len(s)
            /\ j + 1 \in 1..Len(s) /\ i < j + 1
        BY <1>1, <2>1, <2>2, <2>6, <2>7, <3>2
      <4> QED
        BY <1>4, <4>1
    <3>3. CASE i >= pos
      <4>1. /\ t[i] = s[i + 1] /\ t[j] = s[j + 1] /\ i + 1 \in 1..Len(s)
            /\ j + 1 \in 1..Len(s) /\ i + 1 < j + 1
        BY <1>1, <2>1, <2>2, <2>6, <2>7, <3>3
      <4> QED
        BY <1>4, <4>1
    <3>4. j < pos \/ (i < pos /\ j >= pos) \/ i >= pos
      BY <1>1, <2>1, <2>2
    <3> QED
      BY <3>1, <3>2, <3>3, <3>4
  <2>8. ASSUME NEW f
        PROVE  (\E i \in 1..Len(t) : t[i] = f)
               <=> (f.key # k /\ \E i \in 1..Len(s) : s[i] = f)
    <3>1. ASSUME NEW i \in 1..Len(t), t[i] = f
          PROVE  f.key # k /\ \E j \in 1..Len(s) : s[j] = f
      <4>1. i < pos \/ i >= pos
        BY <1>1, <2>1, <2>2
      <4> QED
        BY <2>3, <2>6, <3>1, <4>1
    <3>2. ASSUME NEW j \in 1..Len(s), s[j] = f, f.key # k
          PROVE  \E i \in 1..Len(t) : t[i] = f
      <4>1. j # pos
        BY <2>1, <3>2
      <4>2. CASE j < pos
        <5>1. j \in 1..Len(t) /\ t[j] = s[j]
          BY <1>1, <2>1, <2>2, <4>2
        <5> QED
          BY <3>2, <5>1
      <4>3. CASE j > pos
        <5>1. j - 1 \in 1..Len(t) /\ t[j - 1] = s[j]
          BY <1>1, <2>1, <2>2, <4>3
        <5> QED
          BY <3>2, <5>1
      <4> QED
        BY <1>1, <2>1, <4>1, <4>2, <4>3
    <3> QED
      BY <3>1, <3>2
  <2>9. SeqExt!ToSet(t) = {f \in SeqExt!ToSet(s) : f.key # k}
    <3>1. \A f : f \in SeqExt!ToSet(t) <=> \E i \in 1..Len(t) : t[i] = f
      BY <2>2, Elements
    <3> QED
      BY <1>6, <2>8, <3>1
  <2>10. Sorted(t) /\ Len(t) <= Len(s)
    BY <1>1, <2>2, <2>7 DEF Sorted
  <2>11. y \in Leaves /\ y.next = x.next /\ Sorted(y.entries)
         /\ Len(y.entries) <= Len(s)
         /\ SeqExt!ToSet(y.entries) = {f \in SeqExt!ToSet(s) : f.key # k}
    BY <2>5, <2>9, <2>10
  <2> QED
    BY <2>11 DEF y, s
<1> QED
  BY <1>7, <1>8

\* A split leaves two leaves that are not full, the smaller keys in the first,
\* and no entry goes missing.
LEMMA Halved ==
    ASSUME NEW x \in Leaves, Sorted(x.entries), Len(x.entries) = MaxKeys,
           Len(pages) \in Nat
    PROVE  LET l == Split(x)[1]
               r == Split(x)[2]
           IN  /\ l \in Leaves /\ l.next = Len(pages) /\ Sorted(l.entries)
               /\ r \in Leaves /\ r.next = x.next /\ Sorted(r.entries)
               /\ Len(l.entries) < MaxKeys /\ Len(r.entries) \in 1..(MaxKeys - 1)
               /\ SeqExt!ToSet(x.entries) =
                      SeqExt!ToSet(l.entries) \cup SeqExt!ToSet(r.entries)
               /\ \A e \in SeqExt!ToSet(l.entries), f \in SeqExt!ToSet(r.entries) :
                      e.key # f.key
<1> DEFINE s == x.entries
           mid == Len(s) \div 2
           a == SubSeq(s, 1, mid)
           b == SubSeq(s, mid + 1, Len(s))
           l == Split(x)[1]
           r == Split(x)[2]
<1>1. /\ s \in Seq(Entry) /\ Len(s) = MaxKeys
      /\ \A i \in 1..Len(s) : s[i] \in Entry /\ s[i].key \in Int
  BY SortedIs
<1>2. \A i, j \in 1..Len(s) : i < j => s[i].key < s[j].key
  BY DEF Sorted
<1>3. mid \in 1..(MaxKeys - 1)
  BY <1>1
<1>4. l = [x EXCEPT !.entries = a, !.next = Len(pages)] /\ r = [x EXCEPT !.entries = b]
  BY DEF Split, NewPage
<1> HIDE DEF mid, l, r
<1>5. a \in Seq(Entry) /\ Len(a) = mid /\ \A i \in 1..mid : a[i] = s[i]
  <2>1. \A i \in 1..mid : s[i] \in Entry
    BY <1>1, <1>3
  <2> QED
    BY <1>3, <2>1, SubSeqProperties
<1>6. /\ b \in Seq(Entry) /\ Len(b) = Len(s) - mid
      /\ \A i \in 1..(Len(s) - mid) : b[i] = s[mid + i]
  <2>1. \A i \in (mid + 1)..Len(s) : s[i] \in Entry
    BY <1>1, <1>3
  <2>2. /\ b \in Seq(Entry)
        /\ Len(b) = IF mid + 1 <= Len(s) THEN Len(s) - (mid + 1) + 1 ELSE 0
        /\ \A i \in 1..(Len(s) - (mid + 1) + 1) : b[i] = s[(mid + 1) + i - 1]
    BY <1>1, <1>3, <2>1, SubSeqProperties
  <2> HIDE DEF b
  <2>3. \A i \in 1..(Len(s) - mid) : i \in 1..(Len(s) - (mid + 1) + 1)
                                    /\ (mid + 1) + i - 1 = mid + i
    BY <1>1, <1>3
  <2>4. Len(b) = Len(s) - mid
    BY <1>1, <1>3, <2>2
  <2> QED
    BY <2>2, <2>3, <2>4
<1> HIDE DEF a, b
<1>7. /\ l \in Leaves /\ l.next = Len(pages) /\ l.entries = a
      /\ r \in Leaves /\ r.next = x.next /\ r.entries = b
  BY <1>4, <1>5, <1>6 DEF Leaves
<1> HIDE DEF s
<1>8. Sorted(a) /\ Len(a) < MaxKeys
  BY <1>1, <1>2, <1>3, <1>5 DEF Sorted
<1>9. Sorted(b) /\ Len(b) \in 1..(MaxKeys - 1)
  <2>1. ASSUME NEW i \in 1..Len(b), NEW j \in 1..Len(b), i < j
        PROVE  b[i].key < b[j].key
    <3>1. /\ b[i] = s[mid + i] /\ b[j] = s[mid + j]
          /\ mid + i \in 1..Len(s) /\ mid + j \in 1..Len(s) /\ mid + i < mid + j
      BY <1>1, <1>3, <1>6, <2>1
    <3> QED
      BY <1>2, <3>1
  <2> QED
    BY <1>1, <1>3, <1>6, <2>1 DEF Sorted
<1>10. /\ \A e : e \in SeqExt!ToSet(a) <=> \E i \in 1..Len(a) : a[i] = e
       /\ \A e : e \in SeqExt!ToSet(b) <=> \E i \in 1..Len(b) : b[i] = e
       /\ \A e : e \in SeqExt!ToSet(s) <=> \E i \in 1..Len(s) : s[i] = e
  <2>1. \A e : e \in SeqExt!ToSet(a) <=> \E i \in 1..Len(a) : a[i] = e
    BY <1>5, Elements
  <2>2. \A e : e \in SeqExt!ToSet(b) <=> \E i \in 1..Len(b) : b[i] = e
    BY <1>6, Elements
  <2>3. \A e : e \in SeqExt!ToSet(s) <=> \E i \in 1..Len(s) : s[i] = e
    BY <1>1, Elements
  <2> QED
    BY <2>1, <2>2, <2>3
<1>11. SeqExt!ToSet(s) = SeqExt!ToSet(a) \cup SeqExt!ToSet(b)
  <2>1. ASSUME NEW i \in 1..Len(s)
        PROVE  (\E j \in 1..Len(a) : a[j] = s[i]) \/ (\E j \in 1..Len(b) : b[j] = s[i])
    <3>1. CASE i <= mid
      BY <1>1, <1>3, <1>5, <3>1
    <3>2. CASE i > mid
      <4>1. i - mid \in 1..Len(b) /\ mid + (i - mid) = i
            /\ b[i - mid] = s[mid + (i - mid)]
        BY <1>1, <1>3, <1>6, <3>2
      <4> QED
        BY <4>1
    <3> QED
      BY <1>1, <1>3, <3>1, <3>2
  <2>2. \A j \in 1..Len(a) : j \in 1..Len(s) /\ a[j] = s[j]
    BY <1>1, <1>3, <1>5
  <2>3. \A j \in 1..Len(b) : mid + j \in 1..Len(s) /\ b[j] = s[mid + j]
    BY <1>1, <1>3, <1>6
  <2>4. ASSUME NEW e \in SeqExt!ToSet(s)
        PROVE  e \in SeqExt!ToSet(a) \/ e \in SeqExt!ToSet(b)
    <3>1. PICK i \in 1..Len(s) : s[i] = e
      BY <1>10
    <3> QED
      BY <1>10, <2>1, <3>1
  <2>5. ASSUME NEW e \in SeqExt!ToSet(a) PROVE e \in SeqExt!ToSet(s)
    <3>1. PICK j \in 1..Len(a) : a[j] = e
      BY <1>10
    <3> QED
      BY <1>10, <2>2, <3>1
  <2>6. ASSUME NEW e \in SeqExt!ToSet(b) PROVE e \in SeqExt!ToSet(s)
    <3>1. PICK j \in 1..Len(b) : b[j] = e
      BY <1>10
    <3> QED
      BY <1>10, <2>3, <3>1
  <2> QED
    BY <2>4, <2>5, <2>6
<1>12. \A e \in SeqExt!ToSet(a), f \in SeqExt!ToSet(b) : e.key # f.key
  <2>1. ASSUME NEW i \in 1..Len(a), NEW j \in 1..Len(b)
        PROVE  a[i].key # b[j].key
    <3>1. /\ a[i] = s[i] /\ b[j] = s[mid + j] /\ i \in 1..Len(s)
          /\ mid + j \in 1..Len(s) /\ i < mid + j
      BY <1>1, <1>3, <1>5, <1>6
    <3>2. s[i].key < s[mid + j].key /\ s[i].key \in Int /\ s[mid + j].key \in Int
      BY <1>1, <1>2, <3>1
    <3> QED
      BY <3>1, <3>2
  <2> QED
    BY <1>10, <2>1
<1> QED
  BY <1>7, <1>8, <1>9, <1>11, <1>12 DEF l, r, s
-----------------------------------------------------------------------------
(* The invariant.                                                          *)

\* Every page is a leaf that is sorted and has room, or an internal node whose
\* one child is a leaf of the same index.
PagesGood ==
    /\ Len(pages) \in Nat /\ Len(owner) = Len(pages)
    /\ pages \in [1..Len(pages) -> Leaves \cup {InnerTo(c) : c \in Nat}]
    /\ owner \in [1..Len(pages) -> 0..(Len(pages) - 1)]
    /\ \A p \in 1..Len(pages) :
           \/ GoodLeaf(pages[p], Len(pages))
           \/ \E c \in 0..(Len(pages) - 1) :
                  /\ pages[p] = InnerTo(c) /\ GoodLeaf(pages[c + 1], Len(pages))
                  /\ owner[c + 1] = owner[p]

\* An index has a root, and its pages are its own.
IndexesApart ==
    /\ indexes_ \in [Names -> {NoIndex} \cup
                                  [table : Tables, root : 0..(Len(pages) - 1)]]
    /\ \A n, m \in Live : n # m =>
           owner[indexes_[n].root + 1] # owner[indexes_[m].root + 1]

Counters ==
    /\ Len(pages) <= MaxPages /\ inserts \in 0..MaxInserts
    /\ latest \in [Names -> [Keys -> Values \cup {none}]]

\* Both are sequences (their other properties speak of their places only).
Sequenced == pages \in Seq(Leaves \cup {InnerTo(c) : c \in Nat}) /\ owner \in Seq(Nat)

\* The inductive invariant.  NothingErased needs IndexesApart, for an insertion
\* replaces the entries of its key in its leaf.
TreeInv ==
    /\ Sequenced /\ PagesGood /\ IndexesApart /\ Counters /\ NothingErased

\* The one leaf that descents from an index's root lead to.
LeafOf(n) ==
    LET root == indexes_[n].root
    IN  IF Node(root).leaf THEN root ELSE Node(root).children[1]

Content(n) == SeqExt!ToSet(Node(LeafOf(n)).entries)

\* All keys are looked for in the same leaf.
LEMMA LeafForIs ==
    ASSUME PagesGood, IndexesApart, NEW n \in Live
    PROVE  /\ indexes_[n].root \in 0..(Len(pages) - 1) /\ indexes_[n].table \in Tables
           /\ \A k : LeafFor(indexes_[n].root, k) = LeafOf(n)
           /\ LeafOf(n) \in 0..(Len(pages) - 1)
           /\ GoodLeaf(Node(LeafOf(n)), Len(pages))
           /\ owner[LeafOf(n) + 1] = owner[indexes_[n].root + 1]
           /\ \/ LeafOf(n) = indexes_[n].root
              \/ /\ LeafOf(n) # indexes_[n].root
                 /\ Node(indexes_[n].root) = InnerTo(LeafOf(n))
<1> DEFINE root == indexes_[n].root
<1>1. n \in Names /\ indexes_[n] \in [table : Tables, root : 0..(Len(pages) - 1)]
  BY DEF IndexesApart, Live
<1>2. root \in 0..(Len(pages) - 1) /\ indexes_[n].table \in Tables
  BY <1>1
<1>3. root + 1 \in 1..Len(pages) /\ Len(pages) \in Nat
  BY <1>2 DEF PagesGood
<1>4. CASE GoodLeaf(pages[root + 1], Len(pages))
  <2>1. Node(root).leaf
    BY <1>4 DEF GoodLeaf, Leaves, Node
  <2>2. LeafOf(n) = root /\ \A k : LeafFor(root, k) = root
    BY <2>1 DEF LeafOf, LeafFor
  <2> QED
    BY <1>2, <1>4, <2>2 DEF Node
<1>5. ASSUME NEW c \in 0..(Len(pages) - 1), pages[root + 1] = InnerTo(c),
             GoodLeaf(pages[c + 1], Len(pages)), owner[c + 1] = owner[root + 1]
      PROVE  /\ LeafOf(n) = c /\ \A k : LeafFor(root, k) = c
             /\ c # root
  <2>1. Node(root) = InnerTo(c)
    BY <1>5 DEF Node
  <2>2. ~Node(root).leaf /\ Node(root).keys = <<>> /\ Node(root).children = <<c>>
    BY <2>1 DEF InnerTo
  <2>3. \A k : LowerBound(<<>>, k) = 1
    <3>1. \A k : {i \in DOMAIN <<>> : <<>>[i] < k} = {}
      OBVIOUS
    <3> QED
      BY <3>1, FS_EmptySet DEF LowerBound
  <2>4. \A k : FindChildPageId(Node(root), k) = c
    BY <2>2, <2>3 DEF FindChildPageId
  <2>5. Node(c).leaf
    BY <1>5 DEF Node, GoodLeaf, Leaves
  <2> QED
    BY <2>2, <2>4, <2>5 DEF LeafOf, LeafFor
<1>6. \/ GoodLeaf(pages[root + 1], Len(pages))
      \/ \E c \in 0..(Len(pages) - 1) :
             /\ pages[root + 1] = InnerTo(c) /\ GoodLeaf(pages[c + 1], Len(pages))
             /\ owner[c + 1] = owner[root + 1]
  BY <1>3 DEF PagesGood
<1>7. CASE \E c \in 0..(Len(pages) - 1) :
             /\ pages[root + 1] = InnerTo(c) /\ GoodLeaf(pages[c + 1], Len(pages))
             /\ owner[c + 1] = owner[root + 1]
  <2>1. PICK c \in 0..(Len(pages) - 1) :
             /\ pages[root + 1] = InnerTo(c) /\ GoodLeaf(pages[c + 1], Len(pages))
             /\ owner[c + 1] = owner[root + 1]
    BY <1>7
  <2>2. LeafOf(n) = c /\ c # root /\ \A k : LeafFor(root, k) = c
    BY <1>5, <2>1
  <2> QED
    BY <1>2, <2>1, <2>2 DEF Node
<1> QED
  BY <1>4, <1>6, <1>7

\* Where the leaf and the root of an index are among the pages.
LEMMA LeafPlaces ==
    ASSUME PagesGood, IndexesApart, NEW n \in Live
    PROVE  /\ LeafOf(n) + 1 \in 1..Len(pages)
           /\ indexes_[n].root + 1 \in 1..Len(pages)
           /\ owner[LeafOf(n) + 1] = owner[indexes_[n].root + 1]
<1>1. /\ indexes_[n].root \in 0..(Len(pages) - 1)
      /\ LeafOf(n) \in 0..(Len(pages) - 1)
      /\ owner[LeafOf(n) + 1] = owner[indexes_[n].root + 1]
  BY LeafForIs
<1>2. Len(pages) \in Nat
  BY DEF PagesGood
<1> QED
  BY <1>1, <1>2

\* A sorted leaf has at most one entry for a key.
LEMMA OneEach ==
    ASSUME NEW s, Sorted(s)
    PROVE  \A e, f \in SeqExt!ToSet(s) :
               /\ e \in Entry
               /\ e.key = f.key => e = f
<1>1. /\ s \in Seq(Entry) /\ Len(s) \in Nat
      /\ \A i \in 1..Len(s) : s[i] \in Entry /\ s[i].key \in Int
  BY SortedIs
<1>2. \A i, j \in 1..Len(s) : i < j => s[i].key < s[j].key
  BY DEF Sorted
<1>3. \A e : e \in SeqExt!ToSet(s) <=> \E i \in 1..Len(s) : s[i] = e
  BY <1>1, Elements
<1>4. ASSUME NEW i \in 1..Len(s), NEW j \in 1..Len(s), s[i].key = s[j].key
      PROVE  i = j
  <2>1. ~(i < j) /\ ~(j < i)
    BY <1>1, <1>2, <1>4
  <2> QED
    BY <1>1, <2>1
<1> QED
  BY <1>1, <1>3, <1>4

\* What Search finds, and what an abstract index has then.
LEMMA FoundIs ==
    ASSUME PagesGood, IndexesApart, NEW n \in Live, NEW k \in Keys
    PROVE  /\ Search(n, k) = {e \in Content(n) : e.key = k}
           /\ \A e \in Content(n) : /\ e \in Entry
                                    /\ e.key = k => Found[n][k] = e.value
           /\ (\A e \in Content(n) : e.key # k) => Found[n][k] = none
<1> DEFINE x == Node(LeafOf(n))
           s == x.entries
<1>1. GoodLeaf(x, Len(pages)) /\ LeafFor(indexes_[n].root, k) = LeafOf(n)
  BY LeafForIs
<1>2. Sorted(s) /\ s \in Seq(Entry) /\ DOMAIN s = 1..Len(s)
  BY <1>1, SortedIs DEF GoodLeaf
<1>3. Search(n, k) = {s[i] : i \in {j \in DOMAIN s : s[j].key = k}}
  BY <1>1 DEF Search
<1> HIDE DEF s
<1>4. Content(n) = SeqExt!ToSet(s)
  BY DEF Content, s
<1>5. Search(n, k) = {e \in Content(n) : e.key = k}
  BY <1>3, <1>4 DEF SeqExt!ToSet
<1>6. \A e, f \in Content(n) : e \in Entry /\ (e.key = f.key => e = f)
  BY <1>2, <1>4, OneEach
<1>7. n \in Names
  BY DEF Live
<1>8. Found[n][k] = IF Search(n, k) # {}
                    THEN (CHOOSE e \in Search(n, k) : TRUE).value ELSE none
  BY <1>7 DEF Found
<1>9. ASSUME NEW e \in Content(n), e.key = k PROVE Found[n][k] = e.value
  <2>1. Search(n, k) = {e}
    BY <1>5, <1>6, <1>9
  <2>2. (CHOOSE f \in {e} : TRUE) = e
    OBVIOUS
  <2> QED
    BY <1>8, <2>1, <2>2
<1>10. (\A e \in Content(n) : e.key # k) => Found[n][k] = none
  BY <1>5, <1>8
<1> QED
  BY <1>5, <1>6, <1>9, <1>10
-----------------------------------------------------------------------------
(* What the operations do to the pages.                                    *)

\* Page p + 1 is written again.
Rewritten(p, x) ==
    /\ Len(pages') = Len(pages) /\ pages'[p + 1] = x
    /\ \A q \in 1..Len(pages) : q # p + 1 => pages'[q] = pages[q]

\* An internal node that gets a child keeps that child only.
LEMMA StoredIs ==
    ASSUME NEW s \in Seq(Nat), NEW c \in Nat, NEW key
    PROVE  Stored(InsertChild([leaf |-> FALSE, keys |-> <<>>, children |-> s], c, key))
           = InnerTo(c)
<1> DEFINE x == [leaf |-> FALSE, keys |-> <<>>, children |-> s]
           y == [leaf |-> FALSE, keys |-> <<>>, children |-> Append(s, c)]
<1>1. InsertChild(x, c, key) = y
  <2>1. InsertChild(x, c, key) = [x EXCEPT !.children = Append(@, c)]
    BY DEF InsertChild
  <2> QED
    BY <2>1
<1>2. /\ Append(s, c) \in Seq(Nat) /\ Len(Append(s, c)) = Len(s) + 1
      /\ Append(s, c)[Len(s) + 1] = c
  BY AppendProperties
<1>3. SeqExt!Last(Append(s, c)) = c
  BY <1>2 DEF SeqExt!Last
<1>4. Stored(y) = [y EXCEPT !.children = SubSeq(Append(s, c), 1, 0) \o <<c>>]
  BY <1>3 DEF Stored
<1>5. SubSeq(Append(s, c), 1, 0) \o <<c>> = <<c>>
  <2>1. SubSeq(Append(s, c), 1, 0) = <<>>
    BY SubSeqEmpty
  <2>2. <<c>> \in Seq(Nat)
    OBVIOUS
  <2> QED
    BY <2>1, <2>2, ConcatEmptySeq
<1> QED
  BY <1>1, <1>4, <1>5 DEF InnerTo

\* The leaf of an index when an entry has been put into it.
Grown(n, k, v) == InsertEntry(Node(LeafOf(n)), [key |-> k, value |-> v])

\* An insertion that fits.
Fits(n, k, v) ==
    /\ GoodLeaf(Grown(n, k, v), Len(pages))
    /\ Rewritten(LeafOf(n), Grown(n, k, v))
    /\ pages' \in Seq(Leaves \cup {InnerTo(c) : c \in Nat})
    /\ UNCHANGED <<indexes_, owner>>

\* An insertion that splits the leaf: the index's root, which may be a new one,
\* leads to the right half from then on.
Splits(n, k, v) ==
    LET at == LeafOf(n)
        count == Len(pages)
        root == indexes_'[n].root
    IN  /\ Len(Grown(n, k, v).entries) = MaxKeys
        /\ pages' \in Seq(Leaves \cup {InnerTo(c) : c \in Nat}) /\ owner' \in Seq(Nat)
        /\ Len(pages') \in {count + 1, count + 2} /\ Len(owner') = Len(pages')
        /\ Len(pages') <= MaxPages
        /\ \/ root = indexes_[n].root /\ root # at /\ Len(pages') = count + 1
           \/ root = count + 1 /\ Len(pages') = count + 2
        /\ indexes_' = [indexes_ EXCEPT ![n].root = root]
        /\ pages'[at + 1] = Split(Grown(n, k, v))[1]
        /\ pages'[count + 1] = Split(Grown(n, k, v))[2]
        /\ pages'[root + 1] = InnerTo(count)
        /\ \A p \in 1..count : p \notin {at + 1, root + 1} => pages'[p] = pages[p]
        /\ \A p \in 1..Len(pages') :
               owner'[p] = IF p <= count THEN owner[p] ELSE owner[indexes_[n].root + 1]

\* What the operations on the leaf of an index leave is a leaf.
LEMMA GrownIs ==
    ASSUME PagesGood, IndexesApart, NEW n \in Live, NEW k \in Keys, NEW v \in Values
    PROVE  LET x == Node(LeafOf(n))
               y == Grown(n, k, v)
           IN  /\ y \in Leaves /\ y.next = x.next /\ x.next < Len(pages)
               /\ Sorted(y.entries)
               /\ Len(y.entries) \in Nat /\ Len(y.entries) <= MaxKeys
               /\ SeqExt!ToSet(y.entries) = {f \in Content(n) : f.key # k}
                                            \cup {[key |-> k, value |-> v]}
<1> DEFINE x == Node(LeafOf(n))
           e == [key |-> k, value |-> v]
<1>1. GoodLeaf(x, Len(pages))
  BY LeafForIs
<1>2. x \in Leaves /\ Sorted(x.entries) /\ Len(x.entries) < MaxKeys /\ x.next < Len(pages)
  BY <1>1 DEF GoodLeaf
<1>3. e \in Entry /\ e.key = k
  BY DEF Entry
<1>4. Len(x.entries) \in Nat
  BY <1>2, SortedIs
<1> HIDE DEF x, e
<1>5. LET y == InsertEntry(x, e)
      IN  /\ y \in Leaves /\ y.next = x.next /\ Sorted(y.entries)
          /\ Len(y.entries) \in {Len(x.entries), Len(x.entries) + 1}
          /\ SeqExt!ToSet(y.entries) =
                 {f \in SeqExt!ToSet(x.entries) : f.key # k} \cup {e}
  BY <1>2, <1>3, Inserted
<1>6. Grown(n, k, v) = InsertEntry(x, e) /\ Content(n) = SeqExt!ToSet(x.entries)
  BY DEF Grown, Content, x, e
<1> DEFINE y == Grown(n, k, v)
<1>7. /\ y \in Leaves /\ y.next = x.next /\ Sorted(y.entries)
      /\ Len(y.entries) \in {Len(x.entries), Len(x.entries) + 1}
      /\ SeqExt!ToSet(y.entries) = {f \in Content(n) : f.key # k} \cup {e}
  BY <1>5, <1>6
<1> HIDE DEF y
<1>8. Len(y.entries) \in Nat /\ Len(y.entries) <= MaxKeys
  BY <1>2, <1>4, <1>7
<1> QED
  BY <1>2, <1>7, <1>8 DEF x, e, y

\* BPlusTreeIndex::Insert either fits or splits.
LEMMA InsertIs ==
    ASSUME PagesGood, Sequenced, IndexesApart, Counters,
           NEW n \in Names, NEW k \in Keys, NEW v \in Values, Insert(n, k, v)
    PROVE  /\ n \in Live /\ inserts < MaxInserts /\ inserts' = inserts + 1
           /\ latest' = [latest EXCEPT ![n][k] = v]
           /\ Fits(n, k, v) \/ Splits(n, k, v)
<1> DEFINE root == indexes_[n].root
           at == LeafOf(n)
           leaf == Grown(n, k, v)
           count == Len(pages)
           P == Leaves \cup {InnerTo(c) : c \in Nat}
<1>1. n \in Live
  BY DEF Insert, Live
<1>2. /\ root \in 0..(count - 1) /\ at \in 0..(count - 1) /\ count \in Nat
      /\ LeafFor(root, k) = at
      /\ at = root \/ (at # root /\ Node(root) = InnerTo(at))
  BY <1>1, LeafForIs DEF PagesGood
<1>3. /\ leaf \in Leaves /\ leaf.next < count /\ Sorted(leaf.entries)
      /\ Len(leaf.entries) \in Nat /\ Len(leaf.entries) <= MaxKeys
  BY <1>1, GrownIs
<1> DEFINE halves == Split(leaf)
           promoted == halves[2].entries[1].key
           grown == InsertChild(InsertChild(EmptyInternal, at, 0), count, promoted)
           halved == Append(SeqExt!ReplaceAt(pages, at + 1, halves[1]), halves[2])
           mine == owner[root + 1]
           Fit ==
             /\ pages' = SeqExt!ReplaceAt(pages, at + 1, leaf)
             /\ UNCHANGED <<indexes_, owner>>
           NewRoot ==
             /\ count + 2 <= MaxPages
             /\ pages' = Append(halved, Stored(grown))
             /\ indexes_' = [indexes_ EXCEPT ![n].root = count + 1]
             /\ owner' = owner \o <<mine, mine>>
           OldRoot ==
             /\ count + 1 <= MaxPages
             /\ pages' = SeqExt!ReplaceAt(halved, root + 1,
                             Stored(InsertChild(Node(root), count, promoted)))
             /\ owner' = Append(owner, mine)
             /\ UNCHANGED indexes_
<1>4. /\ inserts < MaxInserts /\ inserts' = inserts + 1
      /\ latest' = [latest EXCEPT ![n][k] = v]
      /\ IF ~IsFull(leaf) THEN Fit ELSE IF at = root THEN NewRoot ELSE OldRoot
  BY <1>2 DEF Insert, Grown, NewPage
<1>5. pages \in Seq(P) /\ owner \in Seq(Nat) /\ Len(owner) = count
  BY DEF Sequenced, PagesGood
<1>6. IsFull(leaf) <=> Len(leaf.entries) = MaxKeys
  BY <1>3 DEF IsFull
<1>7. CASE ~IsFull(leaf)
  <2>1. Fit
    BY <1>4, <1>7
  <2>2. Len(leaf.entries) < MaxKeys
    BY <1>3, <1>6, <1>7
  <2>3. GoodLeaf(leaf, count) /\ leaf \in P /\ at + 1 \in 1..count
    BY <1>2, <1>3, <2>2 DEF GoodLeaf
  <2>4. pages' = [pages EXCEPT ![at + 1] = leaf]
    BY <2>1 DEF SeqExt!ReplaceAt
  <2> HIDE DEF P, leaf, at
  <2>5. /\ pages' \in Seq(P) /\ Len(pages') = count
        /\ \A q \in 1..count : pages'[q] = IF q = at + 1 THEN leaf ELSE pages[q]
    BY <1>5, <2>3, <2>4, ExceptSeq
  <2>6. Rewritten(at, leaf)
    BY <2>3, <2>5 DEF Rewritten
  <2>7. Fits(n, k, v)
    BY <2>1, <2>3, <2>5, <2>6 DEF Fits, P, leaf, at
  <2> QED
    BY <1>1, <1>4, <2>7
<1>8. CASE IsFull(leaf)
  <2>1. Len(leaf.entries) = MaxKeys
    BY <1>6, <1>8
  <2>2. halves[1] \in Leaves /\ halves[2] \in Leaves
    BY <1>2, <1>3, <2>1, Halved
  <2>3. halves[1] \in P /\ halves[2] \in P /\ at + 1 \in 1..count
    BY <1>2, <2>2
  <2> DEFINE l == halves[1]
             r == halves[2]
             first == SeqExt!ReplaceAt(pages, at + 1, l)
  <2>4. /\ first \in Seq(P) /\ Len(first) = count
        /\ \A q \in 1..count : first[q] = IF q = at + 1 THEN l ELSE pages[q]
    <3> HIDE DEF P, l, at
    <3> QED
      BY <1>5, <2>3, ExceptSeq DEF SeqExt!ReplaceAt, l
  <2>5. /\ halved \in Seq(P) /\ Len(halved) = count + 1
        /\ \A q \in 1..count : halved[q] = first[q]
        /\ halved[count + 1] = r
    <3> HIDE DEF P, first, halves
    <3>1. halved = Append(first, r)
      BY DEF first
    <3> HIDE DEF halved, r
    <3>2. first \in Seq(P) /\ r \in P
      BY <2>3, <2>4 DEF r
    <3>3. /\ halved \in Seq(P) /\ Len(halved) = Len(first) + 1
          /\ \A q \in 1..Len(first) : halved[q] = first[q]
          /\ halved[Len(first) + 1] = r
      BY <3>1, <3>2, AppendProperties
    <3> QED
      BY <2>4, <3>3
  <2>6. mine \in Nat
    BY <1>2 DEF PagesGood
  <2>7. InnerTo(count) \in P
    BY <1>2
  <2>8. CASE at = root
    <3>1. NewRoot
      BY <1>4, <1>8, <2>8
    <3>2. Stored(grown) = InnerTo(count)
      <4> DEFINE s == Append(<<0>>, at)
      <4>1. <<0>> \in Seq(Nat) /\ at \in Nat
        BY <1>2
      <4>2. s \in Seq(Nat)
        BY <4>1, AppendProperties
      <4> HIDE DEF at
      <4>3. InsertChild(EmptyInternal, at, 0) = [EmptyInternal EXCEPT !.children = s]
        BY DEF InsertChild, EmptyInternal
      <4>4. InsertChild(EmptyInternal, at, 0)
            = [leaf |-> FALSE, keys |-> <<>>, children |-> s]
        BY <4>3 DEF EmptyInternal
      <4> HIDE DEF s, promoted
      <4> QED
        BY <1>2, <4>2, <4>4, StoredIs
    <3>3. /\ pages' \in Seq(P) /\ Len(pages') = count + 2
          /\ \A q \in 1..(count + 1) : pages'[q] = halved[q]
          /\ pages'[count + 2] = InnerTo(count)
      <4> HIDE DEF P, halved, grown
      <4>1. pages' = Append(halved, InnerTo(count))
        BY <3>1, <3>2
      <4>2. count \in Nat
        BY <1>2
      <4> QED
        <5>1. /\ pages' \in Seq(P) /\ Len(pages') = Len(halved) + 1
              /\ \A q \in 1..Len(halved) : pages'[q] = halved[q]
              /\ pages'[Len(halved) + 1] = InnerTo(count)
          BY <2>5, <2>7, <4>1, AppendProperties
        <5>2. Len(halved) + 1 = count + 2
          BY <2>5, <4>2
        <5> QED
          BY <2>5, <5>1, <5>2
    <3>4. /\ owner' \in Seq(Nat) /\ Len(owner') = count + 2
          /\ \A p \in 1..(count + 2) :
                 owner'[p] = IF p <= count THEN owner[p] ELSE mine
      <4> DEFINE two == <<mine, mine>>
      <4> HIDE DEF mine
      <4>1. two \in Seq(Nat) /\ Len(two) = 2 /\ two[1] = mine /\ two[2] = mine
        BY <2>6
      <4>2. owner' = owner \o two
        BY <3>1 DEF mine
      <4> HIDE DEF two, count
      <4>3. /\ owner' \in Seq(Nat) /\ Len(owner') = count + 2
            /\ \A i \in 1..(count + 2) :
                   owner'[i] = IF i <= count THEN owner[i] ELSE two[i - count]
        <5>1. /\ owner \o two \in Seq(Nat)
              /\ Len(owner \o two) = Len(owner) + Len(two)
              /\ \A i \in 1..(Len(owner) + Len(two)) :
                     (owner \o two)[i] =
                         IF i <= Len(owner) THEN owner[i] ELSE two[i - Len(owner)]
          BY <1>5, <4>1, ConcatProperties
        <5>2. Len(owner) = count /\ Len(two) = 2
          BY <1>5, <4>1
        <5> QED
          BY <4>2, <5>1, <5>2
      <4>4. \A i \in 1..(count + 2) : i <= count \/ i - count = 1 \/ i - count = 2
        BY <1>2
      <4> QED
        BY <4>1, <4>3, <4>4
    <3>5. indexes_'[n].root = count + 1
      <4>1. n \in DOMAIN indexes_ /\ "root" \in DOMAIN indexes_[n]
        BY <1>1 DEF IndexesApart, Live, NoIndex
      <4>2. indexes_' = [indexes_ EXCEPT ![n] = [indexes_[n] EXCEPT !.root = count + 1]]
        BY <3>1
      <4> QED
        BY <4>1, <4>2
    <3>6. /\ pages'[at + 1] = l /\ pages'[count + 1] = r
          /\ \A p \in 1..count : p # at + 1 => pages'[p] = pages[p]
      <4> HIDE DEF halved, first, l, r, at
      <4> QED
        BY <1>2, <2>3, <2>4, <2>5, <3>3
    <3>7. Splits(n, k, v)
      <4> HIDE DEF P, halved, leaf, mine, grown
      <4>1. indexes_' = [indexes_ EXCEPT ![n].root = count + 1]
        BY <3>1
      <4>2. Len(pages') <= MaxPages /\ (count + 1) + 1 = count + 2
        BY <1>2, <3>1, <3>3
      <4> QED
        BY <2>1, <3>3, <3>4, <3>5, <3>6, <4>1, <4>2 DEF Splits, P, leaf, mine
    <3> QED
      BY <1>1, <1>4, <3>7
  <2>9. CASE at # root
    <3>1. OldRoot
      BY <1>4, <1>8, <2>9
    <3>2. Stored(InsertChild(Node(root), count, promoted)) = InnerTo(count)
      <4>1. Node(root) = [leaf |-> FALSE, keys |-> <<>>, children |-> <<at>>]
        BY <1>2, <2>9 DEF InnerTo
      <4>2. <<at>> \in Seq(Nat) /\ count \in Nat
        BY <1>2
      <4> HIDE DEF at, promoted, count
      <4> QED
        BY <4>1, <4>2, StoredIs
    <3>3. /\ pages' \in Seq(P) /\ Len(pages') = count + 1
          /\ \A q \in 1..(count + 1) :
                 pages'[q] = IF q = root + 1 THEN InnerTo(count) ELSE halved[q]
      <4>1. root + 1 \in 1..(count + 1)
        BY <1>2
      <4> HIDE DEF P, halved, count, promoted, root
      <4>2. pages' = [halved EXCEPT ![root + 1] = InnerTo(count)]
        BY <3>1, <3>2 DEF SeqExt!ReplaceAt
      <4> QED
        BY <2>5, <2>7, <4>1, <4>2, ExceptSeq
    <3>4. /\ owner' \in Seq(Nat) /\ Len(owner') = count + 1
          /\ \A p \in 1..(count + 1) :
                 owner'[p] = IF p <= count THEN owner[p] ELSE mine
      <4> HIDE DEF mine, count
      <4>1. owner' = Append(owner, mine)
        BY <3>1 DEF mine
      <4>2. /\ owner' \in Seq(Nat) /\ Len(owner') = count + 1
            /\ \A i \in 1..count : owner'[i] = owner[i]
            /\ owner'[count + 1] = mine
        BY <1>5, <2>6, <4>1, AppendProperties
      <4>3. \A i \in 1..(count + 1) : i <= count => i \in 1..count
        BY <1>2
      <4>4. \A i \in 1..(count + 1) : ~(i <= count) => i = count + 1
        BY <1>2
      <4> QED
        BY <4>2, <4>3, <4>4
    <3>5. indexes_' = [indexes_ EXCEPT ![n].root = indexes_'[n].root]
          /\ indexes_'[n].root = root
      <4>1. indexes_ \in [Names -> {NoIndex} \cup
                                [table : Tables, root : 0..(Len(pages) - 1)]]
        BY DEF IndexesApart
      <4>2. indexes_[n] \in [table : Tables, root : 0..(Len(pages) - 1)]
        BY <1>1, <4>1 DEF Live
      <4>3. indexes_' = indexes_
        BY <3>1
      <4>4. [indexes_[n] EXCEPT !.root = root] = indexes_[n]
        BY <4>2
      <4>5. [indexes_ EXCEPT ![n] = indexes_[n]] = indexes_
        BY <4>1
      <4> QED
        BY <4>3, <4>4, <4>5
    <3>6. /\ pages'[at + 1] = l /\ pages'[count + 1] = r
          /\ pages'[root + 1] = InnerTo(count)
          /\ \A p \in 1..count :
                 p # at + 1 /\ p # root + 1 => pages'[p] = pages[p]
      <4>1. at + 1 # root + 1 /\ count + 1 # root + 1 /\ root + 1 \in 1..(count + 1)
            /\ at + 1 \in 1..(count + 1) /\ count + 1 \in 1..(count + 1)
            /\ \A p \in 1..count : p \in 1..(count + 1)
        <5>1. /\ root \in 0..(count - 1) /\ at \in 0..(count - 1)
              /\ count \in Nat /\ at # root
          BY <1>2, <2>9
        <5> HIDE DEF at, root, count
        <5> QED
          BY <5>1
      <4> HIDE DEF halved, first, l, r, at, root, count
      <4> QED
        BY <2>3, <2>4, <2>5, <3>3, <4>1
    <3>7. Splits(n, k, v)
      <4> HIDE DEF P, halved, leaf, mine, grown
      <4>1. Len(pages') <= MaxPages
        BY <3>1, <3>3
      <4> QED
        BY <2>1, <2>9, <3>3, <3>4, <3>5, <3>6, <4>1 DEF Splits, P, leaf, mine
    <3> QED
      BY <1>1, <1>4, <3>7
  <2> QED
    BY <2>8, <2>9
<1> QED
  BY <1>7, <1>8

\* BPlusTreeIndex::Delete rewrites the leaf without the key.
LEMMA DeleteIs ==
    ASSUME PagesGood, Sequenced, IndexesApart,
           NEW n \in Names, NEW k \in Keys, Delete(n, k)
    PROVE  LET y == RemoveEntry(Node(LeafOf(n)), k)
           IN  /\ n \in Live /\ GoodLeaf(y, Len(pages)) /\ Rewritten(LeafOf(n), y)
               /\ pages' \in Seq(Leaves \cup {InnerTo(c) : c \in Nat})
               /\ latest' = [latest EXCEPT ![n][k] = none]
               /\ UNCHANGED <<indexes_, owner, inserts>>
               /\ SeqExt!ToSet(y.entries) = {f \in Content(n) : f.key # k}
<1> DEFINE x == Node(LeafOf(n))
           y == RemoveEntry(x, k)
           at == LeafOf(n)
           P == Leaves \cup {InnerTo(c) : c \in Nat}
<1>1. n \in Live
  BY DEF Delete, Live
<1>2. GoodLeaf(x, Len(pages)) /\ at \in 0..(Len(pages) - 1)
      /\ LeafFor(indexes_[n].root, k) = at
  BY <1>1, LeafForIs
<1>3. x \in Leaves /\ Sorted(x.entries) /\ Len(x.entries) < MaxKeys /\ x.next < Len(pages)
  BY <1>2 DEF GoodLeaf
<1>4. Content(n) = SeqExt!ToSet(x.entries)
  BY DEF Content
<1> HIDE DEF x
<1>5. /\ y \in Leaves /\ y.next = x.next /\ Sorted(y.entries)
      /\ Len(y.entries) <= Len(x.entries)
      /\ SeqExt!ToSet(y.entries) = {f \in Content(n) : f.key # k}
  BY <1>3, <1>4, Removed
<1>6. Len(y.entries) < MaxKeys
  <2>1. Len(y.entries) \in Nat /\ Len(x.entries) \in Nat
    BY <1>3, <1>5, SortedIs
  <2> QED
    BY <1>3, <1>5, <2>1
<1>7. GoodLeaf(y, Len(pages)) /\ y \in P
  BY <1>3, <1>5, <1>6 DEF GoodLeaf
<1>8. /\ pages' = [pages EXCEPT ![at + 1] = y]
      /\ latest' = [latest EXCEPT ![n][k] = none]
      /\ UNCHANGED <<indexes_, owner, inserts>>
  BY <1>2 DEF Delete, x, SeqExt!ReplaceAt
<1>9. pages \in Seq(P) /\ at + 1 \in 1..Len(pages)
  BY <1>2 DEF Sequenced, PagesGood
<1> HIDE DEF y, P, at
<1>10. /\ pages' \in Seq(P) /\ Len(pages') = Len(pages)
       /\ \A q \in 1..Len(pages) : pages'[q] = IF q = at + 1 THEN y ELSE pages[q]
  BY <1>7, <1>8, <1>9, ExceptSeq
<1>11. Rewritten(at, y)
  BY <1>9, <1>10 DEF Rewritten
<1> QED
  BY <1>1, <1>5, <1>7, <1>8, <1>10, <1>11 DEF x, y, P, at

\* IndexManager::CreateIndex adds a page with an empty leaf.
LEMMA CreateIs ==
    ASSUME PagesGood, Sequenced, NEW n \in Names, NEW t \in Tables, CreateIndex(n, t)
    PROVE  /\ Len(pages') = Len(pages) + 1 /\ Len(pages') <= MaxPages
           /\ pages' \in Seq(Leaves \cup {InnerTo(c) : c \in Nat})
           /\ \A p \in 1..Len(pages) : pages'[p] = pages[p] /\ owner'[p] = owner[p]
           /\ pages'[Len(pages) + 1] = EmptyLeaf
           /\ owner' \in Seq(Nat) /\ Len(owner') = Len(pages')
           /\ owner'[Len(pages) + 1] = Len(pages)
           /\ indexes_' = [indexes_ EXCEPT ![n] = [table |-> t, root |-> Len(pages)]]
           /\ latest' = [latest EXCEPT ![n] = [k \in Keys |-> none]]
           /\ inserts' = inserts
           /\ GoodLeaf(EmptyLeaf, Len(pages) + 1)
           /\ SeqExt!ToSet(EmptyLeaf.entries) = {}
<1> DEFINE P == Leaves \cup {InnerTo(c) : c \in Nat}
           count == Len(pages)
<1>1. <<>> \in Seq(Entry) /\ Len(<<>>) = 0 /\ DOMAIN <<>> = {}
  OBVIOUS
<1>2. EmptyLeaf \in Leaves /\ EmptyLeaf.entries = <<>> /\ EmptyLeaf.next = 0
  BY <1>1 DEF EmptyLeaf, Leaves
<1>3. count \in Nat /\ pages \in Seq(P) /\ owner \in Seq(Nat) /\ Len(owner) = count
  BY DEF PagesGood, Sequenced
<1>4. GoodLeaf(EmptyLeaf, count + 1)
  <2>1. Sorted(<<>>)
    BY <1>1 DEF Sorted
  <2> HIDE DEF count
  <2> QED
    BY <1>1, <1>2, <1>3, <2>1 DEF GoodLeaf
<1>5. /\ count < MaxPages /\ pages' = Append(pages, EmptyLeaf)
      /\ indexes_' = [indexes_ EXCEPT ![n] = [table |-> t, root |-> count]]
      /\ latest' = [latest EXCEPT ![n] = [k \in Keys |-> none]]
      /\ owner' = Append(owner, count) /\ inserts' = inserts
  BY DEF CreateIndex, NewPage
<1>6. EmptyLeaf \in P
  BY <1>2
<1> HIDE DEF P
<1>7. /\ pages' \in Seq(P) /\ Len(pages') = count + 1
      /\ \A q \in 1..count : pages'[q] = pages[q]
      /\ pages'[count + 1] = EmptyLeaf
  BY <1>3, <1>5, <1>6, AppendProperties
<1>8. /\ owner' \in Seq(Nat) /\ Len(owner') = count + 1
      /\ \A q \in 1..count : owner'[q] = owner[q]
      /\ owner'[count + 1] = count
  <2> HIDE DEF count
  <2> QED
    BY <1>3, <1>5, AppendProperties
<1>9. Len(pages') <= MaxPages
  BY <1>3, <1>5, <1>7
<1>10. SeqExt!ToSet(EmptyLeaf.entries) = {}
  BY <1>1, <1>2 DEF SeqExt!ToSet
<1> QED
  BY <1>4, <1>5, <1>7, <1>8, <1>9, <1>10 DEF P

-----------------------------------------------------------------------------
(* Every operation keeps the invariant.                                    *)

\* A leaf stays good when there are more pages.
LEMMA MorePages ==
    ASSUME NEW x, NEW i \in Nat, NEW j \in Nat, i <= j, GoodLeaf(x, i)
    PROVE  GoodLeaf(x, j)
<1>1. x.next \in Nat
  BY DEF GoodLeaf, Leaves
<1> QED
  BY <1>1 DEF GoodLeaf

\* Writing a leaf where there was one.
LEMMA RewrittenGood ==
    ASSUME PagesGood, NEW a \in 0..(Len(pages) - 1), NEW x,
           GoodLeaf(x, Len(pages)), Rewritten(a, x),
           pages' \in Seq(Leaves \cup {InnerTo(c) : c \in Nat}), owner' = owner
    PROVE  PagesGood'
<1> DEFINE count == Len(pages)
           P == Leaves \cup {InnerTo(c) : c \in Nat}
<1>1. /\ count \in Nat /\ Len(owner) = count
      /\ owner \in [1..count -> 0..(count - 1)]
      /\ \A p \in 1..count :
           \/ GoodLeaf(pages[p], count)
           \/ \E c \in 0..(count - 1) :
                  /\ pages[p] = InnerTo(c) /\ GoodLeaf(pages[c + 1], count)
                  /\ owner[c + 1] = owner[p]
  BY DEF PagesGood
<1>2. /\ Len(pages') = count /\ pages'[a + 1] = x
      /\ \A q \in 1..count : q # a + 1 => pages'[q] = pages[q]
  BY DEF Rewritten
<1>3. pages' \in [1..Len(pages') -> P]
  BY LenProperties
<1>4. \A p \in 1..count : GoodLeaf(pages[p], count) => GoodLeaf(pages'[p], count)
  BY <1>2
<1>5. ASSUME NEW p \in 1..count
      PROVE  \/ GoodLeaf(pages'[p], count)
             \/ \E c \in 0..(count - 1) :
                    /\ pages'[p] = InnerTo(c) /\ GoodLeaf(pages'[c + 1], count)
                    /\ owner[c + 1] = owner[p]
  <2>1. CASE p = a + 1 \/ GoodLeaf(pages[p], count)
    BY <1>2, <1>4, <2>1
  <2>2. CASE p # a + 1 /\ ~GoodLeaf(pages[p], count)
    <3>1. PICK c \in 0..(count - 1) :
              /\ pages[p] = InnerTo(c) /\ GoodLeaf(pages[c + 1], count)
              /\ owner[c + 1] = owner[p]
      BY <1>1, <2>2
    <3>2. c + 1 \in 1..count
      BY <1>1
    <3>3. pages'[p] = InnerTo(c) /\ GoodLeaf(pages'[c + 1], count)
      BY <1>2, <1>4, <2>2, <3>1, <3>2
    <3> QED
      BY <3>1, <3>3
  <2> QED
    BY <2>1, <2>2
<1> HIDE DEF count
<1> QED
  BY <1>1, <1>2, <1>3, <1>5 DEF PagesGood, P

\* A new page for a new index.
LEMMA CreatedGood ==
    ASSUME PagesGood, Sequenced, NEW n \in Names, NEW t \in Tables, CreateIndex(n, t)
    PROVE  PagesGood'
<1> DEFINE count == Len(pages)
           P == Leaves \cup {InnerTo(c) : c \in Nat}
<1>1. /\ count \in Nat /\ Len(owner) = count
      /\ owner \in [1..count -> 0..(count - 1)]
      /\ \A p \in 1..count :
           \/ GoodLeaf(pages[p], count)
           \/ \E c \in 0..(count - 1) :
                  /\ pages[p] = InnerTo(c) /\ GoodLeaf(pages[c + 1], count)
                  /\ owner[c + 1] = owner[p]
  BY DEF PagesGood
<1>2. /\ Len(pages') = count + 1 /\ pages' \in Seq(P)
      /\ \A p \in 1..count : pages'[p] = pages[p] /\ owner'[p] = owner[p]
      /\ pages'[count + 1] = EmptyLeaf /\ GoodLeaf(EmptyLeaf, count + 1)
      /\ owner' \in Seq(Nat) /\ Len(owner') = count + 1 /\ owner'[count + 1] = count
  BY CreateIs
<1>3. pages' \in [1..Len(pages') -> P] /\ owner' \in [1..(count + 1) -> Nat]
  BY <1>2, LenProperties
<1> HIDE DEF count
<1>4. \A p \in 1..count : GoodLeaf(pages[p], count) => GoodLeaf(pages'[p], count + 1)
  <2>1. ASSUME NEW p \in 1..count, GoodLeaf(pages[p], count)
        PROVE  GoodLeaf(pages[p], count + 1)
    BY <1>1, <2>1, MorePages
  <2> QED
    BY <1>2, <2>1
<1>5. ASSUME NEW p \in 1..(count + 1)
      PROVE  /\ \/ GoodLeaf(pages'[p], count + 1)
                \/ \E c \in 0..((count + 1) - 1) :
                    /\ pages'[p] = InnerTo(c) /\ GoodLeaf(pages'[c + 1], count + 1)
                    /\ owner'[c + 1] = owner'[p]
             /\ owner'[p] \in 0..((count + 1) - 1)
  <2>1. CASE p = count + 1
    BY <1>1, <1>2, <2>1
  <2>2. CASE p \in 1..count /\ GoodLeaf(pages[p], count)
    <3>1. owner'[p] \in 0..(count - 1)
      BY <1>1, <1>2, <2>2
    <3> QED
      BY <1>1, <1>4, <2>2, <3>1
  <2>3. CASE p \in 1..count /\ ~GoodLeaf(pages[p], count)
    <3>1. PICK c \in 0..(count - 1) :
              /\ pages[p] = InnerTo(c) /\ GoodLeaf(pages[c + 1], count)
              /\ owner[c + 1] = owner[p]
      BY <1>1, <2>3
    <3>2. c + 1 \in 1..count /\ c \in 0..((count + 1) - 1)
      BY <1>1
    <3>3. /\ pages'[p] = pages[p] /\ owner'[p] = owner[p]
          /\ owner'[c + 1] = owner[c + 1] /\ GoodLeaf(pages'[c + 1], count + 1)
      BY <1>2, <1>4, <2>3, <3>1, <3>2
    <3>4. owner'[p] \in 0..(count - 1)
      BY <1>1, <1>2, <2>3
    <3> QED
      BY <1>1, <3>1, <3>2, <3>3, <3>4
  <2>4. p = count + 1 \/ p \in 1..count
    BY <1>1
  <2> QED
    BY <2>1, <2>2, <2>3, <2>4
<1>6. owner' \in [1..(count + 1) -> 0..((count + 1) - 1)]
  BY <1>3, <1>5
<1>7. Len(pages') \in Nat /\ Len(owner') = Len(pages')
  BY <1>1, <1>2
<1> QED
  BY <1>2, <1>3, <1>5, <1>6, <1>7 DEF PagesGood, P

\* A split adds pages of the same index.
LEMMA SplitGood ==
    ASSUME PagesGood, Sequenced, IndexesApart,
           NEW n \in Live, NEW k \in Keys, NEW v \in Values, Splits(n, k, v)
    PROVE  PagesGood'
<1> DEFINE count == Len(pages)
           more == Len(pages')
           P == Leaves \cup {InnerTo(c) : c \in Nat}
           at == LeafOf(n)
           root == indexes_'[n].root
           mine == owner[indexes_[n].root + 1]
           l == Split(Grown(n, k, v))[1]
           r == Split(Grown(n, k, v))[2]
<1>1. /\ count \in Nat /\ Len(owner) = count
      /\ owner \in [1..count -> 0..(count - 1)]
      /\ \A p \in 1..count :
           \/ GoodLeaf(pages[p], count)
           \/ \E c \in 0..(count - 1) :
                  /\ pages[p] = InnerTo(c) /\ GoodLeaf(pages[c + 1], count)
                  /\ owner[c + 1] = owner[p]
  BY DEF PagesGood
<1>2. /\ pages' \in Seq(P) /\ owner' \in Seq(Nat)
      /\ more \in {count + 1, count + 2} /\ Len(owner') = more
      /\ \/ root = indexes_[n].root /\ root # at /\ more = count + 1
         \/ root = count + 1 /\ more = count + 2
      /\ pages'[at + 1] = l /\ pages'[count + 1] = r /\ pages'[root + 1] = InnerTo(count)
      /\ \A p \in 1..count : p \notin {at + 1, root + 1} => pages'[p] = pages[p]
      /\ \A p \in 1..more : owner'[p] = IF p <= count THEN owner[p] ELSE mine
  BY DEF Splits
<1>3. /\ indexes_[n].root \in 0..(count - 1) /\ at \in 0..(count - 1)
      /\ owner[at + 1] = mine
      /\ \/ at = indexes_[n].root
         \/ at # indexes_[n].root /\ pages[indexes_[n].root + 1] = InnerTo(at)
  BY LeafForIs DEF Node
<1>4. GoodLeaf(l, more) /\ GoodLeaf(r, more)
  <2>1. LET y == Grown(n, k, v)
            x == Node(at)
        IN  /\ y \in Leaves /\ y.next = x.next /\ x.next < count /\ Sorted(y.entries)
    BY GrownIs
  <2>2. Len(Grown(n, k, v).entries) = MaxKeys
    BY DEF Splits
  <2> DEFINE y == Grown(n, k, v)
  <2>3. /\ l \in Leaves /\ l.next = count /\ Sorted(l.entries)
        /\ r \in Leaves /\ r.next = y.next /\ Sorted(r.entries)
        /\ Len(l.entries) < MaxKeys /\ Len(r.entries) \in 1..(MaxKeys - 1)
    BY <1>1, <2>1, <2>2, Halved
  <2>4. y.next < count /\ y.next \in Nat
    <3>1. y \in Leaves /\ y.next = Node(at).next /\ Node(at).next < count
      BY <2>1
    <3> HIDE DEF y, count, at
    <3>2. y.next \in Nat
      BY <3>1 DEF Leaves
    <3> QED
      BY <3>1, <3>2
  <2> HIDE DEF l, r, y, count, more
  <2>5. count < more /\ y.next < more /\ Len(r.entries) < MaxKeys
    <3>1. count \in Nat /\ more \in {count + 1, count + 2}
      BY <1>1, <1>2
    <3>2. Len(r.entries) \in 1..(MaxKeys - 1)
      BY <2>3
    <3>3. Len(r.entries) < MaxKeys
      BY <3>2
    <3> QED
      BY <2>4, <3>1, <3>3
  <2> QED
    BY <2>3, <2>5 DEF GoodLeaf
<1>5. \A c : ~GoodLeaf(InnerTo(c), count)
  BY DEF GoodLeaf, Leaves, InnerTo
<1>6. pages' \in [1..more -> P] /\ owner' \in [1..more -> Nat] /\ more \in Nat
  BY <1>1, <1>2, LenProperties
<1> HIDE DEF count, more, at, root, mine, l, r, P
<1>7. ASSUME NEW p \in 1..count, GoodLeaf(pages[p], count)
      PROVE  GoodLeaf(pages'[p], more)
  <2>1. GoodLeaf(pages[p], more)
    BY <1>1, <1>2, <1>6, <1>7, MorePages
  <2>2. p # root + 1
    <3>1. CASE root = indexes_[n].root /\ root # at
      BY <1>3, <1>5, <1>7, <3>1
    <3>2. CASE root = count + 1
      BY <1>1, <3>2
    <3> QED
      BY <1>2, <3>1, <3>2
  <2> QED
    BY <1>2, <1>4, <2>1, <2>2
<1>8. mine \in 0..(count - 1)
  BY <1>1, <1>3 DEF mine
<1>9. ASSUME NEW p \in 1..more
      PROVE  /\ \/ GoodLeaf(pages'[p], more)
                \/ \E c \in 0..(more - 1) :
                    /\ pages'[p] = InnerTo(c) /\ GoodLeaf(pages'[c + 1], more)
                    /\ owner'[c + 1] = owner'[p]
             /\ owner'[p] \in 0..(more - 1)
  <2>0. owner'[p] \in 0..(more - 1)
    <3>1. CASE p <= count
      <4>1. owner'[p] \in 0..(count - 1)
        BY <1>1, <1>2, <3>1
      <4> QED
        BY <1>1, <1>2, <4>1
    <3>2. CASE p > count
      <4>1. owner'[p] = mine
        BY <1>1, <1>2, <3>2
      <4> QED
        BY <1>1, <1>2, <1>8, <4>1
    <3> QED
      BY <1>1, <3>1, <3>2
  <2>1. CASE p = root + 1
    <3>1. count \in 0..(more - 1) /\ count + 1 \in 1..more
      BY <1>1, <1>2
    <3>2. pages'[p] = InnerTo(count) /\ GoodLeaf(pages'[count + 1], more)
      BY <1>2, <1>4, <2>1
    <3>3. owner'[count + 1] = mine
      BY <1>1, <1>2, <3>1
    <3>4. owner'[p] = mine
      <4>1. CASE root = indexes_[n].root
        BY <1>1, <1>2, <1>3, <2>1, <4>1 DEF mine
      <4>2. CASE root = count + 1
        BY <1>1, <1>2, <2>1, <4>2
      <4> QED
        BY <1>2, <4>1, <4>2
    <3> QED
      BY <2>0, <3>1, <3>2, <3>3, <3>4
  <2>2. CASE p = count + 1
    BY <1>2, <1>4, <2>0, <2>2
  <2>3. CASE p \in 1..count /\ GoodLeaf(pages[p], count)
    BY <1>7, <2>0, <2>3
  <2>4. CASE p \in 1..count /\ ~GoodLeaf(pages[p], count) /\ p # root + 1
    <3>1. PICK c \in 0..(count - 1) :
              /\ pages[p] = InnerTo(c) /\ GoodLeaf(pages[c + 1], count)
              /\ owner[c + 1] = owner[p]
      BY <1>1, <2>4
    <3>2. c + 1 \in 1..count /\ c \in 0..(more - 1) /\ c + 1 \in 1..more
      BY <1>1, <1>2
    <3>3. GoodLeaf(pages'[c + 1], more)
      BY <1>7, <3>1, <3>2
    <3>4. p # at + 1 \/ GoodLeaf(pages'[p], more)
      BY <1>2, <1>4
    <3>5. p # at + 1 => pages'[p] = InnerTo(c)
      BY <1>2, <2>4, <3>1
    <3>6. owner'[c + 1] = owner'[p]
      <4>1. owner'[c + 1] = owner[c + 1] /\ owner'[p] = owner[p]
        BY <1>1, <1>2, <2>4, <3>2
      <4> QED
        BY <3>1, <4>1
    <3> QED
      BY <2>0, <3>2, <3>3, <3>4, <3>5, <3>6
  <2>5. p = root + 1 \/ p = count + 1 \/ p \in 1..count
    <3>1. /\ count \in Nat /\ more \in {count + 1, count + 2}
          /\ root = count + 1 \/ more = count + 1
      BY <1>1, <1>2
    <3> QED
      BY <3>1
  <2> QED
    BY <2>1, <2>2, <2>3, <2>4, <2>5
<1>10. owner' \in [1..more -> 0..(more - 1)]
  BY <1>6, <1>9
<1> QED
  BY <1>2, <1>6, <1>9, <1>10 DEF PagesGood, P, more

\* PagesGood is kept.
LEMMA PagesStep ==
    ASSUME TreeInv, [Next]_vars
    PROVE  PagesGood' /\ Sequenced'
<1> USE DEF TreeInv
<1>1. ASSUME NEW n \in Names, NEW t \in Tables, CreateIndex(n, t)
      PROVE  PagesGood' /\ Sequenced'
  BY <1>1, CreatedGood, CreateIs DEF Sequenced
<1>2. ASSUME NEW n \in Names, NEW t \in Tables, DropIndex(n, t)
      PROVE  PagesGood' /\ Sequenced'
  BY <1>2 DEF DropIndex, PagesGood, Sequenced
<1>3. ASSUME NEW n \in Names, NEW k \in Keys, Delete(n, k)
      PROVE  PagesGood' /\ Sequenced'
  <2> DEFINE y == RemoveEntry(Node(LeafOf(n)), k)
  <2>1. /\ n \in Live /\ GoodLeaf(y, Len(pages)) /\ Rewritten(LeafOf(n), y)
        /\ pages' \in Seq(Leaves \cup {InnerTo(c) : c \in Nat}) /\ owner' = owner
    BY <1>3, DeleteIs
  <2>2. LeafOf(n) \in 0..(Len(pages) - 1)
    BY <2>1, LeafForIs
  <2>3. PagesGood'
    BY <2>1, <2>2, RewrittenGood
  <2> QED
    BY <2>1, <2>3 DEF Sequenced
<1>4. ASSUME NEW n \in Names, NEW k \in Keys, NEW v \in Values, Insert(n, k, v)
      PROVE  PagesGood' /\ Sequenced'
  <2>1. n \in Live /\ (Fits(n, k, v) \/ Splits(n, k, v))
    BY <1>4, InsertIs
  <2>2. CASE Fits(n, k, v)
    <3>1. LeafOf(n) \in 0..(Len(pages) - 1)
      BY <2>1, LeafForIs
    <3>2. PagesGood'
      BY <2>2, <3>1, RewrittenGood DEF Fits
    <3> QED
      BY <2>2, <3>2 DEF Fits, Sequenced
  <2>3. CASE Splits(n, k, v)
    BY <2>1, <2>3, SplitGood DEF Splits, Sequenced
  <2> QED
    BY <2>1, <2>2, <2>3
<1>5. CASE UNCHANGED vars
  BY <1>5 DEF vars, PagesGood, Sequenced
<1> QED
  BY <1>1, <1>2, <1>3, <1>4, <1>5 DEF Next

\* Counters are kept.
LEMMA CountersStep ==
    ASSUME TreeInv, [Next]_vars
    PROVE  Counters'
<1> USE DEF TreeInv
<1>1. ASSUME NEW n \in Names, NEW t \in Tables, CreateIndex(n, t)
      PROVE  Counters'
  <2>1. /\ Len(pages') <= MaxPages /\ inserts' = inserts
        /\ latest' = [latest EXCEPT ![n] = [k \in Keys |-> none]]
    BY <1>1, CreateIs
  <2> QED
    BY <2>1 DEF Counters
<1>2. ASSUME NEW n \in Names, NEW t \in Tables, DropIndex(n, t)
      PROVE  Counters'
  BY <1>2 DEF DropIndex, Counters
<1>3. ASSUME NEW n \in Names, NEW k \in Keys, Delete(n, k)
      PROVE  Counters'
  <2>1. /\ Len(pages') = Len(pages) /\ inserts' = inserts
        /\ latest' = [latest EXCEPT ![n][k] = none]
    BY <1>3, DeleteIs DEF Rewritten
  <2> QED
    BY <2>1 DEF Counters
<1>4. ASSUME NEW n \in Names, NEW k \in Keys, NEW v \in Values, Insert(n, k, v)
      PROVE  Counters'
  <2>1. /\ inserts < MaxInserts /\ inserts' = inserts + 1
        /\ latest' = [latest EXCEPT ![n][k] = v]
        /\ Fits(n, k, v) \/ Splits(n, k, v)
    BY <1>4, InsertIs
  <2>2. Len(pages') <= MaxPages
    <3>1. Fits(n, k, v) => Len(pages') = Len(pages)
      BY DEF Fits, Rewritten
    <3>2. Splits(n, k, v) => Len(pages') <= MaxPages
      BY DEF Splits
    <3> QED
      BY <2>1, <3>1, <3>2 DEF Counters
  <2>3. inserts' \in 0..MaxInserts
    BY <2>1 DEF Counters
  <2>4. latest' \in [Names -> [Keys -> Values \cup {none}]]
    BY <2>1 DEF Counters
  <2> QED
    BY <2>2, <2>3, <2>4 DEF Counters
<1>5. CASE UNCHANGED vars
  BY <1>5 DEF vars, Counters
<1> QED
  BY <1>1, <1>2, <1>3, <1>4, <1>5 DEF Next

\* What stays when pages are written: an index's root page has an owner.
LEMMA OwnerIs ==
    ASSUME PagesGood, IndexesApart, NEW n \in Live
    PROVE  /\ indexes_[n] \in [table : Tables, root : 0..(Len(pages) - 1)]
           /\ indexes_[n].root + 1 \in 1..Len(pages)
           /\ owner[indexes_[n].root + 1] \in 0..(Len(pages) - 1)
<1>1. indexes_[n] \in [table : Tables, root : 0..(Len(pages) - 1)]
  BY DEF IndexesApart, Live
<1>2. indexes_[n].root + 1 \in 1..Len(pages)
  BY <1>1 DEF PagesGood
<1> QED
  BY <1>1, <1>2 DEF PagesGood

\* Indexes have roots of their own.
LEMMA ApartStep ==
    ASSUME TreeInv, [Next]_vars
    PROVE  IndexesApart'
<1> USE DEF TreeInv
<1> DEFINE count == Len(pages)
           Ix(m) == [table : Tables, root : 0..(m - 1)]
<1>0. count \in Nat /\ \A n \in Live : /\ indexes_[n] \in Ix(count)
                                       /\ indexes_[n].root + 1 \in 1..count
                                       /\ owner[indexes_[n].root + 1] \in 0..(count - 1)
  BY OwnerIs DEF PagesGood
<1>01. \A n \in Names : indexes_[n] = NoIndex \/ (n \in Live /\ indexes_[n] \in Ix(count))
  BY DEF IndexesApart, Live
<1>02. \A n, m \in Live : n # m =>
           owner[indexes_[n].root + 1] # owner[indexes_[m].root + 1]
  BY DEF IndexesApart
<1>03. indexes_ \in [Names -> {NoIndex} \cup Ix(count)]
  BY DEF IndexesApart
<1>1. ASSUME NEW n \in Names, NEW t \in Tables, CreateIndex(n, t)
      PROVE  IndexesApart'
  <2>1. /\ Len(pages') = count + 1
        /\ \A p \in 1..count : owner'[p] = owner[p]
        /\ owner'[count + 1] = count
        /\ indexes_' = [indexes_ EXCEPT ![n] = [table |-> t, root |-> count]]
    BY <1>1, CreateIs
  <2>2. indexes_' \in [Names -> {NoIndex} \cup Ix(count + 1)]
    <3>1. Ix(count) \subseteq Ix(count + 1)
      BY <1>0
    <3>2. [table |-> t, root |-> count] \in Ix(count + 1)
      BY <1>0
    <3> HIDE DEF Ix, count
    <3> QED
      BY <1>03, <2>1, <3>1, <3>2
  <2>3. \A m \in Live' : m # n => m \in Live /\ indexes_'[m] = indexes_[m]
    BY <1>03, <2>1 DEF Live
  <2>4. indexes_'[n].root = count
    BY <1>03, <2>1
  <2>5. \A m \in Live' : m # n => /\ owner'[indexes_'[m].root + 1]
                                     = owner[indexes_[m].root + 1]
                                  /\ owner'[indexes_'[m].root + 1] # count
    <3>1. \A m \in Live : owner'[indexes_[m].root + 1] = owner[indexes_[m].root + 1]
                          /\ owner[indexes_[m].root + 1] # count
      BY <1>0, <2>1
    <3> QED
      BY <2>3, <3>1
  <2>6. ASSUME NEW a \in Live', NEW b \in Live', a # b
        PROVE  owner'[indexes_'[a].root + 1] # owner'[indexes_'[b].root + 1]
    <3>1. CASE a = n
      BY <2>1, <2>4, <2>5, <2>6, <3>1
    <3>2. CASE b = n
      BY <2>1, <2>4, <2>5, <2>6, <3>2
    <3>3. CASE a # n /\ b # n
      BY <1>02, <2>3, <2>5, <2>6, <3>3
    <3> QED
      BY <3>1, <3>2, <3>3
  <2> QED
    BY <2>1, <2>2, <2>6 DEF IndexesApart
<1>2. ASSUME NEW n \in Names, NEW t \in Tables, DropIndex(n, t)
      PROVE  IndexesApart'
  <2>1. indexes_' = [indexes_ EXCEPT ![n] = NoIndex] /\ pages' = pages /\ owner' = owner
    BY <1>2 DEF DropIndex
  <2>2. indexes_' \in [Names -> {NoIndex} \cup Ix(count)]
    BY <1>03, <2>1
  <2>3. \A m \in Live' : m \in Live /\ indexes_'[m] = indexes_[m]
    BY <1>03, <2>1 DEF Live
  <2> QED
    BY <1>02, <2>1, <2>2, <2>3 DEF IndexesApart
<1>3. ASSUME NEW n \in Names, NEW k \in Keys, Delete(n, k)
      PROVE  IndexesApart'
  <2>1. UNCHANGED <<indexes_, owner>> /\ Len(pages') = count
    BY <1>3, DeleteIs DEF Rewritten
  <2> QED
    BY <1>02, <1>03, <2>1 DEF IndexesApart, Live
<1>4. ASSUME NEW n \in Names, NEW k \in Keys, NEW v \in Values, Insert(n, k, v)
      PROVE  IndexesApart'
  <2>1. n \in Live /\ (Fits(n, k, v) \/ Splits(n, k, v))
    BY <1>4, InsertIs
  <2>2. CASE Fits(n, k, v)
    <3>1. UNCHANGED <<indexes_, owner>> /\ Len(pages') = count
      BY <2>2 DEF Fits, Rewritten
    <3> QED
      BY <1>02, <1>03, <3>1 DEF IndexesApart, Live
  <2>3. CASE Splits(n, k, v)
    <3> DEFINE root == indexes_'[n].root
               more == Len(pages')
               mine == owner[indexes_[n].root + 1]
    <3>1. /\ more \in {count + 1, count + 2}
          /\ \/ root = indexes_[n].root
             \/ root = count + 1 /\ more = count + 2
          /\ indexes_' = [indexes_ EXCEPT ![n].root = root]
          /\ \A p \in 1..more : owner'[p] = IF p <= count THEN owner[p] ELSE mine
      BY <2>3 DEF Splits
    <3>2. root \in 0..(more - 1) /\ owner'[root + 1] = mine
      <4>1. indexes_[n].root \in 0..(count - 1)
        BY <1>0, <2>1
      <4> HIDE DEF root, mine, more, count
      <4>2. CASE root = indexes_[n].root
        <5>1. root + 1 \in 1..more /\ root + 1 <= count
          BY <1>0, <3>1, <4>1, <4>2
        <5> QED
          BY <1>0, <3>1, <4>1, <4>2, <5>1 DEF mine
      <4>3. CASE root = count + 1 /\ more = count + 2
        <5>1. root + 1 \in 1..more /\ ~(root + 1 <= count) /\ root \in 0..(more - 1)
          BY <1>0, <4>3
        <5> QED
          BY <3>1, <5>1
      <4> QED
        BY <3>1, <4>2, <4>3
    <3>3. Ix(count) \subseteq Ix(more)
      BY <1>0, <3>1
    <3>4. indexes_' = [indexes_ EXCEPT ![n] = [indexes_[n] EXCEPT !.root = root]]
      BY <3>1
    <3>5. [indexes_[n] EXCEPT !.root = root] \in Ix(more)
      <4>1. indexes_[n] \in Ix(count)
        BY <1>0, <2>1
      <4> HIDE DEF root, more, count
      <4> QED
        BY <3>2, <4>1
    <3> HIDE DEF Ix, root, more, count
    <3>6. indexes_' \in [Names -> {NoIndex} \cup Ix(more)]
      BY <1>03, <3>3, <3>4, <3>5
    <3>7. \A m \in Live' : m # n => m \in Live /\ indexes_'[m] = indexes_[m]
      BY <1>03, <3>4 DEF Live
    <3>8. \A m \in Live : /\ indexes_[m].root + 1 \in 1..more
                          /\ indexes_[m].root + 1 <= count
      BY <1>0, <3>1
    <3>9. \A m \in Live' : m # n =>
              owner'[indexes_'[m].root + 1] = owner[indexes_[m].root + 1]
      BY <3>1, <3>7, <3>8
    <3>10. owner'[indexes_'[n].root + 1] = owner[indexes_[n].root + 1]
      BY <3>2 DEF root
    <3>11. \A a, b \in Live' : a # b =>
              owner'[indexes_'[a].root + 1] # owner'[indexes_'[b].root + 1]
      BY <1>02, <2>1, <3>7, <3>9, <3>10
    <3> QED
      BY <3>6, <3>11 DEF IndexesApart, Ix, more
  <2> QED
    BY <2>1, <2>2, <2>3
<1>5. CASE UNCHANGED vars
  BY <1>5 DEF vars, IndexesApart, Live
<1> QED
  BY <1>1, <1>2, <1>3, <1>4, <1>5 DEF Next

-----------------------------------------------------------------------------
(* Nothing is erased.                                                      *)

\* Page p of index n holds what was inserted last under key k.
Holds(n, k, p) ==
    /\ p \in 1..Len(pages) /\ pages[p].leaf
    /\ owner[p] = owner[indexes_[n].root + 1]
    /\ [key |-> k, value |-> latest[n][k]] \in SeqExt!ToSet(pages[p].entries)

\* NothingErased in these terms.
LEMMA ErasedIs ==
    ASSUME PagesGood
    PROVE  NothingErased <=> \A n \in Live, k \in Keys :
               latest[n][k] # none => \E p \in 1..Len(pages) : Holds(n, k, p)
<1>1. DOMAIN pages = 1..Len(pages)
  BY DEF PagesGood
<1> QED
  BY <1>1 DEF NothingErased, Holds

\* A page that an operation leaves alone holds what it held.
LEMMA HoldsStays ==
    ASSUME NEW n, NEW k, NEW p, Holds(n, k, p), Len(pages) \in Nat,
           Len(pages') \in Nat, Len(pages) <= Len(pages'),
           pages'[p] = pages[p], owner'[p] = owner[p],
           owner'[indexes_'[n].root + 1] = owner[indexes_[n].root + 1],
           latest'[n][k] = latest[n][k]
    PROVE  Holds(n, k, p)'
<1>1. p \in 1..Len(pages')
  BY DEF Holds
<1> QED
  BY <1>1 DEF Holds

\* The leaf that an operation writes is of one index only, and holds what it
\* held but for the key of the operation.
LEMMA RewrittenHolds ==
    ASSUME PagesGood, IndexesApart, NEW n \in Live, NEW k \in Keys, NEW x,
           Rewritten(LeafOf(n), x), x.leaf, UNCHANGED <<indexes_, owner>>,
           NEW S, SeqExt!ToSet(x.entries) = {f \in Content(n) : f.key # k} \cup S,
           NEW m \in Live, NEW j \in Keys, m # n \/ j # k,
           latest'[m][j] = latest[m][j], NEW p, Holds(m, j, p)
    PROVE  Holds(m, j, p)'
<1> DEFINE at == LeafOf(n)
<1>1. /\ at \in 0..(Len(pages) - 1) /\ Len(pages) \in Nat
      /\ owner[at + 1] = owner[indexes_[n].root + 1]
  BY LeafForIs DEF PagesGood
<1>2. Len(pages') = Len(pages) /\ pages'[at + 1] = x
      /\ \A q \in 1..Len(pages) : q # at + 1 => pages'[q] = pages[q]
  BY DEF Rewritten
<1>3. CASE p # at + 1
  <2>1. pages'[p] = pages[p]
    BY <1>2, <1>3 DEF Holds
  <2> QED
    BY <1>1, <1>2, <2>1, HoldsStays
<1>4. CASE p = at + 1
  <2>1. m = n
    BY <1>1, <1>4 DEF Holds, IndexesApart
  <2> DEFINE e == [key |-> j, value |-> latest[m][j]]
  <2>2. e \in Content(n)
    BY <1>4 DEF Holds, Content, Node
  <2>3. e.key # k
    BY <2>1
  <2>4. e \in SeqExt!ToSet(x.entries)
    BY <2>2, <2>3
  <2>5. p \in 1..Len(pages') /\ pages'[p] = x
    BY <1>2, <1>4 DEF Holds
  <2> HIDE DEF at
  <2> QED
    BY <1>1, <1>4, <2>1, <2>4, <2>5 DEF Holds
<1> QED
  BY <1>3, <1>4

\* A split leaves each entry in a page of the index.
LEMMA SplitHolds ==
    ASSUME PagesGood, IndexesApart,
           NEW n \in Live, NEW k \in Keys, NEW v \in Values, Splits(n, k, v),
           latest' = [latest EXCEPT ![n][k] = v],
           latest \in [Names -> [Keys -> Values \cup {none}]],
           NEW m \in Live, NEW j \in Keys,
           (m = n /\ j = k) \/ \E p \in 1..Len(pages) : Holds(m, j, p)
    PROVE  \E p \in 1..Len(pages') : Holds(m, j, p)'
<1> DEFINE at == LeafOf(n)
           count == Len(pages)
           more == Len(pages')
           root == indexes_'[n].root
           mine == owner[indexes_[n].root + 1]
           y == Grown(n, k, v)
           l == Split(y)[1]
           r == Split(y)[2]
           e == [key |-> j, value |-> latest'[m][j]]
<1>1. /\ at \in 0..(count - 1) /\ count \in Nat
      /\ owner[at + 1] = mine
      /\ indexes_[n].root \in 0..(count - 1)
      /\ at = indexes_[n].root \/ Node(indexes_[n].root) = InnerTo(at)
  BY LeafForIs DEF PagesGood
<1>2. /\ more \in {count + 1, count + 2} /\ Len(y.entries) = MaxKeys
      /\ \/ root = indexes_[n].root /\ root # at
         \/ root = count + 1 /\ more = count + 2
      /\ indexes_' = [indexes_ EXCEPT ![n].root = root]
      /\ pages'[at + 1] = l /\ pages'[count + 1] = r
      /\ \A p \in 1..count : p \notin {at + 1, root + 1} => pages'[p] = pages[p]
      /\ \A p \in 1..more : owner'[p] = IF p <= count THEN owner[p] ELSE mine
  BY DEF Splits
<1>3. /\ y \in Leaves /\ Sorted(y.entries)
      /\ SeqExt!ToSet(y.entries) = {f \in Content(n) : f.key # k}
                                   \cup {[key |-> k, value |-> v]}
  BY GrownIs
<1> HIDE DEF y
<1>4. /\ l.leaf /\ r.leaf
      /\ SeqExt!ToSet(y.entries) = SeqExt!ToSet(l.entries) \cup SeqExt!ToSet(r.entries)
  BY <1>1, <1>2, <1>3, Halved DEF Leaves
<1> HIDE DEF l, r, at, root, mine, count, more
<1>5. more \in Nat /\ count < more /\ at + 1 \in 1..more /\ count + 1 \in 1..more
  BY <1>1, <1>2
<1>6. /\ owner'[at + 1] = mine /\ owner'[count + 1] = mine
      /\ \A p \in 1..count : owner'[p] = owner[p]
  <2>1. at + 1 <= count /\ ~(count + 1 <= count) /\ \A p \in 1..count : p \in 1..more
    BY <1>1, <1>5
  <2> QED
    BY <1>1, <1>2, <1>5, <2>1
<1>7. owner'[indexes_'[n].root + 1] = mine
  <2>1. CASE root = indexes_[n].root
    <3>1. root + 1 \in 1..count
      BY <1>1, <2>1
    <3> QED
      BY <1>6, <2>1, <3>1 DEF root, mine
  <2>2. CASE root = count + 1 /\ more = count + 2
    <3>1. root + 1 \in 1..more /\ ~(root + 1 <= count)
      BY <1>1, <2>2
    <3> QED
      BY <1>2, <3>1 DEF root
  <2> QED
    BY <1>2, <2>1, <2>2
<1>8. n \in Names /\ m \in Names /\ \A q \in Live : indexes_[q] # NoIndex
  BY DEF Live
<1>9. m # n => owner'[indexes_'[m].root + 1] = owner[indexes_[m].root + 1]
  <2>1. indexes_[m].root + 1 \in 1..count
    BY OwnerIs DEF count
  <2>2. m # n => indexes_'[m] = indexes_[m]
    BY <1>2, <1>8 DEF IndexesApart
  <2> QED
    BY <1>6, <2>1, <2>2
<1>10. owner'[indexes_'[m].root + 1] = owner[indexes_[m].root + 1]
  BY <1>7, <1>9 DEF mine
<1>11. latest'[m][j] = IF m = n /\ j = k THEN v ELSE latest[m][j]
  BY <1>8
<1>12. m = n /\ e \in SeqExt!ToSet(y.entries) => \E p \in 1..more : Holds(m, j, p)'
  <2>1. ASSUME m = n, NEW p \in 1..more, p = at + 1 \/ p = count + 1,
               e \in SeqExt!ToSet(pages'[p].entries)
        PROVE  Holds(m, j, p)'
    <3>1. pages'[p].leaf /\ owner'[p] = mine
      BY <1>2, <1>4, <1>6, <2>1
    <3> QED
      BY <1>7, <2>1, <3>1 DEF Holds, more
  <2>2. CASE m = n /\ e \in SeqExt!ToSet(l.entries)
    BY <1>2, <1>5, <2>1, <2>2
  <2>3. CASE m = n /\ e \in SeqExt!ToSet(r.entries)
    BY <1>2, <1>5, <2>1, <2>3
  <2> QED
    BY <1>4, <2>2, <2>3
<1>13. CASE m = n /\ j = k
  BY <1>3, <1>11, <1>12, <1>13 DEF more
<1>14. CASE ~(m = n /\ j = k)
  <2>1. PICK p \in 1..Len(pages) : Holds(m, j, p)
    BY <1>14
  <2>2. CASE p = at + 1
    <3>1. m = n
      BY <1>1, <2>1, <2>2 DEF Holds, IndexesApart, mine
    <3>2. e = [key |-> j, value |-> latest[m][j]] /\ e.key = j
      BY <1>11, <1>14
    <3>3. e \in Content(n)
      BY <2>1, <2>2, <3>2 DEF Holds, Content, Node, at
    <3>4. e \in SeqExt!ToSet(y.entries)
      BY <1>3, <1>14, <3>1, <3>2, <3>3
    <3> QED
      BY <1>12, <3>1, <3>4 DEF more
  <2>3. CASE p # at + 1
    <3>1. p # root + 1
      <4>1. CASE root = indexes_[n].root /\ root # at
        <5>1. ~pages[root + 1].leaf
          BY <1>1, <4>1 DEF Node, InnerTo
        <5> QED
          BY <2>1, <5>1 DEF Holds
      <4>2. CASE root = count + 1
        BY <1>1, <2>1, <4>2 DEF count
      <4> QED
        BY <1>2, <4>1, <4>2
    <3>2. p \in 1..count /\ p \in 1..more
      BY <1>1, <1>5, <2>1 DEF count
    <3>3. pages'[p] = pages[p] /\ owner'[p] = owner[p]
      BY <1>2, <1>6, <2>3, <3>1, <3>2
    <3>4. Holds(m, j, p)'
      BY <1>1, <1>5, <1>10, <1>11, <1>14, <2>1, <3>3, HoldsStays DEF count, more
    <3> QED
      BY <3>2, <3>4 DEF more
  <2> QED
    BY <2>2, <2>3
<1> QED
  BY <1>13, <1>14

\* NothingErased is kept.
LEMMA ErasedStep ==
    ASSUME TreeInv, [Next]_vars
    PROVE  NothingErased'
<1> USE DEF TreeInv
<1>1. /\ Len(pages) \in Nat /\ Len(pages') \in Nat
      /\ PagesGood' /\ IndexesApart'
  BY PagesStep, ApartStep DEF PagesGood
<1>2. SUFFICES ASSUME NEW m \in Live', NEW j \in Keys, latest'[m][j] # none
               PROVE  \E p \in 1..Len(pages') : Holds(m, j, p)'
  <2>1. DOMAIN pages' = 1..Len(pages')
    BY <1>1 DEF PagesGood
  <2> QED
    BY <1>2, <2>1 DEF NothingErased, Holds
<1>3. \A n \in Live, k \in Keys :
          latest[n][k] # none => \E p \in 1..Len(pages) : Holds(n, k, p)
  BY ErasedIs
<1>4. /\ latest \in [Names -> [Keys -> Values \cup {none}]]
      /\ indexes_ \in [Names -> {NoIndex} \cup
                                [table : Tables, root : 0..(Len(pages) - 1)]]
      /\ m \in Names
  BY DEF Counters, IndexesApart, Live
<1>5. ASSUME NEW n \in Names, NEW t \in Tables, CreateIndex(n, t)
      PROVE  \E p \in 1..Len(pages') : Holds(m, j, p)'
  <2>1. /\ Len(pages') = Len(pages) + 1
        /\ \A p \in 1..Len(pages) : pages'[p] = pages[p] /\ owner'[p] = owner[p]
        /\ indexes_' = [indexes_ EXCEPT ![n] = [table |-> t, root |-> Len(pages)]]
        /\ latest' = [latest EXCEPT ![n] = [k \in Keys |-> none]]
    BY <1>5, CreateIs
  <2>2. m # n
    BY <1>2, <1>4, <2>1
  <2>3. m \in Live /\ indexes_'[m] = indexes_[m] /\ latest'[m][j] = latest[m][j]
    BY <1>4, <2>1, <2>2 DEF Live
  <2>4. PICK p \in 1..Len(pages) : Holds(m, j, p)
    BY <1>2, <1>3, <2>3
  <2>5. indexes_[m].root + 1 \in 1..Len(pages)
    BY <2>3, OwnerIs
  <2>6. p \in 1..Len(pages') /\ Len(pages) <= Len(pages')
    BY <1>1, <2>1
  <2>7. Holds(m, j, p)'
    BY <1>1, <2>1, <2>3, <2>4, <2>5, <2>6, HoldsStays
  <2> QED
    BY <2>6, <2>7
<1>6. ASSUME NEW n \in Names, NEW t \in Tables, DropIndex(n, t)
      PROVE  \E p \in 1..Len(pages') : Holds(m, j, p)'
  <2>1. /\ pages' = pages /\ owner' = owner
        /\ indexes_' = [indexes_ EXCEPT ![n] = NoIndex]
        /\ latest' = [latest EXCEPT ![n] = [k \in Keys |-> none]]
    BY <1>6 DEF DropIndex
  <2>2. m # n
    BY <1>2, <1>4, <2>1
  <2>3. m \in Live /\ indexes_'[m] = indexes_[m] /\ latest'[m][j] = latest[m][j]
    BY <1>4, <2>1, <2>2 DEF Live
  <2>4. PICK p \in 1..Len(pages) : Holds(m, j, p)
    BY <1>2, <1>3, <2>3
  <2>5. Holds(m, j, p)'
    BY <1>1, <2>1, <2>3, <2>4, HoldsStays
  <2> QED
    BY <2>1, <2>4, <2>5
<1>7. ASSUME NEW n \in Names, NEW k \in Keys, Delete(n, k)
      PROVE  \E p \in 1..Len(pages') : Holds(m, j, p)'
  <2> DEFINE y == RemoveEntry(Node(LeafOf(n)), k)
  <2>1. /\ n \in Live /\ GoodLeaf(y, Len(pages)) /\ Rewritten(LeafOf(n), y)
        /\ latest' = [latest EXCEPT ![n][k] = none]
        /\ UNCHANGED <<indexes_, owner>>
        /\ SeqExt!ToSet(y.entries) = {f \in Content(n) : f.key # k}
    BY <1>7, DeleteIs
  <2> HIDE DEF y
  <2>2. y.leaf /\ SeqExt!ToSet(y.entries) = {f \in Content(n) : f.key # k} \cup {}
    BY <2>1 DEF GoodLeaf, Leaves
  <2>3. (m # n \/ j # k) /\ latest'[m][j] = latest[m][j]
    BY <1>2, <1>4, <2>1
  <2>4. m \in Live
    BY <2>1 DEF Live
  <2>5. PICK p \in 1..Len(pages) : Holds(m, j, p)
    BY <1>2, <1>3, <2>3, <2>4
  <2>6. Holds(m, j, p)'
    BY <2>1, <2>2, <2>3, <2>4, <2>5, RewrittenHolds
  <2> QED
    BY <2>1, <2>5, <2>6 DEF Rewritten
<1>8. ASSUME NEW n \in Names, NEW k \in Keys, NEW v \in Values, Insert(n, k, v)
      PROVE  \E p \in 1..Len(pages') : Holds(m, j, p)'
  <2>1. /\ n \in Live /\ latest' = [latest EXCEPT ![n][k] = v]
        /\ Fits(n, k, v) \/ Splits(n, k, v)
    BY <1>8, InsertIs
  <2>2. latest'[m][j] = IF m = n /\ j = k THEN v ELSE latest[m][j]
    BY <1>4, <2>1
  <2>3. m \in Live
    BY <1>4, <2>1 DEF Live, Fits, Splits, IndexesApart
  <2>4. ~(m = n /\ j = k) => \E p \in 1..Len(pages) : Holds(m, j, p)
    BY <1>2, <1>3, <2>2, <2>3
  <2>5. CASE Fits(n, k, v)
    <3> DEFINE y == Grown(n, k, v)
    <3>1. /\ GoodLeaf(y, Len(pages)) /\ Rewritten(LeafOf(n), y)
          /\ UNCHANGED <<indexes_, owner>>
      BY <2>5 DEF Fits
    <3>2. SeqExt!ToSet(y.entries) = {f \in Content(n) : f.key # k}
                                    \cup {[key |-> k, value |-> v]}
      BY <2>1, GrownIs
    <3> HIDE DEF y
    <3>3. y.leaf
      BY <3>1 DEF GoodLeaf, Leaves
    <3>4. CASE m = n /\ j = k
      <4> DEFINE p == LeafOf(n) + 1
      <4>1. p \in 1..Len(pages) /\ owner[p] = owner[indexes_[n].root + 1]
        BY <1>1, <2>1, LeafForIs
      <4>2. pages'[p] = y /\ Len(pages') = Len(pages)
        BY <3>1 DEF Rewritten
      <4>3. [key |-> j, value |-> latest'[m][j]] \in SeqExt!ToSet(y.entries)
        BY <2>2, <3>2, <3>4
      <4> HIDE DEF p
      <4>4. ASSUME NEW q, q = p PROVE Holds(m, j, q)'
        BY <3>1, <3>3, <3>4, <4>1, <4>2, <4>3, <4>4 DEF Holds
      <4> QED
        BY <4>1, <4>2, <4>4
    <3>5. CASE ~(m = n /\ j = k)
      <4>1. PICK p \in 1..Len(pages) : Holds(m, j, p)
        BY <2>4, <3>5
      <4>2. (m # n \/ j # k) /\ latest'[m][j] = latest[m][j]
        BY <2>2, <3>5
      <4>3. Holds(m, j, p)'
        BY <2>1, <2>3, <3>1, <3>2, <3>3, <4>1, <4>2, RewrittenHolds
      <4> QED
        BY <3>1, <4>1, <4>3 DEF Rewritten
    <3> QED
      BY <3>4, <3>5
  <2>6. CASE Splits(n, k, v)
    BY <1>4, <2>1, <2>3, <2>4, <2>6, SplitHolds
  <2> QED
    BY <2>1, <2>5, <2>6
<1>9. CASE UNCHANGED vars
  <2>1. UNCHANGED <<indexes_, pages, latest, owner>>
    BY <1>9 DEF vars
  <2>2. PICK p \in 1..Len(pages) : Holds(m, j, p)
    BY <1>2, <1>3, <2>1 DEF Live
  <2> QED
    BY <2>1, <2>2 DEF Holds
<1> QED
  BY <1>5, <1>6, <1>7, <1>8, <1>9 DEF Next

-----------------------------------------------------------------------------
(* What searches find.                                                     *)

\* A search that gives f looks at the entries S.
Gives(f, S) ==
    \A k \in Keys : /\ \A e \in S : e.key = k => f[k] = e.value
                    /\ (\A e \in S : e.key # k) => f[k] = none

FoundGood ==
    /\ Found \in [Names -> [Keys -> Values \cup {none}]]
    /\ \A n \in Live : /\ Gives(Found[n], Content(n))
                       /\ \A e \in Content(n) : e \in Entry
    /\ \A n \in Names \ Live : Found[n] = [k \in Keys |-> none]

\* A set of entries gives one value for each key.
LEMMA GivesOne ==
    ASSUME NEW T, NEW f \in [Keys -> T], NEW g \in [Keys -> T], NEW S,
           Gives(f, S), Gives(g, S)
    PROVE  f = g
<1>1. ASSUME NEW k \in Keys PROVE f[k] = g[k]
  <2>1. CASE \A e \in S : e.key # k
    BY <2>1 DEF Gives
  <2>2. CASE \E e \in S : e.key = k
    BY <2>2 DEF Gives
  <2> QED
    BY <2>1, <2>2
<1> QED
  BY <1>1

\* An entry that is put in the place of those of its key.
LEMMA GivesMore ==
    ASSUME NEW T, NEW f \in [Keys -> T], NEW S, Gives(f, S),
           NEW k \in Keys, NEW v, NEW more,
           more = {e \in S : e.key # k} \cup {[key |-> k, value |-> v]}
    PROVE  Gives([f EXCEPT ![k] = v], more)
<1> DEFINE g == [f EXCEPT ![k] = v]
           x == [key |-> k, value |-> v]
<1>1. g[k] = v /\ \A j \in Keys : j # k => g[j] = f[j]
  OBVIOUS
<1>2. x \in more /\ x.key = k /\ x.value = v
  OBVIOUS
<1> HIDE DEF g
<1>3. ASSUME NEW j \in Keys
      PROVE  /\ \A e \in more : e.key = j => g[j] = e.value
             /\ (\A e \in more : e.key # j) => g[j] = none
  <2>1. CASE j = k
    BY <1>1, <1>2, <2>1
  <2>2. CASE j # k
    <3>1. \A e : e.key = j => (e \in more <=> e \in S)
      BY <1>2, <2>2
    <3>2. g[j] = f[j]
      BY <1>1, <2>2
    <3>3. \A e \in more : e.key = j => g[j] = e.value
      BY <3>1, <3>2 DEF Gives
    <3>4. (\A e \in more : e.key # j) => g[j] = none
      BY <3>1, <3>2 DEF Gives
    <3> QED
      BY <3>3, <3>4
  <2> QED
    BY <2>1, <2>2
<1> QED
  BY <1>3 DEF Gives, g

\* The entries of a key taken away.
LEMMA GivesLess ==
    ASSUME NEW T, NEW f \in [Keys -> T], NEW S, Gives(f, S), NEW k \in Keys,
           NEW less, less = {e \in S : e.key # k}
    PROVE  Gives([f EXCEPT ![k] = none], less)
<1> DEFINE g == [f EXCEPT ![k] = none]
<1>1. g[k] = none /\ \A j \in Keys : j # k => g[j] = f[j]
  OBVIOUS
<1> HIDE DEF g
<1>2. ASSUME NEW j \in Keys
      PROVE  /\ \A e \in less : e.key = j => g[j] = e.value
             /\ (\A e \in less : e.key # j) => g[j] = none
  <2>1. CASE j = k
    BY <1>1, <2>1
  <2>2. CASE j # k
    <3>1. \A e : e.key = j => (e \in less <=> e \in S)
      BY <2>2
    <3>2. g[j] = f[j]
      BY <1>1, <2>2
    <3>3. \A e \in less : e.key = j => g[j] = e.value
      BY <3>1, <3>2 DEF Gives
    <3>4. (\A e \in less : e.key # j) => g[j] = none
      BY <3>1, <3>2 DEF Gives
    <3> QED
      BY <3>3, <3>4
  <2> QED
    BY <2>1, <2>2
<1> QED
  BY <1>2 DEF Gives, g

\* Searches give the entries of the leaf that descents lead to.
LEMMA FoundNow == PagesGood /\ IndexesApart => FoundGood
<1> SUFFICES ASSUME PagesGood, IndexesApart PROVE FoundGood
  OBVIOUS
<1>1. ASSUME NEW n \in Live PROVE \A e \in Content(n) : e \in Entry
  <2>1. Sorted(Node(LeafOf(n)).entries)
    BY LeafForIs DEF GoodLeaf
  <2> QED
    BY <2>1, OneEach DEF Content
<1>2. ASSUME NEW n \in Live PROVE Gives(Found[n], Content(n))
  BY FoundIs DEF Gives
<1>3. \A n \in Names \ Live : Found[n] = [k \in Keys |-> none]
  BY DEF Found
<1>4. ASSUME NEW n \in Names, NEW k \in Keys PROVE Found[n][k] \in Values \cup {none}
  <2>1. CASE n \notin Live
    BY <1>3, <2>1
  <2>2. CASE n \in Live
    <3>1. CASE \A e \in Content(n) : e.key # k
      BY <1>2, <2>2, <3>1 DEF Gives
    <3>2. CASE \E e \in Content(n) : e.key = k
      <4>1. PICK e \in Content(n) : e.key = k
        BY <3>2
      <4>2. Found[n][k] = e.value /\ e \in Entry
        BY <1>1, <1>2, <2>2, <4>1 DEF Gives
      <4> QED
        BY <4>2 DEF Entry
    <3> QED
      BY <3>1, <3>2
  <2> QED
    BY <2>1, <2>2
<1>5. Found = [n \in Names |-> [k \in Keys |-> Found[n][k]]]
  BY DEF Found
<1>6. Found \in [Names -> [Keys -> Values \cup {none}]]
  <2> DEFINE g == Found
  <2>1. g = [n \in Names |-> [k \in Keys |-> g[n][k]]]
        /\ \A n \in Names, k \in Keys : g[n][k] \in Values \cup {none}
    BY <1>4, <1>5
  <2> HIDE DEF g
  <2>2. g \in [Names -> [Keys -> Values \cup {none}]]
    BY <2>1
  <2> QED
    BY <2>2 DEF g
<1> QED
  BY <1>1, <1>2, <1>3, <1>6 DEF FoundGood

\* The same after a step.
LEMMA FoundNext == PagesGood' /\ IndexesApart' => FoundGood'
  BY FoundNow, PTL

\* An operation on one index leaves what the others hold: their pages have
\* another owner.
LEMMA OthersKeep ==
    ASSUME PagesGood, IndexesApart, NEW n \in Live, NEW m \in Live, m # n,
           indexes_'[m] = indexes_[m],
           \A p \in 1..Len(pages) :
               p # LeafOf(n) + 1 /\ p # indexes_[n].root + 1 => pages'[p] = pages[p]
    PROVE  Content(m)' = Content(m)
<1>1. /\ LeafOf(n) + 1 \in 1..Len(pages) /\ indexes_[n].root + 1 \in 1..Len(pages)
      /\ owner[LeafOf(n) + 1] = owner[indexes_[n].root + 1]
  BY LeafPlaces
<1>2. /\ LeafOf(m) + 1 \in 1..Len(pages) /\ indexes_[m].root + 1 \in 1..Len(pages)
      /\ owner[LeafOf(m) + 1] = owner[indexes_[m].root + 1]
  BY LeafPlaces
<1>3. owner[indexes_[m].root + 1] # owner[indexes_[n].root + 1]
  BY DEF IndexesApart
<1>4. /\ pages'[indexes_[m].root + 1] = pages[indexes_[m].root + 1]
      /\ pages'[LeafOf(m) + 1] = pages[LeafOf(m) + 1]
  BY <1>1, <1>2, <1>3
<1>5. LeafOf(m)' = LeafOf(m)
  BY <1>4 DEF LeafOf, Node
<1> QED
  BY <1>4, <1>5 DEF Content, Node

\* Pages that are added change nothing.
LEMMA AllKeep ==
    ASSUME PagesGood, IndexesApart, NEW m \in Live, indexes_'[m] = indexes_[m],
           \A p \in 1..Len(pages) : pages'[p] = pages[p]
    PROVE  Content(m)' = Content(m)
<1>1. LeafOf(m) + 1 \in 1..Len(pages) /\ indexes_[m].root + 1 \in 1..Len(pages)
  BY LeafPlaces
<1>2. LeafOf(m)' = LeafOf(m)
  BY <1>1 DEF LeafOf, Node
<1> QED
  BY <1>1, <1>2 DEF Content, Node

\* A leaf that is written stays the leaf of its index.
LEMMA LeafKeeps ==
    ASSUME PagesGood, IndexesApart, NEW n \in Live, NEW x, x.leaf,
           Rewritten(LeafOf(n), x), UNCHANGED indexes_
    PROVE  Content(n)' = SeqExt!ToSet(x.entries)
<1>1. /\ LeafOf(n) \in 0..(Len(pages) - 1) /\ indexes_[n].root \in 0..(Len(pages) - 1)
      /\ Len(pages) \in Nat
      /\ \/ LeafOf(n) = indexes_[n].root
         \/ /\ LeafOf(n) # indexes_[n].root
            /\ Node(indexes_[n].root) = InnerTo(LeafOf(n))
  BY LeafForIs DEF PagesGood
<1>2. /\ pages'[LeafOf(n) + 1] = x
      /\ \A q \in 1..Len(pages) : q # LeafOf(n) + 1 => pages'[q] = pages[q]
  BY DEF Rewritten
<1>3. LeafOf(n)' = LeafOf(n)
  <2>1. CASE LeafOf(n) = indexes_[n].root
    BY <1>2, <2>1 DEF LeafOf, Node
  <2>2. CASE LeafOf(n) # indexes_[n].root /\ Node(indexes_[n].root) = InnerTo(LeafOf(n))
    <3> DEFINE at == LeafOf(n)
    <3>1. pages'[indexes_[n].root + 1] = InnerTo(at)
      BY <1>1, <1>2, <2>2 DEF Node
    <3> HIDE DEF at
    <3>2. IF pages'[indexes_[n].root + 1].leaf THEN FALSE
          ELSE pages'[indexes_[n].root + 1].children[1] = at
      BY <3>1 DEF InnerTo
    <3>3. LeafOf(n)' = IF pages'[indexes_[n].root + 1].leaf THEN indexes_[n].root
                       ELSE pages'[indexes_[n].root + 1].children[1]
      BY DEF LeafOf, Node
    <3> QED
      BY <3>2, <3>3 DEF at
  <2> QED
    BY <1>1, <2>1, <2>2
<1> QED
  BY <1>2, <1>3 DEF Content, Node

-----------------------------------------------------------------------------
(* The operations are those of IndexService.                               *)

\* What searches find is determined by what the indexes hold.
LEMMA FoundSame ==
    ASSUME FoundGood, FoundGood', NEW n \in Names,
           NEW f \in [Keys -> Values \cup {none}],
           n \in Live' => Gives(f, Content(n)'), n \notin Live' => f = [k \in Keys |-> none]
    PROVE  Found'[n] = f
<1>1. CASE n \in Live'
  <2>1. Found'[n] \in [Keys -> Values \cup {none}] /\ Gives(Found'[n], Content(n)')
    BY <1>1 DEF FoundGood, Gives
  <2> QED
    BY <1>1, <2>1, GivesOne
<1>2. CASE n \notin Live'
  BY <1>2 DEF FoundGood
<1> QED
  BY <1>1, <1>2

\* What the searches in the other indexes find stays.
LEMMA FoundOthers ==
    ASSUME FoundGood, FoundGood', NEW m \in Names,
           indexes_'[m] = indexes_[m],
           m \in Live => Content(m)' = Content(m)
    PROVE  Found'[m] = Found[m]
<1>1. m \in Live' <=> m \in Live
  BY DEF Live
<1>2. Found[m] \in [Keys -> Values \cup {none}]
  BY DEF FoundGood
<1>3. m \in Live' => Gives(Found[m], Content(m)')
  BY <1>1 DEF FoundGood
<1>4. m \notin Live' => Found[m] = [k \in Keys |-> none]
  BY <1>1 DEF FoundGood
<1> QED
  BY <1>2, <1>3, <1>4, FoundSame

\* The searches in one index change.
LEMMA FoundChanges ==
    ASSUME FoundGood, FoundGood', NEW n \in Names, NEW f, Found'[n] = f,
           \A m \in Names : m # n => Found'[m] = Found[m]
    PROVE  Found' = [Found EXCEPT ![n] = f]
<1>1. /\ Found \in [Names -> [Keys -> Values \cup {none}]]
      /\ Found' \in [Names -> [Keys -> Values \cup {none}]]
  BY DEF FoundGood
<1> QED
  BY <1>1

TableOf == [n \in Names |-> indexes_[n].table]

\* Which table an index is on; only an index that exists is on one.
LEMMA TableOfIs ==
    ASSUME IndexesApart
    PROVE  \A n \in Names : /\ TableOf[n] = indexes_[n].table
                            /\ TableOf[n] # none <=> n \in Live
<1>1. ASSUME NEW n \in Names PROVE indexes_[n].table # none <=> n \in Live
  <2>1. CASE n \in Live
    <3>1. indexes_[n].table \in Tables
      BY <2>1, OwnerIs DEF IndexesApart, Live
    <3> QED
      BY <2>1, <3>1
  <2>2. CASE n \notin Live
    BY <2>2 DEF Live, NoIndex
  <2> QED
    BY <2>1, <2>2
<1> QED
  BY <1>1 DEF TableOf

\* Creating an index.
LEMMA CreateStep ==
    ASSUME TreeInv, PagesGood', IndexesApart',
           NEW n \in Names, NEW t \in Tables, CreateIndex(n, t)
    PROVE  IX!Create(n, t)
<1> USE DEF TreeInv
<1>1. /\ Len(pages') = Len(pages) + 1 /\ Len(pages) \in Nat
      /\ \A p \in 1..Len(pages) : pages'[p] = pages[p]
      /\ pages'[Len(pages) + 1] = EmptyLeaf
      /\ indexes_' = [indexes_ EXCEPT ![n] = [table |-> t, root |-> Len(pages)]]
      /\ latest' = [latest EXCEPT ![n] = [k \in Keys |-> none]]
      /\ SeqExt!ToSet(EmptyLeaf.entries) = {}
  BY CreateIs DEF PagesGood
<1>2. /\ indexes_'[n] = [table |-> t, root |-> Len(pages)]
      /\ \A m \in Names : m # n => indexes_'[m] = indexes_[m]
      /\ indexes_ = [m \in Names |-> indexes_[m]]
      /\ indexes_' = [m \in Names |-> indexes_'[m]]
  BY <1>1 DEF IndexesApart
<1>3. FoundGood /\ FoundGood'
  BY FoundNow, FoundNext
<1>4. Content(n)' = {}
  <2>1. LeafOf(n)' = Len(pages)
    BY <1>1, <1>2 DEF LeafOf, Node, EmptyLeaf
  <2> QED
    BY <1>1, <2>1 DEF Content, Node
<1>5. Found'[n] = [k \in Keys |-> none]
  <2> DEFINE f == [k \in Keys |-> none]
  <2>1. Gives(f, {}) /\ f \in [Keys -> Values \cup {none}]
    BY DEF Gives
  <2> HIDE DEF f
  <2>2. n \notin Live' => f = [k \in Keys |-> none]
    BY DEF f
  <2> QED
    BY <1>3, <1>4, <2>1, <2>2, FoundSame DEF f
<1>6. ASSUME NEW m \in Names, m # n PROVE Found'[m] = Found[m]
  BY <1>1, <1>2, <1>3, <1>6, AllKeep, FoundOthers
<1>7. Found' = [Found EXCEPT ![n] = [k \in Keys |-> none]]
  BY <1>3, <1>5, <1>6, FoundChanges
<1>8. TableOf[n] # t /\ TableOf' = [TableOf EXCEPT ![n] = t]
  BY <1>2 DEF CreateIndex, TableOf
<1> QED
  BY <1>1, <1>7, <1>8 DEF IX!Create, IX!Empty, TableOf

\* Dropping an index.
LEMMA DropStep ==
    ASSUME TreeInv, PagesGood', IndexesApart',
           NEW n \in Names, NEW t \in Tables, DropIndex(n, t)
    PROVE  IX!Drop(n, t)
<1> USE DEF TreeInv
<1>1. /\ pages' = pages
      /\ indexes_' = [indexes_ EXCEPT ![n] = NoIndex]
      /\ latest' = [latest EXCEPT ![n] = [k \in Keys |-> none]]
      /\ indexes_[n].table = t
  BY DEF DropIndex
<1>2. /\ indexes_'[n] = NoIndex
      /\ \A m \in Names : m # n => indexes_'[m] = indexes_[m]
  BY <1>1 DEF IndexesApart
<1>3. FoundGood /\ FoundGood'
  BY FoundNow, FoundNext
<1>4. Found'[n] = [k \in Keys |-> none]
  BY <1>2, <1>3 DEF FoundGood, Live
<1>5. ASSUME NEW m \in Names, m # n PROVE Found'[m] = Found[m]
  BY <1>1, <1>2, <1>3, <1>5, AllKeep, FoundOthers
<1>6. Found' = [Found EXCEPT ![n] = [k \in Keys |-> none]]
  BY <1>3, <1>4, <1>5, FoundChanges
<1>7. TableOf[n] = t /\ TableOf' = [TableOf EXCEPT ![n] = none]
  <2>1. indexes_'[n].table = none
    BY <1>2 DEF NoIndex
  <2>2. \A m \in Names : indexes_'[m].table = IF m = n THEN none ELSE indexes_[m].table
    BY <1>2, <2>1
  <2>3. indexes_[n].table = t
    BY <1>1
  <2> QED
    BY <2>2, <2>3 DEF TableOf
<1> QED
  BY <1>1, <1>6, <1>7 DEF IX!Drop, IX!Empty, TableOf

\* Removing a key.
LEMMA DeleteStep ==
    ASSUME TreeInv, PagesGood', IndexesApart',
           NEW n \in Names, NEW k \in Keys, Delete(n, k)
    PROVE  IX!Delete(n, k)
<1> USE DEF TreeInv
<1> DEFINE y == RemoveEntry(Node(LeafOf(n)), k)
<1>1. /\ n \in Live /\ GoodLeaf(y, Len(pages)) /\ Rewritten(LeafOf(n), y)
      /\ latest' = [latest EXCEPT ![n][k] = none]
      /\ UNCHANGED indexes_
      /\ SeqExt!ToSet(y.entries) = {f \in Content(n) : f.key # k}
  BY DeleteIs
<1> HIDE DEF y
<1>2. y.leaf
  BY <1>1 DEF GoodLeaf, Leaves
<1>3. FoundGood /\ FoundGood'
  BY FoundNow, FoundNext
<1>4. Content(n)' = {f \in Content(n) : f.key # k}
  BY <1>1, <1>2, LeafKeeps
<1>5. Found'[n] = [Found[n] EXCEPT ![k] = none]
  <2> DEFINE g == Found[n]
             f == [g EXCEPT ![k] = none]
  <2>1. g \in [Keys -> Values \cup {none}] /\ Gives(g, Content(n))
    BY <1>1, <1>3 DEF FoundGood
  <2> HIDE DEF g
  <2>2. Gives(f, Content(n)')
    BY <1>4, <2>1, GivesLess
  <2>3. f \in [Keys -> Values \cup {none}]
    BY <2>1
  <2>4. n \in Live'
    BY <1>1 DEF Live
  <2> HIDE DEF f
  <2>5. Found'[n] = f
    BY <1>3, <2>2, <2>3, <2>4, FoundSame
  <2> QED
    BY <2>5 DEF f, g
<1>6. ASSUME NEW m \in Names, m # n PROVE Found'[m] = Found[m]
  <2>1. m \in Live => Content(m)' = Content(m)
    BY <1>1, <1>6, OthersKeep DEF Rewritten
  <2> QED
    BY <1>1, <1>3, <2>1, FoundOthers
<1>7. Found' = [Found EXCEPT ![n] = [Found[n] EXCEPT ![k] = none]]
  BY <1>3, <1>5, <1>6, FoundChanges
<1>8. Found' = [Found EXCEPT ![n][k] = none]
  BY <1>7
<1>9. TableOf[n] # none /\ TableOf' = TableOf
  BY <1>1, TableOfIs DEF TableOf
<1> QED
  BY <1>1, <1>8, <1>9 DEF IX!Delete, TableOf

\* The abstract module counts with an operator of its own.
LEMMA SameCount == \A S : IX!Cardinality(S) = Cardinality(S)
  BY DEF IX!Cardinality, Cardinality

\* An insertion as IndexService has it: with all its entries, an index knows
\* certain keys, and it forgets some of them.
InsertsAs(n, k, v, all, known, forgets, after) ==
    /\ latest' = [latest EXCEPT ![n][k] = v] /\ TableOf' = TableOf
    /\ all = [Found[n] EXCEPT ![k] = v]
    /\ known = {j \in Keys : all[j] # none}
    /\ forgets \in SUBSET known /\ forgets # known
    /\ forgets # {} => Cardinality(known) >= MaxKeys
    /\ after = [j \in Keys |-> IF j \in forgets THEN none ELSE all[j]]
    /\ Found' = [Found EXCEPT ![n] = after]

\* Such an insertion is one of IndexService.
LEMMA InsertWith ==
    ASSUME IndexesApart, NEW n \in Live, NEW k \in Keys, NEW v \in Values,
           NEW all, NEW known, NEW forgets, NEW after,
           InsertsAs(n, k, v, all, known, forgets, after)
    PROVE  IX!Insert(n, k, v)
<1> USE DEF InsertsAs
<1> DEFINE Left(x, g) ==
             /\ g # {} => IX!Cardinality(IX!Known(x)) >= MaxKeys
             /\ g # IX!Known(x)
             /\ Found' = [Found EXCEPT ![n] =
                    [j \in Keys |-> IF j \in g THEN none ELSE x[j]]]
<1>1. TableOf[n] # none /\ n \in Names
  BY TableOfIs DEF Live
<1>2. IX!Known(all) = known
  BY DEF IX!Known
<1>3. Left(all, forgets)
  BY <1>2, SameCount
<1> HIDE DEF Left
<1>4. \E g \in SUBSET IX!Known(all) : Left(all, g)
  BY <1>2, <1>3
<1>5. \E g \in SUBSET IX!Known([Found[n] EXCEPT ![k] = v]) :
          Left([Found[n] EXCEPT ![k] = v], g)
  BY <1>4
<1>6. (TableOf[n] # none) /\ TableOf' = TableOf
  BY <1>1
<1>7. [m \in Names |-> indexes_[m].table][n] # none
      /\ UNCHANGED [m \in Names |-> indexes_[m].table]
  BY <1>6 DEF TableOf
<1> QED
  BY <1>5, <1>7 DEF IX!Insert, Left

\* What an index knows when an entry has been put into its leaf.
GrowsTo(n, k, v, all, S) ==
    /\ all = [Found[n] EXCEPT ![k] = v]
    /\ S = SeqExt!ToSet(Grown(n, k, v).entries)

\* The leaf's entries give what the index knows, each key its value.
LEMMA GrownGives ==
    ASSUME PagesGood, IndexesApart, FoundGood,
           NEW n \in Live, NEW k \in Keys, NEW v \in Values,
           NEW all, NEW S, GrowsTo(n, k, v, all, S)
    PROVE  /\ all \in [Keys -> Values \cup {none}] /\ Gives(all, S)
           /\ \A e \in S : e \in Entry /\ all[e.key] = e.value
           /\ \A j : (j \in Keys /\ all[j] # none) <=> \E e \in S : e.key = j
<1> USE DEF GrowsTo
<1>1. Found[n] \in [Keys -> Values \cup {none}] /\ Gives(Found[n], Content(n))
  BY DEF FoundGood, Live
<1>2. S = {f \in Content(n) : f.key # k} \cup {[key |-> k, value |-> v]}
      /\ Sorted(Grown(n, k, v).entries)
  BY GrownIs
<1>3. Gives(all, S)
  BY <1>1, <1>2, GivesMore
<1>4. all \in [Keys -> Values \cup {none}]
  BY <1>1
<1>5. \A e \in S : e \in Entry
  BY <1>2, OneEach
<1>6. \A e \in S : e.key \in Keys /\ e.value \in Values
  BY <1>5 DEF Entry
<1>7. \A e \in S : all[e.key] = e.value /\ all[e.key] # none
  BY <1>3, <1>6 DEF Gives
<1>8. ASSUME NEW j \in Keys, all[j] # none PROVE \E e \in S : e.key = j
  BY <1>3, <1>8 DEF Gives
<1> QED
  BY <1>3, <1>4, <1>5, <1>6, <1>7, <1>8

\* An insertion that fits forgets nothing.
LEMMA FitsStep ==
    ASSUME TreeInv, PagesGood', IndexesApart',
           NEW n \in Live, NEW k \in Keys, NEW v \in Values,
           latest' = [latest EXCEPT ![n][k] = v], Fits(n, k, v)
    PROVE  IX!Insert(n, k, v)
<1> USE DEF TreeInv
<1> DEFINE y == Grown(n, k, v)
           S == SeqExt!ToSet(y.entries)
           all == [Found[n] EXCEPT ![k] = v]
           known == {j \in Keys : all[j] # none}
           forgets == {}
           f == [j \in Keys |-> IF j \in forgets THEN none ELSE all[j]]
<1>1. GoodLeaf(y, Len(pages)) /\ Rewritten(LeafOf(n), y) /\ UNCHANGED indexes_
  BY DEF Fits
<1>2. FoundGood /\ FoundGood' /\ n \in Names
  BY FoundNow, FoundNext DEF Live
<1>3. all \in [Keys -> Values \cup {none}] /\ Gives(all, S)
  <2>1. GrowsTo(n, k, v, all, S)
    BY DEF GrowsTo
  <2> HIDE DEF all, S, y
  <2> QED
    BY <1>2, <2>1, GrownGives
<1>4. all[k] = v
  BY <1>2 DEF FoundGood
<1>5. Content(n)' = S
  <2>1. y.leaf
    BY <1>1 DEF GoodLeaf, Leaves
  <2> HIDE DEF y
  <2> QED
    BY <1>1, <2>1, LeafKeeps
<1> HIDE DEF y, S, all
<1>6. f = all
  BY <1>3
<1> HIDE DEF f
<1>7. Found'[n] = f
  <2>1. n \in Live'
    BY <1>1 DEF Live
  <2> QED
    BY <1>2, <1>3, <1>5, <1>6, <2>1, FoundSame
<1>8. ASSUME NEW m \in Names, m # n PROVE Found'[m] = Found[m]
  <2>1. m \in Live => Content(m)' = Content(m)
    BY <1>1, <1>8, OthersKeep DEF Rewritten
  <2> QED
    BY <1>1, <1>2, <2>1, FoundOthers
<1>9. Found' = [Found EXCEPT ![n] = f]
  BY <1>2, <1>7, <1>8, FoundChanges
<1>10. k \in known
  BY <1>4
<1>11. TableOf' = TableOf
  BY <1>1 DEF TableOf
<1> HIDE DEF known
<1>12. /\ forgets \in SUBSET known /\ forgets # known
       /\ forgets # {} => Cardinality(known) >= MaxKeys
       /\ IndexesApart
  BY <1>10
<1> HIDE DEF forgets
<1>13. f = [j \in Keys |-> IF j \in forgets THEN none ELSE all[j]]
  BY DEF f
<1>14. all = [Found[n] EXCEPT ![k] = v] /\ known = {j \in Keys : all[j] # none}
  BY DEF all, known
<1>15. InsertsAs(n, k, v, all, known, forgets, f)
  BY <1>9, <1>11, <1>12, <1>13, <1>14 DEF InsertsAs
<1> QED
  BY <1>12, <1>15, InsertWith

\* The keys of a sorted leaf are as many as its entries.
LEMMA KeyCount ==
    ASSUME NEW s, Sorted(s)
    PROVE  Cardinality({e.key : e \in SeqExt!ToSet(s)}) >= Len(s)
<1> DEFINE K == {e.key : e \in SeqExt!ToSet(s)}
           g == [i \in 1..Len(s) |-> s[i].key]
<1>1. /\ s \in Seq(Entry) /\ Len(s) \in Nat
      /\ \A i \in 1..Len(s) : s[i].key \in Keys /\ s[i].key \in Int
  BY SortedIs
<1>2. \A e : e \in SeqExt!ToSet(s) <=> \E i \in 1..Len(s) : s[i] = e
  BY <1>1, Elements
<1>3. \A i \in 1..Len(s) : s[i].key \in K
  BY <1>2
<1>4. K \subseteq Keys
  BY <1>1, <1>2
<1>5. IsFiniteSet(Keys)
  BY FS_Interval DEF Keys
<1>6. IsFiniteSet(K)
  BY <1>4, <1>5, FS_Subset
<1> HIDE DEF K
<1>7. ASSUME NEW i \in 1..Len(s), NEW j \in 1..Len(s), g[i] = g[j] PROVE i = j
  <2>1. ~(i < j) /\ ~(j < i)
    BY <1>1, <1>7 DEF Sorted
  <2> QED
    BY <1>1, <2>1
<1>8. g \in Injection(1..Len(s), K)
  BY <1>3, <1>7 DEF Injection, IsInjective
<1>9. Cardinality(1..Len(s)) <= Cardinality(K)
  BY <1>6, <1>8, FS_Injection
<1>10. Cardinality(1..Len(s)) = Len(s)
  <2>1. Cardinality(1..Len(s)) = IF 1 > Len(s) THEN 0 ELSE Len(s) - 1 + 1
    BY <1>1, FS_Interval
  <2> QED
    BY <1>1, <2>1
<1>11. Cardinality(K) \in Nat
  BY <1>6, FS_CardinalityType
<1> QED
  BY <1>1, <1>9, <1>10, <1>11 DEF K

\* The leaf that a split leads an index to is the right half, and no page of
\* another index has changed.
LEMMA SplitContents ==
    ASSUME PagesGood, IndexesApart,
           NEW n \in Live, NEW k \in Keys, NEW v \in Values, Splits(n, k, v)
    PROVE  /\ Content(n)' = SeqExt!ToSet(Split(Grown(n, k, v))[2].entries)
           /\ n \in Live' /\ TableOf' = TableOf
           /\ \A m \in Names : m # n => /\ indexes_'[m] = indexes_[m]
                                        /\ m \in Live => Content(m)' = Content(m)
<1> DEFINE at == LeafOf(n)
           count == Len(pages)
           root == indexes_'[n].root
           r == Split(Grown(n, k, v))[2]
<1>1. /\ \/ root = indexes_[n].root
         \/ root = count + 1
      /\ indexes_' = [indexes_ EXCEPT ![n].root = root]
      /\ pages'[count + 1] = r /\ pages'[root + 1] = InnerTo(count)
      /\ \A p \in 1..count : p \notin {at + 1, root + 1} => pages'[p] = pages[p]
  BY DEF Splits
<1>2. count \in Nat /\ n \in Names /\ indexes_[n] # NoIndex
  BY DEF PagesGood, Live
<1>3. /\ indexes_[n] \in [table : Tables, root : 0..(count - 1)]
      /\ indexes_'[n] = [indexes_[n] EXCEPT !.root = root]
      /\ \A m \in Names : m # n => indexes_'[m] = indexes_[m]
  BY <1>1, <1>2, OwnerIs DEF IndexesApart
<1>4. indexes_'[n].table = indexes_[n].table /\ indexes_[n].table \in Tables
  BY <1>3
<1>5. n \in Live'
  <2>1. indexes_'[n] # NoIndex
    BY <1>4 DEF NoIndex
  <2> QED
    BY <1>2, <2>1 DEF Live
<1>6. TableOf' = TableOf
  BY <1>3, <1>4 DEF TableOf
<1>7. Content(n)' = SeqExt!ToSet(r.entries)
  <2>1. LeafOf(n)' = count
    <3>1. LeafOf(n)' = IF pages'[root + 1].leaf THEN root
                       ELSE pages'[root + 1].children[1]
      BY DEF LeafOf, Node
    <3> HIDE DEF root, count
    <3>2. ~pages'[root + 1].leaf /\ pages'[root + 1].children[1] = count
      BY <1>1 DEF InnerTo
    <3> QED
      BY <3>1, <3>2
  <2> HIDE DEF r, count
  <2> QED
    BY <1>1, <2>1 DEF Content, Node
<1>8. ASSUME NEW m \in Names, m # n, m \in Live PROVE Content(m)' = Content(m)
  <2>1. \A p \in 1..count :
            p # at + 1 /\ p # indexes_[n].root + 1 => pages'[p] = pages[p]
    <3> HIDE DEF root, at, count
    <3>1. \A p \in 1..count : p # indexes_[n].root + 1 => p # root + 1
      BY <1>1, <1>2
    <3> QED
      BY <1>1, <3>1
  <2> QED
    BY <1>3, <1>8, <2>1, OthersKeep
<1> QED
  BY <1>3, <1>5, <1>6, <1>7, <1>8

\* An insertion that splits the leaf forgets the keys of the left half.
LEMMA SplitsStep ==
    ASSUME TreeInv, PagesGood', IndexesApart',
           NEW n \in Live, NEW k \in Keys, NEW v \in Values,
           latest' = [latest EXCEPT ![n][k] = v], Splits(n, k, v)
    PROVE  IX!Insert(n, k, v)
<1> USE DEF TreeInv
<1> DEFINE y == Grown(n, k, v)
           l == Split(y)[1]
           r == Split(y)[2]
           S == SeqExt!ToSet(y.entries)
           L == SeqExt!ToSet(l.entries)
           R == SeqExt!ToSet(r.entries)
           all == [Found[n] EXCEPT ![k] = v]
           known == {j \in Keys : all[j] # none}
           forgets == {e.key : e \in L}
           f == [j \in Keys |-> IF j \in forgets THEN none ELSE all[j]]
<1>1. FoundGood /\ FoundGood' /\ n \in Names
  BY FoundNow, FoundNext DEF Live
<1>2. /\ all \in [Keys -> Values \cup {none}] /\ Gives(all, S)
      /\ \A e \in S : e \in Entry /\ all[e.key] = e.value
      /\ known = {e.key : e \in S}
  <2>1. GrowsTo(n, k, v, all, S) /\ known = {j \in Keys : all[j] # none}
    BY DEF GrowsTo
  <2> HIDE DEF all, known, S, y
  <2>2. /\ all \in [Keys -> Values \cup {none}] /\ Gives(all, S)
        /\ \A e \in S : e \in Entry /\ all[e.key] = e.value
        /\ \A j : (j \in Keys /\ all[j] # none) <=> \E e \in S : e.key = j
    BY <1>1, <2>1, GrownGives
  <2>3. known = {e.key : e \in S}
    BY <2>1, <2>2
  <2> QED
    BY <2>2, <2>3
<1>3. y \in Leaves /\ Sorted(y.entries) /\ Len(y.entries) = MaxKeys /\ Len(pages) \in Nat
  BY GrownIs DEF Splits, PagesGood
<1> HIDE DEF y
<1>4. /\ S = L \cup R
      /\ \A e \in L, g \in R : e.key # g.key
      /\ r \in Leaves /\ Len(r.entries) \in 1..(MaxKeys - 1)
  BY <1>3, Halved
<1>5. \E e : e \in R
  <2>1. r.entries \in Seq(Entry)
    BY <1>4 DEF Leaves
  <2>2. 1 \in 1..Len(r.entries)
    BY <1>4
  <2> QED
    BY <2>1, <2>2, Elements
<1>6. /\ Content(n)' = R /\ n \in Live' /\ TableOf' = TableOf
      /\ \A m \in Names : m # n => /\ indexes_'[m] = indexes_[m]
                                   /\ m \in Live => Content(m)' = Content(m)
  BY SplitContents DEF y
<1>7. Cardinality(known) >= MaxKeys
  <2>1. Cardinality({e.key : e \in S}) >= Len(y.entries)
    BY <1>3, KeyCount
  <2> HIDE DEF known, S
  <2> QED
    BY <1>2, <1>3, <2>1
<1> HIDE DEF l, r, S, L, R, all, known
<1>8. forgets \in SUBSET known /\ forgets # known
  <2>1. \A e \in L : e.key \in known
    BY <1>2, <1>4
  <2>2. PICK e \in R : TRUE
    BY <1>5
  <2>3. e.key \in known /\ e.key \notin forgets
    BY <1>2, <1>4, <2>2
  <2> QED
    BY <2>1, <2>3
<1>9. f \in [Keys -> Values \cup {none}]
  BY <1>2
<1>10. Gives(f, R)
  <2>1. ASSUME NEW j \in Keys
        PROVE  /\ \A e \in R : e.key = j => f[j] = e.value
               /\ (\A e \in R : e.key # j) => f[j] = none
    <3>1. \A e \in R : e.key = j => j \notin forgets /\ all[j] = e.value
      BY <1>2, <1>4
    <3>2. ASSUME \A e \in R : e.key # j, j \notin forgets PROVE all[j] = none
      <4>1. \A e \in S : e.key # j
        BY <1>4, <3>2
      <4> QED
        BY <1>2, <4>1 DEF Gives
    <3>3. f[j] = IF j \in forgets THEN none ELSE all[j]
      OBVIOUS
    <3> HIDE DEF f, forgets
    <3> QED
      BY <3>1, <3>2, <3>3
  <2> HIDE DEF f
  <2> QED
    BY <2>1 DEF Gives
<1>11. f = [j \in Keys |-> IF j \in forgets THEN none ELSE all[j]]
  OBVIOUS
<1> HIDE DEF f, forgets
<1>12. Found'[n] = f
  BY <1>1, <1>6, <1>9, <1>10, FoundSame
<1>13. ASSUME NEW m \in Names, m # n PROVE Found'[m] = Found[m]
  BY <1>1, <1>6, <1>13, FoundOthers
<1>14. Found' = [Found EXCEPT ![n] = f]
  BY <1>1, <1>12, <1>13, FoundChanges
<1>15. all = [Found[n] EXCEPT ![k] = v] /\ known = {j \in Keys : all[j] # none}
  BY DEF all, known
<1>16. InsertsAs(n, k, v, all, known, forgets, f)
  BY <1>6, <1>7, <1>8, <1>11, <1>14, <1>15 DEF InsertsAs
<1> QED
  BY <1>16, InsertWith

\* Every step is one of IndexService, or changes nothing there.
LEMMA ServiceStep ==
    ASSUME TreeInv, [Next]_vars, PagesGood', IndexesApart'
    PROVE  [IX!Next]_(IX!vars)
<1>1. ASSUME NEW n \in Names, NEW t \in Tables, CreateIndex(n, t)
      PROVE  IX!Next
  BY <1>1, CreateStep DEF IX!Next
<1>2. ASSUME NEW n \in Names, NEW t \in Tables, DropIndex(n, t)
      PROVE  IX!Next
  BY <1>2, DropStep DEF IX!Next
<1>3. ASSUME NEW n \in Names, NEW k \in Keys, Delete(n, k)
      PROVE  IX!Next
  BY <1>3, DeleteStep DEF IX!Next
<1>4. ASSUME NEW n \in Names, NEW k \in Keys, NEW v \in Values, Insert(n, k, v)
      PROVE  IX!Next
  <2>1. /\ n \in Live /\ latest' = [latest EXCEPT ![n][k] = v]
        /\ Fits(n, k, v) \/ Splits(n, k, v)
    BY <1>4, InsertIs DEF TreeInv
  <2>2. IX!Insert(n, k, v)
    BY <2>1, FitsStep, SplitsStep
  <2> QED
    BY <2>2 DEF IX!Next
<1>5. CASE UNCHANGED vars
  BY <1>5 DEF vars, IX!vars, Found, Search, LeafFor, FindChildPageId, Node, Live
<1> QED
  BY <1>1, <1>2, <1>3, <1>4, <1>5 DEF Next
-----------------------------------------------------------------------------
(* Ranges.                                                                 *)

\* Induction up to a bound, with a set in the place of a predicate.
LEMMA UpTo ==
    ASSUME NEW n \in Nat, NEW G, 0 \in G,
           \A i \in 1..n : i - 1 \in G => i \in G
    PROVE  \A i \in 0..n : i \in G
<1> SUFFICES ASSUME NEW top \in 0..n, top \notin G PROVE FALSE
  OBVIOUS
<1> DEFINE B == {i \in 0..top : i \notin G}
           f == [i \in B |-> i - 1]
<1>1. \A i \in B : i \in Int /\ i \in 1..top /\ i - 1 \in B
  OBVIOUS
<1>2. IsFiniteSet(B)
  <2>1. IsFiniteSet(0..top)
    BY FS_Interval
  <2> QED
    BY <2>1, FS_Subset
<1>3. top \in B
  OBVIOUS
<1> HIDE DEF B
<1>4. f \in Injection(B, B)
  BY <1>1 DEF Injection, IsInjective
<1>5. f \in Surjection(B, B)
  BY <1>2, <1>4, FS_Injection
<1>6. PICK i \in B : f[i] = top
  BY <1>3, <1>5 DEF Surjection
<1> QED
  BY <1>1, <1>6

\* The entries of a leaf that are in a range, in their order.
LEMMA RangeIs ==
    ASSUME NEW x \in Leaves, Sorted(x.entries), NEW low \in Int, NEW high \in Int
    PROVE  LET s == LeafRange(x, low, high)
               before == Place(x, low) - 1
           IN  /\ s \in Seq(Entry) /\ before \in Nat
               /\ \A i \in 1..Len(x.entries) :
                      low <= x.entries[i].key /\ x.entries[i].key <= high =>
                          i - before \in 1..Len(s)
               /\ \A i \in 1..Len(s) : /\ before + i \in 1..Len(x.entries)
                                       /\ s[i] = x.entries[before + i]
<1> DEFINE e == x.entries
           m == Place(x, low)
           n == LastUpTo(x, high)
           s == LeafRange(x, low, high)
<1>1. /\ DOMAIN e = 1..Len(e) /\ Len(e) \in Nat
      /\ \A i \in 1..Len(e) : e[i] \in Entry /\ e[i].key \in Int
  BY SortedIs
<1>2. /\ m \in 1..(Len(e) + 1)
      /\ \A i \in 1..Len(e) : e[i].key < low <=> i < m
  BY PlaceIs
<1>3. /\ n \in 0..Len(e)
      /\ \A i \in 1..Len(e) : e[i].key <= high <=> i <= n
  BY LastIs
<1>4. s = SubSeq(e, m, n)
  BY DEF LeafRange
<1> HIDE DEF e, m, n, s
<1>5. m \in Int /\ n \in Int /\ \A i \in m..n : e[i] \in Entry
  BY <1>1, <1>2, <1>3
<1>6. /\ SubSeq(e, m, n) \in Seq(Entry)
      /\ Len(SubSeq(e, m, n)) = IF m <= n THEN n - m + 1 ELSE 0
      /\ \A i \in 1..(n - m + 1) : SubSeq(e, m, n)[i] = e[m + i - 1]
  BY <1>5, SubSeqProperties
<1>7. /\ s \in Seq(Entry) /\ Len(s) = IF m <= n THEN n - m + 1 ELSE 0
      /\ \A i \in 1..(n - m + 1) : s[i] = e[m + i - 1]
  BY <1>4, <1>6
<1> DEFINE before == m - 1
<1>8. before \in Nat
  BY <1>1, <1>2
<1>9. ASSUME NEW i \in 1..Len(e), low <= e[i].key, e[i].key <= high
      PROVE  i - before \in 1..Len(s)
  <2>1. ~(i < m) /\ i <= n
    BY <1>1, <1>2, <1>3, <1>9
  <2> QED
    BY <1>1, <1>2, <1>3, <1>7, <2>1
<1>10. ASSUME NEW i \in 1..Len(s)
       PROVE  before + i \in 1..Len(e) /\ s[i] = e[before + i]
  <2>1. i \in 1..(n - m + 1) /\ m \in Int /\ n \in Int /\ m <= n
    BY <1>5, <1>7
  <2>2. m + i - 1 = before + i /\ before + i \in 1..Len(e)
    BY <1>1, <1>2, <1>3, <2>1
  <2> QED
    BY <1>7, <2>1, <2>2
<1> QED
  BY <1>7, <1>8, <1>9, <1>10 DEF e, m, s

\* The walk over the leaves, turn by turn.
Mine(p, low, high) == LeafRange(Node(p), low, high)
Ends(s, high) == s # <<>> /\ SeqExt!Last(s).key >= high
Stops(w, low, high) ==
    \/ w.done \/ w.next = -1 \/ w.next \in w.visited
    \/ ~Node(w.next).leaf \/ Mine(w.next, low, high) = <<>>
Begin(first, low, high) ==
    [results |-> Mine(first, low, high), next |-> Node(first).next,
     visited |-> {first}, done |-> Ends(Mine(first, low, high), high)]
Turn(w, low, high) ==
    IF Stops(w, low, high) THEN [w EXCEPT !.done = TRUE]
    ELSE [results |-> w.results \o Mine(w.next, low, high),
          next |-> Node(w.next).next,
          visited |-> w.visited \cup {w.next},
          done |-> Ends(Mine(w.next, low, high), high)]

IsWalk(f, n, first, low, high) ==
    f = [i \in 0..n |-> IF i = 0 THEN Begin(first, low, high)
                        ELSE Turn(f[i - 1], low, high)]

\* Walk is what its definition says: there is such a function.
LEMMA WalkIs ==
    ASSUME NEW first, NEW low, NEW high, Len(pages) \in Nat
    PROVE  IsWalk(Walk(first, low, high), Len(pages), first, low, high)
<1> DEFINE G == {n \in Nat : \E f : IsWalk(f, n, first, low, high)}
<1>1. 0 \in G
  <2> DEFINE f == [i \in 0..0 |-> Begin(first, low, high)]
  <2>1. f = [i \in 0..0 |-> IF i = 0 THEN Begin(first, low, high)
                            ELSE Turn(f[i - 1], low, high)]
    OBVIOUS
  <2>2. IsWalk(f, 0, first, low, high)
    BY <2>1 DEF IsWalk
  <2> QED
    BY <2>2
<1>2. ASSUME NEW n \in 1..Len(pages), n - 1 \in G PROVE n \in G
  <2>1. PICK f : IsWalk(f, n - 1, first, low, high)
    BY <1>2
  <2> DEFINE g == [i \in 0..n |-> IF i = n THEN Turn(f[n - 1], low, high) ELSE f[i]]
             h == [i \in 0..n |-> IF i = 0 THEN Begin(first, low, high)
                                  ELSE Turn(g[i - 1], low, high)]
  <2>2. \A i \in 0..(n - 1) : f[i] = IF i = 0 THEN Begin(first, low, high)
                                     ELSE Turn(f[i - 1], low, high)
    BY <2>1 DEF IsWalk
  <2>3. ASSUME NEW i \in 0..n PROVE g[i] = h[i]
    <3>1. CASE i = n
      <4>1. n - 1 \in 0..n /\ n - 1 # n /\ n # 0
        OBVIOUS
      <4>2. g[n - 1] = f[n - 1]
        BY <4>1
      <4>3. g[n] = Turn(f[n - 1], low, high)
        OBVIOUS
      <4> QED
        BY <3>1, <4>1, <4>2, <4>3
    <3>2. CASE i = 0 /\ i # n
      <4>1. 0 \in 0..(n - 1)
        OBVIOUS
      <4> QED
        BY <2>2, <3>2, <4>1
    <3>3. CASE i # 0 /\ i # n
      <4>1. i \in 0..(n - 1) /\ i - 1 \in 0..n /\ i - 1 # n
        BY <3>3
      <4>2. g[i - 1] = f[i - 1] /\ g[i] = f[i]
        BY <3>3, <4>1
      <4>3. f[i] = Turn(f[i - 1], low, high)
        BY <2>2, <3>3, <4>1
      <4> QED
        BY <3>3, <4>2, <4>3
    <3> QED
      BY <3>1, <3>2, <3>3
  <2>4. g = h
    BY <2>3
  <2>5. IsWalk(g, n, first, low, high)
    BY <2>4 DEF IsWalk
  <2> QED
    BY <2>5
<1>3. Len(pages) \in G
  <2> HIDE DEF G
  <2>1. \A i \in 0..Len(pages) : i \in G
    BY <1>1, <1>2, UpTo
  <2> QED
    BY <2>1
<1>4. \E f : IsWalk(f, Len(pages), first, low, high)
  BY <1>3
<1>5. Walk(first, low, high) = CHOOSE f : IsWalk(f, Len(pages), first, low, high)
  BY DEF Walk, IsWalk, Turn, Begin, Stops, Ends, Mine
<1> QED
  BY <1>4, <1>5

\* What the walk has collected begins with what it found in the first leaf.
BeginsWith(w, s) ==
    /\ w.results \in Seq(Entry) /\ w.next \in 0..(Len(pages) - 1)
    /\ w = [results |-> w.results, next |-> w.next, visited |-> w.visited,
            done |-> w.done]
    /\ Len(s) <= Len(w.results) /\ \A i \in 1..Len(s) : w.results[i] = s[i]

\* Turns only add to it.
LEMMA TurnKeeps ==
    ASSUME PagesGood, NEW low \in Int, NEW high \in Int, NEW s \in Seq(Entry),
           NEW w, BeginsWith(w, s)
    PROVE  BeginsWith(Turn(w, low, high), s)
<1> DEFINE t == Turn(w, low, high)
<1>1. /\ w.results \in Seq(Entry) /\ w.next \in 0..(Len(pages) - 1)
      /\ w = [results |-> w.results, next |-> w.next, visited |-> w.visited,
              done |-> w.done]
      /\ Len(s) <= Len(w.results) /\ \A i \in 1..Len(s) : w.results[i] = s[i]
  BY DEF BeginsWith
<1>2. CASE Stops(w, low, high)
  <2>1. t = [results |-> w.results, next |-> w.next, visited |-> w.visited,
             done |-> TRUE]
    BY <1>1, <1>2 DEF Turn
  <2> HIDE DEF t
  <2>2. /\ t.results = w.results /\ t.next = w.next
        /\ t = [results |-> t.results, next |-> t.next, visited |-> t.visited,
                done |-> t.done]
    BY <2>1
  <2> QED
    BY <1>1, <2>2 DEF BeginsWith, t
<1>3. CASE ~Stops(w, low, high)
  <2> DEFINE x == Node(w.next)
             m == Mine(w.next, low, high)
             r == w.results \o m
  <2>1. x.leaf
    BY <1>3 DEF Stops
  <2>2. GoodLeaf(x, Len(pages))
    <3>1. w.next + 1 \in 1..Len(pages) /\ x = pages[w.next + 1]
      BY <1>1 DEF PagesGood, Node
    <3>2. \A c : ~InnerTo(c).leaf
      BY DEF InnerTo
    <3> QED
      BY <2>1, <3>1, <3>2 DEF PagesGood
  <2>3. x.next \in 0..(Len(pages) - 1)
    <3> HIDE DEF x
    <3>1. x.next \in Nat /\ x.next < Len(pages)
      BY <2>2 DEF GoodLeaf, Leaves
    <3> QED
      BY <3>1 DEF PagesGood
  <2>4. m \in Seq(Entry)
    BY <2>2, RangeIs DEF Mine, GoodLeaf
  <2>5. /\ r \in Seq(Entry) /\ Len(r) = Len(w.results) + Len(m)
        /\ \A i \in 1..(Len(w.results) + Len(m)) :
               r[i] = IF i <= Len(w.results) THEN w.results[i]
                      ELSE m[i - Len(w.results)]
    <3> HIDE DEF m
    <3> QED
      BY <1>1, <2>4, ConcatProperties
  <2>6. Len(m) \in Nat /\ Len(w.results) \in Nat /\ Len(s) \in Nat
    BY <1>1, <2>4, LenProperties
  <2>7. t = [results |-> r, next |-> x.next, visited |-> w.visited \cup {w.next},
             done |-> Ends(m, high)]
    BY <1>3 DEF Turn
  <2> HIDE DEF t, r, m, x
  <2>8. /\ t.results = r /\ t.next = x.next
        /\ t = [results |-> t.results, next |-> t.next, visited |-> t.visited,
                done |-> t.done]
    BY <2>7
  <2>9. Len(s) <= Len(r) /\ \A i \in 1..Len(s) : r[i] = s[i]
    <3>1. Len(s) <= Len(r)
      BY <1>1, <2>5, <2>6
    <3>2. ASSUME NEW i \in 1..Len(s) PROVE r[i] = s[i]
      <4>1. i <= Len(w.results) /\ i \in 1..(Len(w.results) + Len(m))
        BY <1>1, <2>6
      <4> QED
        BY <1>1, <2>5, <4>1
    <3> QED
      BY <3>1, <3>2
  <2> QED
    BY <2>3, <2>5, <2>8, <2>9 DEF BeginsWith, t
<1> QED
  BY <1>2, <1>3

\* A range search returns what it found in the first leaf, and maybe more.
LEMMA SearchRangeIs ==
    ASSUME PagesGood, IndexesApart, NEW n \in Live, NEW low \in Int, NEW high \in Int
    PROVE  LET s == LeafRange(Node(LeafOf(n)), low, high)
               r == SearchRange(n, low, high)
           IN  /\ r \in Seq(Entry) /\ Len(s) <= Len(r)
               /\ \A i \in 1..Len(s) : r[i] = s[i]
<1> DEFINE first == LeafOf(n)
           x == Node(first)
           s == LeafRange(x, low, high)
           f == Walk(first, low, high)
           r == SearchRange(n, low, high)
           count == Len(pages)
           G == {i \in 0..count : BeginsWith(f[i], s)}
<1>1. count \in Nat /\ GoodLeaf(x, count) /\ LeafFor(indexes_[n].root, low) = first
  BY LeafForIs DEF PagesGood
<1>2. s \in Seq(Entry) /\ Len(s) \in Nat
  <2>1. s \in Seq(Entry)
    BY <1>1, RangeIs DEF GoodLeaf
  <2> QED
    BY <2>1, LenProperties
<1>3. r = f[count].results
  BY <1>1 DEF SearchRange
<1>4. \A i \in 0..count : f[i] = IF i = 0 THEN Begin(first, low, high)
                                 ELSE Turn(f[i - 1], low, high)
  <2>1. IsWalk(f, count, first, low, high)
    BY <1>1, WalkIs
  <2> HIDE DEF f
  <2> QED
    BY <2>1 DEF IsWalk
<1>5. BeginsWith(Begin(first, low, high), s)
  <2> DEFINE b == Begin(first, low, high)
  <2>1. b = [results |-> s, next |-> x.next, visited |-> {first}, done |-> Ends(s, high)]
    BY DEF Begin, Mine
  <2>2. x.next \in 0..(count - 1)
    <3> HIDE DEF x
    <3>1. x.next \in Nat /\ x.next < count
      BY <1>1 DEF GoodLeaf, Leaves
    <3> QED
      BY <1>1, <3>1
  <2> HIDE DEF b, s, x
  <2>3. /\ b.results = s /\ b.next = x.next
        /\ b = [results |-> b.results, next |-> b.next, visited |-> b.visited,
                done |-> b.done]
    BY <2>1
  <2> QED
    BY <1>2, <2>2, <2>3 DEF BeginsWith, b
<1> HIDE DEF f, r, s, x, first
<1>6. 0 \in G
  BY <1>1, <1>4, <1>5
<1>7. ASSUME NEW i \in 1..count, i - 1 \in G PROVE i \in G
  <2>1. BeginsWith(f[i - 1], s) /\ f[i] = Turn(f[i - 1], low, high) /\ i \in 0..count
    BY <1>1, <1>4, <1>7
  <2>2. BeginsWith(f[i], s)
    BY <1>2, <2>1, TurnKeeps
  <2> QED
    BY <2>1, <2>2
<1>8. BeginsWith(f[count], s)
  <2> HIDE DEF G
  <2>1. \A i \in 0..count : i \in G
    BY <1>1, <1>6, <1>7, UpTo
  <2>2. count \in G
    BY <1>1, <2>1
  <2> QED
    BY <2>2 DEF G
<1> QED
  BY <1>3, <1>8 DEF BeginsWith, s, r, x, first

\* A search for a key of the range finds what the range has before larger keys.
LEMMA RangeCovers ==
    ASSUME PagesGood, IndexesApart
    PROVE  RangeCoversSearch
<1> SUFFICES ASSUME NEW n \in Live, NEW low \in Keys, NEW high \in Keys,
                    NEW k \in low..high, NEW e \in Search(n, k)
             PROVE  LET r == SearchRange(n, low, high)
                    IN  \E i \in DOMAIN r : r[i] = e /\ \A j \in 1..i : r[j].key <= k
  BY DEF RangeCoversSearch
<1> DEFINE x == Node(LeafOf(n))
           E == x.entries
           s == LeafRange(x, low, high)
           r == SearchRange(n, low, high)
           before == Place(x, low) - 1
<1>0. low \in Int /\ high \in Int /\ k \in Keys /\ low <= k /\ k <= high
  BY DEF Keys
<1>1. x \in Leaves /\ Sorted(E)
  BY LeafForIs DEF GoodLeaf
<1>2. e \in Content(n) /\ e.key = k
  BY <1>0, FoundIs
<1>3. /\ E \in Seq(Entry) /\ Len(E) \in Nat
      /\ \A i \in 1..Len(E) : E[i].key \in Int
  BY <1>1, SortedIs
<1>4. PICK p \in 1..Len(E) : E[p] = e
  BY <1>2, <1>3, Elements DEF Content
<1>5. /\ s \in Seq(Entry) /\ before \in Nat
      /\ \A i \in 1..Len(E) : low <= E[i].key /\ E[i].key <= high =>
             i - before \in 1..Len(s)
      /\ \A i \in 1..Len(s) : before + i \in 1..Len(E) /\ s[i] = E[before + i]
  BY <1>0, <1>1, RangeIs
<1>6. /\ r \in Seq(Entry) /\ Len(s) <= Len(r)
      /\ \A i \in 1..Len(s) : r[i] = s[i]
  BY <1>0, SearchRangeIs
<1>7. DOMAIN r = 1..Len(r) /\ Len(r) \in Nat /\ Len(s) \in Nat
  BY <1>5, <1>6, LenProperties
<1>8. \A i, j \in 1..Len(E) : i < j => E[i].key < E[j].key
  BY <1>1 DEF Sorted
<1> DEFINE at == p - before
<1> HIDE DEF x, E, s, r, before
<1>9. at \in 1..Len(s) /\ before + at = p /\ at \in Int
  BY <1>0, <1>2, <1>3, <1>4, <1>5
<1>10. r[at] = e /\ at \in DOMAIN r
  BY <1>4, <1>5, <1>6, <1>7, <1>9
<1>11. ASSUME NEW j \in 1..at PROVE r[j].key <= k
  <2>1. j \in 1..Len(s) /\ before + j <= p /\ j \in Int
    BY <1>5, <1>7, <1>9
  <2>2. r[j] = E[before + j] /\ before + j \in 1..Len(E)
    BY <1>5, <1>6, <2>1
  <2>3. CASE before + j = p
    BY <1>0, <1>2, <1>4, <2>2, <2>3
  <2>4. CASE before + j < p
    <3>1. E[before + j].key < E[p].key
      BY <1>8, <2>2, <2>4
    <3> QED
      BY <1>2, <1>3, <1>4, <2>2, <3>1
  <2> QED
    BY <1>5, <1>9, <2>1, <2>3, <2>4
<1> QED
  BY <1>10, <1>11 DEF r
-----------------------------------------------------------------------------
(* Theorems.                                                               *)

\* There are no pages at first.
LEMMA InitTree ==
    ASSUME Init
    PROVE  TreeInv
<1>1. Live = {}
  BY DEF Init, Live
<1>2. Len(pages) = 0 /\ Len(owner) = 0 /\ pages = <<>> /\ owner = <<>>
  BY DEF Init
<1>3. PagesGood
  BY <1>2 DEF PagesGood
<1>4. Sequenced
  BY <1>2 DEF Sequenced
<1>5. IndexesApart
  BY <1>1 DEF Init, IndexesApart
<1>6. Counters
  BY <1>2 DEF Init, Counters
<1>7. NothingErased
  BY <1>1 DEF NothingErased
<1> QED
  BY <1>3, <1>4, <1>5, <1>6, <1>7 DEF TreeInv

\* The inductive invariant of the index pages.
THEOREM TreeInvariant == Spec => []TreeInv
<1>1. Init => TreeInv
  BY InitTree
<1>2. TreeInv /\ [Next]_vars => TreeInv'
  BY PagesStep, ApartStep, CountersStep, ErasedStep DEF TreeInv
<1> QED
  BY <1>1, <1>2, PTL DEF Spec

\* TypeOK of BPlusTree: leaves are sorted, have no key twice and are never left
\* full, and the one child of an internal node is a leaf.
THEOREM TreeTypes == Spec => []TypeOK
<1>1. ASSUME TreeInv PROVE TypeOK
  <2> USE DEF TreeInv
  <2> DEFINE count == Len(pages)
  <2>1. /\ count \in Nat /\ DOMAIN pages = 1..count /\ DOMAIN owner = 1..count
        /\ \A p \in 1..count :
             \/ GoodLeaf(pages[p], count)
             \/ \E c \in 0..(count - 1) :
                    pages[p] = InnerTo(c) /\ GoodLeaf(pages[c + 1], count)
    BY <1>1 DEF PagesGood
  <2>2. \A n \in Live : indexes_[n].table \in Tables /\ indexes_[n].root + 1 \in DOMAIN pages
    BY <1>1, <2>1, OwnerIs
  <2>3. ASSUME NEW p \in 1..count, GoodLeaf(pages[p], count)
        PROVE  /\ pages[p].leaf
               /\ pages[p].entries \in Seq(Entry)
               /\ Len(pages[p].entries) < MaxKeys
               /\ \A i, j \in DOMAIN pages[p].entries :
                      i < j => pages[p].entries[i].key < pages[p].entries[j].key
               /\ pages[p].next + 1 \in DOMAIN pages
    <3>1. /\ pages[p] \in Leaves /\ Sorted(pages[p].entries)
          /\ Len(pages[p].entries) < MaxKeys /\ pages[p].next < count
      BY <2>3 DEF GoodLeaf
    <3>2. DOMAIN pages[p].entries = 1..Len(pages[p].entries)
      BY <3>1, SortedIs
    <3>3. pages[p].leaf /\ pages[p].next \in Nat /\ pages[p].entries \in Seq(Entry)
      BY <3>1 DEF Leaves
    <3>4. pages[p].next + 1 \in DOMAIN pages
      BY <2>1, <3>1, <3>3
    <3>5. \A i, j \in DOMAIN pages[p].entries :
              i < j => pages[p].entries[i].key < pages[p].entries[j].key
      BY <3>1, <3>2 DEF Sorted
    <3> QED
      BY <3>1, <3>3, <3>4, <3>5
  <2>4. ASSUME NEW p \in 1..count, NEW c \in 0..(count - 1),
               pages[p] = InnerTo(c), GoodLeaf(pages[c + 1], count)
        PROVE  /\ ~pages[p].leaf /\ pages[p].keys = <<>> /\ Len(pages[p].children) = 1
               /\ Node(pages[p].children[1]).leaf
    <3>1. ~pages[p].leaf /\ pages[p].keys = <<>> /\ pages[p].children = <<c>>
      BY <2>4 DEF InnerTo
    <3>2. Node(c).leaf
      BY <2>4 DEF Node, GoodLeaf, Leaves
    <3> QED
      BY <3>1, <3>2
  <2> HIDE DEF count
  <2>5. ASSUME NEW p \in 1..count
        PROVE  IF pages[p].leaf
               THEN /\ pages[p].entries \in Seq(Entry)
                    /\ Len(pages[p].entries) < MaxKeys
                    /\ \A i, j \in DOMAIN pages[p].entries :
                           i < j => pages[p].entries[i].key < pages[p].entries[j].key
                    /\ pages[p].next + 1 \in DOMAIN pages
               ELSE /\ pages[p].keys = <<>> /\ Len(pages[p].children) = 1
                    /\ Node(pages[p].children[1]).leaf
    <3>1. CASE GoodLeaf(pages[p], count)
      BY <2>3, <3>1
    <3>2. CASE \E c \in 0..(count - 1) :
                    pages[p] = InnerTo(c) /\ GoodLeaf(pages[c + 1], count)
      BY <2>4, <3>2
    <3> QED
      BY <2>1, <3>1, <3>2
  <2> QED
    BY <1>1, <2>1, <2>2, <2>5 DEF TypeOK, Counters
<1> QED
  BY <1>1, TreeInvariant, PTL

\* NothingErased: insertions, splits and removals leave the value that was last
\* inserted under a key in a page of its index, whatever other keys do.
THEOREM EntriesStay == Spec => []NothingErased
<1>1. TreeInv => NothingErased
  BY DEF TreeInv
<1> QED
  BY <1>1, TreeInvariant, PTL

\* RangeCoversSearch: both ways of searching agree, whatever the chain of leaves
\* looks like that the range follows after the first one.
THEOREM RangesCover == Spec => []RangeCoversSearch
<1>1. TreeInv => RangeCoversSearch
  BY RangeCovers DEF TreeInv
<1> QED
  BY <1>1, TreeInvariant, PTL

\* ImplementsIndexService: indexes give what IndexService promises.  A search
\* finds the value last inserted under its key or nothing, no operation on one
\* index changes what another gives, and keys are forgotten by splits only.
THEOREM TreeRefinement == Spec => ImplementsIndexService
<1>1. Init => IX!Init
  <2> SUFFICES ASSUME Init PROVE IX!Init
    OBVIOUS
  <2>1. Live = {} /\ \A n \in Names : indexes_[n].table = none
    BY DEF Init, Live, NoIndex
  <2>2. Found = [n \in Names |-> [k \in Keys |-> none]]
    BY <2>1 DEF Found
  <2>3. TableOf = [n \in Names |-> none]
    BY <2>1 DEF TableOf
  <2> QED
    BY <2>2, <2>3 DEF Init, IX!Init, IX!Empty, TableOf
<1>2. TreeInv /\ TreeInv' /\ [Next]_vars => [IX!Next]_(IX!vars)
  BY ServiceStep DEF TreeInv
<1> QED
  BY <1>1, <1>2, TreeInvariant, PTL DEF Spec, IX!Spec, ImplementsIndexService
=============================================================================
