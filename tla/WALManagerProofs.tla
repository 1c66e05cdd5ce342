---------------------------- MODULE WALManagerProofs ----------------------------
(***************************************************************************)
(* Theorems about WALManager, for every number of threads, records in a    *)
(* batch, LSNs, failed writes and restarts.                                *)
(***************************************************************************)
EXTENDS WALManager, FiniteSetTheorems, SequenceTheorems, TLAPS

\* What is known of the variables that hold records.
RecordTypes ==
    /\ next_lsn_ \in AllLSNs
    /\ log_buffer_ \in Seq(AllLSNs) /\ log_file \in Seq(AllLSNs)
    /\ log_start \in 0..Len(log_file)
    /\ mine \in [Threads -> Seq(AllLSNs)] /\ batch \in [Threads -> Seq(AllLSNs)]
    /\ sent \in [Threads -> Nat]
    /\ batches \subseteq Seq(AllLSNs)

\* The types of the other variables.
CallTypes ==
    /\ {last_flushed_lsn_, last_checkpoint_lsn_} \subseteq AllLSNs \cup {0}
    /\ buffer_mutex_ \in Threads \cup {NoThread}
    /\ checkpoint_history_ \in Seq(AllLSNs \cup {0})
    /\ Len(checkpoint_history_) <= HistoryCap
    /\ pc \in [Threads -> Steps] /\ op \in [Threads -> Ops]
    /\ mark \in [Threads -> AllLSNs \cup {0}]

\* A thread outside a call has no records, one that writes has some left to
\* write, and only such a thread counts what it has sent.
Locals ==
    \A t \in Threads : /\ pc[t] = "idle" => mine[t] = <<>>
                       /\ pc[t] \in {"write", "flushed"} => batch[t] # <<>>
                       /\ pc[t] = "write" => sent[t] < Len(batch[t])
                       /\ pc[t] # "write" => sent[t] = 0

\* What a thread has sent of its batch is in the file.
SentWritten ==
    \A t \in Threads : \A j \in 1..sent[t] : batch[t][j] \in Elements(Written)

\* The thread that fills a batch holds the mutex, its last record is the last
\* of the buffer, and its LSNs passed MaxLSN only after the first.
Filling ==
    \A t \in Threads :
        pc[t] = "fill" =>
            /\ buffer_mutex_ = t
            /\ Len(mine[t]) \in 1..(BatchSize - 1)
            /\ next_lsn_ <= MaxLSN + Len(mine[t])
            /\ log_buffer_ # <<>> /\ LastOf(log_buffer_) = LastOf(mine[t])

\* No record has an LSN that is not handed out yet.
Given == 1..(next_lsn_ - 1)
HandedOut ==
    /\ Elements(log_buffer_) \cup Elements(Written) \cup failed \subseteq Given
    /\ \A t \in Threads : Elements(mine[t]) \cup Elements(batch[t]) \subseteq Given
    /\ \A b \in batches : Elements(b) \subseteq Given

\* EachRecordOnce without cardinalities.
InOne(places, n, excepted) == n \notin excepted => \E p : places = {p}
OnePlace == \A n \in Given : InOne(Places(n), n, failed)

\* The batches there are, the one that is being filled included.
Batch(b) == b \in batches \/ \E t \in Threads : pc[t] = "fill" /\ b = mine[t]

\* In s every record of batch b but its first comes after the one before it.
InOrder(b, s) ==
    \A i \in DOMAIN s : \A k \in 2..Len(b) :
        s[i] = b[k] => \E j \in 1..(i - 1) : s[j] = b[k - 1]

\* Batches are in order wherever their records are, and not the record that
\* a thread in Log still has to push.
Kept(b) ==
    /\ InOrder(b, log_buffer_) /\ InOrder(b, Written)
    /\ \A t \in Threads :
           /\ pc[t] = "write" => InOrder(b, batch[t])
           /\ pc[t] = "push" => Elements(mine[t]) \cap Elements(b) = {}
BatchesKept == \A b \in Seq(AllLSNs) : Batch(b) => Kept(b)

\* The inductive invariant.
WALInv ==
    /\ RecordTypes /\ CallTypes
    /\ Locals /\ Filling /\ HandedOut
    /\ NothingLeftBehind /\ OnePlace /\ SentWritten /\ BatchesKept

USE BatchSizeAssumption, HistoryCapAssumption, NoThreadAssumption, BoundAssumption

-----------------------------------------------------------------------------
(* Sequences of records.                                                   *)

\* What appending one record adds.
LEMMA AppendOne ==
    ASSUME NEW S, NEW s \in Seq(S), NEW e \in S
    PROVE  /\ Append(s, e) \in Seq(S) /\ Append(s, e) # <<>>
           /\ Len(Append(s, e)) = Len(s) + 1
           /\ DOMAIN Append(s, e) = 1..(Len(s) + 1)
           /\ \A i \in 1..Len(s) : Append(s, e)[i] = s[i]
           /\ Append(s, e)[Len(s) + 1] = e
           /\ LastOf(Append(s, e)) = e
           /\ Elements(Append(s, e)) = Elements(s) \cup {e}
<1> DEFINE a == Append(s, e)
<1>1. /\ a \in Seq(S) /\ a # <<>> /\ Len(a) = Len(s) + 1
      /\ \A i \in 1..Len(s) : a[i] = s[i]
      /\ a[Len(s) + 1] = e
  BY AppendProperties
<1>2. DOMAIN a = 1..(Len(s) + 1) /\ DOMAIN s = 1..Len(s) /\ Len(s) \in Nat
  BY <1>1, LenProperties
<1> HIDE DEF a
<1>3. LastOf(a) = e
  BY <1>1 DEF LastOf
<1>4. Elements(a) = Elements(s) \cup {e}
  BY <1>1, <1>2 DEF Elements
<1> QED
  BY <1>1, <1>2, <1>3, <1>4 DEF a

\* What appending several records adds.
LEMMA AppendMany ==
    ASSUME NEW S, NEW s \in Seq(S), NEW u \in Seq(S)
    PROVE  /\ s \o u \in Seq(S)
           /\ Len(s \o u) = Len(s) + Len(u)
           /\ DOMAIN (s \o u) = 1..(Len(s) + Len(u))
           /\ \A i \in 1..Len(s) : (s \o u)[i] = s[i]
           /\ \A i \in 1..Len(u) : (s \o u)[Len(s) + i] = u[i]
           /\ Elements(s \o u) = Elements(s) \cup Elements(u)
<1> DEFINE a == s \o u
<1>1. /\ a \in Seq(S) /\ Len(a) = Len(s) + Len(u)
      /\ \A i \in 1..(Len(s) + Len(u)) :
             a[i] = IF i <= Len(s) THEN s[i] ELSE u[i - Len(s)]
  BY ConcatProperties
<1>2. /\ DOMAIN a = 1..(Len(s) + Len(u))
      /\ DOMAIN s = 1..Len(s) /\ Len(s) \in Nat
      /\ DOMAIN u = 1..Len(u) /\ Len(u) \in Nat
  BY <1>1, LenProperties
<1> HIDE DEF a
<1>3. /\ \A i \in 1..Len(s) : a[i] = s[i]
      /\ \A i \in 1..Len(u) : a[Len(s) + i] = u[i]
  <2>1. ASSUME NEW i \in 1..Len(s) PROVE a[i] = s[i]
    BY <1>1, <1>2
  <2>2. ASSUME NEW i \in 1..Len(u) PROVE a[Len(s) + i] = u[i]
    <3>1. /\ Len(s) + i \in 1..(Len(s) + Len(u))
          /\ ~(Len(s) + i <= Len(s)) /\ (Len(s) + i) - Len(s) = i
      BY <1>2
    <3> QED
      BY <1>1, <3>1
  <2> QED
    BY <2>1, <2>2
<1>4. Elements(a) = Elements(s) \cup Elements(u)
  <2>1. ASSUME NEW i \in DOMAIN a PROVE a[i] \in Elements(s) \cup Elements(u)
    <3>1. CASE i <= Len(s)
      BY <1>1, <1>2, <3>1 DEF Elements
    <3>2. CASE i > Len(s)
      <4>1. i - Len(s) \in DOMAIN u /\ a[i] = u[i - Len(s)]
        BY <1>1, <1>2, <3>2
      <4> QED
        BY <4>1 DEF Elements
    <3> QED
      BY <1>2, <3>1, <3>2
  <2>2. Elements(s) \subseteq Elements(a)
    BY <1>2, <1>3 DEF Elements
  <2>3. \A i \in 1..Len(u) : Len(s) + i \in 1..(Len(s) + Len(u))
    BY <1>2
  <2>4. Elements(u) \subseteq Elements(a)
    BY <1>2, <1>3, <2>3 DEF Elements
  <2>5. Elements(a) \subseteq Elements(s) \cup Elements(u)
    BY <2>1 DEF Elements
  <2> QED
    BY <2>2, <2>4, <2>5
<1> QED
  BY <1>1, <1>2, <1>3, <1>4 DEF a

\* The part of a sequence after position k grows with the sequence.
LEMMA SuffixGrows ==
    ASSUME NEW S, NEW s \in Seq(S), NEW u \in Seq(S), NEW k \in 0..Len(s)
    PROVE  SubSeq(s \o u, k + 1, Len(s \o u)) = SubSeq(s, k + 1, Len(s)) \o u
<1> DEFINE a == s \o u
           old == SubSeq(s, k + 1, Len(s))
           new == SubSeq(a, k + 1, Len(a))
<1>1. /\ a \in Seq(S) /\ Len(a) = Len(s) + Len(u)
      /\ \A i \in 1..Len(s) : a[i] = s[i]
      /\ \A i \in 1..Len(u) : a[Len(s) + i] = u[i]
      /\ Len(s) \in Nat /\ Len(u) \in Nat
  BY AppendMany, LenProperties
<1> HIDE DEF a
<1>2. /\ \A i \in (k + 1)..Len(s) : s[i] \in S
      /\ \A i \in (k + 1)..Len(a) : a[i] \in S
  BY <1>1, ElementOfSeq
<1>3. /\ old \in Seq(S) /\ Len(old) = Len(s) - k
      /\ \A i \in 1..(Len(s) - k) : old[i] = s[k + i]
  <2>1. /\ old \in Seq(S)
        /\ Len(old) = IF k + 1 <= Len(s) THEN Len(s) - (k + 1) + 1 ELSE 0
        /\ \A i \in 1..(Len(s) - (k + 1) + 1) : old[i] = s[(k + 1) + i - 1]
    BY <1>1, <1>2, SubSeqProperties
  <2> QED
    BY <1>1, <2>1
<1>4. /\ new \in Seq(S) /\ Len(new) = Len(a) - k
      /\ \A i \in 1..(Len(a) - k) : new[i] = a[k + i]
  <2>1. /\ new \in Seq(S)
        /\ Len(new) = IF k + 1 <= Len(a) THEN Len(a) - (k + 1) + 1 ELSE 0
        /\ \A i \in 1..(Len(a) - (k + 1) + 1) : new[i] = a[(k + 1) + i - 1]
    BY <1>1, <1>2, SubSeqProperties
  <2> QED
    BY <1>1, <2>1
<1> HIDE DEF old, new
<1>5. /\ old \o u \in Seq(S) /\ Len(old \o u) = Len(old) + Len(u)
      /\ \A i \in 1..Len(old) : (old \o u)[i] = old[i]
      /\ \A i \in 1..Len(u) : (old \o u)[Len(old) + i] = u[i]
  <2>1. old \in Seq(S)
    BY <1>3
  <2> QED
    BY <2>1, AppendMany
<1>6. Len(new) = Len(old \o u)
  BY <1>1, <1>3, <1>4, <1>5
<1>7. ASSUME NEW i \in 1..Len(new) PROVE new[i] = (old \o u)[i]
  <2>1. CASE i <= Len(old)
    BY <1>1, <1>3, <1>4, <1>5, <2>1
  <2>2. CASE i > Len(old)
    <3>1. i - Len(old) \in 1..Len(u)
      BY <1>1, <1>3, <1>4, <2>2
    <3>2. (old \o u)[i] = u[i - Len(old)]
      <4>1. Len(old) + (i - Len(old)) = i
        BY <1>1, <1>3, <2>2
      <4> QED
        BY <1>5, <3>1, <4>1
    <3>3. k + i = Len(s) + (i - Len(old))
      BY <1>1, <1>3, <2>2
    <3>4. new[i] = a[k + i]
      BY <1>1, <1>3, <1>4
    <3>5. a[Len(s) + (i - Len(old))] = u[i - Len(old)]
      BY <1>1, <3>1
    <3> QED
      BY <3>2, <3>3, <3>4, <3>5
  <2> QED
    BY <1>1, <1>3, <1>4, <2>1, <2>2
<1>8. new = old \o u
  BY <1>4, <1>5, <1>6, <1>7, SeqEqual
<1> QED
  BY <1>8 DEF new, old, a

\* The k elements of a sequence that follow its first a.
LEMMA PartOf ==
    ASSUME NEW S, NEW s \in Seq(S), NEW a \in Nat, NEW k \in Nat, a + k <= Len(s)
    PROVE  /\ SubSeq(s, a + 1, a + k) \in Seq(S)
           /\ Len(SubSeq(s, a + 1, a + k)) = k
           /\ DOMAIN SubSeq(s, a + 1, a + k) = 1..k
           /\ \A i \in 1..k : SubSeq(s, a + 1, a + k)[i] = s[a + i]
           /\ Elements(SubSeq(s, a + 1, a + k)) = {s[i] : i \in (a + 1)..(a + k)}
<1> DEFINE p == SubSeq(s, a + 1, a + k)
<1>1. /\ Len(s) \in Nat /\ DOMAIN s = 1..Len(s)
      /\ \A i \in (a + 1)..(a + k) : s[i] \in S
  BY LenProperties, ElementOfSeq
<1>2. /\ p \in Seq(S)
      /\ Len(p) = IF a + 1 <= a + k THEN (a + k) - (a + 1) + 1 ELSE 0
      /\ \A i \in 1..((a + k) - (a + 1) + 1) : p[i] = s[(a + 1) + i - 1]
  BY <1>1, SubSeqProperties
<1> HIDE DEF p
<1>3. p \in Seq(S) /\ Len(p) = k /\ \A i \in 1..k : p[i] = s[a + i]
  <2>1. (a + k) - (a + 1) + 1 = k /\ \A i \in 1..k : (a + 1) + i - 1 = a + i
    OBVIOUS
  <2>2. Len(p) = k
    BY <1>2, <2>1
  <2>3. ASSUME NEW i \in 1..k PROVE p[i] = s[a + i]
    BY <1>2, <2>1
  <2> QED
    BY <1>2, <2>2, <2>3
<1>4. DOMAIN p = 1..k
  BY <1>3, LenProperties
<1>5. Elements(p) = {s[i] : i \in (a + 1)..(a + k)}
  <2>1. \A i \in 1..k : a + i \in (a + 1)..(a + k)
    OBVIOUS
  <2>2. \A i \in (a + 1)..(a + k) : i - a \in 1..k /\ a + (i - a) = i
    OBVIOUS
  <2>3. ASSUME NEW i \in 1..k PROVE p[i] \in {s[x] : x \in (a + 1)..(a + k)}
    BY <1>3, <2>1
  <2>4. ASSUME NEW i \in (a + 1)..(a + k) PROVE s[i] \in {p[x] : x \in 1..k}
    BY <1>3, <2>2
  <2>5. Elements(p) = {p[x] : x \in 1..k}
    BY <1>4 DEF Elements
  <2> QED
    BY <2>3, <2>4, <2>5
<1> QED
  BY <1>3, <1>4, <1>5 DEF p

-----------------------------------------------------------------------------
\* The invariant holds when the log is opened for the first time.
LEMMA InitLog == Init => WALInv
<1> SUFFICES ASSUME Init PROVE WALInv
    OBVIOUS
<1> USE DEF Init
<1>1. <<>> \in Seq(AllLSNs) /\ Len(<<>>) = 0 /\ <<>> \in Seq(AllLSNs \cup {0})
  BY EmptySeq
<1>2. RecordTypes
  BY <1>1 DEF RecordTypes, AllLSNs
<1>3. CallTypes
  BY <1>1 DEF CallTypes, Steps, Ops
<1>4. Elements(<<>>) = {} /\ Given = {}
  BY DEF Elements, Given
<1>5. Written = <<>>
  BY <1>1, SubSeqEmpty DEF Written
<1>6. Locals /\ Filling /\ HandedOut /\ NothingLeftBehind /\ SentWritten
  BY <1>4, <1>5 DEF Locals, Filling, HandedOut, NothingLeftBehind, SentWritten
<1>7. OnePlace
  BY <1>4 DEF OnePlace
<1>8. BatchesKept
  BY DEF BatchesKept, Batch
<1> QED
  BY <1>2, <1>3, <1>6, <1>7, <1>8 DEF WALInv

-----------------------------------------------------------------------------
(* Types.                                                                  *)

ThreadTypes ==
    /\ pc \in [Threads -> Steps] /\ op \in [Threads -> Ops]
    /\ mine \in [Threads -> Seq(AllLSNs)] /\ batch \in [Threads -> Seq(AllLSNs)]
    /\ sent \in [Threads -> Nat]
    /\ mark \in [Threads -> AllLSNs \cup {0}]

\* A call that returns, and one that goes on after its flush, leaves the
\* thread's variables in their types.
LEMMA ReturnTypes ==
    ASSUME ThreadTypes, NEW t \in Threads, Return(t) \/ AfterFlush(t),
           sent' \in [Threads -> Nat]
    PROVE  ThreadTypes'
<1>1. <<>> \in Seq(AllLSNs)
  BY EmptySeq
<1>2. CASE Return(t)
  BY <1>1, <1>2 DEF ThreadTypes, Return, Go, Steps, Ops
<1>3. CASE AfterFlush(t) /\ ~Return(t)
  <2>1. /\ pc' = [pc EXCEPT ![t] = "take"] /\ batch' = [batch EXCEPT ![t] = <<>>]
        /\ UNCHANGED <<op, mine, mark>>
    BY <1>3 DEF AfterFlush, Go
  <2> QED
    BY <1>1, <2>1 DEF ThreadTypes, Steps
<1> QED
  BY <1>2, <1>3

\* While LSNs are handed out they stay within AllLSNs.
LEMMA NextLSN ==
    ASSUME WALInv, NEW t \in Threads, next_lsn_ <= MaxLSN \/ pc[t] = "fill"
    PROVE  next_lsn_ \in AllLSNs /\ next_lsn_ + 1 \in AllLSNs
<1>1. next_lsn_ \in AllLSNs
  BY DEF WALInv, RecordTypes
<1>2. next_lsn_ < MaxLSN + BatchSize
  <2>1. CASE pc[t] = "fill"
    <3>1. Len(mine[t]) \in 1..(BatchSize - 1) /\ next_lsn_ <= MaxLSN + Len(mine[t])
      BY <2>1 DEF WALInv, Filling
    <3> QED
      BY <1>1, <3>1 DEF AllLSNs
  <2>2. CASE next_lsn_ <= MaxLSN
    BY <1>1, <2>2 DEF AllLSNs
  <2> QED
    BY <2>1, <2>2
<1> QED
  BY <1>1, <1>2 DEF AllLSNs

\* No action takes a variable out of its type.
LEMMA TypeStep == WALInv /\ [Next]_vars => RecordTypes' /\ CallTypes'
<1> SUFFICES ASSUME WALInv, [Next]_vars PROVE RecordTypes' /\ CallTypes'
    OBVIOUS
<1> RecordTypes /\ CallTypes /\ ThreadTypes
  BY DEF WALInv, RecordTypes, CallTypes, ThreadTypes
<1> DEFINE TypesNext == RecordTypes' /\ CallTypes'
<1> USE DEF file
<1>1. ASSUME NEW t \in Threads, Log(t) PROVE TypesNext
  <2>1. next_lsn_ \in AllLSNs /\ next_lsn_' \in AllLSNs
    BY <1>1, NextLSN DEF Log, GenerateLSN
  <2>2. Append(mine[t], next_lsn_) \in Seq(AllLSNs)
    BY <2>1, AppendOne DEF RecordTypes
  <2>3. mine' \in [Threads -> Seq(AllLSNs)]
    BY <1>1, <2>2 DEF Log, GenerateLSN, RecordTypes
  <2>4. pc' \in [Threads -> Steps] /\ op' \in [Threads -> Ops]
    BY <1>1 DEF Log, Call, Go, CallTypes, Steps, Ops
  <2> QED
    BY <1>1, <2>1, <2>3, <2>4 DEF Log, RecordTypes, CallTypes, ghosts
<1>2. ASSUME NEW t \in Threads, LogBatch(t) PROVE TypesNext
  <2>1. next_lsn_ \in AllLSNs /\ next_lsn_' \in AllLSNs
    BY <1>2, NextLSN DEF LogBatch, StartBatch, GenerateLSN
  <2>2. /\ Append(mine[t], next_lsn_) \in Seq(AllLSNs)
        /\ Append(log_buffer_, next_lsn_) \in Seq(AllLSNs)
    BY <2>1, AppendOne DEF RecordTypes
  <2>3. mine' \in [Threads -> Seq(AllLSNs)]
    BY <1>2, <2>2 DEF LogBatch, StartBatch, GenerateLSN, RecordTypes
  <2>4. pc' \in [Threads -> Steps] /\ op' \in [Threads -> Ops]
    BY <1>2 DEF LogBatch, StartBatch, Call, Go, CallTypes, Steps, Ops
  <2> QED
    BY <1>2, <2>1, <2>2, <2>3, <2>4
       DEF LogBatch, StartBatch, RecordTypes, CallTypes, ghosts
<1>3. ASSUME NEW t \in Threads, ForceFlush(t) \/ CreateCheckpoint(t)
      PROVE  TypesNext
  <2>1. pc' \in [Threads -> Steps] /\ op' \in [Threads -> Ops]
    BY <1>3 DEF ForceFlush, CreateCheckpoint, Call, Go, CallTypes, Steps, Ops
  <2> QED
    BY <1>3, <2>1
       DEF ForceFlush, CreateCheckpoint, RecordTypes, CallTypes, memory, ghosts
<1>4. ASSUME NEW t \in Threads, PushRecord(t) PROVE TypesNext
  <2>1. mine[t] \in Seq(AllLSNs) /\ log_buffer_ \in Seq(AllLSNs)
    BY DEF RecordTypes
  <2>2. log_buffer_ \o mine[t] \in Seq(AllLSNs)
    BY <2>1, AppendMany
  <2>3. pc' \in [Threads -> Steps]
    BY <1>4 DEF PushRecord, Go, CallTypes, Steps
  <2> QED
    BY <1>4, <2>2, <2>3 DEF PushRecord, RecordTypes, CallTypes, ghosts
<1>5. ASSUME NEW t \in Threads, FillBatch(t) PROVE TypesNext
  <2>1. next_lsn_ \in AllLSNs /\ next_lsn_' \in AllLSNs
    BY <1>5, NextLSN DEF FillBatch, FinishBatch, GenerateLSN
  <2>2. /\ Append(mine[t], next_lsn_) \in Seq(AllLSNs)
        /\ Append(log_buffer_, next_lsn_) \in Seq(AllLSNs)
    BY <2>1, AppendOne DEF RecordTypes
  <2>3. mine' \in [Threads -> Seq(AllLSNs)] /\ mine'[t] \in Seq(AllLSNs)
    BY <1>5, <2>2 DEF FillBatch, FinishBatch, GenerateLSN, RecordTypes
  <2>4. /\ pc' \in [Threads -> Steps]
        /\ buffer_mutex_' \in Threads \cup {NoThread}
        /\ batches' \subseteq Seq(AllLSNs)
    BY <1>5, <2>3 DEF FillBatch, FinishBatch, Go, RecordTypes, CallTypes, Steps
  <2> QED
    BY <1>5, <2>1, <2>2, <2>3, <2>4
       DEF FillBatch, FinishBatch, RecordTypes, CallTypes
<1>6. ASSUME NEW t \in Threads, SwapBuffer(t) PROVE TypesNext
  <2>1. <<>> \in Seq(AllLSNs)
    BY EmptySeq
  <2>2. ThreadTypes'
    <3>0. sent' \in [Threads -> Nat]
      BY <1>6 DEF SwapBuffer, SwapInto, SwapFrame, RecordTypes
    <3>1. CASE log_buffer_ = <<>>
      BY <1>6, <3>0, <3>1, ReturnTypes DEF SwapBuffer, SwapInto
    <3>2. CASE log_buffer_ # <<>>
      <4>1. /\ batch' = [batch EXCEPT ![t] = log_buffer_]
            /\ pc' = [pc EXCEPT ![t] = "write"]
            /\ UNCHANGED <<op, mine, mark>>
        BY <1>6, <3>2 DEF SwapBuffer, SwapInto, Go
      <4>2. log_buffer_ \in Seq(AllLSNs) /\ "write" \in Steps
        BY DEF RecordTypes, Steps
      <4> QED
        BY <3>0, <4>1, <4>2 DEF ThreadTypes
    <3> QED
      BY <3>1, <3>2
  <2>3. log_buffer_' \in Seq(AllLSNs) /\ UNCHANGED last_flushed_lsn_
    BY <1>6, <2>1 DEF SwapBuffer, SwapInto, RecordTypes
  <2> QED
    BY <1>6, <2>2, <2>3 DEF SwapBuffer, SwapInto, SwapFrame, ThreadTypes,
       RecordTypes, CallTypes, ghosts
<1>7. ASSUME NEW t \in Threads, WriteRecords(t) PROVE TypesNext
  <2>0. /\ batch[t] \in Seq(AllLSNs) /\ Len(batch[t]) \in Nat /\ sent[t] \in Nat
        /\ sent[t] < Len(batch[t])
        /\ log_file \in Seq(AllLSNs) /\ Len(log_file) \in Nat
    BY <1>7, LenProperties DEF WriteRecords, WALInv, Locals, RecordTypes
  <2>1. ASSUME NEW k \in Nat, sent[t] + k <= Len(batch[t]), Send(t, k)
        PROVE  log_file' \in Seq(AllLSNs) /\ Len(log_file) <= Len(log_file')
    <3> DEFINE s == batch[t]
               a == sent[t]
               part == SubSeq(s, a + 1, a + k)
    <3>0. s \in Seq(AllLSNs) /\ a \in Nat /\ a + k <= Len(s)
      BY <2>0, <2>1
    <3>2. log_file' = log_file \o part
      BY <2>1 DEF Send
    <3> HIDE DEF s, a
    <3>1. part \in Seq(AllLSNs) /\ Len(part) = k
      BY <3>0, PartOf
    <3> HIDE DEF part
    <3> QED
      BY <2>0, <3>1, <3>2, AppendMany
  <2>2. /\ log_file' \in Seq(AllLSNs) /\ Len(log_file) <= Len(log_file')
        /\ ThreadTypes'
    <3>1. CASE WriteSome(t)
      <4>1. PICK k \in 1..(Len(batch[t]) - sent[t]) :
                /\ Send(t, k)
                /\ \/ ReturnCount(t) /\ sent' = [sent EXCEPT ![t] = 0]
                   \/ /\ sent' = [sent EXCEPT ![t] = @ + k]
                      /\ UNCHANGED <<pc, op, mine, batch, mark>>
        BY <3>1 DEF WriteSome
      <4>2. k \in Nat /\ sent[t] + k <= Len(batch[t]) /\ sent[t] + k \in Nat
        BY <2>0
      <4>3. sent' \in [Threads -> Nat]
        <5>1. sent \in [Threads -> Nat]
          BY DEF RecordTypes
        <5>2. sent' = [sent EXCEPT ![t] = 0] \/ sent' = [sent EXCEPT ![t] = sent[t] + k]
          BY <4>1
        <5> QED
          BY <4>2, <5>1, <5>2
      <4>4. ASSUME ReturnCount(t) PROVE ThreadTypes'
        <5>1. /\ pc' = [pc EXCEPT ![t] = "flushed"]
              /\ UNCHANGED <<op, mine, batch, mark>>
          BY <4>4 DEF ReturnCount, Go
        <5> QED
          BY <4>3, <5>1 DEF ThreadTypes, Steps
      <4>5. ASSUME UNCHANGED <<pc, op, mine, batch, mark>> PROVE ThreadTypes'
        BY <4>3, <4>5 DEF ThreadTypes
      <4> QED
        BY <2>1, <4>1, <4>2, <4>4, <4>5
    <3>2. CASE FailWrite(t)
      <4>1. PICK k \in 0..(Len(batch[t]) - sent[t] - 1) : Send(t, k)
        BY <3>2 DEF FailWrite
      <4>2. k \in Nat /\ sent[t] + k <= Len(batch[t])
        BY <2>0
      <4> QED
        BY <2>1, <3>2, <4>1, <4>2 DEF FailWrite, ThreadTypes
    <3>3. CASE GiveUp(t)
      <4>1. sent' \in [Threads -> Nat]
        BY <3>3 DEF GiveUp, RecordTypes
      <4>2. PICK k \in 0..(Len(batch[t]) - sent[t]) : Send(t, k)
        BY <3>3 DEF GiveUp
      <4>3. k \in Nat /\ sent[t] + k <= Len(batch[t])
        BY <2>0
      <4>4. log_file' \in Seq(AllLSNs) /\ Len(log_file) <= Len(log_file')
        BY <2>1, <4>2, <4>3
      <4>5. CASE Return(t)
        BY <4>1, <4>4, <4>5, ReturnTypes
      <4>6. CASE ReturnCount(t)
        BY <4>1, <4>4, <4>6 DEF ReturnCount, ThreadTypes, Go, Steps
      <4> QED
        BY <3>3, <4>5, <4>6 DEF GiveUp
    <3> QED
      BY <1>7, <3>1, <3>2, <3>3 DEF WriteRecords
  <2>3. log_start' \in 0..Len(log_file')
    <3>1. Len(log_file') \in Nat
      BY <2>2, LenProperties
    <3> QED
      BY <1>7, <2>0, <2>2, <3>1 DEF WriteRecords, RecordTypes
  <2> QED
    BY <1>7, <2>2, <2>3
       DEF WriteRecords, ThreadTypes, RecordTypes, CallTypes, memory
<1>8. ASSUME NEW t \in Threads, PublishFlushed(t) PROVE TypesNext
  <2>1. ThreadTypes'
    BY <1>8, ReturnTypes DEF PublishFlushed, RecordTypes
  <2>2. LastOf(batch[t]) \in AllLSNs
    <3>1. batch[t] \in Seq(AllLSNs) /\ batch[t] # <<>>
      BY <1>8 DEF PublishFlushed, WALInv, Locals, RecordTypes
    <3>2. Len(batch[t]) \in 1..Len(batch[t])
      BY <3>1, EmptySeq, LenProperties
    <3> QED
      BY <3>1, <3>2, ElementOfSeq DEF LastOf
  <2> QED
    BY <1>8, <2>1, <2>2
       DEF PublishFlushed, ThreadTypes, RecordTypes, CallTypes, ghosts
<1>9. ASSUME NEW t \in Threads, TakeCheckpoint(t) PROVE TypesNext
  <2>1. ThreadTypes'
    BY <1>9 DEF TakeCheckpoint, ThreadTypes, CallTypes, Go, Steps
  <2> QED
    BY <1>9, <2>1
       DEF TakeCheckpoint, ThreadTypes, RecordTypes, CallTypes, memory, ghosts
<1>10. ASSUME NEW t \in Threads, SaveCheckpoint(t) PROVE TypesNext
  <2>1. ThreadTypes'
    <3>0. sent' = sent /\ sent' \in [Threads -> Nat]
      BY <1>10 DEF SaveCheckpoint, SaveWithin, RecordTypes
    <3>1. CASE Return(t)
      BY <3>0, <3>1, ReturnTypes
    <3>2. CASE Go(t, "publish") /\ UNCHANGED <<op, mine, batch, mark>>
      BY <3>0, <3>2 DEF ThreadTypes, Go, Steps
    <3> QED
      BY <1>10, <3>1, <3>2 DEF SaveCheckpoint, SaveWithin
  <2>2. /\ checkpoint_history_' \in Seq(AllLSNs \cup {0})
        /\ Len(checkpoint_history_') <= HistoryCap
    <3> DEFINE grown == Append(checkpoint_history_, mark[t])
    <3>0. /\ checkpoint_history_ \in Seq(AllLSNs \cup {0})
          /\ mark[t] \in AllLSNs \cup {0}
      BY DEF CallTypes
    <3>1. /\ grown \in Seq(AllLSNs \cup {0}) /\ grown # <<>>
          /\ Len(grown) = Len(checkpoint_history_) + 1
      BY <3>0, AppendOne
    <3>2. Len(checkpoint_history_) \in Nat /\ Len(checkpoint_history_) <= HistoryCap
      BY LenProperties DEF CallTypes
    <3>3. /\ Tail(grown) \in Seq(AllLSNs \cup {0})
          /\ Len(Tail(grown)) = Len(grown) - 1
      BY <3>1, HeadTailProperties
    <3>4. \/ UNCHANGED checkpoint_history_
          \/ checkpoint_history_' = IF Len(grown) > HistoryCap THEN Tail(grown)
                                    ELSE grown
      BY <1>10 DEF SaveCheckpoint, SaveWithin
    <3> HIDE DEF grown
    <3>5. CASE checkpoint_history_' = checkpoint_history_
      BY <3>5 DEF CallTypes
    <3>6. CASE Len(grown) > HistoryCap /\ checkpoint_history_' = Tail(grown)
      BY <3>1, <3>2, <3>3, <3>6
    <3>7. CASE ~(Len(grown) > HistoryCap) /\ checkpoint_history_' = grown
      BY <3>1, <3>2, <3>7
    <3> QED
      BY <3>4, <3>5, <3>6, <3>7
  <2> QED
    BY <1>10, <2>1, <2>2
       DEF SaveCheckpoint, SaveWithin, ThreadTypes, RecordTypes, CallTypes
<1>11. ASSUME NEW t \in Threads, PublishCheckpoint(t) PROVE TypesNext
  <2>1. ThreadTypes'
    BY <1>11, ReturnTypes DEF PublishCheckpoint, RecordTypes
  <2>2. last_checkpoint_lsn_' \in AllLSNs \cup {0}
    BY <1>11 DEF PublishCheckpoint, CallTypes
  <2> QED
    BY <1>11, <2>1, <2>2
       DEF PublishCheckpoint, ThreadTypes, RecordTypes, CallTypes, ghosts
<1>12. CASE Restart
  <2>1. /\ <<>> \in Seq(AllLSNs) /\ Len(<<>>) = 0
        /\ <<>> \in Seq(AllLSNs \cup {0}) /\ Len(log_file) \in Nat
    BY EmptySeq, LenProperties DEF RecordTypes
  <2> QED
    BY <1>12, <2>1 DEF Restart, RecordTypes, CallTypes, AllLSNs, Steps, Ops
<1>13. CASE UNCHANGED vars
  BY <1>13 DEF vars, memory, threads, ghosts, RecordTypes, CallTypes
<1> QED
  BY <1>1, <1>2, <1>3, <1>4, <1>5, <1>6, <1>7, <1>8, <1>9, <1>10, <1>11,
     <1>12, <1>13 DEF Next, Step

-----------------------------------------------------------------------------
(* Steps that move no record.                                              *)

\* The records, and which threads are about to move some, are as before; a
\* thread with its swap to come keeps it to come while there is something
\* to be taken.
Quiet ==
    /\ UNCHANGED <<next_lsn_, log_buffer_, buffer_mutex_, log_file, sent,
                   log_start, failed, batches>>
    /\ \A u \in Threads :
           /\ \A step \in {"push", "fill", "write"} : pc'[u] = step <=> pc[u] = step
           /\ mine'[u] \in {mine[u], <<>>} /\ batch'[u] \in {batch[u], <<>>}
           /\ pc[u] \in {"push", "fill"} => mine'[u] = mine[u]
           /\ pc'[u] = "idle" => mine'[u] = <<>>
           /\ pc'[u] \in {"write", "flushed"}
                  => pc[u] \in {"write", "flushed"} /\ batch'[u] = batch[u]
           /\ pc[u] = "swap" /\ log_buffer_ # <<>>
                  => pc'[u] = "swap" /\ mine'[u] = mine[u]

\* The end of a flush, or of a call, moves nothing.
LEMMA EndIsQuiet ==
    ASSUME ThreadTypes, Locals, NEW t \in Threads, Return(t) \/ AfterFlush(t),
           pc[t] \notin {"push", "fill", "write"},
           pc[t] = "swap" => log_buffer_ = <<>>,
           UNCHANGED <<next_lsn_, log_buffer_, buffer_mutex_, log_file, sent,
                       log_start, failed, batches>>
    PROVE  Quiet
<1>1. CASE Return(t)
  BY <1>1 DEF Return, Go, Quiet, ThreadTypes, Locals
<1>2. CASE AfterFlush(t) /\ ~Return(t)
  BY <1>2 DEF AfterFlush, Go, Quiet, ThreadTypes, Locals
<1> QED
  BY <1>1, <1>2

\* Every step but these moves no record.
LEMMA StepKinds ==
    ASSUME WALInv, [Next]_vars
    PROVE  \/ Quiet \/ Restart
           \/ \E t \in Threads :
                  \/ Log(t) \/ LogBatch(t) \/ PushRecord(t) \/ FillBatch(t)
                  \/ SwapBuffer(t) /\ log_buffer_ # <<>>
                  \/ WriteRecords(t)
<1> USE DEF file
<1> ThreadTypes /\ Locals
  BY DEF WALInv, RecordTypes, CallTypes, ThreadTypes
<1>1. ASSUME NEW t \in Threads, ForceFlush(t) \/ CreateCheckpoint(t) PROVE Quiet
  BY <1>1 DEF ForceFlush, CreateCheckpoint, Call, Go, Quiet, ThreadTypes,
              Locals, memory, ghosts
<1>2. ASSUME NEW t \in Threads, SwapBuffer(t), log_buffer_ = <<>> PROVE Quiet
  BY <1>2, EndIsQuiet DEF SwapBuffer, SwapInto, SwapFrame, ghosts
<1>3. ASSUME NEW t \in Threads, PublishFlushed(t) PROVE Quiet
  BY <1>3, EndIsQuiet DEF PublishFlushed, ghosts
<1>4. ASSUME NEW t \in Threads, TakeCheckpoint(t) PROVE Quiet
  BY <1>4 DEF TakeCheckpoint, Go, Quiet, ThreadTypes, Locals, memory, ghosts
<1>5. ASSUME NEW t \in Threads, SaveCheckpoint(t) PROVE Quiet
  <2>1. CASE Return(t)
    BY <1>5, <2>1, EndIsQuiet DEF SaveCheckpoint, SaveWithin
  <2>2. CASE Go(t, "publish") /\ UNCHANGED <<op, mine, batch, mark>>
    BY <1>5, <2>2
       DEF SaveCheckpoint, SaveWithin, Go, Quiet, ThreadTypes, Locals
  <2> QED
    BY <1>5, <2>1, <2>2 DEF SaveCheckpoint, SaveWithin
<1>6. ASSUME NEW t \in Threads, PublishCheckpoint(t) PROVE Quiet
  BY <1>6, EndIsQuiet DEF PublishCheckpoint, ghosts
<1>7. CASE UNCHANGED vars
  BY <1>7 DEF vars, memory, threads, ghosts, Quiet, Locals
<1> QED
  BY <1>1, <1>2, <1>3, <1>4, <1>5, <1>6, <1>7 DEF Next, Step

-----------------------------------------------------------------------------
(* The steps that move records.                                            *)

\* Every thread but t stays where it is.
Others(t) ==
    \A u \in Threads \ {t} : /\ pc'[u] = pc[u] /\ mine'[u] = mine[u]
                             /\ batch'[u] = batch[u] /\ sent'[u] = sent[u]

\* A call that is given its first LSN: Log to push the record later, LogBatch
\* to push it at once.
LEMMA FirstLSN ==
    ASSUME ThreadTypes, Locals, NEW t \in Threads, Log(t) \/ LogBatch(t)
    PROVE  /\ Others(t)
           /\ pc[t] = "idle" /\ mine[t] = <<>>
           /\ pc'[t] = IF Log(t) THEN "push" ELSE "fill"
           /\ mine'[t] = Append(mine[t], next_lsn_) /\ batch'[t] = batch[t]
           /\ next_lsn_' = next_lsn_ + 1 /\ next_lsn_ <= MaxLSN
           /\ UNCHANGED <<log_file, sent, log_start, failed, batches>>
<1>1. CASE Log(t)
  BY <1>1 DEF Log, Call, Go, GenerateLSN, Others, ThreadTypes, Locals, ghosts, file
<1>2. CASE ~Log(t) /\ LogBatch(t)
  BY <1>2 DEF LogBatch, StartBatch, Call, Go, GenerateLSN, Others, ThreadTypes,
              Locals, ghosts, file
<1> QED
  BY <1>1, <1>2

\* The record of a call in Log reaches the buffer.
LEMMA Pushed ==
    ASSUME ThreadTypes, NEW t \in Threads, PushRecord(t)
    PROVE  /\ Others(t)
           /\ pc[t] = "push" /\ pc'[t] = "swap"
           /\ buffer_mutex_ = NoThread
           /\ log_buffer_' = log_buffer_ \o mine[t]
           /\ UNCHANGED <<mine, batch, next_lsn_, buffer_mutex_, log_file, sent,
                          log_start, failed, batches>>
  BY DEF PushRecord, Go, Others, ThreadTypes, ghosts, file

\* One more record of a batch, perhaps the last.
LEMMA Filled ==
    ASSUME ThreadTypes, NEW t \in Threads, FillBatch(t)
    PROVE  /\ Others(t)
           /\ pc[t] = "fill"
           /\ mine'[t] = Append(mine[t], next_lsn_) /\ batch'[t] = batch[t]
           /\ next_lsn_' = next_lsn_ + 1
           /\ log_buffer_' = Append(log_buffer_, next_lsn_)
           /\ UNCHANGED <<log_file, sent, log_start, failed>>
           /\ \/ /\ Len(mine'[t]) < BatchSize
                 /\ pc'[t] = "fill" /\ UNCHANGED <<buffer_mutex_, batches>>
              \/ /\ pc'[t] = "swap" /\ buffer_mutex_' = NoThread
                 /\ batches' = batches \cup {mine'[t]}
  BY DEF FillBatch, FinishBatch, GenerateLSN, Go, Others, ThreadTypes, file

\* The buffer is taken as a whole.
LEMMA Swapped ==
    ASSUME ThreadTypes, NEW t \in Threads, SwapBuffer(t), log_buffer_ # <<>>
    PROVE  /\ Others(t)
           /\ pc[t] = "swap" /\ pc'[t] = "write"
           /\ buffer_mutex_ = NoThread
           /\ batch'[t] = log_buffer_ /\ log_buffer_' = <<>>
           /\ UNCHANGED <<mine, next_lsn_, buffer_mutex_, log_file, sent, log_start,
                          failed, batches>>
  BY DEF SwapBuffer, SwapInto, SwapFrame, Go, Others, ThreadTypes, ghosts, file

\* Some records of the batch reach the file, perhaps the last; or they do and
\* are written again later, with the others; or the call gives up.
LEMMA Wrote ==
    ASSUME ThreadTypes, NEW t \in Threads, WriteRecords(t)
    PROVE  /\ Others(t)
           /\ pc[t] = "write"
           /\ UNCHANGED <<log_buffer_, next_lsn_, buffer_mutex_, log_start, batches>>
           /\ \/ /\ batch'[t] = batch[t] /\ mine'[t] = mine[t] /\ UNCHANGED failed
                 /\ \E k \in 1..(Len(batch[t]) - sent[t]) :
                        /\ Send(t, k)
                        /\ IF sent[t] + k = Len(batch[t])
                           THEN pc'[t] = "flushed" /\ sent'[t] = 0
                           ELSE pc'[t] = "write" /\ sent'[t] = sent[t] + k
              \/ /\ pc' = pc /\ batch' = batch /\ mine' = mine /\ sent' = sent
                 /\ failed' = failed \cup Unsent(t)
                 /\ \E k \in 0..(Len(batch[t]) - sent[t] - 1) : Send(t, k)
              \/ /\ Unsent(t) \subseteq failed /\ UNCHANGED failed
                 /\ \E k \in 0..(Len(batch[t]) - sent[t]) : Send(t, k)
                 /\ sent'[t] = 0
                 /\ \/ pc'[t] = "idle" /\ mine'[t] = <<>> /\ batch'[t] = <<>>
                    \/ pc'[t] = "flushed" /\ mine'[t] = mine[t] /\ batch'[t] = batch[t]
<1>1. /\ pc[t] = "write" /\ UNCHANGED <<memory, log_start, batches>>
      /\ WriteSome(t) \/ FailWrite(t) \/ GiveUp(t)
  BY DEF WriteRecords
<1>2. CASE WriteSome(t)
  <2>1. PICK k \in 1..(Len(batch[t]) - sent[t]) :
            /\ Send(t, k)
            /\ IF sent[t] + k = Len(batch[t])
               THEN ReturnCount(t) /\ sent' = [sent EXCEPT ![t] = 0]
               ELSE /\ sent' = [sent EXCEPT ![t] = @ + k]
                    /\ UNCHANGED <<pc, mine, batch>>
            /\ UNCHANGED failed
    BY <1>2 DEF WriteSome
  <2>2. /\ Others(t) /\ batch'[t] = batch[t] /\ mine'[t] = mine[t]
        /\ IF sent[t] + k = Len(batch[t])
           THEN pc'[t] = "flushed" /\ sent'[t] = 0
           ELSE pc'[t] = "write" /\ sent'[t] = sent[t] + k
    BY <1>1, <2>1 DEF ReturnCount, Go, Others, ThreadTypes
  <2> QED
    BY <1>1, <2>1, <2>2 DEF memory
<1>3. CASE FailWrite(t)
  BY <1>1, <1>3 DEF FailWrite, Others, memory
<1>4. CASE GiveUp(t)
  BY <1>1, <1>4 DEF GiveUp, Return, ReturnCount, Go, Others, ThreadTypes, memory
<1> QED
  BY <1>1, <1>2, <1>3, <1>4

-----------------------------------------------------------------------------
(* The invariant's simpler parts.                                          *)

\* Every step keeps what a thread has between its own steps.
LEMMA LocalsStep == WALInv /\ [Next]_vars => Locals'
<1> SUFFICES ASSUME WALInv, [Next]_vars PROVE Locals'
    OBVIOUS
<1> ThreadTypes /\ RecordTypes /\ Locals
  BY DEF WALInv, RecordTypes, CallTypes, ThreadTypes
<1>1. ASSUME NEW t \in Threads, Log(t) \/ LogBatch(t) PROVE Locals'
  BY <1>1, FirstLSN DEF Locals, Others
<1>2. ASSUME NEW t \in Threads, PushRecord(t) PROVE Locals'
  BY <1>2, Pushed DEF Locals, Others
<1>3. ASSUME NEW t \in Threads, FillBatch(t) PROVE Locals'
  BY <1>3, Filled DEF Locals, Others
<1>4. ASSUME NEW t \in Threads, SwapBuffer(t), log_buffer_ # <<>> PROVE Locals'
  <2>1. /\ Others(t) /\ pc[t] = "swap" /\ pc'[t] = "write"
        /\ batch'[t] = log_buffer_ /\ mine' = mine /\ sent' = sent
    BY <1>4, Swapped
  <2>2. 0 < Len(log_buffer_)
    BY <1>4, EmptySeq, LenProperties DEF RecordTypes
  <2> QED
    BY <1>4, <2>1, <2>2 DEF Locals, Others
<1>5. ASSUME NEW t \in Threads, WriteRecords(t) PROVE Locals'
  <2>1. /\ Others(t) /\ batch[t] # <<>> /\ pc[t] = "write"
    BY <1>5, Wrote DEF Locals
  <2>2. Len(batch[t]) \in Nat /\ sent[t] \in Nat /\ sent[t] < Len(batch[t])
    BY <2>1, LenProperties DEF RecordTypes, Locals
  <2>3. \/ pc'[t] = "idle" /\ mine'[t] = <<>> /\ sent'[t] = 0
        \/ pc'[t] = "flushed" /\ batch'[t] = batch[t] /\ sent'[t] = 0
        \/ pc'[t] = "write" /\ batch'[t] = batch[t] /\ sent'[t] = sent[t]
        \/ \E k \in 1..(Len(batch[t]) - sent[t]) :
               /\ sent[t] + k # Len(batch[t])
               /\ pc'[t] = "write" /\ batch'[t] = batch[t] /\ sent'[t] = sent[t] + k
    BY <1>5, <2>1, Wrote
  <2>4. /\ pc'[t] = "idle" => mine'[t] = <<>>
        /\ pc'[t] \in {"write", "flushed"} => batch'[t] # <<>>
        /\ pc'[t] = "write" => sent'[t] < Len(batch'[t])
        /\ pc'[t] # "write" => sent'[t] = 0
    BY <2>1, <2>2, <2>3
  <2> QED
    BY <2>1, <2>4 DEF Locals, Others
<1>6. CASE Quiet
  BY <1>6 DEF Quiet, Locals
<1>7. CASE Restart
  BY <1>7 DEF Restart, Locals
<1> QED
  BY <1>1, <1>2, <1>3, <1>4, <1>5, <1>6, <1>7, StepKinds

\* A thread that fills a batch holds the mutex until the batch is complete.
LEMMA FillingStep == WALInv /\ [Next]_vars => Filling'
<1> SUFFICES ASSUME WALInv, [Next]_vars PROVE Filling'
    OBVIOUS
<1> ThreadTypes /\ RecordTypes /\ Locals /\ Filling
  BY DEF WALInv, RecordTypes, CallTypes, ThreadTypes
<1>1. ASSUME NEW t \in Threads, Log(t) PROVE Filling'
  <2>1. /\ Others(t) /\ pc'[t] = "push" /\ next_lsn_' = next_lsn_ + 1
        /\ next_lsn_ <= MaxLSN
    BY <1>1, FirstLSN
  <2>2. UNCHANGED <<buffer_mutex_, log_buffer_>>
    BY <1>1 DEF Log
  <2>3. next_lsn_ \in Nat
    BY DEF RecordTypes, AllLSNs
  <2> QED
    BY <2>1, <2>2, <2>3 DEF Filling, Others
<1>2. ASSUME NEW t \in Threads, LogBatch(t) PROVE Filling'
  <2>1. /\ Others(t) /\ mine[t] = <<>> /\ mine'[t] = Append(mine[t], next_lsn_)
        /\ next_lsn_' = next_lsn_ + 1 /\ next_lsn_ <= MaxLSN
    BY <1>2, FirstLSN
  <2>2. /\ buffer_mutex_ = NoThread /\ buffer_mutex_' = t
        /\ log_buffer_' = Append(log_buffer_, next_lsn_)
    BY <1>2 DEF LogBatch, StartBatch
  <2>3. next_lsn_ \in AllLSNs
    BY DEF RecordTypes
  <2>4. /\ Len(Append(mine[t], next_lsn_)) = Len(mine[t]) + 1
        /\ LastOf(Append(mine[t], next_lsn_)) = next_lsn_
        /\ log_buffer_' # <<>> /\ LastOf(log_buffer_') = next_lsn_
    <3>1. mine[t] \in Seq(AllLSNs) /\ log_buffer_ \in Seq(AllLSNs)
      BY DEF RecordTypes
    <3>2. /\ Len(Append(mine[t], next_lsn_)) = Len(mine[t]) + 1
          /\ LastOf(Append(mine[t], next_lsn_)) = next_lsn_
      BY <2>3, <3>1, AppendOne
    <3>3. /\ Append(log_buffer_, next_lsn_) # <<>>
          /\ LastOf(Append(log_buffer_, next_lsn_)) = next_lsn_
      BY <2>3, <3>1, AppendOne
    <3> QED
      BY <2>2, <3>2, <3>3
  <2>5. Len(mine'[t]) = 1 /\ LastOf(mine'[t]) = next_lsn_
    BY <2>1, <2>4, EmptySeq
  <2>6. \A u \in Threads \ {t} : pc'[u] # "fill"
    BY <2>1, <2>2 DEF Filling, Others
  <2>7. Len(mine'[t]) \in 1..(BatchSize - 1) /\ next_lsn_' <= MaxLSN + Len(mine'[t])
    BY <2>1, <2>3, <2>5 DEF AllLSNs
  <2> QED
    BY <2>2, <2>4, <2>5, <2>6, <2>7 DEF Filling
<1>3. ASSUME NEW t \in Threads, PushRecord(t) PROVE Filling'
  BY <1>3, Pushed DEF Filling, Others
<1>4. ASSUME NEW t \in Threads, FillBatch(t) PROVE Filling'
  <2>1. /\ Others(t) /\ pc[t] = "fill" /\ buffer_mutex_ = t
        /\ mine'[t] = Append(mine[t], next_lsn_)
        /\ next_lsn_' = next_lsn_ + 1 /\ next_lsn_ <= MaxLSN + Len(mine[t])
        /\ log_buffer_' = Append(log_buffer_, next_lsn_)
        /\ pc'[t] = "fill" => Len(mine'[t]) < BatchSize /\ UNCHANGED buffer_mutex_
    BY <1>4, Filled DEF Filling
  <2>2. next_lsn_ \in AllLSNs
    BY DEF RecordTypes
  <2>3. /\ Len(Append(mine[t], next_lsn_)) = Len(mine[t]) + 1
        /\ LastOf(Append(mine[t], next_lsn_)) = next_lsn_
        /\ log_buffer_' # <<>> /\ LastOf(log_buffer_') = next_lsn_
    <3>1. mine[t] \in Seq(AllLSNs) /\ log_buffer_ \in Seq(AllLSNs)
      BY DEF RecordTypes
    <3>2. /\ Len(Append(mine[t], next_lsn_)) = Len(mine[t]) + 1
          /\ LastOf(Append(mine[t], next_lsn_)) = next_lsn_
      BY <2>2, <3>1, AppendOne
    <3>3. /\ Append(log_buffer_, next_lsn_) # <<>>
          /\ LastOf(Append(log_buffer_, next_lsn_)) = next_lsn_
      BY <2>2, <3>1, AppendOne
    <3> QED
      BY <2>1, <3>2, <3>3
  <2>4. \A u \in Threads \ {t} : pc'[u] # "fill"
    BY <2>1 DEF Filling, Others
  <2>5. Len(mine[t]) \in Nat /\ next_lsn_ \in Nat
    BY <2>2, LenProperties DEF RecordTypes, AllLSNs
  <2>6. pc'[t] = "fill" => Len(mine'[t]) \in 1..(BatchSize - 1)
    <3>1. Len(mine'[t]) = Len(mine[t]) + 1
      BY <2>1, <2>3
    <3> QED
      BY <2>1, <2>5, <3>1
  <2>7. next_lsn_' <= MaxLSN + Len(mine'[t])
    <3>1. Len(mine'[t]) = Len(mine[t]) + 1
      BY <2>1, <2>3
    <3> QED
      BY <2>1, <2>5, <3>1
  <2> QED
    BY <2>1, <2>3, <2>4, <2>6, <2>7 DEF Filling
<1>5. ASSUME NEW t \in Threads, SwapBuffer(t), log_buffer_ # <<>> PROVE Filling'
  BY <1>5, Swapped DEF Filling, Others
<1>6. ASSUME NEW t \in Threads, WriteRecords(t) PROVE Filling'
  <2>1. /\ Others(t) /\ pc[t] = "write" /\ pc'[t] \in {"write", "flushed", "idle"}
        /\ UNCHANGED <<log_buffer_, next_lsn_, buffer_mutex_>>
    BY <1>6, Wrote
  <2> QED
    BY <2>1 DEF Filling, Others
<1>7. CASE Quiet
  BY <1>7 DEF Quiet, Filling
<1>8. CASE Restart
  BY <1>8 DEF Restart, Filling
<1> QED
  BY <1>1, <1>2, <1>3, <1>4, <1>5, <1>6, <1>7, <1>8, StepKinds

\* The log file as this run wrote it: what a step appends to the one it
\* appends to the other, and it starts again with the run.
LEMMA WrittenIs ==
    ASSUME RecordTypes
    PROVE  /\ Written \in Seq(AllLSNs)
           /\ \A u \in Seq(AllLSNs) :
                  log_file' = log_file \o u /\ log_start' = log_start
                      => Written' = Written \o u
           /\ UNCHANGED <<log_file, log_start>> => Written' = Written
           /\ Restart => Written' = <<>>
<1> USE DEF Written
<1>1. log_file \in Seq(AllLSNs) /\ log_start \in 0..Len(log_file)
  BY DEF RecordTypes
<1>2. Len(log_file) \in Nat /\ log_start \in Int
  BY <1>1, LenProperties
<1>3. Written \in Seq(AllLSNs)
  <2>1. \A i \in (log_start + 1)..Len(log_file) : log_file[i] \in AllLSNs
    BY <1>1, <1>2, ElementOfSeq
  <2> QED
    BY <1>2, <2>1, SubSeqProperties
<1>4. ASSUME NEW u \in Seq(AllLSNs), log_file' = log_file \o u,
             log_start' = log_start
      PROVE  Written' = Written \o u
  BY <1>1, <1>4, SuffixGrows
<1>5. ASSUME Restart PROVE Written' = <<>>
  BY <1>2, <1>5, SubSeqEmpty DEF Restart
<1> QED
  BY <1>3, <1>4, <1>5

\* The part of t's batch that a write with k records adds to the file.
Part(t, k) == SubSeq(batch[t], sent[t] + 1, sent[t] + k)
Sent(t, k) ==
    /\ Written' = Written \o Part(t, k)
    /\ Part(t, k) \in Seq(AllLSNs) /\ Len(Part(t, k)) = k
    /\ \A i \in 1..k : Part(t, k)[i] = batch[t][sent[t] + i]
    /\ Elements(Part(t, k)) = {batch[t][i] : i \in (sent[t] + 1)..(sent[t] + k)}

\* What a step of WriteRecords adds to the file is the next part of the batch:
\* for good, or of records that a failed write leaves to be written again.
LEMMA WrittenByBatch ==
    ASSUME RecordTypes, ThreadTypes, Locals, NEW t \in Threads, WriteRecords(t)
    PROVE  \E k \in 0..(Len(batch[t]) - sent[t]) :
               /\ Sent(t, k)
               /\ \/ /\ k # 0 /\ batch'[t] = batch[t] /\ mine'[t] = mine[t]
                     /\ failed' = failed
                     /\ IF sent[t] + k = Len(batch[t])
                        THEN pc'[t] = "flushed" /\ sent'[t] = 0
                        ELSE pc'[t] = "write" /\ sent'[t] = sent[t] + k
                  \/ /\ pc' = pc /\ batch' = batch /\ mine' = mine /\ sent' = sent
                     /\ failed' = failed \cup Unsent(t)
                  \/ /\ Unsent(t) \subseteq failed /\ failed' = failed
                     /\ sent'[t] = 0 /\ pc'[t] \in {"idle", "flushed"}
                     /\ mine'[t] \in {mine[t], <<>>} /\ batch'[t] \in {batch[t], <<>>}
<1>1. /\ batch[t] \in Seq(AllLSNs) /\ Len(batch[t]) \in Nat /\ sent[t] \in Nat
      /\ sent[t] < Len(batch[t])
  BY Wrote, LenProperties DEF RecordTypes, Locals
<1>2. log_start' = log_start
  BY Wrote
<1>3. ASSUME NEW k \in 0..(Len(batch[t]) - sent[t])
      PROVE  /\ Part(t, k) \in Seq(AllLSNs) /\ Len(Part(t, k)) = k
             /\ \A i \in 1..k : Part(t, k)[i] = batch[t][sent[t] + i]
             /\ Elements(Part(t, k))
                    = {batch[t][i] : i \in (sent[t] + 1)..(sent[t] + k)}
  <2>1. k \in Nat /\ sent[t] + k <= Len(batch[t])
    BY <1>1
  <2> DEFINE s == batch[t]
             a == sent[t]
             part == SubSeq(s, a + 1, a + k)
  <2>2. s \in Seq(AllLSNs) /\ a \in Nat /\ a + k <= Len(s)
    BY <1>1, <2>1
  <2> HIDE DEF s, a
  <2>3. /\ part \in Seq(AllLSNs) /\ Len(part) = k
        /\ \A i \in 1..k : part[i] = s[a + i]
        /\ Elements(part) = {s[i] : i \in (a + 1)..(a + k)}
    <3>1. part \in Seq(AllLSNs) /\ Len(part) = k
      BY <2>1, <2>2, PartOf
    <3>2. \A i \in 1..k : part[i] = s[a + i]
      BY <2>1, <2>2, PartOf
    <3>3. Elements(part) = {s[i] : i \in (a + 1)..(a + k)}
      <4>1. DOMAIN part = 1..k /\ k \in Nat
        BY <2>1, <3>1, LenProperties
      <4>2. \A i \in (a + 1)..(a + k) : i - a \in 1..k /\ a + (i - a) = i
        BY <2>1, <2>2
      <4>3. \A i \in 1..k : a + i \in (a + 1)..(a + k)
        BY <2>1, <2>2
      <4>4. Elements(part) = {part[i] : i \in 1..k}
        BY <4>1 DEF Elements
      <4> HIDE DEF part
      <4>5. ASSUME NEW i \in 1..k PROVE part[i] \in {s[j] : j \in (a + 1)..(a + k)}
        BY <3>2, <4>3
      <4>6. ASSUME NEW i \in (a + 1)..(a + k) PROVE s[i] \in {part[j] : j \in 1..k}
        BY <3>2, <4>2
      <4> QED
        BY <4>4, <4>5, <4>6
    <3> QED
      BY <3>1, <3>2, <3>3
  <2> USE DEF s, a
  <2>4. Part(t, k) = part
    BY DEF Part
  <2> HIDE DEF part
  <2> QED
    BY <2>3, <2>4, Zenon
<1>4. ASSUME NEW k \in 0..(Len(batch[t]) - sent[t]), Send(t, k)
      PROVE  Sent(t, k)
  <2>1. Written' = Written \o Part(t, k)
    BY <1>2, <1>3, <1>4, WrittenIs DEF Send, Part
  <2> QED
    BY <1>3, <2>1 DEF Sent
<1>5. CASE /\ batch'[t] = batch[t] /\ mine'[t] = mine[t] /\ failed' = failed
           /\ \E k \in 1..(Len(batch[t]) - sent[t]) :
                  /\ Send(t, k)
                  /\ IF sent[t] + k = Len(batch[t])
                     THEN pc'[t] = "flushed" /\ sent'[t] = 0
                     ELSE pc'[t] = "write" /\ sent'[t] = sent[t] + k
  <2>1. PICK k \in 1..(Len(batch[t]) - sent[t]) :
            /\ Send(t, k)
            /\ IF sent[t] + k = Len(batch[t])
               THEN pc'[t] = "flushed" /\ sent'[t] = 0
               ELSE pc'[t] = "write" /\ sent'[t] = sent[t] + k
    BY <1>5
  <2>2. k \in 0..(Len(batch[t]) - sent[t]) /\ k # 0
    BY <1>1
  <2>3. Sent(t, k)
    BY <1>4, <2>1, <2>2
  <2> QED
    BY <1>5, <2>1, <2>2, <2>3
<1>6. CASE /\ pc' = pc /\ batch' = batch /\ mine' = mine /\ sent' = sent
           /\ failed' = failed \cup Unsent(t)
           /\ \E k \in 0..(Len(batch[t]) - sent[t] - 1) : Send(t, k)
  <2>1. PICK k \in 0..(Len(batch[t]) - sent[t] - 1) : Send(t, k)
    BY <1>6
  <2>2. k \in 0..(Len(batch[t]) - sent[t])
    BY <1>1
  <2> QED
    BY <1>4, <1>6, <2>1, <2>2
<1>7. CASE /\ Unsent(t) \subseteq failed /\ failed' = failed
           /\ \E k \in 0..(Len(batch[t]) - sent[t]) : Send(t, k)
           /\ sent'[t] = 0 /\ pc'[t] \in {"idle", "flushed"}
           /\ mine'[t] \in {mine[t], <<>>} /\ batch'[t] \in {batch[t], <<>>}
  <2>1. PICK k \in 0..(Len(batch[t]) - sent[t]) : Send(t, k)
    BY <1>7
  <2> QED
    BY <1>4, <1>7, <2>1
<1> QED
  BY <1>5, <1>6, <1>7, Wrote

\* A record keeps its LSN when it moves, and new LSNs are handed out first.
LEMMA HandedOutStep == WALInv /\ [Next]_vars => HandedOut'
<1> SUFFICES ASSUME WALInv, [Next]_vars PROVE HandedOut'
    OBVIOUS
<1> ThreadTypes /\ RecordTypes /\ Locals /\ HandedOut
  BY DEF WALInv, RecordTypes, CallTypes, ThreadTypes
<1>0. next_lsn_ \in AllLSNs /\ next_lsn_ \in Nat \ {0}
  BY DEF RecordTypes, AllLSNs
<1>1. ASSUME next_lsn_' = next_lsn_ + 1
      PROVE  Given \subseteq Given' /\ next_lsn_ \in Given'
  BY <1>0, <1>1 DEF Given
<1>2. Elements(<<>>) = {}
  BY DEF Elements
<1>3. ASSUME NEW t \in Threads, Log(t) \/ LogBatch(t) PROVE HandedOut'
  <2>1. /\ Others(t) /\ mine'[t] = Append(mine[t], next_lsn_)
        /\ batch'[t] = batch[t] /\ next_lsn_' = next_lsn_ + 1
        /\ UNCHANGED <<log_file, log_start, failed, batches>>
    BY <1>3, FirstLSN
  <2>2. Elements(mine'[t]) = Elements(mine[t]) \cup {next_lsn_}
    BY <1>0, <2>1, AppendOne DEF RecordTypes
  <2>3. Elements(log_buffer_') \subseteq Elements(log_buffer_) \cup {next_lsn_}
    <3>1. Elements(Append(log_buffer_, next_lsn_))
              = Elements(log_buffer_) \cup {next_lsn_}
      BY <1>0, AppendOne DEF RecordTypes
    <3>2. log_buffer_' \in {log_buffer_, Append(log_buffer_, next_lsn_)}
      BY <1>3 DEF Log, LogBatch, StartBatch
    <3> QED
      BY <3>1, <3>2
  <2>4. Written' = Written
    BY <2>1, WrittenIs
  <2> QED
    BY <1>1, <2>1, <2>2, <2>3, <2>4 DEF HandedOut, Others
<1>4. ASSUME NEW t \in Threads, PushRecord(t) PROVE HandedOut'
  <2>1. Elements(log_buffer_ \o mine[t]) = Elements(log_buffer_) \cup Elements(mine[t])
    BY AppendMany DEF RecordTypes
  <2>2. /\ log_buffer_' = log_buffer_ \o mine[t]
        /\ UNCHANGED <<mine, batch, next_lsn_, failed, batches, log_file, log_start>>
    BY <1>4, Pushed
  <2>3. Written' = Written /\ Given' = Given
    BY <2>2, WrittenIs DEF Given
  <2> QED
    BY <2>1, <2>2, <2>3 DEF HandedOut
<1>5. ASSUME NEW t \in Threads, FillBatch(t) PROVE HandedOut'
  <2>1. /\ Others(t) /\ mine'[t] = Append(mine[t], next_lsn_)
        /\ batch'[t] = batch[t] /\ next_lsn_' = next_lsn_ + 1
        /\ log_buffer_' = Append(log_buffer_, next_lsn_)
        /\ UNCHANGED <<log_file, log_start, failed>>
        /\ batches' \subseteq batches \cup {mine'[t]}
    BY <1>5, Filled
  <2>2. Elements(mine'[t]) = Elements(mine[t]) \cup {next_lsn_}
    BY <1>0, <2>1, AppendOne DEF RecordTypes
  <2>3. Elements(log_buffer_') = Elements(log_buffer_) \cup {next_lsn_}
    BY <1>0, <2>1, AppendOne DEF RecordTypes
  <2>4. Written' = Written
    BY <2>1, WrittenIs
  <2>5. Elements(mine'[t]) \subseteq Given'
    BY <1>1, <2>1, <2>2 DEF HandedOut
  <2> QED
    BY <1>1, <2>1, <2>3, <2>4, <2>5 DEF HandedOut, Others
<1>6. ASSUME NEW t \in Threads, SwapBuffer(t), log_buffer_ # <<>> PROVE HandedOut'
  <2>1. /\ Others(t) /\ batch'[t] = log_buffer_ /\ log_buffer_' = <<>>
        /\ UNCHANGED <<mine, next_lsn_, failed, batches, log_file, log_start>>
    BY <1>6, Swapped
  <2>2. Written' = Written /\ Given' = Given
    BY <2>1, WrittenIs DEF Given
  <2> QED
    BY <1>2, <2>1, <2>2 DEF HandedOut, Others
<1>7. ASSUME NEW t \in Threads, WriteRecords(t) PROVE HandedOut'
  <2>1. /\ Others(t) /\ UNCHANGED <<log_buffer_, next_lsn_, batches>>
        /\ mine'[t] \in {mine[t], <<>>} /\ batch'[t] \in {batch[t], <<>>}
    BY <1>7, Wrote
  <2>2. PICK k \in 0..(Len(batch[t]) - sent[t]) :
            Sent(t, k) /\ failed' \in {failed, failed \cup Unsent(t)}
    BY <1>7, WrittenByBatch
  <2>3. /\ DOMAIN batch[t] = 1..Len(batch[t]) /\ Len(batch[t]) \in Nat
        /\ sent[t] \in Nat
    BY LenProperties DEF RecordTypes
  <2>4. failed' \subseteq failed \cup Elements(batch[t])
    BY <2>2, <2>3 DEF Elements, Unsent
  <2>5. Elements(Part(t, k)) \subseteq Elements(batch[t])
    <3>1. \A i \in (sent[t] + 1)..(sent[t] + k) : i \in DOMAIN batch[t]
      BY <2>3
    <3>2. Elements(Part(t, k)) = {batch[t][i] : i \in (sent[t] + 1)..(sent[t] + k)}
      BY <2>2 DEF Sent
    <3> QED
      BY <3>1, <3>2 DEF Elements
  <2>6. Elements(Written') = Elements(Written) \cup Elements(Part(t, k))
    <3>1. Written \in Seq(AllLSNs) /\ Part(t, k) \in Seq(AllLSNs)
      BY <2>2, WrittenIs DEF Sent
    <3>2. \A u \in Seq(AllLSNs) :
              Elements(Written \o u) = Elements(Written) \cup Elements(u)
      BY <3>1, AppendMany
    <3> QED
      BY <2>2, <3>1, <3>2 DEF Sent
  <2>7. Given' = Given
    BY <2>1 DEF Given
  <2> QED
    BY <1>2, <2>1, <2>4, <2>5, <2>6, <2>7 DEF HandedOut, Others
<1>8. CASE Quiet
  <2>1. Written' = Written /\ Given' = Given
    BY <1>8, WrittenIs DEF Quiet, Given
  <2>2. UNCHANGED <<log_buffer_, failed, batches>>
        /\ \A u \in Threads : mine'[u] \in {mine[u], <<>>} /\ batch'[u] \in {batch[u], <<>>}
    BY <1>8 DEF Quiet
  <2> QED
    BY <1>2, <2>1, <2>2 DEF HandedOut
<1>9. CASE Restart
  <2>1. Written' = <<>>
    BY <1>9, WrittenIs
  <2> QED
    BY <1>2, <1>9, <2>1 DEF Restart, HandedOut
<1> QED
  BY <1>3, <1>4, <1>5, <1>6, <1>7, <1>8, <1>9, StepKinds

\* No step leaves a record in the buffer that no call will take: a call that
\* swaps takes everything, whoever pushed it.
LEMMA LeftBehindStep == WALInv /\ [Next]_vars => NothingLeftBehind'
<1> SUFFICES ASSUME WALInv, [Next]_vars PROVE NothingLeftBehind'
    OBVIOUS
<1> ThreadTypes /\ RecordTypes /\ Locals /\ NothingLeftBehind
  BY DEF WALInv, RecordTypes, CallTypes, ThreadTypes
<1>0. next_lsn_ \in AllLSNs
  BY DEF RecordTypes
<1>1. Elements(<<>>) = {}
  BY DEF Elements
<1>2. ASSUME NEW t \in Threads, Log(t) PROVE NothingLeftBehind'
  BY <1>2, FirstLSN DEF Log, NothingLeftBehind, Others
<1>3. ASSUME NEW t \in Threads, LogBatch(t) PROVE NothingLeftBehind'
  <2>1. /\ Others(t) /\ pc[t] = "idle" /\ pc'[t] = "fill"
        /\ mine'[t] = Append(mine[t], next_lsn_)
        /\ log_buffer_' = Append(log_buffer_, next_lsn_)
    BY <1>3, FirstLSN DEF LogBatch, StartBatch, Call, Go, ThreadTypes
  <2>2. /\ Elements(mine'[t]) = Elements(mine[t]) \cup {next_lsn_}
        /\ Elements(log_buffer_') = Elements(log_buffer_) \cup {next_lsn_}
    BY <1>0, <2>1, AppendOne DEF RecordTypes
  <2> QED
    BY <2>1, <2>2 DEF NothingLeftBehind, Others
<1>4. ASSUME NEW t \in Threads, PushRecord(t) PROVE NothingLeftBehind'
  <2>1. Elements(log_buffer_ \o mine[t]) = Elements(log_buffer_) \cup Elements(mine[t])
    BY AppendMany DEF RecordTypes
  <2> QED
    BY <1>4, <2>1, Pushed DEF NothingLeftBehind, Others
<1>5. ASSUME NEW t \in Threads, FillBatch(t) PROVE NothingLeftBehind'
  <2>1. /\ Others(t) /\ pc'[t] \in {"fill", "swap"}
        /\ mine'[t] = Append(mine[t], next_lsn_)
        /\ log_buffer_' = Append(log_buffer_, next_lsn_)
    BY <1>5, Filled
  <2>2. /\ Elements(mine'[t]) = Elements(mine[t]) \cup {next_lsn_}
        /\ Elements(log_buffer_') = Elements(log_buffer_) \cup {next_lsn_}
    BY <1>0, <2>1, AppendOne DEF RecordTypes
  <2> QED
    BY <2>1, <2>2 DEF NothingLeftBehind, Others
<1>6. ASSUME NEW t \in Threads, SwapBuffer(t), log_buffer_ # <<>>
      PROVE  NothingLeftBehind'
  BY <1>1, <1>6, Swapped DEF NothingLeftBehind
<1>7. ASSUME NEW t \in Threads, WriteRecords(t) PROVE NothingLeftBehind'
  BY <1>7, Wrote DEF NothingLeftBehind, Others
<1>8. CASE Quiet
  <2>1. log_buffer_' = log_buffer_
    BY <1>8 DEF Quiet
  <2>2. CASE log_buffer_ = <<>>
    BY <1>1, <2>1, <2>2 DEF NothingLeftBehind
  <2>3. CASE log_buffer_ # <<>>
    BY <1>8, <2>1, <2>3 DEF NothingLeftBehind, Quiet
  <2> QED
    BY <2>2, <2>3
<1>9. CASE Restart
  BY <1>1, <1>9 DEF Restart, NothingLeftBehind
<1> QED
  BY <1>2, <1>3, <1>4, <1>5, <1>6, <1>7, <1>8, <1>9, StepKinds

-----------------------------------------------------------------------------
(* Each record in one place.                                               *)

\* Record n is at position i of the sequence that k names.
Located(n, k, i) ==
    \/ /\ k = <<"buffer", NoThread>>
       /\ i \in DOMAIN log_buffer_ /\ log_buffer_[i] = n
    \/ /\ k = <<"file", NoThread>>
       /\ i \in DOMAIN Written /\ Written[i] = n
    \/ \E t \in Threads : /\ k = <<"push", t>> /\ pc[t] = "push"
                          /\ i \in DOMAIN mine[t] /\ mine[t][i] = n
    \/ \E t \in Threads : /\ k = <<"write", t>> /\ pc[t] = "write"
                          /\ i \in DOMAIN batch[t] /\ batch[t][i] = n
                          /\ i > sent[t]

\* The places of n are the positions where it is.
LEMMA PlacesAre ==
    ASSUME NEW n
    PROVE  /\ \A k, i : <<k, i>> \in Places(n) <=> Located(n, k, i)
           /\ \A p \in Places(n) : \E k, i : p = <<k, i>>
  BY DEF Places, Located

\* So they are after the step.
LEMMA PlacesWillBe ==
    ASSUME NEW n
    PROVE  /\ \A k, i : <<k, i>> \in Places(n)' <=> Located(n, k, i)'
           /\ \A p \in Places(n)' : \E k, i : p = <<k, i>>
  BY DEF Places, Located

\* From places P to places Q what is at the positions moved of the sequence
\* src moves to the one called dst, base further on.
Moved(P, Q, src, dst, base, moved) ==
    /\ \A p \in P : \E k, i : p = <<k, i>>
    /\ \A q \in Q : \E k, i : q = <<k, i>>
    /\ \A k, i : <<k, i>> \in Q <=>
           \/ <<k, i>> \in P /\ ~(k = src /\ i \in moved)
           \/ k = dst /\ \E j \in moved : <<src, j>> \in P /\ i = base + j

\* A record in one place is in one place when a part of a sequence moves.
LEMMA MoveOne ==
    ASSUME NEW P, NEW Q, NEW src, NEW dst, NEW base, NEW moved,
           Moved(P, Q, src, dst, base, moved),
           NEW n, NEW excepted, InOne(P, n, excepted)
    PROVE  InOne(Q, n, excepted)
<1> USE DEF Moved
<1>1. ASSUME NEW p, P = {p} PROVE \E q : Q = {q}
  <2>1. PICK k, i : p = <<k, i>>
    BY <1>1
  <2>2. CASE k = src /\ i \in moved
    <3>1. <<dst, base + i>> \in Q
      BY <1>1, <2>1, <2>2
    <3>2. \A q \in Q : q = <<dst, base + i>>
      BY <1>1, <2>1, <2>2
    <3> QED
      BY <3>1, <3>2
  <2>3. CASE ~(k = src /\ i \in moved)
    <3>1. p \in Q
      BY <1>1, <2>1, <2>3
    <3>2. \A q \in Q : q = p
      BY <1>1, <2>1, <2>3
    <3> QED
      BY <3>1, <3>2
  <2> QED
    BY <2>2, <2>3
<1> QED
  BY <1>1 DEF InOne

\* PushRecord moves what t has to push to the end of the buffer.
LEMMA PushMoves ==
    ASSUME ThreadTypes, RecordTypes, NEW t \in Threads, PushRecord(t),
           NEW n, NEW k, NEW i
    PROVE  Located(n, k, i)' <=>
               \/ Located(n, k, i) /\ ~(k = <<"push", t>> /\ i \in Nat)
               \/ /\ k = <<"buffer", NoThread>>
                  /\ \E j \in Nat : /\ Located(n, <<"push", t>>, j)
                                    /\ i = Len(log_buffer_) + j
<1>1. /\ Others(t) /\ pc[t] = "push" /\ pc'[t] = "swap"
      /\ log_buffer_' = log_buffer_ \o mine[t]
      /\ mine' = mine /\ batch' = batch /\ sent' = sent
      /\ UNCHANGED <<log_file, log_start>>
  BY Pushed
<1>2. Written' = Written
  BY <1>1, WrittenIs
<1>3. /\ DOMAIN log_buffer_' = 1..(Len(log_buffer_) + Len(mine[t]))
      /\ \A j \in 1..Len(log_buffer_) : log_buffer_'[j] = log_buffer_[j]
      /\ \A j \in 1..Len(mine[t]) : log_buffer_'[Len(log_buffer_) + j] = mine[t][j]
      /\ DOMAIN log_buffer_ = 1..Len(log_buffer_) /\ Len(log_buffer_) \in Nat
      /\ DOMAIN mine[t] = 1..Len(mine[t]) /\ Len(mine[t]) \in Nat
  BY <1>1, AppendMany, LenProperties DEF RecordTypes
<1>4. i \in DOMAIN log_buffer_' /\ log_buffer_'[i] = n <=>
          \/ i \in DOMAIN log_buffer_ /\ log_buffer_[i] = n
          \/ \E j \in DOMAIN mine[t] : mine[t][j] = n /\ i = Len(log_buffer_) + j
  <2>1. ASSUME i \in DOMAIN log_buffer_', i \notin 1..Len(log_buffer_)
        PROVE  /\ i - Len(log_buffer_) \in 1..Len(mine[t])
               /\ i = Len(log_buffer_) + (i - Len(log_buffer_))
    BY <1>3, <2>1
  <2>2. \A j \in 1..Len(mine[t]) : Len(log_buffer_) + j \in DOMAIN log_buffer_'
    BY <1>3
  <2>3. 1..Len(log_buffer_) \subseteq DOMAIN log_buffer_'
    BY <1>3
  <2> QED
    BY <1>3, <2>1, <2>2, <2>3
<1>5. \A j : Located(n, <<"push", t>>, j) <=> j \in DOMAIN mine[t] /\ mine[t][j] = n
  BY <1>1 DEF Located
<1>6. \A j \in DOMAIN mine[t] : j \in Nat
  BY <1>3
<1> QED
  BY <1>1, <1>2, <1>4, <1>5, <1>6 DEF Located, Others

\* SwapBuffer moves the buffer to t's batch.
LEMMA SwapMoves ==
    ASSUME ThreadTypes, RecordTypes, Locals, NEW t \in Threads, SwapBuffer(t),
           log_buffer_ # <<>>, NEW n, NEW k, NEW i
    PROVE  Located(n, k, i)' <=>
               \/ Located(n, k, i) /\ ~(k = <<"buffer", NoThread>> /\ i \in Nat)
               \/ /\ k = <<"write", t>>
                  /\ \E j \in Nat : /\ Located(n, <<"buffer", NoThread>>, j)
                                    /\ i = 0 + j
<1>1. /\ Others(t) /\ pc[t] = "swap" /\ pc'[t] = "write"
      /\ batch'[t] = log_buffer_ /\ log_buffer_' = <<>> /\ mine' = mine
      /\ sent' = sent /\ sent[t] = 0
      /\ UNCHANGED <<log_file, log_start>>
  BY Swapped DEF Locals
<1>2. Written' = Written /\ DOMAIN <<>> = {}
  BY <1>1, WrittenIs
<1>3. DOMAIN log_buffer_ = 1..Len(log_buffer_) /\ Len(log_buffer_) \in Nat
  BY LenProperties DEF RecordTypes
<1>4. \A j : Located(n, <<"buffer", NoThread>>, j)
                 <=> j \in DOMAIN log_buffer_ /\ log_buffer_[j] = n
  BY DEF Located
<1>5. \A j \in DOMAIN log_buffer_ : 0 + j = j /\ j \in Nat /\ j > 0
  BY <1>3
<1> QED
  BY <1>1, <1>2, <1>4, <1>5 DEF Located, Others

\* The j-th of a sequence is as far from its a-th as another is from b.
LEMMA Shifted ==
    ASSUME NEW a \in Nat, NEW b \in Nat, NEW m \in Nat, NEW j \in (a + 1)..(a + m)
    PROVE  /\ j - a \in 1..m /\ a + (j - a) = j
           /\ b + (j - a) = (b - a) + j
           /\ (b - a) + j \in (b + 1)..(b + m)
  OBVIOUS

\* WriteRecords moves records of the batch to the end of the file, or none,
\* and none of those whose write failed matters.
LEMMA WriteMoves ==
    ASSUME ThreadTypes, RecordTypes, Locals, NEW t \in Threads, WriteRecords(t),
           NEW n, n \notin failed'
    PROVE  \E moved : \A k, i :
               Located(n, k, i)' <=>
                   \/ Located(n, k, i) /\ ~(k = <<"write", t>> /\ i \in moved)
                   \/ /\ k = <<"file", NoThread>>
                      /\ \E j \in moved : /\ Located(n, <<"write", t>>, j)
                                          /\ i = (Len(Written) - sent[t]) + j
<1>1. PICK m \in 0..(Len(batch[t]) - sent[t]) :
          /\ Sent(t, m)
          /\ \/ /\ m # 0 /\ batch'[t] = batch[t] /\ failed' = failed
                /\ IF sent[t] + m = Len(batch[t])
                   THEN pc'[t] = "flushed" /\ sent'[t] = 0
                   ELSE pc'[t] = "write" /\ sent'[t] = sent[t] + m
             \/ /\ pc' = pc /\ batch' = batch /\ sent' = sent
                /\ failed' = failed \cup Unsent(t)
             \/ /\ Unsent(t) \subseteq failed /\ failed' = failed
                /\ pc'[t] \in {"idle", "flushed"}
  BY WrittenByBatch
<1>2. /\ Others(t) /\ pc[t] = "write" /\ pc'[t] # "push"
      /\ log_buffer_' = log_buffer_
  BY <1>1, Wrote
<1>3. /\ Written \in Seq(AllLSNs) /\ Part(t, m) \in Seq(AllLSNs)
      /\ Len(Part(t, m)) = m /\ Written' = Written \o Part(t, m)
      /\ \A j \in 1..m : Part(t, m)[j] = batch[t][sent[t] + j]
  BY <1>1, WrittenIs DEF Sent
<1>4. /\ DOMAIN Written' = 1..(Len(Written) + m)
      /\ \A j \in 1..Len(Written) : Written'[j] = Written[j]
      /\ \A j \in 1..m : Written'[Len(Written) + j] = batch[t][sent[t] + j]
      /\ DOMAIN Written = 1..Len(Written) /\ Len(Written) \in Nat
      /\ DOMAIN batch[t] = 1..Len(batch[t]) /\ Len(batch[t]) \in Nat
      /\ sent[t] \in Nat
  <2>0. Written \in Seq(AllLSNs) /\ Part(t, m) \in Seq(AllLSNs)
    BY <1>3
  <2>1. /\ DOMAIN (Written \o Part(t, m)) = 1..(Len(Written) + Len(Part(t, m)))
        /\ \A j \in 1..Len(Written) : (Written \o Part(t, m))[j] = Written[j]
        /\ \A j \in 1..Len(Part(t, m)) :
               (Written \o Part(t, m))[Len(Written) + j] = Part(t, m)[j]
    BY <2>0, AppendMany
  <2>2. DOMAIN Written = 1..Len(Written) /\ Len(Written) \in Nat
    BY <1>3, LenProperties
  <2>3. /\ DOMAIN batch[t] = 1..Len(batch[t]) /\ Len(batch[t]) \in Nat
        /\ sent[t] \in Nat
    BY LenProperties DEF RecordTypes
  <2> QED
    BY <1>3, <2>1, <2>2, <2>3
<1>5. \A j : Located(n, <<"write", t>>, j)
                 <=> j \in DOMAIN batch[t] /\ batch[t][j] = n /\ j > sent[t]
  BY <1>2 DEF Located
<1> DEFINE new(i) == i \in (Len(Written) + 1)..(Len(Written) + m) /\ Written'[i] = n
<1>6. ASSUME NEW i
      PROVE  i \in DOMAIN Written' /\ Written'[i] = n
                 <=> (i \in DOMAIN Written /\ Written[i] = n) \/ new(i)
  <2>1. i \in 1..(Len(Written) + m)
            <=> i \in 1..Len(Written) \/ i \in (Len(Written) + 1)..(Len(Written) + m)
    BY <1>4
  <2>2. i \in 1..Len(Written) => i \notin (Len(Written) + 1)..(Len(Written) + m)
    BY <1>4
  <2> QED
    BY <1>4, <2>1, <2>2
<1>7. ASSUME NEW i, new(i)
      PROVE  \E j \in (sent[t] + 1)..(sent[t] + m) :
                 batch[t][j] = n /\ i = (Len(Written) - sent[t]) + j
  <2>1. /\ i - Len(Written) \in 1..m /\ Len(Written) + (i - Len(Written)) = i
        /\ sent[t] + (i - Len(Written)) \in (sent[t] + 1)..(sent[t] + m)
        /\ i = (Len(Written) - sent[t]) + (sent[t] + (i - Len(Written)))
    BY <1>4, <1>7
  <2>2. batch[t][sent[t] + (i - Len(Written))] = n
    BY <1>4, <1>7, <2>1
  <2> QED
    BY <2>1, <2>2
<1>8. ASSUME NEW j \in (sent[t] + 1)..(sent[t] + m), batch[t][j] = n
      PROVE  new((Len(Written) - sent[t]) + j)
  <2>1. /\ j - sent[t] \in 1..m /\ sent[t] + (j - sent[t]) = j
        /\ Len(Written) + (j - sent[t]) = (Len(Written) - sent[t]) + j
        /\ (Len(Written) - sent[t]) + j
               \in (Len(Written) + 1)..(Len(Written) + m)
    <3>1. sent[t] \in Nat /\ Len(Written) \in Nat /\ m \in Nat
      BY <1>4
    <3> QED
      BY <3>1, Shifted
  <2>2. Written'[Len(Written) + (j - sent[t])] = batch[t][sent[t] + (j - sent[t])]
    BY <1>4, <2>1
  <2>3. Written'[(Len(Written) - sent[t]) + j] = n
    BY <1>8, <2>1, <2>2
  <2> QED
    BY <2>1, <2>3
<1>9. \A j \in (sent[t] + 1)..(sent[t] + m) : j \in DOMAIN batch[t] /\ j > sent[t]
  BY <1>4
<1> HIDE DEF new
<1>10. CASE /\ batch'[t] = batch[t]
            /\ IF sent[t] + m = Len(batch[t])
               THEN pc'[t] = "flushed" /\ sent'[t] = 0
               ELSE pc'[t] = "write" /\ sent'[t] = sent[t] + m
  <2> DEFINE moved == (sent[t] + 1)..(sent[t] + m)
  <2>1. ASSUME NEW i
        PROVE  new(i) <=> \E j \in moved : /\ Located(n, <<"write", t>>, j)
                                           /\ i = (Len(Written) - sent[t]) + j
    BY <1>5, <1>7, <1>8, <1>9
  <2>2. ASSUME NEW i
        PROVE  pc'[t] = "write" /\ i \in DOMAIN batch'[t] /\ batch'[t][i] = n
                       /\ i > sent'[t]
                   <=> Located(n, <<"write", t>>, i) /\ i \notin moved
    <3>1. CASE sent[t] + m = Len(batch[t])
      <4>1. \A j \in DOMAIN batch[t] : j > sent[t] => j \in moved
        BY <1>4, <3>1
      <4>2. pc'[t] # "write"
        BY <1>10, <3>1
      <4> QED
        BY <1>5, <4>1, <4>2
    <3>2. CASE sent[t] + m # Len(batch[t])
      <4>1. \A j \in DOMAIN batch[t] :
                j > sent[t] + m <=> j > sent[t] /\ j \notin moved
        BY <1>4
      <4>2. pc'[t] = "write" /\ batch'[t] = batch[t] /\ sent'[t] = sent[t] + m
        BY <1>10, <3>2
      <4> HIDE DEF moved
      <4> QED
        BY <1>5, <4>1, <4>2
    <3> QED
      BY <3>1, <3>2
  <2> HIDE DEF moved
  <2>3. ASSUME NEW k, NEW i
        PROVE  Located(n, k, i)' <=>
                   \/ Located(n, k, i) /\ ~(k = <<"write", t>> /\ i \in moved)
                   \/ /\ k = <<"file", NoThread>>
                      /\ \E j \in moved : /\ Located(n, <<"write", t>>, j)
                                          /\ i = (Len(Written) - sent[t]) + j
    <3>1. CASE k = <<"write", t>>
      BY <2>2, <3>1 DEF Located
    <3>2. CASE k = <<"file", NoThread>>
      BY <1>6, <2>1, <3>2 DEF Located
    <3>3. CASE k # <<"write", t>> /\ k # <<"file", NoThread>>
      BY <1>2, <3>3 DEF Located, Others
    <3> QED
      BY <3>1, <3>2, <3>3
  <2> QED
    BY <2>3
<1>11. CASE \/ /\ pc' = pc /\ batch' = batch /\ sent' = sent
               /\ failed' = failed \cup Unsent(t)
            \/ /\ Unsent(t) \subseteq failed /\ failed' = failed
               /\ pc'[t] \in {"idle", "flushed"}
  <2>1. \A j : ~Located(n, <<"write", t>>, j)
    <3>1. n \notin Unsent(t)
      BY <1>11
    <3>2. ASSUME NEW j \in DOMAIN batch[t], j > sent[t]
          PROVE  batch[t][j] \in Unsent(t)
      BY <1>4, <3>2 DEF Unsent
    <3> QED
      BY <1>5, <3>1, <3>2
  <2>2. ASSUME NEW i PROVE ~new(i)
    BY <1>5, <1>7, <1>9, <2>1
  <2>3. ASSUME NEW k, NEW i PROVE Located(n, k, i)' <=> Located(n, k, i)
    <3>1. CASE k = <<"write", t>>
      BY <1>2, <1>11, <2>1, <3>1 DEF Located
    <3>2. CASE k = <<"file", NoThread>>
      BY <1>6, <2>2, <3>2 DEF Located
    <3>3. CASE k # <<"write", t>> /\ k # <<"file", NoThread>>
      BY <1>2, <3>3 DEF Located, Others
    <3> QED
      BY <3>1, <3>2, <3>3
  <2> WITNESS {}
  <2> QED
    BY <2>3
<1> QED
  BY <1>1, <1>10, <1>11

\* What is handed out is older than the next LSN, which is nowhere yet.
LEMMA NextIsNowhere ==
    ASSUME RecordTypes, HandedOut, NEW k, NEW i
    PROVE  ~Located(next_lsn_, k, i)
<1>1. next_lsn_ \notin Given
  BY DEF Given, RecordTypes, AllLSNs
<1> QED
  BY <1>1 DEF Located, HandedOut, Elements

\* A call that takes an LSN puts its record in one place, and moves no other.
LEMMA NewLSNPlaced ==
    ASSUME ThreadTypes, RecordTypes, Locals, NEW t \in Threads,
           Log(t) \/ LogBatch(t) \/ FillBatch(t),
           NEW n, NEW k, NEW i
    PROVE  Located(n, k, i)' <=>
               \/ Located(n, k, i)
               \/ /\ n = next_lsn_
                  /\ IF Log(t) THEN k = <<"push", t>> /\ i = 1
                     ELSE k = <<"buffer", NoThread>> /\ i = Len(log_buffer_) + 1
<1>0. next_lsn_ \in AllLSNs
  BY DEF RecordTypes
<1>1. CASE Log(t)
  <2>1. /\ Others(t) /\ pc[t] = "idle" /\ mine[t] = <<>> /\ pc'[t] = "push"
        /\ mine'[t] = Append(mine[t], next_lsn_)
        /\ UNCHANGED <<log_file, log_start>>
    BY <1>1, FirstLSN
  <2>2. /\ DOMAIN Append(mine[t], next_lsn_) = 1..(Len(mine[t]) + 1)
        /\ Append(mine[t], next_lsn_)[Len(mine[t]) + 1] = next_lsn_
    BY <1>0, AppendOne DEF RecordTypes
  <2>3. DOMAIN mine'[t] = {1} /\ mine'[t][1] = next_lsn_
    BY <2>1, <2>2, EmptySeq
  <2>4. Written' = Written /\ log_buffer_' = log_buffer_
    BY <1>1, <2>1, WrittenIs DEF Log
  <2> QED
    BY <1>1, <2>1, <2>3, <2>4 DEF Located, Others
<1>2. CASE ~Log(t) /\ (LogBatch(t) \/ FillBatch(t))
  <2>1. /\ Others(t) /\ pc[t] \in {"idle", "fill"} /\ pc'[t] \in {"fill", "swap"}
        /\ log_buffer_' = Append(log_buffer_, next_lsn_)
        /\ UNCHANGED <<log_file, log_start>>
    BY <1>2, FirstLSN, Filled DEF LogBatch, StartBatch
  <2>2. /\ DOMAIN log_buffer_' = 1..(Len(log_buffer_) + 1)
        /\ \A j \in 1..Len(log_buffer_) : log_buffer_'[j] = log_buffer_[j]
        /\ log_buffer_'[Len(log_buffer_) + 1] = next_lsn_
    BY <1>0, <2>1, AppendOne DEF RecordTypes
  <2>3. DOMAIN log_buffer_ = 1..Len(log_buffer_) /\ Len(log_buffer_) \in Nat
    BY LenProperties DEF RecordTypes
  <2>4. i \in DOMAIN log_buffer_' /\ log_buffer_'[i] = n <=>
            \/ i \in DOMAIN log_buffer_ /\ log_buffer_[i] = n
            \/ i = Len(log_buffer_) + 1 /\ n = next_lsn_
    BY <2>2, <2>3
  <2>5. Written' = Written
    BY <2>1, WrittenIs
  <2> QED
    BY <1>2, <2>1, <2>4, <2>5 DEF Located, Others
<1> QED
  BY <1>1, <1>2

\* Every step leaves each record in one place unless its write failed.
LEMMA OnePlaceStep == WALInv /\ [Next]_vars => OnePlace'
<1> SUFFICES ASSUME WALInv, [Next]_vars, NEW n \in Given'
             PROVE  InOne(Places(n)', n, failed')
    BY DEF OnePlace
<1> ThreadTypes /\ RecordTypes /\ Locals /\ HandedOut /\ OnePlace
  BY DEF WALInv, RecordTypes, CallTypes, ThreadTypes
<1> DEFINE P == Places(n)
           Q == Places(n)'
<1>1. /\ \A k, i : <<k, i>> \in P <=> Located(n, k, i)
      /\ \A p \in P : \E k, i : p = <<k, i>>
  BY PlacesAre
<1>2. /\ \A k, i : <<k, i>> \in Q <=> Located(n, k, i)'
      /\ \A q \in Q : \E k, i : q = <<k, i>>
  BY PlacesWillBe
<1>3. n \in Given => InOne(P, n, failed)
  BY DEF OnePlace
<1> HIDE DEF P, Q
<1>4. ASSUME NEW t \in Threads, PushRecord(t)
      PROVE  InOne(Q, n, failed')
  <2>1. n \in Given /\ failed' = failed
    BY <1>4, Pushed DEF Given
  <2>2. Moved(P, Q, <<"push", t>>, <<"buffer", NoThread>>, Len(log_buffer_), Nat)
    <3>1. ASSUME NEW k, NEW i
          PROVE  Located(n, k, i)' <=>
                     \/ Located(n, k, i) /\ ~(k = <<"push", t>> /\ i \in Nat)
                     \/ /\ k = <<"buffer", NoThread>>
                        /\ \E j \in Nat : /\ Located(n, <<"push", t>>, j)
                                          /\ i = Len(log_buffer_) + j
      BY <1>4, PushMoves
    <3>2. \A j : Located(n, <<"push", t>>, j) <=> <<<<"push", t>>, j>> \in P
      BY <1>1
    <3>3. ASSUME NEW k, NEW i
          PROVE  <<k, i>> \in Q <=>
                     \/ <<k, i>> \in P /\ ~(k = <<"push", t>> /\ i \in Nat)
                     \/ /\ k = <<"buffer", NoThread>>
                        /\ \E j \in Nat : /\ <<<<"push", t>>, j>> \in P
                                          /\ i = Len(log_buffer_) + j
      <4>1. <<k, i>> \in Q <=> Located(n, k, i)'
        BY <1>2
      <4>2. <<k, i>> \in P <=> Located(n, k, i)
        BY <1>1
      <4> QED
        BY <3>1, <3>2, <4>1, <4>2, Zenon
    <3> QED
      BY <1>1, <1>2, <3>3, Zenon DEF Moved
  <2> QED
    BY <1>3, <2>1, <2>2, MoveOne
<1>5. ASSUME NEW t \in Threads, SwapBuffer(t), log_buffer_ # <<>>
      PROVE  InOne(Q, n, failed')
  <2>1. n \in Given /\ failed' = failed
    BY <1>5, Swapped DEF Given
  <2>2. Moved(P, Q, <<"buffer", NoThread>>, <<"write", t>>, 0, Nat)
    <3>1. ASSUME NEW k, NEW i
          PROVE  Located(n, k, i)' <=>
                     \/ Located(n, k, i) /\ ~(k = <<"buffer", NoThread>> /\ i \in Nat)
                     \/ /\ k = <<"write", t>>
                        /\ \E j \in Nat : /\ Located(n, <<"buffer", NoThread>>, j)
                                          /\ i = 0 + j
      BY <1>5, SwapMoves
    <3>2. \A j : Located(n, <<"buffer", NoThread>>, j) <=> <<<<"buffer", NoThread>>, j>> \in P
      BY <1>1
    <3>3. ASSUME NEW k, NEW i
          PROVE  <<k, i>> \in Q <=>
                     \/ <<k, i>> \in P /\ ~(k = <<"buffer", NoThread>> /\ i \in Nat)
                     \/ /\ k = <<"write", t>>
                        /\ \E j \in Nat : /\ <<<<"buffer", NoThread>>, j>> \in P
                                          /\ i = 0 + j
      <4>1. <<k, i>> \in Q <=> Located(n, k, i)'
        BY <1>2
      <4>2. <<k, i>> \in P <=> Located(n, k, i)
        BY <1>1
      <4> QED
        BY <3>1, <3>2, <4>1, <4>2, Zenon
    <3> QED
      BY <1>1, <1>2, <3>3, Zenon DEF Moved
  <2> QED
    BY <1>3, <2>1, <2>2, MoveOne
<1>6. ASSUME NEW t \in Threads, WriteRecords(t)
      PROVE  InOne(Q, n, failed')
  <2>1. n \in Given /\ failed \subseteq failed'
    BY <1>6, Wrote DEF Given
  <2>2. CASE n \in failed'
    BY <2>2 DEF InOne
  <2>3. CASE n \notin failed'
    <3>1. PICK moved : \A k, i :
              Located(n, k, i)' <=>
                  \/ Located(n, k, i) /\ ~(k = <<"write", t>> /\ i \in moved)
                  \/ /\ k = <<"file", NoThread>>
                     /\ \E j \in moved : /\ Located(n, <<"write", t>>, j)
                                         /\ i = (Len(Written) - sent[t]) + j
      BY <1>6, <2>3, WriteMoves
    <3>2. Moved(P, Q, <<"write", t>>, <<"file", NoThread>>,
                Len(Written) - sent[t], moved)
      BY <1>1, <1>2, <3>1 DEF Moved
    <3>3. InOne(Q, n, failed)
      BY <1>3, <2>1, <3>2, MoveOne
    <3>4. n \notin failed
      BY <2>1, <2>3
    <3> QED
      BY <3>3, <3>4 DEF InOne
  <2> QED
    BY <2>2, <2>3
<1>7. ASSUME NEW t \in Threads, Log(t) \/ LogBatch(t) \/ FillBatch(t)
      PROVE  InOne(Q, n, failed')
  <2>1. failed' = failed /\ next_lsn_' = next_lsn_ + 1
    BY <1>7, FirstLSN, Filled
  <2>2. \A k, i : Located(n, k, i)' <=>
            \/ Located(n, k, i)
            \/ /\ n = next_lsn_
               /\ IF Log(t) THEN k = <<"push", t>> /\ i = 1
                  ELSE k = <<"buffer", NoThread>> /\ i = Len(log_buffer_) + 1
    BY <1>7, NewLSNPlaced
  <2>3. CASE n = next_lsn_
    <3>1. n \notin failed
      BY <2>3 DEF HandedOut, Given, RecordTypes, AllLSNs
    <3>2. \A k, i : ~Located(n, k, i)
      BY <2>3, NextIsNowhere
    <3>3. CASE Log(t)
      <4>1. \A k, i : <<k, i>> \in Q <=> k = <<"push", t>> /\ i = 1
        BY <1>2, <2>2, <2>3, <3>2, <3>3
      <4>2. Q = {<<<<"push", t>>, 1>>}
        BY <1>2, <4>1
      <4> QED
        BY <2>1, <3>1, <4>2 DEF InOne
    <3>4. CASE ~Log(t)
      <4>1. \A k, i : <<k, i>> \in Q
                <=> k = <<"buffer", NoThread>> /\ i = Len(log_buffer_) + 1
        BY <1>2, <2>2, <2>3, <3>2, <3>4
      <4>2. Q = {<<<<"buffer", NoThread>>, Len(log_buffer_) + 1>>}
        BY <1>2, <4>1
      <4> QED
        BY <2>1, <3>1, <4>2 DEF InOne
    <3> QED
      BY <3>3, <3>4
  <2>4. CASE n # next_lsn_
    <3>1. n \in Given
      BY <2>1, <2>4 DEF Given, RecordTypes, AllLSNs
    <3>2. \A q : q \in Q <=> q \in P
      BY <1>1, <1>2, <2>2, <2>4
    <3>3. Q = P
      BY <3>2
    <3> QED
      BY <1>3, <2>1, <3>1, <3>3
  <2> QED
    BY <2>3, <2>4
<1>8. ASSUME Quiet PROVE InOne(Q, n, failed')
  <2>1. Written' = Written /\ n \in Given /\ failed' = failed
    BY <1>8, WrittenIs DEF Quiet, Given
  <2>2. log_buffer_' = log_buffer_
        /\ \A u \in Threads :
               /\ pc'[u] = "push" <=> pc[u] = "push"
               /\ pc'[u] = "write" <=> pc[u] = "write"
               /\ pc[u] = "push" => mine'[u] = mine[u]
               /\ pc'[u] = "write" => batch'[u] = batch[u]
               /\ sent'[u] = sent[u]
    BY <1>8 DEF Quiet
  <2>3. \A k, i : Located(n, k, i)' <=> Located(n, k, i)
    BY <2>1, <2>2 DEF Located
  <2>4. \A q : q \in Q <=> q \in P
    BY <1>1, <1>2, <2>3
  <2>5. Q = P
    BY <2>4
  <2> QED
    BY <1>3, <2>1, <2>5
<1>9. ASSUME Restart PROVE InOne(Q, n, failed')
  BY <1>9 DEF Restart, Given
<1>10. InOne(Q, n, failed')
  BY <1>4, <1>5, <1>6, <1>7, <1>8, <1>9, StepKinds
<1> QED
  BY <1>10 DEF Q

-----------------------------------------------------------------------------
(* Batches in order.                                                       *)

\* What has been sent stays in the file as long as its batch is being written.
LEMMA SentStep == WALInv /\ [Next]_vars => SentWritten'
<1> SUFFICES ASSUME WALInv, [Next]_vars PROVE SentWritten'
    OBVIOUS
<1> ThreadTypes /\ RecordTypes /\ Locals /\ SentWritten
  BY DEF WALInv, RecordTypes, CallTypes, ThreadTypes
<1>1. ASSUME NEW t \in Threads, Log(t) \/ LogBatch(t) PROVE SentWritten'
  <2>1. Others(t) /\ batch'[t] = batch[t] /\ UNCHANGED <<sent, log_file, log_start>>
    BY <1>1, FirstLSN
  <2> QED
    BY <2>1, WrittenIs DEF SentWritten, Others
<1>2. ASSUME NEW t \in Threads, PushRecord(t) PROVE SentWritten'
  <2>1. UNCHANGED <<batch, sent, log_file, log_start>>
    BY <1>2, Pushed
  <2> QED
    BY <2>1, WrittenIs DEF SentWritten
<1>3. ASSUME NEW t \in Threads, FillBatch(t) PROVE SentWritten'
  <2>1. Others(t) /\ batch'[t] = batch[t] /\ UNCHANGED <<sent, log_file, log_start>>
    BY <1>3, Filled
  <2> QED
    BY <2>1, WrittenIs DEF SentWritten, Others
<1>4. ASSUME NEW t \in Threads, SwapBuffer(t), log_buffer_ # <<>>
      PROVE  SentWritten'
  <2>1. /\ Others(t) /\ sent' = sent /\ sent[t] = 0
        /\ UNCHANGED <<log_file, log_start>>
    BY <1>4, Swapped DEF Locals
  <2> QED
    BY <2>1, WrittenIs DEF SentWritten, Others
<1>5. ASSUME NEW t \in Threads, WriteRecords(t) PROVE SentWritten'
  <2>1. Others(t) /\ sent[t] \in Nat
    BY <1>5, Wrote DEF RecordTypes
  <2>2. PICK k \in 0..(Len(batch[t]) - sent[t]) :
            /\ Sent(t, k)
            /\ \/ sent'[t] = 0
               \/ batch'[t] = batch[t] /\ sent'[t] \in {sent[t], sent[t] + k}
    BY <1>5, WrittenByBatch
  <2>3. /\ Elements(Written') = Elements(Written) \cup Elements(Part(t, k))
        /\ Elements(Part(t, k))
               = {batch[t][i] : i \in (sent[t] + 1)..(sent[t] + k)}
    <3>1. Written \in Seq(AllLSNs) /\ Part(t, k) \in Seq(AllLSNs)
      BY <2>2, WrittenIs DEF Sent
    <3>2. Elements(Written \o Part(t, k)) = Elements(Written) \cup Elements(Part(t, k))
      BY <3>1, AppendMany
    <3> QED
      BY <2>2, <3>2 DEF Sent
  <2>4. \A j \in 1..(sent[t] + k) : j \in 1..sent[t] \/ j \in (sent[t] + 1)..(sent[t] + k)
    BY <2>1
  <2>5. \A j \in 1..(sent[t] + k) : batch[t][j] \in Elements(Written')
    BY <2>3, <2>4 DEF SentWritten
  <2>6. \A j \in 1..sent[t] : j \in 1..(sent[t] + k)
    BY <2>1
  <2>7. \A j \in 1..sent'[t] : batch'[t][j] \in Elements(Written')
    BY <2>2, <2>5, <2>6
  <2> QED
    BY <2>1, <2>3, <2>7 DEF SentWritten, Others
<1>6. CASE Quiet
  <2>1. /\ UNCHANGED <<log_file, log_start, sent>>
        /\ \A u \in Threads : batch'[u] # batch[u] => sent[u] = 0
    BY <1>6 DEF Quiet, Locals
  <2> QED
    BY <2>1, WrittenIs DEF SentWritten
<1>7. CASE Restart
  BY <1>7 DEF Restart, SentWritten
<1> QED
  BY <1>1, <1>2, <1>3, <1>4, <1>5, <1>6, <1>7, StepKinds

\* A batch stays in order when a record that is not its own is appended.
LEMMA InOrderWithOther ==
    ASSUME NEW S, NEW b \in Seq(S), NEW s \in Seq(S), NEW e \in S,
           InOrder(b, s), e \notin Elements(b)
    PROVE  InOrder(b, Append(s, e))
<1> DEFINE a == Append(s, e)
<1>1. /\ DOMAIN a = 1..(Len(s) + 1) /\ a[Len(s) + 1] = e
      /\ \A i \in 1..Len(s) : a[i] = s[i]
  BY AppendOne
<1>2. /\ DOMAIN s = 1..Len(s) /\ Len(s) \in Nat
      /\ DOMAIN b = 1..Len(b) /\ Len(b) \in Nat
  BY LenProperties
<1> HIDE DEF a
<1>3. ASSUME NEW i \in DOMAIN a, NEW k \in 2..Len(b), a[i] = b[k]
      PROVE  \E j \in 1..(i - 1) : a[j] = b[k - 1]
  <2>1. k \in DOMAIN b
    BY <1>2
  <2>2. i \in 1..Len(s)
    BY <1>1, <1>2, <1>3, <2>1 DEF Elements
  <2>3. PICK j \in 1..(i - 1) : s[j] = b[k - 1]
    BY <1>1, <1>2, <1>3, <2>2 DEF InOrder
  <2>4. j \in 1..Len(s)
    BY <1>2, <2>2
  <2> QED
    BY <1>1, <2>3, <2>4
<1>4. InOrder(b, a)
  BY <1>3 DEF InOrder
<1> QED
  BY <1>4 DEF a

\* A batch is in order in a sequence that has none of its records.
LEMMA InOrderApart ==
    ASSUME NEW S, NEW b \in Seq(S), NEW u \in Seq(S),
           Elements(u) \cap Elements(b) = {}
    PROVE  InOrder(b, u)
<1>1. DOMAIN b = 1..Len(b) /\ Len(b) \in Nat
  BY LenProperties
<1>2. \A k \in 2..Len(b) : k \in DOMAIN b
  BY <1>1
<1> QED
  BY <1>2 DEF InOrder, Elements

\* A batch stays in order in s when u follows, if what u lacks is in s.
LEMMA InOrderBehind ==
    ASSUME NEW S, NEW b, NEW s \in Seq(S), NEW u \in Seq(S), InOrder(b, s),
           \A i \in 1..Len(u) : \A k \in 2..Len(b) :
               u[i] = b[k] => \/ b[k - 1] \in Elements(s)
                              \/ \E j \in 1..(i - 1) : u[j] = b[k - 1]
    PROVE  InOrder(b, s \o u)
<1> DEFINE a == s \o u
<1>1. /\ DOMAIN a = 1..(Len(s) + Len(u))
      /\ \A i \in 1..Len(s) : a[i] = s[i]
      /\ \A i \in 1..Len(u) : a[Len(s) + i] = u[i]
  BY AppendMany
<1>2. /\ DOMAIN s = 1..Len(s) /\ Len(s) \in Nat
      /\ DOMAIN u = 1..Len(u) /\ Len(u) \in Nat
  BY LenProperties
<1> HIDE DEF a
<1>3. ASSUME NEW i \in DOMAIN a, NEW k \in 2..Len(b), a[i] = b[k]
      PROVE  \E j \in 1..(i - 1) : a[j] = b[k - 1]
  <2>1. CASE i \in 1..Len(s)
    <3>1. PICK j \in 1..(i - 1) : s[j] = b[k - 1]
      BY <1>1, <1>2, <1>3, <2>1 DEF InOrder
    <3>2. j \in 1..Len(s)
      BY <1>2, <2>1
    <3> QED
      BY <1>1, <3>1, <3>2
  <2>2. CASE i \notin 1..Len(s)
    <3>1. PICK x \in 1..Len(u) : i = Len(s) + x
      <4>1. i - Len(s) \in 1..Len(u) /\ i = Len(s) + (i - Len(s))
        BY <1>1, <1>2, <2>2
      <4> QED
        BY <4>1
    <3>2. u[x] = b[k]
      BY <1>1, <1>3, <3>1
    <3>3. CASE b[k - 1] \in Elements(s)
      <4>1. PICK j \in 1..Len(s) : s[j] = b[k - 1]
        BY <1>2, <3>3 DEF Elements
      <4>2. j \in 1..(i - 1)
        BY <1>2, <3>1
      <4> QED
        BY <1>1, <4>1, <4>2
    <3>4. CASE \E j \in 1..(x - 1) : u[j] = b[k - 1]
      <4>1. PICK j \in 1..(x - 1) : u[j] = b[k - 1]
        BY <3>4
      <4>2. j \in 1..Len(u) /\ Len(s) + j \in 1..(i - 1)
        BY <1>2, <3>1
      <4> QED
        BY <1>1, <4>1, <4>2
    <3> QED
      BY <3>2, <3>3, <3>4
  <2> QED
    BY <2>1, <2>2
<1>4. InOrder(b, a)
  BY <1>3 DEF InOrder
<1> QED
  BY <1>4 DEF a

\* A batch that is in order in two sequences is so in one after the other.
LEMMA InOrderInBoth ==
    ASSUME NEW S, NEW b, NEW s \in Seq(S), NEW u \in Seq(S),
           InOrder(b, s), InOrder(b, u)
    PROVE  InOrder(b, s \o u)
<1>1. DOMAIN u = 1..Len(u)
  BY LenProperties
<1>2. \A i \in 1..Len(u) : \A k \in 2..Len(b) :
          u[i] = b[k] => \E j \in 1..(i - 1) : u[j] = b[k - 1]
  BY <1>1 DEF InOrder
<1> QED
  BY <1>2, InOrderBehind

\* A batch that grows by a new record is in order where the record is not.
LEMMA GrownElsewhere ==
    ASSUME NEW S, NEW m \in Seq(S), NEW s \in Seq(S), NEW e \in S,
           InOrder(m, s), e \notin Elements(s)
    PROVE  InOrder(Append(m, e), s)
<1> DEFINE b == Append(m, e)
<1>1. /\ Len(b) = Len(m) + 1 /\ b[Len(m) + 1] = e
      /\ \A i \in 1..Len(m) : b[i] = m[i]
  BY AppendOne
<1>2. Len(m) \in Nat
  BY LenProperties
<1> HIDE DEF b
<1>3. ASSUME NEW i \in DOMAIN s, NEW k \in 2..Len(b), s[i] = b[k]
      PROVE  \E j \in 1..(i - 1) : s[j] = b[k - 1]
  <2>1. k # Len(m) + 1
    BY <1>1, <1>3 DEF Elements
  <2>2. k \in 2..Len(m) /\ k - 1 \in 1..Len(m)
    BY <1>1, <1>2, <2>1
  <2>3. s[i] = m[k]
    BY <1>1, <1>2, <1>3, <2>2
  <2> QED
    BY <1>1, <2>2, <2>3 DEF InOrder
<1>4. InOrder(b, s)
  BY <1>3 DEF InOrder
<1> QED
  BY <1>4 DEF b

\* And where the record is appended, if the batch's last record is the last.
LEMMA GrownHere ==
    ASSUME NEW S, NEW m \in Seq(S), NEW s \in Seq(S), NEW e \in S,
           InOrder(m, s), e \notin Elements(s), e \notin Elements(m),
           m # <<>>, s # <<>>, LastOf(s) = LastOf(m)
    PROVE  InOrder(Append(m, e), Append(s, e))
<1> DEFINE b == Append(m, e)
           a == Append(s, e)
<1>1. /\ Len(b) = Len(m) + 1 /\ b[Len(m) + 1] = e
      /\ \A i \in 1..Len(m) : b[i] = m[i]
      /\ DOMAIN a = 1..(Len(s) + 1) /\ a[Len(s) + 1] = e
      /\ \A i \in 1..Len(s) : a[i] = s[i]
  BY AppendOne
<1>2. /\ DOMAIN s = 1..Len(s) /\ Len(s) \in Nat \ {0}
      /\ DOMAIN m = 1..Len(m) /\ Len(m) \in Nat \ {0}
  BY LenProperties, EmptySeq
<1>3. InOrder(b, s)
  BY GrownElsewhere
<1> HIDE DEF a, b
<1>4. ASSUME NEW i \in DOMAIN a, NEW k \in 2..Len(b), a[i] = b[k]
      PROVE  \E j \in 1..(i - 1) : a[j] = b[k - 1]
  <2>1. CASE i \in 1..Len(s)
    <3>1. PICK j \in 1..(i - 1) : s[j] = b[k - 1]
      BY <1>1, <1>2, <1>3, <1>4, <2>1 DEF InOrder
    <3>2. j \in 1..Len(s)
      BY <1>2, <2>1
    <3> QED
      BY <1>1, <3>1, <3>2
  <2>2. CASE i = Len(s) + 1
    <3>1. k = Len(m) + 1
      <4>1. ASSUME k \in 1..Len(m) PROVE FALSE
        BY <1>1, <1>2, <1>4, <2>2, <4>1 DEF Elements
      <4> QED
        BY <1>1, <1>2, <4>1
    <3>2. /\ Len(s) \in 1..(i - 1) /\ k - 1 = Len(m)
          /\ Len(s) \in 1..Len(s) /\ Len(m) \in 1..Len(m)
      BY <1>2, <2>2, <3>1
    <3>3. a[Len(s)] = LastOf(s) /\ b[Len(m)] = LastOf(m)
      BY <1>1, <3>2 DEF LastOf
    <3> QED
      BY <3>2, <3>3
  <2> QED
    BY <1>1, <1>2, <2>1, <2>2
<1>5. InOrder(b, a)
  BY <1>4 DEF InOrder
<1> QED
  BY <1>5 DEF a, b

\* A batch that is in order in what t writes and in the file stays so in the
\* file when the next part of it is written, which the sent part precedes.
LEMMA InOrderSent ==
    ASSUME RecordTypes, SentWritten, NEW t \in Threads,
           NEW k \in 0..(Len(batch[t]) - sent[t]), Sent(t, k),
           NEW b, InOrder(b, Written), InOrder(b, batch[t])
    PROVE  InOrder(b, Written')
<1>1. /\ Written \in Seq(AllLSNs) /\ Part(t, k) \in Seq(AllLSNs)
      /\ Len(Part(t, k)) = k /\ Written' = Written \o Part(t, k)
      /\ \A i \in 1..k : Part(t, k)[i] = batch[t][sent[t] + i]
  BY WrittenIs DEF Sent
<1>2. /\ DOMAIN batch[t] = 1..Len(batch[t]) /\ Len(batch[t]) \in Nat
      /\ sent[t] \in Nat
  BY LenProperties DEF RecordTypes
<1>3. ASSUME NEW i \in 1..k, NEW x \in 2..Len(b), Part(t, k)[i] = b[x]
      PROVE  \/ b[x - 1] \in Elements(Written)
             \/ \E j \in 1..(i - 1) : Part(t, k)[j] = b[x - 1]
  <2>1. sent[t] + i \in DOMAIN batch[t] /\ batch[t][sent[t] + i] = b[x]
    BY <1>1, <1>2, <1>3
  <2>0. ASSUME NEW z \in DOMAIN batch[t], batch[t][z] = b[x]
        PROVE  \E y \in 1..(z - 1) : batch[t][y] = b[x - 1]
    BY <2>0 DEF InOrder
  <2>2. PICK y \in 1..((sent[t] + i) - 1) : batch[t][y] = b[x - 1]
    BY <2>0, <2>1
  <2>3. CASE y \in 1..sent[t]
    BY <2>2, <2>3 DEF SentWritten
  <2>4. CASE y \notin 1..sent[t]
    <3>1. /\ y - sent[t] \in 1..(i - 1) /\ y - sent[t] \in 1..k
          /\ sent[t] + (y - sent[t]) = y
      BY <1>2, <2>4
    <3> QED
      BY <1>1, <2>2, <3>1
  <2> QED
    BY <2>3, <2>4
<1> QED
  BY <1>1, <1>3, InOrderBehind

\* The records of a batch have LSNs that were handed out.
LEMMA BatchesHandedOut ==
    ASSUME HandedOut, NEW b, Batch(b)
    PROVE  Elements(b) \subseteq Given
  BY DEF HandedOut, Batch

\* No step takes the records of a batch out of their order.
LEMMA BatchesKeptStep == WALInv /\ [Next]_vars => BatchesKept'
<1> SUFFICES ASSUME WALInv, [Next]_vars, NEW b \in Seq(AllLSNs), Batch(b)'
             PROVE  Kept(b)'
    BY DEF BatchesKept
<1> /\ ThreadTypes /\ RecordTypes /\ Locals /\ Filling /\ HandedOut
    /\ SentWritten /\ BatchesKept
  BY DEF WALInv, RecordTypes, CallTypes, ThreadTypes
<1>0. /\ next_lsn_ \in AllLSNs /\ next_lsn_ \notin Given
      /\ Written \in Seq(AllLSNs) /\ log_buffer_ \in Seq(AllLSNs)
      /\ \A u \in Threads : mine[u] \in Seq(AllLSNs) /\ batch[u] \in Seq(AllLSNs)
  BY WrittenIs DEF RecordTypes, Given, AllLSNs
<1>1. ASSUME Batch(b), next_lsn_ \in Elements(b) PROVE FALSE
  BY <1>0, <1>1, BatchesHandedOut
<1>2. Batch(b) => Kept(b)
  BY DEF BatchesKept
<1>3. ASSUME NEW t \in Threads, Log(t) PROVE Kept(b)'
  <2>1. /\ Others(t) /\ pc[t] = "idle" /\ pc'[t] = "push" /\ mine[t] = <<>>
        /\ mine'[t] = Append(mine[t], next_lsn_) /\ batches' = batches
        /\ UNCHANGED <<log_file, log_start>>
    BY <1>3, FirstLSN
  <2>2. Batch(b)
    BY <2>1 DEF Batch, Others
  <2>3. Elements(mine'[t]) = {next_lsn_}
    <3>1. Elements(Append(mine[t], next_lsn_)) = Elements(mine[t]) \cup {next_lsn_}
      BY <1>0, AppendOne
    <3> QED
      BY <2>1, <3>1 DEF Elements
  <2>4. Written' = Written /\ log_buffer_' = log_buffer_
    BY <1>3, <2>1, WrittenIs DEF Log
  <2> QED
    BY <1>1, <1>2, <2>1, <2>2, <2>3, <2>4 DEF Kept, Others
<1>4. ASSUME NEW t \in Threads, LogBatch(t) PROVE Kept(b)'
  <2>1. /\ Others(t) /\ pc[t] = "idle" /\ pc'[t] = "fill" /\ mine[t] = <<>>
        /\ mine'[t] = Append(mine[t], next_lsn_) /\ batches' = batches
        /\ log_buffer_' = Append(log_buffer_, next_lsn_)
        /\ UNCHANGED <<log_file, log_start>>
    BY <1>4, FirstLSN DEF LogBatch, StartBatch, Call, Go, ThreadTypes
  <2>2. Written' = Written
    BY <2>1, WrittenIs
  <2>3. CASE Batch(b)
    <3>1. InOrder(b, log_buffer_')
      <4>1. InOrder(b, log_buffer_) /\ next_lsn_ \notin Elements(b)
        BY <1>1, <1>2, <2>3 DEF Kept
      <4> QED
        BY <1>0, <2>1, <4>1, InOrderWithOther
    <3> QED
      BY <1>2, <2>1, <2>2, <2>3, <3>1 DEF Kept, Others
  <2>4. CASE b = mine'[t]
    <3>1. /\ Len(Append(mine[t], next_lsn_)) = Len(mine[t]) + 1
          /\ Elements(Append(mine[t], next_lsn_)) = Elements(mine[t]) \cup {next_lsn_}
      BY <1>0, AppendOne
    <3>2. Len(b) = 1 /\ Elements(b) = {next_lsn_}
      BY <2>1, <2>4, <3>1, EmptySeq DEF Elements
    <3>3. \A s : InOrder(b, s)
      BY <3>2 DEF InOrder
    <3>4. \A u \in Threads : next_lsn_ \notin Elements(mine[u])
      BY <1>0 DEF HandedOut
    <3> QED
      BY <2>1, <3>2, <3>3, <3>4 DEF Kept, Others
  <2>5. Batch(b) \/ b = mine'[t]
    BY <2>1 DEF Batch, Others
  <2> QED
    BY <2>3, <2>4, <2>5
<1>5. ASSUME NEW t \in Threads, PushRecord(t) PROVE Kept(b)'
  <2>1. /\ Others(t) /\ pc[t] = "push" /\ pc'[t] = "swap"
        /\ log_buffer_' = log_buffer_ \o mine[t]
        /\ mine' = mine /\ batch' = batch /\ batches' = batches
        /\ UNCHANGED <<log_file, log_start>>
    BY <1>5, Pushed
  <2>2. Batch(b)
    BY <2>1 DEF Batch, Others
  <2>3. InOrder(b, log_buffer_')
    <3>1. /\ InOrder(b, log_buffer_)
          /\ Elements(mine[t]) \cap Elements(b) = {}
      BY <1>2, <2>1, <2>2 DEF Kept
    <3>2. InOrder(b, mine[t])
      BY <1>0, <3>1, InOrderApart
    <3> QED
      BY <1>0, <2>1, <3>1, <3>2, InOrderInBoth
  <2>4. Written' = Written
    BY <2>1, WrittenIs
  <2> QED
    BY <1>2, <2>1, <2>2, <2>3, <2>4 DEF Kept, Others
<1>6. ASSUME NEW t \in Threads, FillBatch(t) PROVE Kept(b)'
  <2>1. /\ Others(t) /\ pc[t] = "fill" /\ pc'[t] \in {"fill", "swap"}
        /\ mine'[t] = Append(mine[t], next_lsn_) /\ batch'[t] = batch[t]
        /\ log_buffer_' = Append(log_buffer_, next_lsn_)
        /\ UNCHANGED <<log_file, log_start>>
        /\ batches' \subseteq batches \cup {mine'[t]}
    BY <1>6, Filled
  <2>2. Written' = Written
    BY <2>1, WrittenIs
  <2>3. CASE Batch(b)
    <3>1. InOrder(b, log_buffer_')
      <4>1. InOrder(b, log_buffer_) /\ next_lsn_ \notin Elements(b)
        BY <1>1, <1>2, <2>3 DEF Kept
      <4> QED
        BY <1>0, <2>1, <4>1, InOrderWithOther
    <3> QED
      BY <1>2, <2>1, <2>2, <2>3, <3>1 DEF Kept, Others
  <2>4. CASE b = mine'[t]
    <3>1. Kept(mine[t])
      BY <1>0, <2>1 DEF BatchesKept, Batch
    <3>2. /\ next_lsn_ \notin Elements(log_buffer_)
          /\ next_lsn_ \notin Elements(Written)
          /\ \A u \in Threads : /\ next_lsn_ \notin Elements(mine[u])
                                /\ next_lsn_ \notin Elements(batch[u])
      BY <1>0 DEF HandedOut
    <3>3. /\ mine[t] # <<>> /\ log_buffer_ # <<>>
          /\ LastOf(log_buffer_) = LastOf(mine[t])
      <4>1. Len(mine[t]) \in 1..(BatchSize - 1)
        BY <2>1 DEF Filling
      <4>2. mine[t] # <<>>
        BY <4>1, EmptySeq
      <4> QED
        BY <2>1, <4>2 DEF Filling
    <3>4. InOrder(b, log_buffer_')
      <4>1. InOrder(mine[t], log_buffer_)
        BY <3>1 DEF Kept
      <4> QED
        BY <1>0, <2>1, <2>4, <3>2, <3>3, <4>1, GrownHere
    <3>5. InOrder(b, Written)
      <4>1. InOrder(mine[t], Written)
        BY <3>1 DEF Kept
      <4> QED
        BY <1>0, <2>1, <2>4, <3>2, <4>1, GrownElsewhere
    <3>6. ASSUME NEW u \in Threads, pc[u] = "write" PROVE InOrder(b, batch[u])
      <4>1. InOrder(mine[t], batch[u])
        BY <3>1, <3>6 DEF Kept
      <4> QED
        BY <1>0, <2>1, <2>4, <3>2, <4>1, GrownElsewhere
    <3>7. ASSUME NEW u \in Threads, pc[u] = "push"
          PROVE  Elements(mine[u]) \cap Elements(b) = {}
      <4>1. Elements(Append(mine[t], next_lsn_)) = Elements(mine[t]) \cup {next_lsn_}
        BY <1>0, AppendOne
      <4> QED
        BY <2>1, <2>4, <3>1, <3>2, <3>7, <4>1 DEF Kept
    <3> QED
      BY <2>1, <2>2, <3>4, <3>5, <3>6, <3>7 DEF Kept, Others
  <2>5. Batch(b) \/ b = mine'[t]
    BY <2>1 DEF Batch, Others
  <2> QED
    BY <2>3, <2>4, <2>5
<1>7. ASSUME NEW t \in Threads, SwapBuffer(t), log_buffer_ # <<>>
      PROVE  Kept(b)'
  <2>1. /\ Others(t) /\ pc[t] = "swap" /\ pc'[t] = "write"
        /\ batch'[t] = log_buffer_ /\ log_buffer_' = <<>> /\ mine' = mine
        /\ batches' = batches
        /\ UNCHANGED <<log_file, log_start>>
    BY <1>7, Swapped
  <2>2. Batch(b)
    BY <2>1 DEF Batch, Others
  <2>3. InOrder(b, <<>>)
    BY DEF InOrder
  <2>4. Written' = Written
    BY <2>1, WrittenIs
  <2> QED
    BY <1>2, <2>1, <2>2, <2>3, <2>4 DEF Kept, Others
<1>8. ASSUME NEW t \in Threads, WriteRecords(t) PROVE Kept(b)'
  <2>1. /\ Others(t) /\ pc[t] = "write" /\ pc'[t] \in {"write", "flushed", "idle"}
        /\ log_buffer_' = log_buffer_ /\ batches' = batches
    BY <1>8, Wrote
  <2>2. Batch(b)
    BY <2>1 DEF Batch, Others
  <2>3. PICK k \in 0..(Len(batch[t]) - sent[t]) :
            Sent(t, k) /\ (pc'[t] = "write" => batch'[t] = batch[t])
    BY <1>8, WrittenByBatch
  <2>4. InOrder(b, Written) /\ InOrder(b, batch[t])
    BY <1>2, <2>1, <2>2 DEF Kept
  <2>5. InOrder(b, Written')
    BY <2>3, <2>4, InOrderSent
  <2> QED
    BY <1>2, <2>1, <2>2, <2>3, <2>5 DEF Kept, Others
<1>9. ASSUME Quiet PROVE Kept(b)'
  <2>1. Written' = Written /\ log_buffer_' = log_buffer_ /\ batches' = batches
    BY <1>9, WrittenIs DEF Quiet
  <2>2. \A u \in Threads :
            /\ pc'[u] = "push" <=> pc[u] = "push"
            /\ pc'[u] = "fill" <=> pc[u] = "fill"
            /\ pc'[u] = "write" <=> pc[u] = "write"
            /\ pc[u] \in {"push", "fill"} => mine'[u] = mine[u]
            /\ pc'[u] = "write" => batch'[u] = batch[u]
    BY <1>9 DEF Quiet
  <2>3. Batch(b)
    BY <2>1, <2>2 DEF Batch
  <2> QED
    BY <1>2, <2>1, <2>2, <2>3 DEF Kept
<1>10. ASSUME Restart PROVE Kept(b)'
  BY <1>10 DEF Restart, Batch
<1> QED
  BY <1>3, <1>4, <1>5, <1>6, <1>7, <1>8, <1>9, <1>10, StepKinds

\* The invariant holds throughout, for all the theorems below.
THEOREM WALInvariant == Spec => []WALInv
<1>1. WALInv /\ [Next]_vars => WALInv'
  BY TypeStep, LocalsStep, FillingStep, HandedOutStep, LeftBehindStep,
     OnePlaceStep, SentStep, BatchesKeptStep DEF WALInv
<1> QED
  BY <1>1, InitLog, PTL DEF Spec

-----------------------------------------------------------------------------
\* The variables keep their types, and the LSNs and the history their bounds.
THEOREM WALTypes == Spec => []TypeOK
<1>1. WALInv => TypeOK
  <2> SUFFICES ASSUME WALInv PROVE TypeOK
      OBVIOUS
  <2> RecordTypes /\ CallTypes
    BY DEF WALInv
  <2>1. \A s \in Seq(AllLSNs) : Elements(s) \subseteq AllLSNs
    BY LenProperties, ElementOfSeq DEF Elements
  <2>2. ASSUME NEW t \in Threads PROVE sent[t] \in 0..Len(batch[t])
    <3>1. batch[t] \in Seq(AllLSNs) /\ sent[t] \in Nat
      BY DEF RecordTypes
    <3>2. Len(batch[t]) \in Nat
      BY <3>1, LenProperties
    <3>3. sent[t] < Len(batch[t]) \/ sent[t] = 0
      BY DEF WALInv, Locals
    <3> QED
      BY <3>1, <3>2, <3>3
  <2> QED
    BY <2>1, <2>2 DEF TypeOK, RecordTypes, CallTypes
<1> QED
  BY <1>1, WALInvariant, PTL

\* However calls are interleaved, no record is left in the buffer when the
\* calls that could take it have returned.
THEOREM WALLeavesNothing == Spec => []NothingLeftBehind
<1>1. WALInv => NothingLeftBehind
  BY DEF WALInv
<1> QED
  BY <1>1, WALInvariant, PTL

\* Flushes at the same time neither lose a record nor write it twice, unless
\* its own write failed.
THEOREM WALRecordsOnce == Spec => []EachRecordOnce
<1>1. WALInv => EachRecordOnce
  <2> SUFFICES ASSUME WALInv, NEW n \in 1..(next_lsn_ - 1), n \notin failed
               PROVE  Cardinality(Places(n)) = 1
      BY DEF EachRecordOnce
  <2>1. PICK p : Places(n) = {p}
    BY DEF WALInv, OnePlace, InOne, Given
  <2> QED
    BY <2>1, FS_Singleton
<1> QED
  BY <1>1, WALInvariant, PTL

\* What is in the log file of a batch is its beginning, in its order, however
\* many writes it takes and whatever other flushes write between them.
THEOREM WALBatchesInOrder == Spec => []BatchesInOrder
<1>1. WALInv => BatchesInOrder
  BY DEF WALInv, RecordTypes, BatchesKept, Batch, Kept, InOrder, BatchesInOrder
<1> QED
  BY <1>1, WALInvariant, PTL
=============================================================================
