----------------------------- MODULE WALManager -----------------------------
(***************************************************************************)
(* src/transaction_manager/wal_manager.cpp: the write-ahead log, used by   *)
(* several threads at once.  force_sync_ is always true (the constructor   *)
(* sets it) and the flushing thread is never started, so every call that   *)
(* logs also flushes, in its own thread.  A record is its LSN.             *)
(*                                                                         *)
(* A step is what a thread does between two points where another can get   *)
(* in: a section under buffer_mutex_, an atomic, a write to the log file.  *)
(* metrics_ is left out: GetMetrics returns zeros whatever it holds.  The  *)
(* checkpoint file is left out: nothing calls ReadCheckpointFromDisk.      *)
(* The file has no mutex: every flush appends through a stream of its own, *)
(* in as many writes as its buffer needs, and those of other flushes come  *)
(* between.  A record is in the file when its last bytes, the LSN, are;    *)
(* what else stands between its bytes is left out, since nothing reads it. *)
(***************************************************************************)
EXTENDS Integers, FiniteSets, Sequences

CONSTANTS Threads,      \* threads that call the log
          NoThread,     \* nobody holds buffer_mutex_
          BatchSize,    \* records in one call of LogBatch
          HistoryCap,   \* checkpoints kept in memory, 100 in the code
          MaxLSN,       \* bound: LSNs handed out between two restarts
          MaxFailures,  \* bound: writes that fail
          MaxRestarts   \* bound: crashes and restarts

ASSUME BatchSizeAssumption == BatchSize \in Nat \ {0, 1}
ASSUME HistoryCapAssumption == HistoryCap \in Nat \ {0}
ASSUME NoThreadAssumption == NoThread \notin Threads
ASSUME BoundAssumption == MaxLSN \in Nat

VARIABLES next_lsn_, last_flushed_lsn_, last_checkpoint_lsn_,
          log_buffer_,          \* LSNs of the records not yet taken to be written
          buffer_mutex_,        \* the thread holding it between two steps
          checkpoint_history_,  \* LSNs of the checkpoints, oldest first
          log_file,             \* LSNs of the records in the log file
          sent                  \* how many of a thread's batch are in there

memory == <<next_lsn_, last_flushed_lsn_, last_checkpoint_lsn_,
            log_buffer_, buffer_mutex_, checkpoint_history_>>
file == <<log_file, sent>>

VARIABLES pc,      \* where each thread is
          op,      \* the call it is in
          mine,    \* LSNs that call has been given so far
          batch,   \* records_to_flush
          mark     \* checkpoint_lsn of CreateCheckpoint

threads == <<pc, op, mine, batch, mark>>

VARIABLES failures, restarts,  \* counters that MaxFailures, MaxRestarts bound
          log_start,           \* history: length of log_file at the last restart
          reported,            \* history: LSNs that WriteRecordsToDisk counted
          failed,              \* history: LSNs a failed write still had to write
          batches              \* history: what each call of LogBatch was given

ghosts == <<failures, restarts, log_start, reported, failed, batches>>
vars == <<memory, file, threads, ghosts>>

LSNs == 1..MaxLSN
Ops == {"none", "Log", "LogBatch", "ForceFlush", "CreateCheckpoint"}
Steps == {"idle", "push", "fill", "swap", "write", "flushed",
          "take", "save", "publish"}

Elements(s) == {s[i] : i \in DOMAIN s}
LastOf(s) == s[Len(s)]
Go(t, step) == pc' = [pc EXCEPT ![t] = step]

\* What this run of the program has appended to the log file.
Written == SubSeq(log_file, log_start + 1, Len(log_file))

-----------------------------------------------------------------------------
Init ==
    /\ next_lsn_ = 1 /\ last_flushed_lsn_ = 0 /\ last_checkpoint_lsn_ = 0
    /\ log_buffer_ = <<>> /\ buffer_mutex_ = NoThread
    /\ checkpoint_history_ = <<>>
    /\ log_file = <<>>
    /\ pc = [t \in Threads |-> "idle"] /\ op = [t \in Threads |-> "none"]
    /\ mine = [t \in Threads |-> <<>>] /\ batch = [t \in Threads |-> <<>>]
    /\ mark = [t \in Threads |-> 0] /\ sent = [t \in Threads |-> 0]
    /\ failures = 0 /\ restarts = 0 /\ log_start = 0
    /\ reported = {} /\ failed = {} /\ batches = {}

\* The end of t's call: its locals are gone.
Return(t) ==
    /\ Go(t, "idle")
    /\ op' = [op EXCEPT ![t] = "none"]
    /\ mine' = [mine EXCEPT ![t] = <<>>]
    /\ batch' = [batch EXCEPT ![t] = <<>>]
    /\ mark' = [mark EXCEPT ![t] = 0]

Call(t, name, step) ==
    /\ pc[t] = "idle"
    /\ Go(t, step)
    /\ op' = [op EXCEPT ![t] = name]

\* GenerateLSN is an atomic increment outside every lock.
GenerateLSN(t) ==
    /\ next_lsn_' = next_lsn_ + 1
    /\ mine' = [mine EXCEPT ![t] = Append(@, next_lsn_)]

\* Log: the LSN is taken first, and the record pushed in a later step.
Log(t) ==
    /\ next_lsn_ <= MaxLSN
    /\ Call(t, "Log", "push")
    /\ GenerateLSN(t)
    /\ UNCHANGED <<last_flushed_lsn_, last_checkpoint_lsn_, log_buffer_,
                   buffer_mutex_, checkpoint_history_, file, batch, mark,
                   ghosts>>

PushRecord(t) ==
    /\ pc[t] = "push"
    /\ buffer_mutex_ = NoThread
    /\ log_buffer_' = log_buffer_ \o mine[t]
    /\ Go(t, "swap")
    /\ UNCHANGED <<next_lsn_, last_flushed_lsn_, last_checkpoint_lsn_,
                   buffer_mutex_, checkpoint_history_, file, op, mine,
                   batch, mark, ghosts>>

\* LogBatch's first record; holder has buffer_mutex_ after it.
StartBatch(t, holder) ==
    /\ next_lsn_ <= MaxLSN
    /\ buffer_mutex_ = NoThread
    /\ Call(t, "LogBatch", "fill")
    /\ GenerateLSN(t)
    /\ log_buffer_' = Append(log_buffer_, next_lsn_)
    /\ buffer_mutex_' = holder
    /\ UNCHANGED <<last_flushed_lsn_, last_checkpoint_lsn_,
                   checkpoint_history_, file, batch, mark, ghosts>>

\* The records after the first; holder has buffer_mutex_ after the last.
FinishBatch(t, holder) ==
    /\ pc[t] = "fill"
    /\ GenerateLSN(t)
    /\ log_buffer_' = Append(log_buffer_, next_lsn_)
    /\ IF Len(mine'[t]) < BatchSize
       THEN UNCHANGED <<pc, buffer_mutex_, batches>>
       ELSE /\ Go(t, "swap")
            /\ buffer_mutex_' = holder
            /\ batches' = batches \cup {mine'[t]}
    /\ UNCHANGED <<last_flushed_lsn_, last_checkpoint_lsn_,
                   checkpoint_history_, file, op, batch, mark, failures,
                   restarts, log_start, reported, failed>>

\* Fault: each record is pushed in a section of buffer_mutex_ of its own.
LogBatchUnlocked(t) == StartBatch(t, NoThread)

\* LogBatch pushes all its records in one section of buffer_mutex_, but
\* Log in another thread can take an LSN between two of them.
LogBatch(t) == StartBatch(t, t)

\* Fault: the mutex is still held when ForceFlush asks for it.
FillLocked(t) == FinishBatch(t, t)

FillBatch(t) == FinishBatch(t, NoThread)

-----------------------------------------------------------------------------
(* Flushing, and what calls it.                                            *)

ForceFlush(t) ==
    /\ Call(t, "ForceFlush", "swap")
    /\ UNCHANGED <<memory, file, mine, batch, mark, ghosts>>

CreateCheckpoint(t) ==
    /\ Call(t, "CreateCheckpoint", "swap")
    /\ UNCHANGED <<memory, file, mine, batch, mark, ghosts>>

\* After ForceFlush CreateCheckpoint goes on, any other call returns.
AfterFlush(t) ==
    IF op[t] = "CreateCheckpoint"
    THEN /\ Go(t, "take")
         /\ batch' = [batch EXCEPT ![t] = <<>>]
         /\ UNCHANGED <<op, mine, mark>>
    ELSE Return(t)

\* What every version of the swap leaves alone.
SwapFrame == UNCHANGED <<next_lsn_, last_checkpoint_lsn_, buffer_mutex_,
                         checkpoint_history_, file, ghosts>>

\* The buffer is taken as a whole; an empty one ends the flush, even when
\* another thread has taken records and not written them yet.
SwapInto(t, rest) ==
    /\ pc[t] = "swap"
    /\ buffer_mutex_ = NoThread
    /\ IF log_buffer_ = <<>>
       THEN AfterFlush(t) /\ UNCHANGED <<log_buffer_, last_flushed_lsn_>>
       ELSE /\ batch' = [batch EXCEPT ![t] = log_buffer_]
            /\ log_buffer_' = rest
            /\ Go(t, "write")
            /\ UNCHANGED <<op, mine, mark, last_flushed_lsn_>>
    /\ SwapFrame

\* Fault: the buffer is copied and not emptied.
SwapCopied(t) == SwapInto(t, log_buffer_)

\* Fault: a flush that finds another in progress leaves the buffer to it.
SwapBusy(t) ==
    IF \E u \in Threads : pc[u] = "write"
    THEN /\ pc[t] = "swap"
         /\ AfterFlush(t)
         /\ UNCHANGED <<log_buffer_, last_flushed_lsn_>>
         /\ SwapFrame
    ELSE SwapInto(t, <<>>)

SwapBuffer(t) == SwapInto(t, <<>>)

\* What t's flush has still to write.
Unsent(t) == {batch[t][i] : i \in (sent[t] + 1)..Len(batch[t])}

\* The next k records of t's batch reach the file.
Send(t, k) == log_file' = log_file \o SubSeq(batch[t], sent[t] + 1, sent[t] + k)

\* WriteRecordsToDisk returns, and counts all its records.
ReturnCount(t) ==
    /\ reported' = reported \cup Elements(batch[t])
    /\ Go(t, "flushed")
    /\ UNCHANGED <<op, mine, batch, mark>>

\* One write of WriteRecordsToDisk, with k records: the stream's buffer was
\* full, or the last of the batch was in it.
WriteSome(t) ==
    \E k \in 1..(Len(batch[t]) - sent[t]) :
        /\ Send(t, k)
        /\ IF sent[t] + k = Len(batch[t])
           THEN /\ ReturnCount(t)
                /\ sent' = [sent EXCEPT ![t] = 0]
           ELSE /\ sent' = [sent EXCEPT ![t] = @ + k]
                /\ UNCHANGED <<pc, op, mine, batch, mark, reported>>
        /\ UNCHANGED <<failures, failed>>

\* The file does not open, or a write fails after k records; the stream
\* still has them and the others, and writes them again when it is closed.
FailWrite(t) ==
    /\ failures < MaxFailures /\ ~(Unsent(t) \subseteq failed)
    /\ failures' = failures + 1
    /\ failed' = failed \cup Unsent(t)
    /\ \E k \in 0..(Len(batch[t]) - sent[t] - 1) : Send(t, k)
    /\ UNCHANGED <<sent, reported, pc, op, mine, batch, mark>>

\* After a failure: the exception ends the call; or it was the final flush()
\* that failed, whose result is not looked at, and all records are counted.
\* The last write is that of closing the stream, of all that is left or less.
GiveUp(t) ==
    /\ Unsent(t) \subseteq failed
    /\ \E k \in 0..(Len(batch[t]) - sent[t]) : Send(t, k)
    /\ \/ Return(t) /\ UNCHANGED reported
       \/ ReturnCount(t)
    /\ sent' = [sent EXCEPT ![t] = 0]
    /\ UNCHANGED <<failures, failed>>

WriteRecords(t) ==
    /\ pc[t] = "write"
    /\ WriteSome(t) \/ FailWrite(t) \/ GiveUp(t)
    /\ UNCHANGED <<memory, restarts, log_start, batches>>

\* The store of last_flushed_lsn_ is not ordered with those of other threads.
PublishFlushed(t) ==
    /\ pc[t] = "flushed"
    /\ last_flushed_lsn_' = LastOf(batch[t])
    /\ AfterFlush(t)
    /\ UNCHANGED <<next_lsn_, last_checkpoint_lsn_, log_buffer_, buffer_mutex_,
                   checkpoint_history_, file, ghosts>>

TakeCheckpoint(t) ==
    /\ pc[t] = "take"
    /\ mark' = [mark EXCEPT ![t] = last_flushed_lsn_]
    /\ Go(t, "save")
    /\ UNCHANGED <<memory, file, op, mine, batch, ghosts>>

\* WriteCheckpointToDisk when sync is set, which may fail to open the file
\* and throw; then the history, without its oldest entry when it is full.
SaveWithin(t, cap) ==
    /\ pc[t] = "save"
    /\ \/ LET grown == Append(checkpoint_history_, mark[t])
          IN  /\ checkpoint_history_' = IF Len(grown) > cap THEN Tail(grown)
                                        ELSE grown
              /\ Go(t, "publish")
              /\ UNCHANGED <<op, mine, batch, mark, failures>>
       \/ /\ failures < MaxFailures
          /\ failures' = failures + 1
          /\ Return(t)
          /\ UNCHANGED checkpoint_history_
    /\ UNCHANGED <<next_lsn_, last_flushed_lsn_, last_checkpoint_lsn_,
                   log_buffer_, buffer_mutex_, file, restarts, log_start,
                   reported, failed, batches>>

\* Fault: the oldest entry is dropped one checkpoint too late.
SaveOneMore(t) == SaveWithin(t, HistoryCap + 1)

SaveCheckpoint(t) == SaveWithin(t, HistoryCap)

PublishCheckpoint(t) ==
    /\ pc[t] = "publish"
    /\ last_checkpoint_lsn_' = mark[t]
    /\ Return(t)
    /\ UNCHANGED <<next_lsn_, last_flushed_lsn_, log_buffer_, buffer_mutex_,
                   checkpoint_history_, file, ghosts>>

\* A crash, or an exit (the destructor's ForceFlush is a call of its own),
\* and the constructor of the next run: the file is kept and appended to,
\* everything else starts again, the LSNs included.
Restart ==
    /\ restarts < MaxRestarts
    /\ restarts' = restarts + 1
    /\ next_lsn_' = 1 /\ last_flushed_lsn_' = 0 /\ last_checkpoint_lsn_' = 0
    /\ log_buffer_' = <<>> /\ buffer_mutex_' = NoThread
    /\ checkpoint_history_' = <<>>
    /\ pc' = [t \in Threads |-> "idle"] /\ op' = [t \in Threads |-> "none"]
    /\ mine' = [t \in Threads |-> <<>>] /\ batch' = [t \in Threads |-> <<>>]
    /\ mark' = [t \in Threads |-> 0] /\ sent' = [t \in Threads |-> 0]
    /\ log_start' = Len(log_file)
    /\ reported' = {} /\ failed' = {} /\ batches' = {}
    /\ UNCHANGED <<log_file, failures>>

\* What t does inside a call.
Step(t) ==
    \/ PushRecord(t) \/ FillBatch(t) \/ SwapBuffer(t) \/ WriteRecords(t)
    \/ PublishFlushed(t) \/ TakeCheckpoint(t) \/ SaveCheckpoint(t)
    \/ PublishCheckpoint(t)

Next ==
    \/ Restart
    \/ \E t \in Threads : \/ Log(t) \/ LogBatch(t) \/ ForceFlush(t)
                          \/ CreateCheckpoint(t) \/ Step(t)

\* A thread inside a call that is not blocked is scheduled in the end.
Spec == Init /\ [][Next]_vars /\ \A t \in Threads : WF_vars(Step(t))

-----------------------------------------------------------------------------
(* Properties.                                                             *)

\* Types, and the bounds: a call starts below MaxLSN, a batch may pass it.
AllLSNs == 1..(MaxLSN + BatchSize)
TypeOK ==
    /\ next_lsn_ \in AllLSNs \cup {MaxLSN + BatchSize + 1}
    /\ {last_flushed_lsn_, last_checkpoint_lsn_} \subseteq AllLSNs \cup {0}
    /\ Elements(log_buffer_) \cup Elements(log_file) \subseteq AllLSNs
    /\ buffer_mutex_ \in Threads \cup {NoThread}
    /\ checkpoint_history_ \in Seq(AllLSNs \cup {0})
    /\ Len(checkpoint_history_) <= HistoryCap
    /\ pc \in [Threads -> Steps] /\ op \in [Threads -> Ops]
    /\ mark \in [Threads -> AllLSNs \cup {0}]
    /\ \A t \in Threads :
           /\ Elements(mine[t]) \cup Elements(batch[t]) \subseteq AllLSNs
           /\ sent[t] \in 0..Len(batch[t])

\* The places where record n is.
Places(n) ==
    LET positions(s) == {i \in DOMAIN s : s[i] = n}
        at(step) == {t \in Threads : pc[t] = step}
    IN  ({<<"buffer", NoThread>>} \X positions(log_buffer_))
        \cup ({<<"file", NoThread>>} \X positions(Written))
        \cup (UNION {{<<"push", t>>} \X positions(mine[t]) : t \in at("push")})
        \cup (UNION {{<<"write", t>>} \X {i \in positions(batch[t]) : i > sent[t]} :
                         t \in at("write")})

\* Every LSN that was handed out belongs to one record, in one place: with
\* its thread, in the buffer, in a batch being written or in the log file.
\* Threads that flush at the same time neither lose a record nor write it
\* twice, unless the write of that very record failed.
EachRecordOnce ==
    \A n \in 1..(next_lsn_ - 1) : n \notin failed => Cardinality(Places(n)) = 1

\* A call leaves nothing behind in the buffer: whatever is there belongs to
\* a call that has its swap still to come, so once all calls have returned,
\* however they were interleaved and even by an exception, it is empty.
NothingLeftBehind ==
    \A n \in Elements(log_buffer_) : \E t \in Threads :
        n \in Elements(mine[t]) /\ pc[t] \in {"fill", "swap"}

\* A record of a batch is in the log file only after all the records before
\* it in the batch, whatever other flushes write between them and whichever
\* writes fail: what a crash leaves of a batch is its beginning.
BatchesInOrder ==
    \A b \in batches : \A i \in DOMAIN Written : \A k \in 2..Len(b) :
        Written[i] = b[k] => \E j \in 1..(i - 1) : Written[j] = b[k - 1]

\* The buffer is empty again and again: no flush waits for ever for the
\* mutex, and what is pushed is taken even if its own call is held up.
BufferDrains == []<>(log_buffer_ = <<>>)

\* When Log or LogBatch returns, its records have been written: the code
\* says of force_sync_ that the records are flushed at once.
LoggedIsFlushed ==
    [][\A t \in Threads :
           op[t] \in {"Log", "LogBatch"} /\ pc'[t] = "idle" =>
               \/ Elements(mine[t]) \subseteq reported'
               \/ failed' # failed \/ restarts' # restarts]_vars
=============================================================================
