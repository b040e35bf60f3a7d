------------------------------ MODULE Storage ------------------------------
(***************************************************************************)
(* Storage of src/src/storage.py, the audit log of the gateway: the write  *)
(* buffer committed in batches, the degraded-mode buffer for batches       *)
(* SQLite refused, its bounded retries, and the fallback log on disk.      *)
(*                                                                         *)
(* Every method runs under one threading.Lock, so a method is one step;    *)
(* only the retry loop of flush_pending, which commits record by record,   *)
(* is a step per record, since the process can die between two commits.    *)
(*                                                                         *)
(* sqlite3 opens a transaction at the first INSERT.  No method rolls back  *)
(* after an sqlite3.Error: what the failed batch inserted stays in the     *)
(* open transaction (unless SQLite gave it up by itself) and is committed  *)
(* by whichever method commits next, on the same connection.               *)
(*                                                                         *)
(* A decision is its number in order of arrival: ids are fresh UUIDs.  The *)
(* database is a file, as in the tests; the gateway's own ":memory:" is    *)
(* the constant DurableDb of Breaker.                                      *)
(***************************************************************************)
EXTENDS Naturals, SequencesExt

CONSTANTS
  BatchSize,    \* batch_size
  PendingMax,   \* PENDING_MAX
  MaxAttempts,  \* max_flush_attempts
  Backoff,      \* flush_backoff, in ticks of clock
  MaxSaves,     \* bound: decisions saved
  Horizon,      \* bound on the clock
  MaxBoots      \* bound: restarts

ASSUME StorageAssumption ==
  /\ {BatchSize, PendingMax, MaxAttempts} \subseteq Nat \ {0}
  /\ {Backoff, MaxSaves, Horizon, MaxBoots} \subseteq Nat

VARIABLES
  stage,      \* "open", "cleanup" (the shutdown flush was called), "closed"
  buffer,     \* _write_buffer
  pending,    \* _pending
  failures,   \* _flush_failures
  lastFlush,  \* _last_flush_attempt
  clock,      \* time.monotonic()
  retry,      \* flush_pending: the records its loop has still to try
  remaining,  \* flush_pending: the records its loop could not write
  busy,       \* flush_pending is in its loop, and holds _lock
  txn,        \* rows inserted by the connection and not committed
  table,      \* rows committed to decisions
  log,        \* records in the fallback log
  dropped,    \* history: records the fallback log could not take
  saved,      \* history: decisions saved so far
  tries,      \* history: how often the loop has tried each record
  boot        \* history: restarts

disk == <<txn, table, log, dropped>>
loop == <<retry, remaining, busy, tries>>
flushState == <<failures, lastFlush>>
storageVars ==
  <<stage, buffer, pending, flushState, clock, loop, disk, saved, boot>>

Decision == 1 .. MaxSaves

StorageInit ==
  /\ stage = "open"
  /\ buffer = <<>>
  /\ pending = <<>>
  /\ failures = 0
  /\ lastFlush = 0
  /\ clock = 0
  /\ retry = <<>>
  /\ remaining = <<>>
  /\ busy = FALSE
  /\ txn = {}
  /\ table = {}
  /\ log = {}
  /\ dropped = {}
  /\ saved = 0
  /\ tries = [d \in Decision |-> 0]
  /\ boot = 0

\* The lock is free and the connection usable.
Ready == stage # "closed" /\ ~busy

-----------------------------------------------------------------------------
\* A statement or a commit failed with the given rows inserted: they stay in
\* the transaction, or SQLite rolled all of it back.
TxnFails(inserted) == txn' \in {txn \cup inserted, {}}

CommitWith(inserted) ==
  /\ table' = table \cup txn \cup inserted
  /\ txn' = {}

\* _append_fallback, once per record: any of them can meet an OSError.
AppendFallback(records) ==
  \E refused \in SUBSET records :
    /\ log' = log \cup (records \ refused)
    /\ dropped' = dropped \cup refused

\* Variant: at the cap the newest records are evicted.
BufferOrFallback_Newest(batch) ==
  LET all == pending \o batch
      kept == IF Len(all) > PendingMax THEN SubSeq(all, 1, PendingMax) ELSE all
  IN  /\ pending' = kept
      /\ AppendFallback(ToSet(all) \ ToSet(kept))

\* Variant: the cap looks at the buffer before the batch is added.
BufferOrFallback_LateCap(batch) ==
  LET excess == IF Len(pending) > PendingMax THEN Len(pending) - PendingMax
                ELSE 0
      all == pending \o batch
  IN  /\ pending' = SubSeq(all, excess + 1, Len(all))
      /\ AppendFallback(ToSet(SubSeq(all, 1, excess)))

\* The batch joins the degraded-mode buffer; beyond its cap the oldest
\* records go to the fallback log.
BufferOrFallback(batch) ==
  LET all == pending \o batch
      excess == IF Len(all) > PendingMax THEN Len(all) - PendingMax ELSE 0
  IN  /\ pending' = SubSeq(all, excess + 1, Len(all))
      /\ AppendFallback(ToSet(SubSeq(all, 1, excess)))

\* Variant: only what SQLite had not inserted is kept for a retry.
FlushWriteBuffer_TrustsTxn(batch) ==
  /\ buffer' = <<>>
  /\ \/ batch = <<>> /\ UNCHANGED <<pending, disk>>
     \/ /\ batch # <<>>
        /\ CommitWith(ToSet(batch))
        /\ UNCHANGED <<pending, log, dropped>>
     \/ \E i \in 1 .. Len(batch) :
          /\ TxnFails(ToSet(SubSeq(batch, 1, i)))
          /\ BufferOrFallback(SubSeq(batch, i + 1, Len(batch)))
          /\ UNCHANGED table

\* _flush_write_buffer: one transaction for the batch.  On an error, after
\* any number of its rows or in the commit, all of it is kept for a retry.
FlushWriteBuffer(batch) ==
  /\ buffer' = <<>>
  /\ \/ batch = <<>> /\ UNCHANGED <<pending, disk>>
     \/ /\ batch # <<>>
        /\ CommitWith(ToSet(batch))
        /\ UNCHANGED <<pending, log, dropped>>
     \/ /\ batch # <<>>
        /\ \E i \in 0 .. Len(batch) : TxnFails(ToSet(SubSeq(batch, 1, i)))
        /\ BufferOrFallback(batch)
        /\ UNCHANGED table

\* save.  A worker thread may still run it while the application cleans up.
Save ==
  LET batch == Append(buffer, saved + 1)
  IN  /\ Ready
      /\ saved < MaxSaves
      /\ saved' = saved + 1
      /\ \/ /\ Len(batch) >= BatchSize
            /\ FlushWriteBuffer(batch)
         \/ /\ Len(batch) < BatchSize
            /\ buffer' = batch
            /\ UNCHANGED <<pending, disk>>
      /\ UNCHANGED <<stage, flushState, clock, loop, boot>>

\* count, get_recent, get_by_id, get_trace: flush the buffer, then SELECT.
Read ==
  /\ Ready
  /\ FlushWriteBuffer(buffer)
  /\ UNCHANGED <<stage, flushState, clock, loop, saved, boot>>

\* save_breaker_state: its commit takes the open transaction along.
SaveBreakerState ==
  /\ Ready
  /\ \/ CommitWith({})
     \/ TxnFails({}) /\ UNCHANGED table
  /\ UNCHANGED <<stage, buffer, pending, flushState, clock, loop,
                 log, dropped, saved, boot>>

Throttled == failures >= MaxAttempts /\ clock - lastFlush < Backoff

\* flush_pending up to its loop: the buffer first; then nothing to do, or
\* nothing allowed yet, or a round over all pending records.
FlushPending ==
  /\ Ready
  /\ FlushWriteBuffer(buffer)
  /\ \/ /\ pending' = <<>>
        /\ failures' = 0
        /\ UNCHANGED <<lastFlush, loop>>
     \/ /\ pending' # <<>>
        /\ Throttled
        /\ UNCHANGED <<flushState, loop>>
     \/ /\ pending' # <<>>
        /\ ~Throttled
        /\ lastFlush' = clock
        /\ busy' = TRUE
        /\ retry' = pending'
        /\ remaining' = <<>>
        /\ UNCHANGED <<failures, tries>>
  /\ UNCHANGED <<clock, saved, boot>>

\* flush_pending called by an operator or a test, and once by the gateway, in
\* _flush_pending_on_shutdown.
Flush == FlushPending /\ UNCHANGED stage

Shutdown ==
  /\ stage = "open"
  /\ stage' = "cleanup"
  /\ FlushPending

\* One record of the loop: INSERT and commit, or INSERT refused (a row of
\* that id is already there, or SQLite failed), or the commit refused.
TryRecord ==
  LET d == Head(retry)
      there == d \in table \cup txn
  IN  /\ busy
      /\ retry # <<>>
      /\ retry' = Tail(retry)
      /\ tries' = [tries EXCEPT ![d] = @ + 1]
      /\ \/ /\ ~there
            /\ CommitWith({d})
            /\ UNCHANGED remaining
         \/ /\ TxnFails({}) \/ (~there /\ TxnFails({d}))
            /\ remaining' = Append(remaining, d)
            /\ UNCHANGED table
      /\ UNCHANGED <<stage, buffer, pending, flushState, clock, busy,
                     log, dropped, saved, boot>>

\* Variant: a round that wrote something counts as no failure.
EndFlush_ForgivesProgress ==
  LET progress == Len(remaining) < Len(pending)
      rounds == IF progress THEN 0 ELSE failures + 1
      failed == IF rounds < MaxAttempts THEN rounds ELSE MaxAttempts
      capped == remaining # <<>> /\ failed >= MaxAttempts
  IN  /\ busy
      /\ retry = <<>>
      /\ failures' = IF remaining = <<>> THEN 0 ELSE failed
      /\ pending' = IF capped THEN <<>> ELSE remaining
      /\ AppendFallback(IF capped THEN ToSet(remaining) ELSE {})
      /\ busy' = FALSE
      /\ remaining' = <<>>
      /\ UNCHANGED <<stage, buffer, lastFlush, clock, retry, tries,
                     txn, table, saved, boot>>

\* The end of the loop: count the failed round, and at the cap move what is
\* left to the fallback log.
EndFlush ==
  LET failed == IF failures < MaxAttempts THEN failures + 1 ELSE MaxAttempts
      capped == remaining # <<>> /\ failed >= MaxAttempts
  IN  /\ busy
      /\ retry = <<>>
      /\ failures' = IF remaining = <<>> THEN 0 ELSE failed
      /\ pending' = IF capped THEN <<>> ELSE remaining
      /\ AppendFallback(IF capped THEN ToSet(remaining) ELSE {})
      /\ busy' = FALSE
      /\ remaining' = <<>>
      /\ UNCHANGED <<stage, buffer, lastFlush, clock, retry, tries,
                     txn, table, saved, boot>>

Tick ==
  /\ clock < Horizon
  /\ clock' = clock + 1
  /\ UNCHANGED <<stage, buffer, pending, flushState, loop, disk, saved, boot>>

\* close: flush the buffer and drop the connection, and with it the open
\* transaction.  The degraded-mode buffer is not retried.  (For the users of
\* Storage other than the gateway, which never calls it.)
CloseConnection ==
  \/ /\ buffer = <<>>
     /\ UNCHANGED <<buffer, pending, table, log, dropped>>
  \/ /\ buffer # <<>>
     /\ buffer' = <<>>
     /\ table' = table \cup txn \cup ToSet(buffer)
     /\ UNCHANGED <<pending, log, dropped>>
  \/ /\ buffer # <<>>
     /\ buffer' = <<>>
     /\ BufferOrFallback(buffer)
     /\ UNCHANGED table

Close ==
  /\ stage = "open"
  /\ ~busy
  /\ stage' = "closed"
  /\ txn' = {}
  /\ CloseConnection
  /\ UNCHANGED <<flushState, clock, loop, saved, boot>>

\* The gateway process ends after its cleanup: nothing calls close.
Exit ==
  /\ stage = "cleanup"
  /\ ~busy
  /\ stage' = "closed"
  /\ txn' = {}
  /\ UNCHANGED <<buffer, pending, flushState, clock, loop,
                 table, log, dropped, saved, boot>>

\* The process dies at any point, or is started again after its end.
Restart ==
  /\ boot < MaxBoots
  /\ boot' = boot + 1
  /\ stage' = "open"
  /\ buffer' = <<>>
  /\ pending' = <<>>
  /\ failures' = 0
  /\ lastFlush' = 0
  /\ busy' = FALSE
  /\ retry' = <<>>
  /\ remaining' = <<>>
  /\ txn' = {}
  /\ UNCHANGED <<clock, table, log, dropped, saved, tries>>

StorageNext ==
  \/ Save
  \/ Read
  \/ SaveBreakerState
  \/ Flush
  \/ Shutdown
  \/ TryRecord
  \/ EndFlush
  \/ Tick
  \/ Close
  \/ Exit
  \/ Restart

StorageSpec == StorageInit /\ [][StorageNext]_storageVars

-----------------------------------------------------------------------------
\* Every variable has its type, and the memory of a degraded gateway is bounded:
\* between two methods less than a batch waits for its commit and at most
\* PENDING_MAX for a retry.
StorageTypeOK ==
  /\ stage \in {"open", "cleanup", "closed"}
  /\ {buffer, pending, retry, remaining} \subseteq Seq(Decision)
  /\ failures \in 0 .. MaxAttempts
  /\ {lastFlush, clock, boot} \subseteq Nat
  /\ busy \in BOOLEAN
  /\ txn \cup table \cup log \cup dropped \subseteq Decision
  /\ saved \in 0 .. MaxSaves
  /\ tries \in [Decision -> Nat]
  /\ Len(buffer) < BatchSize
  /\ Len(pending) <= PendingMax

\* Failed batches and partly successful rounds of retries keep the records in
\* order of arrival, so that what goes to the fallback log is the oldest
\* ("oldest entries evicted to disk", tests/test_pending_fallback.py).
ArrivalOrder ==
  LET queued == pending \o buffer
  IN  /\ \A i, j \in 1 .. Len(queued) : i < j => queued[i] < queued[j]
      /\ \A d \in log \cup dropped, i \in 1 .. Len(queued) : d < queued[i]

\* "No infinite retry loop" (flush_pending): no record meets the database
\* more than max_flush_attempts times in the loop, however many new failures
\* and partial successes come between.
RetriesBounded == \A d \in Decision : tries[d] <= MaxAttempts

\* No decision is lost while the process lives, nothing durable is lost at
\* all, and what a failed batch left in the open transaction is never the
\* only copy of a decision.
Log == INSTANCE DecisionLog WITH
  held    <- ToSet(buffer) \cup ToSet(pending),
  durable <- table \cup log
NothingLost == Log!LogSpec
=============================================================================
