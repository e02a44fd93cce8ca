------------------------------ MODULE LogStore ------------------------------
(***************************************************************************)
(* The query log: producers that enqueue one entry per request without     *)
(* ever waiting (query_log.rs, Handle::record_log), the storage worker     *)
(* that owns the SQLite file and commits batches, evicts and clears        *)
(* (storage/database.rs), and one live subscriber of the console that      *)
(* follows the log by row id (manage/live.rs).                             *)
(*                                                                         *)
(* A clear is an epoch: an entry belongs to the epoch its request began    *)
(* in.  Before the file has been checked the epoch is not known yet and    *)
(* requests carry the pending epoch.                                       *)
(***************************************************************************)
EXTENDS Naturals, FiniteSets, Sequences, FiniteSetsExt, SequencesExt

CONSTANTS
  LgRequests,     \* requests in progress at a time
  LgQueue,        \* storage.queue_max_entries
  LgRows,         \* query_log.max_entries
  LgNewer,        \* NEWER_LIMIT
  LgWrites,       \* bound: rows ever written
  LgClears,       \* bound: clears
  LgCrashes,      \* bound: restarts
  LgPending       \* PENDING_LOG_EPOCH

ASSUME LgAssumption ==
  /\ IsFiniteSet(LgRequests)
  /\ {LgQueue, LgRows, LgNewer} \subseteq Nat \ {0}
  /\ {LgWrites, LgClears, LgCrashes} \subseteq Nat
  /\ LgPending \notin Nat

VARIABLES
  lgDb,           \* log_epoch, the rows and the AUTOINCREMENT counter of query_log
  lgEpoch,        \* Shared.log_epoch
  lgLatest,       \* Shared.latest_log_id
  lgEntries,      \* Shared.queue_entries
  lgQueue,        \* the channel to the worker
  lgReq,          \* each request: where it is, the epoch it began with
  lgWork,         \* the worker's operation and the epoch it opened the file with
  lgLive,         \* the subscription: cursor, query in flight, what it delivered and
                  \* up to where it told the client to reload
  lgCrashCount

lgVars == <<lgDb, lgEpoch, lgLatest, lgEntries, lgQueue, lgReq, lgWork, lgLive, lgCrashCount>>

LgNoReq == [pc |-> "none", epoch |-> 0, began |-> 0]
LgNoLive == [pc |-> "off", cursor |-> 0, from |-> 0, got |-> {}, told |-> 0]

LgInit ==
  /\ lgDb = [epoch |-> 0, rows |-> {}, last |-> 0]
  /\ lgEpoch = LgPending /\ lgLatest = 0 /\ lgEntries = 0 /\ lgQueue = <<>>
  /\ lgReq = [r \in LgRequests |-> LgNoReq]
  /\ lgWork = [pc |-> "checking", opened |-> 0, batch |-> <<>>]
  /\ lgLive = LgNoLive
  /\ lgCrashCount = 0

(***************************************************************************)
(* A request: begin_log, then record_log when it is delivered or dropped.  *)
(***************************************************************************)

\* QueryLog::pending: the entry of a request belongs to the epoch of its start
LgBegin(r) ==
  /\ lgReq[r].pc = "none"
  /\ lgReq' = [lgReq EXCEPT ![r] = [pc |-> "begun", epoch |-> lgEpoch, began |-> lgDb.epoch]]
  /\ UNCHANGED <<lgDb, lgEpoch, lgLatest, lgEntries, lgQueue, lgWork, lgLive, lgCrashCount>>

\* record_log up to the reservation: another epoch or a full queue drops the entry
LgReserve(r) ==
  /\ lgReq[r].pc = "begun"
  /\ IF lgReq[r].epoch = lgEpoch /\ lgEntries < LgQueue
     THEN lgReq' = [lgReq EXCEPT ![r].pc = "reserved"] /\ lgEntries' = lgEntries + 1
     ELSE lgReq' = [lgReq EXCEPT ![r] = LgNoReq] /\ UNCHANGED lgEntries
  /\ UNCHANGED <<lgDb, lgEpoch, lgLatest, lgQueue, lgWork, lgLive, lgCrashCount>>

\* what record_log leaves of the reservation when the entry was not sent
LgUnsent(n) == n - 1

\* the byte budget, then the channel: the entry is sent or its reservation undone
LgSend(r, fits) ==
  /\ lgReq[r].pc = "reserved"
  /\ IF fits THEN lgQueue' = Append(lgQueue, lgReq[r]) /\ UNCHANGED lgEntries
     ELSE lgEntries' = LgUnsent(lgEntries) /\ UNCHANGED lgQueue
  /\ lgReq' = [lgReq EXCEPT ![r] = LgNoReq]
  /\ UNCHANGED <<lgDb, lgEpoch, lgLatest, lgWork, lgLive, lgCrashCount>>

(***************************************************************************)
(* The worker.                                                             *)
(***************************************************************************)

LgIds(rows) == {row.id : row \in rows}
LgNewest(rows) == Max(LgIds(rows) \cup {0})
LgOldest(rows, n) == {row \in rows : Cardinality({q \in rows : q.id < row.id}) < n}

\* Database::cleanup: expired rows, wherever they are, and the oldest over the
\* capacity
LgCleaned == \E gone \in SUBSET lgDb.rows : lgDb' = [lgDb EXCEPT !.rows = @ \ gone]

\* Database::open publishes the stored epoch: requests begin with it from here
LgOpenEpoch ==
  /\ lgWork.pc = "checking"
  /\ lgWork' = [lgWork EXCEPT !.pc = "opening", !.opened = lgDb.epoch]
  /\ lgEpoch' = lgDb.epoch
  /\ UNCHANGED <<lgDb, lgLatest, lgEntries, lgQueue, lgReq, lgLive, lgCrashCount>>

\* then it cleans up and publishes the latest row
LgOpen ==
  /\ lgWork.pc = "opening"
  /\ LgCleaned /\ lgLatest' = LgNewest(lgDb'.rows)
  /\ lgWork' = [lgWork EXCEPT !.pc = "idle"]
  /\ UNCHANGED <<lgEpoch, lgEntries, lgQueue, lgReq, lgLive, lgCrashCount>>

\* an open that fails, before or after it published the epoch or the latest
\* row: the worker answers nothing and only empties the queue
LgOpenFails ==
  /\ \/ lgWork.pc \in {"checking", "opening"} /\ UNCHANGED <<lgDb, lgLatest>>
     \/ lgWork.pc = "opening" /\ LgCleaned /\ lgLatest' = LgNewest(lgDb.rows)
  /\ lgWork' = [lgWork EXCEPT !.pc = "unavailable"]
  /\ UNCHANGED <<lgEpoch, lgEntries, lgQueue, lgReq, lgLive, lgCrashCount>>

LgDiscard ==
  /\ lgWork.pc = "unavailable" /\ lgQueue # <<>>
  /\ lgEntries' = lgEntries - Len(lgQueue) /\ lgQueue' = <<>>
  /\ UNCHANGED <<lgDb, lgEpoch, lgLatest, lgReq, lgWork, lgLive, lgCrashCount>>

\* flush_batch: what is queued now
LgTake ==
  /\ lgWork.pc = "idle" /\ lgQueue # <<>>
  /\ lgWork' = [lgWork EXCEPT !.pc = "batch", !.batch = lgQueue]
  /\ lgQueue' = <<>>
  /\ UNCHANGED <<lgDb, lgEpoch, lgLatest, lgEntries, lgReq, lgLive, lgCrashCount>>

\* write_batch: an entry of another epoch is skipped; a pending one belongs to
\* the epoch the file was opened with
LgAccepts(item) ==
  \/ item.epoch = lgDb.epoch
  \/ item.epoch = LgPending /\ lgDb.epoch = lgWork.opened

\* write_batch, one transaction: insert, then evict the oldest rows over the
\* limit, at most as many as were inserted
LgWritten(matches) ==
  LET items == SelectSeq(lgWork.batch, LgAccepts)
      fresh == {[id |-> lgDb.last + i, began |-> items[i].began, match |-> matches] : i \in DOMAIN items}
      rows  == lgDb.rows \cup fresh
      over  == IF Cardinality(rows) > LgRows THEN Cardinality(rows) - LgRows ELSE 0
  IN  [lgDb EXCEPT !.rows = rows \ LgOldest(rows, Min({over, Len(items)})),
                   !.last = @ + Len(items)]

LgWrite(matches) ==
  /\ lgWork.pc = "batch"
  /\ lgDb.last + Len(lgWork.batch) <= LgWrites
  /\ lgDb' = LgWritten(matches)
  /\ lgWork' = [lgWork EXCEPT !.pc = "written"]
  /\ UNCHANGED <<lgEpoch, lgLatest, lgEntries, lgQueue, lgReq, lgLive, lgCrashCount>>

\* flush_batch after the transaction: release the reservations; a committed
\* batch also publishes the latest row
LgRelease ==
  /\ lgWork.pc = "written"
  /\ lgEntries' = lgEntries - Len(lgWork.batch)
  /\ lgLatest' = LgNewest(lgDb.rows)
  /\ lgWork' = [lgWork EXCEPT !.pc = "idle", !.batch = <<>>]
  /\ UNCHANGED <<lgDb, lgEpoch, lgQueue, lgReq, lgLive, lgCrashCount>>

LgWriteFails ==
  /\ lgWork.pc = "batch"
  /\ lgEntries' = lgEntries - Len(lgWork.batch)
  /\ lgWork' = [lgWork EXCEPT !.pc = "idle", !.batch = <<>>]
  /\ UNCHANGED <<lgDb, lgEpoch, lgLatest, lgQueue, lgReq, lgLive, lgCrashCount>>

\* the periodic cleanup and trim_capacity
LgCleanup ==
  /\ lgWork.pc = "idle"
  /\ LgCleaned
  /\ lgLatest' = LgNewest(lgDb'.rows)
  /\ UNCHANGED <<lgEpoch, lgEntries, lgQueue, lgReq, lgWork, lgLive, lgCrashCount>>

\* clear_logs: rows and epoch in one transaction, published after the commit
LgClear ==
  /\ lgWork.pc = "idle" /\ lgDb.epoch < LgClears
  /\ lgDb' = [lgDb EXCEPT !.rows = {}, !.epoch = @ + 1]
  /\ lgWork' = [lgWork EXCEPT !.pc = "cleared"]
  /\ UNCHANGED <<lgEpoch, lgLatest, lgEntries, lgQueue, lgReq, lgLive, lgCrashCount>>

LgClearPublish ==
  /\ lgWork.pc = "cleared"
  /\ lgEpoch' = lgDb.epoch /\ lgLatest' = LgNewest(lgDb.rows)
  /\ lgWork' = [lgWork EXCEPT !.pc = "idle"]
  /\ UNCHANGED <<lgDb, lgEntries, lgQueue, lgReq, lgLive, lgCrashCount>>

\* the process ends and the next one checks the same file
LgRestart ==
  /\ lgCrashCount < LgCrashes
  /\ lgCrashCount' = lgCrashCount + 1
  /\ lgEpoch' = LgPending /\ lgLatest' = 0 /\ lgEntries' = 0 /\ lgQueue' = <<>>
  /\ lgReq' = [r \in LgRequests |-> LgNoReq]
  /\ lgWork' = [pc |-> "checking", opened |-> 0, batch |-> <<>>]
  /\ lgLive' = LgNoLive
  /\ UNCHANGED lgDb

(***************************************************************************)
(* The live subscription.                                                  *)
(***************************************************************************)

\* Subscribe without a cursor: the first query only learns where the log ends
LgSubscribe ==
  /\ lgLive.pc = "off" /\ lgWork.pc = "idle"
  /\ lgLive' = [LgNoLive EXCEPT !.pc = "on", !.cursor = LgNewest(lgDb.rows), !.from = LgNewest(lgDb.rows)]
  /\ UNCHANGED <<lgDb, lgEpoch, lgLatest, lgEntries, lgQueue, lgReq, lgWork, lgCrashCount>>

\* Live::poll asks the worker when the published latest id is past the cursor
\* (or a refresh or a clear asks for it); Database::newer answers from one read
LgNewerRows == {row \in lgDb.rows : row.match /\ row.id > lgLive.cursor}
LgPoll(refresh) ==
  /\ lgLive.pc = "on" /\ lgWork.pc = "idle"
  /\ refresh \/ lgLatest > lgLive.cursor
  /\ LET found == LgNewerRows
         shown == found \ LgOldest(found, IF Cardinality(found) > LgNewer
                                          THEN Cardinality(found) - LgNewer ELSE 0)
     IN  lgLive' = [pc |-> "asked", cursor |-> lgLive.cursor, from |-> lgLive.from, got |-> lgLive.got,
                    told |-> lgLive.told, ids |-> LgIds(shown), more |-> Cardinality(found) > LgNewer,
                    to |-> LgNewest(lgDb.rows)]
  /\ UNCHANGED <<lgDb, lgEpoch, lgLatest, lgEntries, lgQueue, lgReq, lgWork, lgCrashCount>>

\* Mutant: the cursor moves to what was published, not to what was scanned.
LgScannedPublished(live) == IF live.more THEN Max(live.ids \cup {live.cursor})
                            ELSE Max(live.ids \cup {live.cursor, lgLatest})

\* the cursor after the answer: past everything it scanned, or past the newest
\* entry of a capped answer, and never back
LgScanned(live) == IF live.more THEN Max(live.ids \cup {live.cursor})
                   ELSE Max(live.ids \cup {live.cursor, live.to})

\* the push, newest first: past its byte budget the older entries are left out,
\* reported like those of a capped answer; the client then reloads
LgDeliver ==
  /\ lgLive.pc = "asked"
  /\ \E oldest \in lgLive.ids \cup {0} :
       LET sent   == {i \in lgLive.ids : i >= oldest}
           cursor == LgScanned(lgLive)
       IN  lgLive' = [pc |-> "on", cursor |-> cursor, from |-> lgLive.from,
                      got |-> lgLive.got \cup sent,
                      told |-> IF lgLive.more \/ sent # lgLive.ids THEN cursor ELSE lgLive.told]
  /\ UNCHANGED <<lgDb, lgEpoch, lgLatest, lgEntries, lgQueue, lgReq, lgWork, lgCrashCount>>

LgNext ==
  \/ \E r \in LgRequests : LgBegin(r) \/ LgReserve(r) \/ (\E fits \in BOOLEAN : LgSend(r, fits))
  \/ LgOpenEpoch \/ LgOpen \/ LgOpenFails \/ LgDiscard \/ LgTake \/ (\E m \in BOOLEAN : LgWrite(m))
  \/ LgRelease \/ LgWriteFails \/ LgCleanup \/ LgClear \/ LgClearPublish \/ LgRestart
  \/ LgSubscribe \/ (\E refresh \in BOOLEAN : LgPoll(refresh)) \/ LgDeliver

(***************************************************************************)
(* Properties                                                              *)
(***************************************************************************)

\* A cleared log stays cleared: no stored row comes from a request that began
\* before the last clear, whether it was in progress, being recorded, queued
\* under the pending epoch or in the worker's batch (write_batch, clear_logs).
ClearedStaysCleared == \A row \in lgDb.rows : row.began = lgDb.epoch

\* queue_entries is exactly the entries on their way to the database: reserved,
\* queued and in the worker's batch.  So a dropped entry never costs queue
\* space for good, and the queue never holds more than its limit
\* (record_log, release).
LogQueueBooksKept ==
  /\ lgEntries = Len(lgQueue) + Len(lgWork.batch)
                   + Cardinality({r \in LgRequests : lgReq[r].pc = "reserved"})
  /\ lgEntries <= LgQueue

\* A live subscriber misses nothing: a stored row that matches its filter, is
\* newer than the start of the subscription and not after the cursor has been
\* delivered, or a push past the row said that entries were left out, which the
\* client then reloads (Live::poll, Database::newer).
LiveLogComplete ==
  lgLive.pc # "off" =>
    \A row \in lgDb.rows :
      row.match /\ lgLive.from < row.id /\ row.id <= lgLive.cursor =>
        row.id \in lgLive.got \/ row.id <= lgLive.told

\* and gets nothing twice: an answer holds no entry delivered before, across
\* clears and evictions of the rows it was counted from
LiveLogOnce ==
  lgLive.pc = "asked" => lgLive.ids \cap lgLive.got = {}

\* Query logs are cleared for good, queued within their limit and delivered to
\* a live subscriber completely and once.
LogsKept == ClearedStaysCleared /\ LogQueueBooksKept /\ LiveLogComplete /\ LiveLogOnce
=============================================================================
