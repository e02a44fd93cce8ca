----------------------------- MODULE Statistics -----------------------------
(***************************************************************************)
(* Durable statistics (storage/statistics.rs and the statistics half of    *)
(* storage/database.rs).  Three parties touch them: requests that count in *)
(* the process metrics, the sampler thread that turns metrics into a       *)
(* checkpoint of the totals and into history points, and the storage       *)
(* worker that opens the database, writes what was sampled and performs    *)
(* the two resets.  The sampler's state is under one lock which the worker *)
(* never holds over a transaction, so each worker operation is a cut under *)
(* the lock, a transaction, and a publication under the lock again.        *)
(*                                                                         *)
(* A counter stands for the whole Snapshot of metrics: every counter of it *)
(* is added, subtracted and reset in the same way.                         *)
(***************************************************************************)
EXTENDS Naturals, FiniteSets, Sequences, FiniteSetsExt, SequencesExt

CONSTANTS
  SxEvents,       \* bound: requests counted in one process
  SxSamples,      \* bound: samples of one process
  SxPoints,       \* history points the owner queues (120 in the code)
  SxResets,       \* bound: resets of the totals and clears of the history
  SxRuns,         \* bound: processes
  SxFailures      \* bound: failed transactions

ASSUME SxAssumption ==
  /\ SxPoints \in Nat \ {0} /\ SxRuns \in Nat \ {0}
  /\ {SxEvents, SxSamples, SxResets, SxFailures} \subseteq Nat

VARIABLES
  sxRaw,          \* the process metrics
  sxOwner,        \* statistics::Owner
  sxDb,           \* statistics_totals, statistics_points and the two epochs
  sxWork,         \* the operation the worker is in
  sxRun,          \* the process: its run_id
  sxFailed,       \* failed transactions so far
  sxKept,         \* history: requests the current totals must account for
  sxHist,         \* history: requests the points of this process must account for
  sxLost          \* history: requests of points the owner dropped

sxVars == <<sxRaw, sxOwner, sxDb, sxWork, sxRun, sxFailed, sxKept, sxHist, sxLost>>

SxNone == [seq |-> 0]
SxIdle == [pc |-> "idle"]

\* Owner::new: a fresh run starts from the metrics at its start
SxNew == [base |-> 0, offset |-> 0, te |-> 0, he |-> 0, seq |-> 0, latest |-> SxNone,
          points |-> <<>>, baseline |-> 0]

SxInit ==
  /\ sxRaw = 0
  /\ sxOwner = SxNew
  /\ sxDb = [te |-> 0, run |-> 0, seq |-> 0, total |-> 0, kept |-> 0, he |-> 0, points |-> {}]
  /\ sxWork = [pc |-> "checking"]
  /\ sxRun = 1
  /\ sxFailed = 0
  /\ sxKept = 0 /\ sxHist = 0 /\ sxLost = 0

SxEventsOf(points) == MapThenSumSet(LAMBDA p : p.n, points)

\* Owner::totals
SxTotals(o) == o.base + (sxRaw - o.offset)

\* a request counts itself in the metrics, without any lock
SxCount ==
  /\ sxRaw < SxEvents
  /\ sxRaw' = sxRaw + 1 /\ sxKept' = sxKept + 1 /\ sxHist' = sxHist + 1
  /\ UNCHANGED <<sxOwner, sxDb, sxWork, sxRun, sxFailed, sxLost>>

\* Owner::checkpoint
SxCheckpointed(o) ==
  [o EXCEPT !.seq = @ + 1,
            !.latest = [seq |-> o.seq + 1, te |-> o.te, run |-> sxRun, total |-> SxTotals(o), kept |-> sxKept]]

SxPointOf(o) == [he |-> o.he, run |-> sxRun, seq |-> o.seq, n |-> sxRaw - o.baseline]

\* Owner::point: a full queue drops the point and still moves the baseline
SxPointed(o) ==
  [o EXCEPT !.points = IF Len(@) >= SxPoints THEN @ ELSE Append(@, SxPointOf(o)),
            !.baseline = sxRaw]

\* Owner::sample, from the sampler thread, a change of DNS state or a flush:
\* always a checkpoint; a point as well when forced or when a minute has passed
SxSample(withPoint) ==
  /\ sxOwner.seq < SxSamples
  /\ LET checked == SxCheckpointed(sxOwner)
     IN  /\ sxOwner' = IF withPoint THEN SxPointed(checked) ELSE checked
         /\ sxLost' = IF withPoint /\ Len(sxOwner.points) >= SxPoints
                      THEN sxLost + (sxRaw - sxOwner.baseline) ELSE sxLost
  /\ UNCHANGED <<sxRaw, sxDb, sxWork, sxRun, sxFailed, sxKept, sxHist>>

SxFails == sxFailed < SxFailures /\ sxFailed' = sxFailed + 1

\* Mutant: a checkpoint taken before the base was known is kept.
SxAdoptedWithCheckpoint(o) ==
  [o EXCEPT !.te = sxDb.te, !.he = sxDb.he, !.base = sxDb.total,
            !.points = [i \in DOMAIN @ |-> [@[i] EXCEPT !.he = sxDb.he]]]

\* Database::open, the part under the owner's lock: the stored totals become
\* the base, points sampled during the check join the stored epochs, and a
\* checkpoint taken before the base was known is discarded
SxAdopted(o) ==
  [o EXCEPT !.te = sxDb.te, !.he = sxDb.he, !.base = sxDb.total, !.latest = SxNone,
            !.points = [i \in DOMAIN @ |-> [@[i] EXCEPT !.he = sxDb.he]]]

SxOpen ==
  /\ sxWork.pc = "checking"
  /\ sxOwner' = SxAdopted(sxOwner)
  /\ sxWork' = SxIdle
  /\ UNCHANGED <<sxRaw, sxDb, sxRun, sxFailed, sxKept, sxHist, sxLost>>

\* flush_batch, under the lock: take the checkpoint and the queued points
SxTake ==
  /\ sxWork.pc = "idle"
  /\ sxOwner.latest # SxNone \/ sxOwner.points # <<>>
  /\ sxWork' = [pc |-> "batch", latest |-> sxOwner.latest, points |-> sxOwner.points]
  /\ sxOwner' = [sxOwner EXCEPT !.latest = SxNone, !.points = <<>>]
  /\ UNCHANGED <<sxRaw, sxDb, sxRun, sxFailed, sxKept, sxHist, sxLost>>

\* write_batch, the totals: a first checkpoint adopts the row for this run,
\* then only a higher sequence number of the same epoch replaces it
SxStoredTotals(db, cp) ==
  LET adopted == IF cp # SxNone /\ cp.te = db.te /\ db.run # cp.run
                 THEN [db EXCEPT !.run = cp.run, !.seq = 0] ELSE db
  IN  IF cp # SxNone /\ cp.te = adopted.te /\ cp.run = adopted.run /\ adopted.seq < cp.seq
      THEN [adopted EXCEPT !.seq = cp.seq, !.total = cp.total, !.kept = cp.kept] ELSE adopted

\* write_batch, the points: those of the current history epoch, each key once
SxStoredPoints(db, points) ==
  [db EXCEPT !.points = @ \cup {p \in ToSet(points) :
                                  /\ p.he = db.he
                                  /\ \A q \in db.points : <<q.he, q.run, q.seq>> # <<p.he, p.run, p.seq>>}]

SxWrite ==
  /\ sxWork.pc = "batch"
  /\ sxDb' = SxStoredPoints(SxStoredTotals(sxDb, sxWork.latest), sxWork.points)
  /\ sxWork' = SxIdle
  /\ UNCHANGED <<sxRaw, sxOwner, sxRun, sxFailed, sxKept, sxHist, sxLost>>

\* flush_batch after a failed write: the checkpoint goes back unless a newer
\* one was sampled meanwhile, and the points go back to the front while there
\* is room, the latest of them first
SxRoom(o, points) == IF Len(o.points) + Len(points) <= SxPoints THEN Len(points)
                     ELSE SxPoints - Len(o.points)
SxReturned(o, points) == SubSeq(points, Len(points) - SxRoom(o, points) + 1, Len(points)) \o o.points

SxWriteFails ==
  /\ sxWork.pc = "batch"
  /\ SxFails
  /\ LET gone == SubSeq(sxWork.points, 1, Len(sxWork.points) - SxRoom(sxOwner, sxWork.points))
     IN  sxLost' = sxLost + SxEventsOf(ToSet(gone))
  /\ sxOwner' = [sxOwner EXCEPT !.latest = IF @ = SxNone THEN sxWork.latest ELSE @,
                                !.points = SxReturned(sxOwner, sxWork.points)]
  /\ sxWork' = SxIdle
  /\ UNCHANGED <<sxRaw, sxDb, sxRun, sxKept, sxHist>>

\* reset_totals: the cut is taken under the lock, before the transaction
SxResetCut ==
  /\ sxWork.pc = "idle" /\ sxDb.te < SxResets
  /\ sxWork' = [pc |-> "reset", cut |-> sxRaw]
  /\ UNCHANGED <<sxRaw, sxOwner, sxDb, sxRun, sxFailed, sxKept, sxHist, sxLost>>

SxResetCommit ==
  /\ sxWork.pc = "reset"
  /\ sxDb' = [sxDb EXCEPT !.te = @ + 1, !.run = sxRun, !.seq = 0, !.total = 0, !.kept = 0]
  /\ sxWork' = [sxWork EXCEPT !.pc = "resetDone"]
  /\ sxKept' = sxRaw - sxWork.cut
  /\ UNCHANGED <<sxRaw, sxOwner, sxRun, sxFailed, sxHist, sxLost>>

\* Owner::reset_committed; a checkpoint sampled during the transaction still
\* has the old epoch and is discarded
SxReset(o, cut) == [o EXCEPT !.base = 0, !.offset = cut, !.te = sxDb.te, !.latest = SxNone]

SxResetPublish ==
  /\ sxWork.pc = "resetDone"
  /\ sxOwner' = SxReset(sxOwner, sxWork.cut)
  /\ sxWork' = SxIdle
  /\ UNCHANGED <<sxRaw, sxDb, sxRun, sxFailed, sxKept, sxHist, sxLost>>

\* clear_history, in the same three steps
SxClearCut ==
  /\ sxWork.pc = "idle" /\ sxDb.he < SxResets
  /\ sxWork' = [pc |-> "clear", cut |-> sxRaw]
  /\ UNCHANGED <<sxRaw, sxOwner, sxDb, sxRun, sxFailed, sxKept, sxHist, sxLost>>

SxClearCommit ==
  /\ sxWork.pc = "clear"
  /\ sxDb' = [sxDb EXCEPT !.he = @ + 1, !.points = {}]
  /\ sxWork' = [sxWork EXCEPT !.pc = "clearDone"]
  /\ UNCHANGED <<sxRaw, sxOwner, sxRun, sxFailed, sxKept, sxHist, sxLost>>

\* Owner::history_cleared: points sampled since the cut are forgotten and the
\* baseline goes back to the cut, so that the next point covers them
SxCleared(o, cut) == [o EXCEPT !.he = sxDb.he, !.baseline = cut, !.points = <<>>]

SxClearPublish ==
  /\ sxWork.pc = "clearDone"
  /\ sxOwner' = SxCleared(sxOwner, sxWork.cut)
  /\ sxWork' = SxIdle
  /\ sxHist' = sxRaw - sxWork.cut /\ sxLost' = 0
  /\ UNCHANGED <<sxRaw, sxDb, sxRun, sxFailed, sxKept>>

\* a reset or a clear whose transaction fails changes nothing
SxTransactionFails ==
  /\ sxWork.pc \in {"reset", "clear"}
  /\ SxFails
  /\ sxWork' = SxIdle
  /\ UNCHANGED <<sxRaw, sxOwner, sxDb, sxRun, sxKept, sxHist, sxLost>>

\* the process ends at any point and the next one checks and opens the file
SxRestart ==
  /\ sxRun < SxRuns
  /\ sxRun' = sxRun + 1 /\ sxRaw' = 0 /\ sxOwner' = SxNew /\ sxWork' = [pc |-> "checking"]
  /\ sxKept' = sxDb.kept /\ sxHist' = 0 /\ sxLost' = 0
  /\ UNCHANGED <<sxDb, sxFailed>>

SxNext ==
  \/ SxCount \/ (\E p \in BOOLEAN : SxSample(p)) \/ SxOpen
  \/ SxTake \/ SxWrite \/ SxWriteFails
  \/ SxResetCut \/ SxResetCommit \/ SxResetPublish
  \/ SxClearCut \/ SxClearCommit \/ SxClearPublish
  \/ SxTransactionFails \/ SxRestart

(***************************************************************************)
(* Properties                                                              *)
(***************************************************************************)

\* The persistent totals count every request since the last reset once: those
\* of earlier processes up to the last checkpoint they committed, and all of
\* this process from the cut the reset took, whatever was counted, sampled or
\* written while the reset transaction ran (Owner::totals, reset_totals).
TotalsExact ==
  sxWork.pc \notin {"checking", "resetDone"} => SxTotals(sxOwner) = sxKept

\* The stored totals of one epoch never go back: not through a checkpoint
\* sampled before the stored base was loaded, not through one that a failed
\* write put back, not across processes (write_batch, Database::open).
StoredTotalsGrow == [][sxDb'.te = sxDb.te => sxDb'.total >= sxDb.total]_sxVars

\* History accounts for every request of this process since the last clear
\* exactly once: in a stored point, in a point queued or being written, in
\* one counted as dropped, or after the baseline of the next point
\* (flush_batch, Owner::point, history_cleared).
HistoryExact ==
  sxWork.pc # "clearDone" =>
    LET moving  == IF sxWork.pc = "batch" THEN sxWork.points ELSE <<>>
        stored  == {p \in sxDb.points : p.run = sxRun}
    IN  SxEventsOf(stored) + SxEventsOf(ToSet(moving)) + SxEventsOf(ToSet(sxOwner.points))
          + sxLost + (sxRaw - sxOwner.baseline) = sxHist

\* Totals and history count every request once, across resets, clears, failed
\* writes and restarts.
StatisticsExact == []TotalsExact /\ []HistoryExact /\ StoredTotalsGrow
=============================================================================
