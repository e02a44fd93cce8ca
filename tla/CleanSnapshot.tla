--------------------------- MODULE CleanSnapshot ---------------------------
(***************************************************************************)
(* The one-use cache snapshot across process runs: cache_persistence.rs,   *)
(* runtime_lifecycle.rs and the part of main.rs that drives them.  A run   *)
(* takes the runtime directory lock, durably consumes the clean file,      *)
(* restores it, serves, and saves a new one when it ends quiescent.        *)
(* Filesystem work runs on a blocking worker that a timeout abandons: it   *)
(* goes on until the process is gone, and the lock is released before that *)
(* (RuntimeServices is dropped, then main waits for the workers).          *)
(*                                                                         *)
(* Runs are numbered in the order they start, and a snapshot is the number *)
(* of the run that saved it.  A rename or an unlink reaches the disk with  *)
(* the next directory sync; a power loss keeps any of the directory's      *)
(* states since the last one.                                              *)
(***************************************************************************)
EXTENDS Integers, FiniteSets

CONSTANT MaxRuns    \* bound: process runs

ASSUME MaxRunsAssumption == MaxRuns \in Nat \ {0}

Runs == 1..MaxRuns

VARIABLES
    lock,       \* the run that holds the runtime directory lock, or 0
    clean,      \* CLEAN_FILE as the running system sees it, or 0
    maybe,      \* what a power loss may leave as CLEAN_FILE
    main,       \* where each run is
    work,       \* where its blocking worker is
    held,       \* the snapshot its worker opened, or 0
    cancelled,  \* runs whose save was cancelled
    flushed,    \* runs whose snapshot bytes reached the disk
    late,       \* history: runs that published after they released the lock
    served,     \* history: runs that served
    restored    \* history: <<snapshot, run>> restored

vars == <<lock, clean, maybe, main, work, held, cancelled, flushed, late, served, restored>>

\* A run that owns the lock.
Owning == {"consuming", "bound", "serving", "saving"}
Workers == {"idle", "open", "opened", "absent", "unlinked", "consumed", "save", "write",
            "check", "rename", "renamed", "done"}

Init ==
    /\ lock = 0 /\ clean = 0 /\ maybe = {0}
    /\ main = [r \in Runs |-> "none"]
    /\ work = [r \in Runs |-> "idle"]
    /\ held = [r \in Runs |-> 0]
    /\ cancelled = {} /\ flushed = {} /\ late = {} /\ served = {} /\ restored = {}

Alive(r) == main[r] \notin {"none", "gone"}
Working(r, at) == Alive(r) /\ work[r] = at
Then(r, at) == work' = [work EXCEPT ![r] = at]
history == <<late, served, restored>>
disk == <<clean, maybe, flushed>>

(***************************************************************************)
(* Startup.  The lock comes first; consume waits for the worker.           *)
(***************************************************************************)
Start(r) ==
    /\ lock = 0
    /\ \A q \in Runs : (main[q] = "none") = (q >= r)
    /\ lock' = r
    /\ main' = [main EXCEPT ![r] = "consuming"]
    /\ Then(r, "open")
    /\ UNCHANGED <<disk, held, cancelled, history>>

\* consume_startup opens the file; a disabled or oversized one is not kept.
ConsumeOpen(r, accepted) ==
    /\ Working(r, "open")
    /\ Then(r, IF clean = 0 THEN "absent" ELSE "opened")
    /\ held' = [held EXCEPT ![r] = IF accepted THEN clean ELSE 0]
    /\ UNCHANGED <<lock, disk, main, cancelled, history>>

\* remove_file; another worker may have removed it already.  A failure to open,
\* remove or sync ends the run like a timeout: StartupFails.
ConsumeUnlink(r) ==
    /\ Working(r, "opened")
    /\ clean' = 0
    /\ maybe' = maybe \cup {0}
    /\ Then(r, IF clean = 0 THEN "done" ELSE "unlinked")
    /\ UNCHANGED <<lock, main, held, cancelled, flushed, history>>

\* Mutant: a missing file needs no directory sync.
ConsumeSyncUnlinkOnly(r, synced) ==
    /\ Working(r, "absent") \/ Working(r, "unlinked")
    /\ maybe' = IF synced /\ work[r] = "unlinked" THEN {clean} ELSE maybe
    /\ Then(r, IF synced THEN "consumed" ELSE "done")
    /\ UNCHANGED <<lock, clean, main, held, cancelled, flushed, history>>

\* sync_directory, also when there was no file: an earlier run may have been
\* stopped between its unlink and its sync.
ConsumeSync(r, synced) ==
    /\ Working(r, "absent") \/ Working(r, "unlinked")
    /\ maybe' = IF synced THEN {clean} ELSE maybe
    /\ Then(r, IF synced THEN "consumed" ELSE "done")
    /\ UNCHANGED <<lock, clean, main, held, cancelled, flushed, history>>

\* consume returns and the listeners are bound.
Bind(r) ==
    /\ main[r] = "consuming" /\ work[r] = "consumed"
    /\ main' = [main EXCEPT ![r] = "bound"]
    /\ UNCHANGED <<lock, disk, work, held, cancelled, history>>

\* consume fails or times out, a listener does not bind, or restore times out:
\* run returns its error and the services are dropped with their lock.
StartupFails(r) ==
    /\ main[r] \in {"consuming", "bound"}
    /\ main' = [main EXCEPT ![r] = "exiting"]
    /\ lock' = 0
    /\ UNCHANGED <<disk, work, held, cancelled, history>>

\* restore, then serve.  A snapshot of another policy, a damaged one or none
\* leaves the cache cold.
Serve(r, accepted) ==
    /\ main[r] = "bound"
    /\ accepted => held[r] \in flushed
    /\ main' = [main EXCEPT ![r] = "serving"]
    /\ served' = served \cup {r}
    /\ restored' = IF accepted THEN restored \cup {<<held[r], r>>} ELSE restored
    /\ UNCHANGED <<lock, disk, work, held, cancelled, late>>

(***************************************************************************)
(* Shutdown.  Only a quiescent run saves.                                  *)
(***************************************************************************)
Stop(r, quiescent) ==
    /\ main[r] = "serving"
    /\ main' = [main EXCEPT ![r] = "saving"]
    /\ Then(r, IF quiescent THEN "save" ELSE "done")
    /\ UNCHANGED <<lock, disk, held, cancelled, history>>

\* save_terminal refuses an existing file, and saves nothing when disabled.
SaveStart(r, enabled) ==
    /\ Working(r, "save")
    /\ Then(r, IF enabled /\ r \notin cancelled /\ clean = 0 THEN "write" ELSE "done")
    /\ UNCHANGED <<lock, disk, main, held, cancelled, history>>

\* write_clean_snapshot to a temporary file, and its fsync.  A failure removes
\* the temporary file, which no run ever reads.
SaveWrite(r, ok) ==
    /\ Working(r, "write")
    /\ Then(r, IF ok /\ r \notin cancelled THEN "check" ELSE "done")
    /\ flushed' = IF ok /\ r \notin cancelled THEN flushed \cup {r} ELSE flushed
    /\ UNCHANGED <<lock, clean, maybe, main, held, cancelled, history>>

SaveCheck(r) ==
    /\ Working(r, "check")
    /\ Then(r, IF r \in cancelled THEN "done" ELSE "rename")
    /\ UNCHANGED <<lock, disk, main, held, cancelled, history>>

\* The rename fails, or publishes the snapshot.
SaveRename(r, ok) ==
    /\ Working(r, "rename")
    /\ clean' = IF ok THEN r ELSE clean
    /\ maybe' = IF ok THEN maybe \cup {r} ELSE maybe
    /\ late' = IF ok /\ lock # r THEN late \cup {r} ELSE late
    /\ Then(r, IF ok THEN "renamed" ELSE "done")
    /\ UNCHANGED <<lock, main, held, cancelled, flushed, served, restored>>

SaveSync(r, synced) ==
    /\ Working(r, "renamed")
    /\ maybe' = IF synced THEN {clean} ELSE maybe
    /\ Then(r, "done")
    /\ UNCHANGED <<lock, clean, main, held, cancelled, flushed, history>>

\* terminal: the save took too long.  It is cancelled but may be past its last
\* look at the flag; terminal returns and the services are dropped.
SaveTimeout(r) ==
    /\ main[r] = "saving" /\ work[r] # "done"
    /\ cancelled' = cancelled \cup {r}
    /\ main' = [main EXCEPT ![r] = "exiting"]
    /\ lock' = 0
    /\ UNCHANGED <<disk, work, held, history>>

\* Storage releases the lock once the save has ended.
Close(r) ==
    /\ main[r] = "saving" /\ work[r] = "done"
    /\ main' = [main EXCEPT ![r] = "exiting"]
    /\ lock' = 0
    /\ UNCHANGED <<disk, work, held, cancelled, history>>

\* shutdown_timeout passes, or the process is killed: its worker goes with it.
Exit(r) ==
    /\ Alive(r)
    /\ main' = [main EXCEPT ![r] = "gone"]
    /\ lock' = IF lock = r THEN 0 ELSE lock
    /\ UNCHANGED <<disk, work, held, cancelled, history>>

\* External: the machine stops, and the directory returns as the disk has it.
PowerLoss(kept) ==
    /\ clean' = kept
    /\ maybe' = {kept}
    /\ lock' = 0
    /\ main' = [r \in Runs |-> IF main[r] = "none" THEN "none" ELSE "gone"]
    /\ UNCHANGED <<work, held, cancelled, flushed, history>>

(***************************************************************************)
StartupNext(r) ==
    \/ Start(r)
    \/ \E accepted \in BOOLEAN : ConsumeOpen(r, accepted)
    \/ ConsumeUnlink(r)
    \/ \E synced \in BOOLEAN : ConsumeSync(r, synced)
    \/ Bind(r)
    \/ StartupFails(r)
    \/ \E accepted \in BOOLEAN : Serve(r, accepted)

ShutdownNext(r) ==
    \/ \E quiescent \in BOOLEAN : Stop(r, quiescent)
    \/ \E enabled \in BOOLEAN : SaveStart(r, enabled)
    \/ \E ok \in BOOLEAN : SaveWrite(r, ok)
    \/ SaveCheck(r)
    \/ \E ok \in BOOLEAN : SaveRename(r, ok)
    \/ \E synced \in BOOLEAN : SaveSync(r, synced)
    \/ SaveTimeout(r)
    \/ Close(r)
    \/ Exit(r)

Next ==
    \/ \E r \in Runs : StartupNext(r) \/ ShutdownNext(r)
    \/ \E kept \in maybe : PowerLoss(kept)

Spec == Init /\ [][Next]_vars

(***************************************************************************)
(* Properties                                                              *)
(***************************************************************************)
\* The shapes of the state.
TypeOK ==
    /\ lock \in 0..MaxRuns
    /\ clean \in 0..MaxRuns
    /\ maybe \subseteq 0..MaxRuns
    /\ main \in [Runs -> Owning \cup {"none", "exiting", "gone"}]
    /\ work \in [Runs -> Workers]
    /\ held \in [Runs -> 0..MaxRuns]
    /\ cancelled \subseteq Runs /\ flushed \subseteq Runs
    /\ late \subseteq Runs /\ served \subseteq Runs
    /\ restored \subseteq Runs \X Runs

\* The snapshots a later start may still find, power loss or not.
Recoverable == (maybe \cup {clean}) \ {0}

\* A snapshot is restored by one run only, whatever crashed, timed out or lost
\* power between opening, unlinking and syncing it.
RestoredOnce ==
    \A a, b \in restored : a[1] = b[1] => a = b

\* What consume_startup promises: a running cache never has an old file beside
\* it that a later start could restore.
NoFileBeside ==
    \A r \in Runs : main[r] = "serving" => Recoverable = {}

\* That promise as the code keeps it: such a file comes only from an earlier
\* run whose save timed out past its last look at the cancellation.
FileBesideIsLate ==
    \A r \in Runs : main[r] = "serving" => Recoverable \subseteq late

\* A restored snapshot was saved by the last run that had served, unless that
\* save was such a late one: no run's invalidations are skipped over.
RestoredIsLatest ==
    \A p \in restored : p[1] \in late \/ ~\E q \in served : p[1] < q /\ q < p[2]

\* Whatever a start finds is completely on disk.
FoundIsComplete == Recoverable \subseteq flushed

\* The clean snapshot keeps its promises: one restore, of the latest cache,
\* from a complete file, and no file beside a serving cache but a late save's.
SnapshotKept == RestoredOnce /\ FileBesideIsLate /\ RestoredIsLatest /\ FoundIsComplete
=============================================================================
