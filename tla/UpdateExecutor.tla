--------------------------- MODULE UpdateExecutor ---------------------------
(***************************************************************************)
(* The root update executor (src/src/update/executor/mod.rs) with systemd  *)
(* as it uses it: one helper process at a time under the installer lock,   *)
(* started by the inbox path unit ("run"), by ExecStopPost after every run *)
(* ("recover"), before the application at boot ("boot"), or by the         *)
(* installer ("install").                                                  *)
(*                                                                         *)
(* A step ends where the code persists the journal, calls systemctl or     *)
(* waits.  exec.j is the journal the process holds in memory: it differs   *)
(* from the durable one after a failed persist.  Persist writes the        *)
(* journal and then the public status; its failing outcomes are "nothing   *)
(* written" and "journal written, status not", and they stand both for an  *)
(* I/O error and for the process dying there.                              *)
(***************************************************************************)
EXTENDS UpdateJournal

CONSTANTS MaxFaults, MaxInstalls

ASSUME MaxFaultsAssumption == MaxFaults \in Nat
ASSUME MaxInstallsAssumption == MaxInstalls \in Nat

VARIABLES
  journal,   \* private/journal.json
  status,    \* status.json, what the application reads
  live,      \* the program installed at /opt/parins-managed/parins
  files,     \* the staged files of every operation directory
  service,   \* parins-managed.service: active, its program and InvocationID
  inbox,     \* update-request.json, or None
  receipt,   \* /run/parins-managed/update-health.json, or None
  exec,      \* the helper process
  machine,   \* "up", "stopping" or "boot"
  nonce,     \* launch nonces drawn so far
  faults,    \* history: of each fault so far, whether it struck a recovery
  installs,  \* installer sessions so far
  fenced     \* history: every operation whose terminal became durable

execVars == <<journal, status, live, files, service, inbox, receipt, exec,
              machine, nonce, faults, installs, fenced>>

Idle == [pc |-> "idle", task |-> "none", req |-> None, j |-> None]

Process(pc, task, req, j) == [pc |-> pc, task |-> task, req |-> req, j |-> j]

Goto(pc) == [exec EXCEPT !.pc = pc]
Holding(pc, j) == [exec EXCEPT !.pc = pc, !.j = j]

(* Mutant: no ExecStopPost. *)
AfterNothing(ok) ==
  IF exec.task = "boot"
  THEN Process(IF ok THEN "boot_ok" ELSE "boot_failed", "boot", None, None)
  ELSE Idle

(* The process returned (ok or Err) or died: systemd runs ExecStopPost after *)
(* a run, and the application's start waits for the boot recovery's result.  *)
After(ok) ==
  CASE exec.task = "run" -> Process("recover", "recover", None, None)
    [] exec.task = "boot" -> Process(IF ok THEN "boot_ok" ELSE "boot_failed",
                                     "boot", None, None)
    [] OTHER -> Idle

ExecInit ==
  /\ journal = [installed |-> 0, op |-> None, last |-> None, pending |-> None]
  /\ status = StatusOf(journal)
  /\ live = 0
  /\ files = {}
  /\ service = [active |-> TRUE, prog |-> 0, inv |-> 1]
  /\ inbox = None
  /\ receipt = None
  /\ exec = Idle
  /\ machine = "up"
  /\ nonce = 0
  /\ faults = <<>>
  /\ installs = 0
  /\ fenced = {}

-----------------------------------------------------------------------------
Recovering == exec.task \in {"recover", "boot"}

(* Executor::persist and Executor::publish. *)
Persist(j, ok, bad) ==
  /\ \/ /\ journal' = j
        /\ status' = StatusOf(j)
        /\ exec' = ok
        /\ UNCHANGED faults
     \/ /\ Len(faults) < MaxFaults
        /\ faults' = Append(faults, Recovering)
        /\ journal' \in {journal, j}
        /\ UNCHANGED status
        /\ exec' = bad
  /\ fenced' = fenced \cup Fences(journal')

Publish(next) ==
  /\ status' = StatusOf(exec.j)
  /\ exec' = next
  /\ UNCHANGED <<journal, faults, fenced>>

Step(next) == exec' = next /\ UNCHANGED <<journal, status, faults, fenced>>

NoFiles == UNCHANGED <<live, files>>
NoService == UNCHANGED <<service, receipt>>
Rest == UNCHANGED <<inbox, machine, nonce, installs>>

(* Mutant: the launch of the candidate already anchors it. *)
LaunchAnchors(j, ph) ==
  LET back == ph # "starting"
  IN  [j EXCEPT !.op.phase = ph,
                !.installed = IF back THEN @ ELSE j.op.cand,
                !.op.launch = [id |-> j.op.id, nonce |-> nonce + 1,
                               prog |-> IF back THEN j.op.old ELSE j.op.cand,
                               skip |-> back, phase |-> ph]]

(* Executor::launch: the operation and its launch descriptor in one phase.   *)
LaunchJournal(j, ph) ==
  LET back == ph # "starting"
  IN  [j EXCEPT !.op.phase = ph,
                !.op.launch = [id |-> j.op.id, nonce |-> nonce + 1,
                               prog |-> IF back THEN j.op.old ELSE j.op.cand,
                               skip |-> back, phase |-> ph]]

(* wait_launch: a receipt of the launched program, from the invocation that  *)
(* runs now, for this launch nonce and the pinned revision, all healthy.     *)
Ready(l, rev) ==
  /\ service.active
  /\ service.prog = l.prog
  /\ receipt = [nonce |-> l.nonce, prog |-> l.prog, inv |-> service.inv,
                rev |-> rev, healthy |-> TRUE]

WaitOver(j) == Ready(j.op.launch, j.op.rev)

Stopped == [service EXCEPT !.active = FALSE]
Started == [active |-> TRUE, prog |-> live, inv |-> service.inv + 1]

StopService == service' = Stopped /\ receipt' = None
StartService == service' = Started /\ receipt' = None

-----------------------------------------------------------------------------
(* run: the request is read, then its name is removed; whatever the          *)
(* application wrote in between is removed unread.                           *)
RunRead ==
  /\ exec = Idle
  /\ machine = "up"
  /\ inbox # None
  /\ exec' = Process("consume", "run", inbox, None)
  /\ UNCHANGED <<journal, status, faults, fenced, inbox, machine, nonce, installs>>
  /\ NoFiles /\ NoService

RunConsume ==
  /\ exec.pc = "consume"
  /\ inbox' = None
  /\ Step(IF exec.req.kind # "stage" /\ journal.pending # None THEN After(FALSE)
          ELSE Holding(exec.req.kind, journal))
  /\ NoFiles /\ NoService
  /\ UNCHANGED <<machine, nonce, installs>>

(* stage_gate, before the admission checks.  `recent` is the 60 s cooldown.  *)
StageRefusal(j, recent) ==
  \/ j.pending # None
  \/ ~Quiet(j.op)
  \/ j.op # None /\ (j.op.phase = "manual" \/ recent)

StageAnswered(j, o) == Matching(j, o) \/ TerminalFence(j, o)

StageAdmitted(r) ==
  /\ exec.j.installed = r.old
  /\ live = r.old
  /\ service.inv = r.inv

(* stage up to begin_stage: the gate, then the admission checks and, only    *)
(* after all of them, the removal of the previous operation's files.         *)
HandleStage ==
  /\ exec.pc = "stage"
  /\ LET j == exec.j
         r == exec.req
     IN  \/ /\ StageAnswered(j, r.id)
            /\ Publish(After(TRUE))
            /\ NoFiles
         \/ \E recent, units \in BOOLEAN :
              /\ ~StageAnswered(j, r.id)
              /\ StageRefusal(j, recent) \/ ~units \/ ~StageAdmitted(r)
              /\ Persist(Fenced(j, r.id, "failed"), After(TRUE), After(FALSE))
              /\ NoFiles
         \/ /\ ~StageAnswered(j, r.id)
            /\ ~StageRefusal(j, FALSE)
            /\ StageAdmitted(r)
            /\ files' = {f \in files : j.op = None \/ f.op # j.op.id}
            /\ Step(Goto("begin"))
            /\ UNCHANGED live
  /\ NoService /\ Rest

BeginStage ==
  /\ exec.pc = "begin"
  /\ LET j == [exec.j EXCEPT
                 !.last = IF exec.j.op = None THEN None
                          ELSE Outcome(exec.j.op.id, exec.j.op.phase),
                 !.op = NewOperation(exec.req, exec.j.installed)]
     IN  Persist(j, Holding("manifest", j), After(FALSE))
  /\ NoFiles /\ NoService /\ Rest

(* The manifest, compatibility and space checks, then the download.          *)
StageDownload ==
  /\ exec.pc = "manifest"
  /\ LET j == WithPhase(exec.j, "downloading")
     IN  \/ Persist(j, Holding("download", j), Holding("stage_failed", j))
         \/ Step(Goto("stage_failed"))
  /\ NoFiles /\ NoService /\ Rest

StageFetched ==
  /\ exec.pc = "download"
  /\ LET j == WithPhase(exec.j, "staged")
         f == [op |-> j.op.id, name |-> "candidate", prog |-> j.op.cand]
     IN  \/ /\ files' = files \cup {f}
            /\ Persist(j, After(TRUE), Holding("stage_failed", j))
         \/ Step(Goto("stage_failed")) /\ UNCHANGED files
  /\ UNCHANGED live
  /\ NoService /\ Rest

StageFailed ==
  /\ exec.pc = "stage_failed"
  /\ Persist(Finish(exec.j, "failed"), After(FALSE), After(FALSE))
  /\ NoFiles /\ NoService /\ Rest

-----------------------------------------------------------------------------
HasFile(o, n, p) == [op |-> o, name |-> n, prog |-> p] \in files

CommitMatches(j, r) ==
  /\ Matching(j, r.id)
  /\ j.op.phase = "staged"
  /\ j.op.inv = r.inv
  /\ j.op.rev = r.rev

(* commit_service and the verification at the start of commit.               *)
CommitVerified(j, r) ==
  /\ service.active /\ service.inv = r.inv
  /\ live = j.op.old
  /\ HasFile(j.op.id, "candidate", j.op.cand)
  /\ ~HasFile(j.op.id, "previous", j.op.old)

(* A Commit: a fenced operation is only republished, another mismatch is an  *)
(* error without outcome, a failed check records Failed, and only the        *)
(* verified backup lets it go on.                                            *)
HandleCommit ==
  /\ exec.pc = "commit"
  /\ LET j == exec.j
         r == exec.req
         backup == [op |-> r.id, name |-> "previous", prog |-> live]
     IN  \/ /\ TerminalFence(j, r.id)
            /\ Publish(After(TRUE))
            /\ NoFiles
         \/ /\ ~TerminalFence(j, r.id) /\ ~CommitMatches(j, r)
            /\ Step(After(FALSE))
            /\ NoFiles
         \/ \E checks \in BOOLEAN :      \* units, plan age, space
              /\ CommitMatches(j, r)
              /\ ~checks \/ ~CommitVerified(j, r)
              /\ Persist(Finish(j, "failed"), After(FALSE), After(FALSE))
              /\ NoFiles
         \/ /\ CommitMatches(j, r)
            /\ CommitVerified(j, r)
            /\ files' = files \cup {backup}
            /\ Step(Goto("committing"))
            /\ UNCHANGED live
  /\ NoService /\ Rest

CommitPhase ==
  /\ exec.pc \in {"committing", "stopping"}
  /\ LET j == WithPhase(exec.j, exec.pc)
     IN  Persist(j, Holding(IF exec.pc = "committing" THEN "stopping" ELSE "stop", j),
                 After(FALSE))
  /\ NoFiles /\ NoService /\ Rest

(* stop_clean: a clean exit, a forced one, or a stop that did not complete.  *)
CommitStop ==
  /\ exec.pc = "stop"
  /\ \/ StopService /\ (Step(Goto("install")) \/ Step(Goto("rb_begin")))
     \/ NoService /\ Step(Goto("rb_begin"))
  /\ NoFiles /\ Rest

CommitInstall ==
  /\ exec.pc = "install"
  /\ live' = exec.j.op.cand
  /\ files' = {f \in files : ~(f.op = exec.j.op.id /\ f.name = "candidate")}
  /\ Step(Goto("launch"))
  /\ NoService /\ Rest

CommitLaunch ==
  /\ exec.pc = "launch"
  /\ LET j == LaunchJournal(exec.j, "starting")
     IN  Persist(j, Holding("start", j), Holding("rb_begin", j))
  /\ nonce' = nonce + 1
  /\ UNCHANGED <<inbox, machine, installs>>
  /\ NoFiles /\ NoService

CommitStart ==
  /\ exec.pc = "start"
  /\ \/ StartService /\ Step(Goto("validating"))
     \/ NoService /\ Step(Goto("rb_begin"))
  /\ NoFiles /\ Rest

CommitValidating ==
  /\ exec.pc = "validating"
  /\ LET j == WithPhase(exec.j, "validating")
     IN  Persist(j, Holding("wait", j), Holding("rb_begin", j))
  /\ NoFiles /\ NoService /\ Rest

(* wait_ready, then the unique commit point.  Once the operation is terminal *)
(* in memory a failed persist does not roll back.                            *)
CommitWait ==
  /\ exec.pc = "wait"
  /\ \/ WaitOver(exec.j) /\ Step(Goto("commit_point"))
     \/ Step(Goto("rb_begin"))
  /\ NoFiles /\ NoService /\ Rest

CommitPoint ==
  /\ exec.pc = "commit_point"
  /\ Persist(CommitJournal(exec.j), After(TRUE), After(FALSE))
  /\ NoFiles /\ NoService /\ Rest

-----------------------------------------------------------------------------
(* Mutants: a fence is recorded anew; a committed operation is aborted.      *)
AbortUnseenAgain(j, o) == ~Matching(j, o)
AbortUnfinished(j, o) == Matching(j, o) /\ ~Ended(j.op)

AbortUnseen(j, o) == ~TerminalFence(j, o) /\ ~Matching(j, o)
AbortOpen(j, o) == Matching(j, o) /\ j.op.phase \in Precommit

(* abort: fences precommit work, records a fence for an operation root never *)
(* began, and leaves a committed operation alone.                            *)
HandleAbort ==
  /\ exec.pc = "abort"
  /\ LET j == exec.j
         o == exec.req.id
     IN  \/ /\ TerminalFence(j, o) \/ (Matching(j, o) /\ j.op.phase \in Committed)
            /\ Publish(After(TRUE))
         \/ /\ AbortUnseen(j, o)
            /\ Persist(Fenced(j, o, "aborted"), After(TRUE), After(FALSE))
         \/ /\ AbortOpen(j, o)
            /\ Persist(Finish(j, "aborted"), After(TRUE), After(FALSE))
  /\ NoFiles /\ NoService /\ Rest

(* VerifyRecovery: the readiness of a program restored at boot.              *)
HandleVerify ==
  /\ exec.pc = "verify"
  /\ LET j == exec.j
         o == exec.req.id
         awaiting == Matching(j, o) /\ j.op.phase = "awaiting_readiness"
     IN  \/ ~awaiting /\ Step(After(FALSE))
         \/ /\ awaiting /\ j.op.launch # None /\ WaitOver(j)
            /\ Persist(Finish(j, "rolled_back"), After(TRUE), After(FALSE))
         \/ /\ awaiting
            /\ Persist(Finish(j, "manual"), After(FALSE), After(FALSE))
  /\ NoFiles /\ NoService /\ Rest

-----------------------------------------------------------------------------
(* rollback.  Its errors end a run; recover turns them into ManualRequired.  *)
RollbackFailed(j) ==
  IF exec.task = "run" THEN After(FALSE) ELSE Holding("manual", j)

RollbackBegin ==
  /\ exec.pc = "rb_begin"
  /\ LET op == exec.j.op
         j == WithPhase(exec.j, "rolling_back")
     IN  IF (op.started /\ exec.task # "boot") \/ live \notin {op.old, op.cand}
         THEN Step(RollbackFailed(exec.j))
         ELSE Persist(j, Holding(IF exec.task = "boot" THEN "rb_restore" ELSE "rb_stop", j),
                      RollbackFailed(j))
  /\ NoFiles /\ NoService /\ Rest

(* The process has exited; or it goes on, or its exit could not be seen.     *)
RollbackStop ==
  /\ exec.pc = "rb_stop"
  /\ \/ StopService /\ (Step(Goto("rb_restore")) \/ Step(RollbackFailed(exec.j)))
     \/ service.active /\ NoService /\ Step(RollbackFailed(exec.j))
  /\ NoFiles /\ Rest

RollbackRestore ==
  /\ exec.pc = "rb_restore"
  /\ LET op == exec.j.op
     IN  IF live # op.old /\ ~HasFile(op.id, "previous", op.old)
         THEN Step(RollbackFailed(exec.j)) /\ UNCHANGED live
         ELSE Step(Goto("rb_launch")) /\ live' = op.old
  /\ UNCHANGED files
  /\ NoService /\ Rest

RollbackLaunch ==
  /\ exec.pc = "rb_launch"
  /\ LET boot == exec.task = "boot"
         j == LaunchJournal(exec.j, IF boot THEN "awaiting_readiness" ELSE "rolling_back")
     IN  Persist(j, IF boot THEN After(TRUE) ELSE Holding("rb_started", j),
                 RollbackFailed(j))
  /\ nonce' = nonce + 1
  /\ UNCHANGED <<inbox, machine, installs>>
  /\ NoFiles /\ NoService

RollbackStarted ==
  /\ exec.pc = "rb_started"
  /\ LET j == [exec.j EXCEPT !.op.started = TRUE]
     IN  Persist(j, Holding("rb_start", j), RollbackFailed(j))
  /\ NoFiles /\ NoService /\ Rest

RollbackStart ==
  /\ exec.pc = "rb_start"
  /\ \/ StartService /\ Step(Goto("rb_wait"))
     \/ NoService /\ Step(Goto("rb_lost"))
  /\ NoFiles /\ Rest

RollbackEnd ==
  /\ exec.pc \in {"rb_wait", "rb_lost"}
  /\ \/ /\ exec.pc = "rb_wait" /\ WaitOver(exec.j)
        /\ LET j == Finish(exec.j, "rolled_back")
           IN  Persist(j, After(TRUE), RollbackFailed(j))
     \/ LET j == Finish(exec.j, "manual")
        IN  Persist(j, After(TRUE), RollbackFailed(j))
  /\ NoFiles /\ NoService /\ Rest

-----------------------------------------------------------------------------
(* recover: what each durable phase means to a helper that starts later.     *)
RecoverProves(op) ==
  /\ op.phase \in {"committing", "stopping"}
  /\ live = op.old
  /\ service.active

Recover ==
  /\ exec.pc = "recover"
  /\ LET j == journal
         op == j.op
         boot == exec.task = "boot"
         held == [exec EXCEPT !.j = j]
     IN  \/ /\ j.pending # None \/ Quiet(op)
            /\ IF live = j.installed
               THEN /\ status' = StatusOf(j) /\ exec' = After(TRUE)
                    /\ UNCHANGED <<journal, faults, fenced>>
               ELSE Step(After(FALSE))
            /\ UNCHANGED nonce
         \/ /\ j.pending = None /\ op.phase = "staged" /\ ~boot
            /\ status' = StatusOf(j) /\ exec' = After(TRUE)
            /\ UNCHANGED <<journal, faults, fenced, nonce>>
         \/ /\ j.pending = None /\ op.phase \in Precommit
            /\ op.phase # "staged" \/ boot
            /\ Persist(Finish(j, "failed"), After(TRUE), After(FALSE))
            /\ UNCHANGED nonce
         \/ /\ j.pending = None /\ op.phase \in Committed
            /\ \/ /\ ~boot /\ machine = "stopping"
                  /\ Persist(WithPhase(j, "awaiting_boot"), After(TRUE), After(FALSE))
                  /\ UNCHANGED nonce
               \/ /\ ~boot /\ machine # "stopping" /\ op.started
                  /\ Step([held EXCEPT !.pc = IF live = op.old /\ op.launch # None
                                              THEN "rec_wait" ELSE "manual"])
                  /\ UNCHANGED nonce
               \/ /\ ~boot /\ machine # "stopping" /\ ~op.started /\ RecoverProves(op)
                  /\ LET k == LaunchJournal(j, "rolling_back")
                     IN  Persist(k, Holding("rec_prove", k), After(FALSE))
                  /\ nonce' = nonce + 1
               \/ /\ boot \/ (machine # "stopping" /\ ~op.started /\ ~RecoverProves(op))
                  /\ Step([held EXCEPT !.pc = "rb_begin"])
                  /\ UNCHANGED nonce
  /\ UNCHANGED <<inbox, machine, installs>>
  /\ NoFiles /\ NoService

(* The two readiness waits of recover.  Only the second falls through to a   *)
(* full rollback when it fails.                                              *)
RecoverWait ==
  /\ exec.pc \in {"rec_wait", "rec_prove"}
  /\ \/ /\ WaitOver(exec.j)
        /\ Persist(Finish(exec.j, "rolled_back"), After(TRUE), After(FALSE))
     \/ Step(Goto(IF exec.pc = "rec_wait" THEN "manual" ELSE "rb_begin"))
  /\ NoFiles /\ NoService /\ Rest

RecoverManual ==
  /\ exec.pc = "manual"
  /\ Persist(Finish(exec.j, "manual"), After(FALSE), After(FALSE))
  /\ NoFiles /\ NoService /\ Rest

-----------------------------------------------------------------------------
(* Faults and systemd.  A killed run is followed by ExecStopPost, a killed   *)
(* recovery by nothing, a killed boot recovery by no application start.  A   *)
(* recovery that finds another unit contract ends in the same way.           *)
Kill ==
  /\ exec.task \in {"run", "recover", "boot"}
  /\ exec.pc \notin {"boot_ok", "boot_failed"}
  /\ Len(faults) < MaxFaults
  /\ faults' = Append(faults, Recovering)
  /\ exec' = After(FALSE)
  /\ UNCHANGED <<journal, status, fenced>>
  /\ NoFiles /\ NoService /\ Rest

PowerLoss ==
  /\ exec.task # "install"
  /\ Len(faults) < MaxFaults
  /\ faults' = Append(faults, Recovering)
  /\ machine' = "boot"
  /\ exec' = Idle
  /\ StopService
  /\ UNCHANGED <<journal, status, fenced, inbox, nonce, installs>>
  /\ NoFiles

Shutdown ==
  /\ machine = "up"
  /\ exec.task \in {"none", "run"}
  /\ Len(faults) < MaxFaults
  /\ faults' = Append(faults, Recovering)
  /\ machine' = "stopping"
  /\ exec' = IF exec = Idle THEN Idle ELSE After(FALSE)
  /\ StopService
  /\ UNCHANGED <<journal, status, fenced, inbox, nonce, installs>>
  /\ NoFiles

Reboot ==
  /\ machine = "stopping"
  /\ exec = Idle
  /\ machine' = "boot"
  /\ Step(Idle)
  /\ UNCHANGED <<inbox, nonce, installs>>
  /\ NoFiles /\ NoService

BootRecover ==
  /\ machine = "boot"
  /\ exec = Idle
  /\ Step(Process("recover", "boot", None, None))
  /\ NoFiles /\ NoService /\ Rest

BootDone ==
  /\ exec.pc \in {"boot_ok", "boot_failed"}
  /\ machine' = "up"
  /\ IF exec.pc = "boot_ok" THEN StartService ELSE NoService
  /\ Step(Idle)
  /\ UNCHANGED <<inbox, nonce, installs>>
  /\ NoFiles

-----------------------------------------------------------------------------
(* The installer session: install-check, the stopped service and the new     *)
(* program, register, start and install-verify; on failure the old program   *)
(* and journal come back and install-restore asks for its readiness.  The    *)
(* path unit is stopped meanwhile.  Faults are not injected into it.         *)
Pending(p, rev, back) ==
  [restores |-> back, rev |-> rev,
   launch |-> [id |-> 0, nonce |-> nonce + 1, prog |-> p, skip |-> back,
               phase |-> "awaiting_readiness"]]

InstallBegin(p) ==
  /\ exec = Idle
  /\ machine = "up"
  /\ installs < MaxInstalls
  /\ journal.pending = None /\ Quiet(journal.op) /\ live = journal.installed
  /\ installs' = installs + 1
  /\ live' = p
  /\ StopService
  /\ Step(Process("register", "install", None, journal))
  /\ UNCHANGED <<files, inbox, machine, nonce>>

InstallRegister(rev) ==
  /\ exec.pc \in {"register", "restore"}
  /\ LET back == exec.pc = "restore"
         p == IF back THEN exec.j.installed ELSE live
         j == Installation(IF back THEN exec.j ELSE journal, p, Pending(p, rev, back))
     IN  /\ journal' = j
         /\ status' = StatusOf(j)
         /\ fenced' = fenced \cup Fences(j)
         /\ live' = p
  /\ nonce' = nonce + 1
  /\ exec' = Goto(IF exec.pc = "restore" THEN "ins_restart" ELSE "ins_start")
  /\ UNCHANGED <<files, inbox, machine, installs, faults>>
  /\ NoService

InstallStart ==
  /\ exec.pc \in {"ins_start", "ins_restart"}
  /\ StartService
  /\ Step(Goto(IF exec.pc = "ins_start" THEN "ins_verify" ELSE "ins_reverify"))
  /\ NoFiles /\ Rest

InstallVerify ==
  /\ exec.pc \in {"ins_verify", "ins_reverify"}
  /\ \/ /\ Ready(journal.pending.launch, journal.pending.rev)
        /\ journal' = CompleteInstallation(journal)
        /\ status' = StatusOf(journal')
        /\ fenced' = fenced \cup Fences(journal')
        /\ exec' = Idle
        /\ UNCHANGED faults
        /\ NoService
     \/ /\ Step(IF exec.pc = "ins_verify" THEN Goto("restore") ELSE Idle)
        /\ IF exec.pc = "ins_verify" THEN StopService ELSE NoService
  /\ NoFiles /\ Rest

-----------------------------------------------------------------------------
RunNext ==
  \/ RunRead \/ RunConsume
  \/ HandleStage \/ BeginStage \/ StageDownload \/ StageFetched \/ StageFailed
  \/ HandleCommit \/ CommitPhase \/ CommitStop \/ CommitInstall \/ CommitLaunch
  \/ CommitStart \/ CommitValidating \/ CommitWait \/ CommitPoint
  \/ HandleAbort \/ HandleVerify

RollbackNext ==
  \/ RollbackBegin \/ RollbackStop \/ RollbackRestore \/ RollbackLaunch
  \/ RollbackStarted \/ RollbackStart \/ RollbackEnd

RecoverNext == Recover \/ RecoverWait \/ RecoverManual

SystemdNext == Reboot \/ BootRecover \/ BootDone

InstallNext(rev) ==
  (\E p \in Programs : InstallBegin(p)) \/ InstallRegister(rev)
  \/ InstallStart \/ InstallVerify

FaultNext == Kill \/ PowerLoss \/ Shutdown
=============================================================================
