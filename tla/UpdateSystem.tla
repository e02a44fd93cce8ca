---------------------------- MODULE UpdateSystem ----------------------------
(***************************************************************************)
(* The update transaction as a whole: root's executor, the application and *)
(* the machine under both, and what they achieve together.  A service that *)
(* stops or starts again takes the application's memory with it.           *)
(***************************************************************************)
EXTENDS UpdateCoordinator

CONSTANT MaxWork     \* operations, installer sessions and saves together

ASSUME MaxWorkAssumption == MaxWork \in Nat

vars == <<journal, status, live, files, service, inbox, receipt, exec, machine,
          nonce, faults, installs, fenced, app, disk, saved>>

Init == ExecInit /\ CoordInit

AppFollows ==
  /\ app' = IF service' = service THEN app ELSE Down
  /\ UNCHANGED <<disk, saved>>

(* The application dies and systemd restarts it (Restart=on-failure). *)
AppCrash ==
  /\ service.active
  /\ machine = "up"
  /\ Len(faults) < MaxFaults
  /\ faults' = Append(faults, Recovering)
  /\ StartService
  /\ AppFollows
  /\ UNCHANGED <<journal, status, live, files, inbox, exec, machine, nonce,
                 installs, fenced>>

ExecutorNext == (RunNext \/ RollbackNext \/ RecoverNext \/ SystemdNext) /\ AppFollows
Work == disk.drawn + installs + saved - 1
InstallerNext == InstallNext(saved) /\ AppFollows /\ Work' <= MaxWork
BrokenNext == FaultNext /\ AppFollows
ApplicationNext == LoopNext \/ JobNext
UserNext == (Work < MaxWork /\ (Accept \/ BeginSave)) \/ (EndSave /\ Work' <= MaxWork)

Next ==
  \/ ExecutorNext \/ InstallerNext \/ BrokenNext
  \/ ApplicationNext \/ UserNext \/ AppCrash

(* The helper that runs goes on, systemd starts the helper and the           *)
(* application it was asked for, the application's loop comes round every    *)
(* second, and its job and saves end.  No fairness on requests or faults.    *)
Fairness ==
  /\ WF_vars(ExecutorNext)
  /\ WF_vars((InstallRegister(saved) \/ InstallStart \/ InstallVerify) /\ AppFollows)
  /\ WF_vars(LoopNext)
  /\ WF_vars(JobNext)
  /\ WF_vars(EndSave)

Spec == Init /\ [][Next]_vars /\ Fairness

-----------------------------------------------------------------------------
(* The program root's journal names as installed is the one on disk, or      *)
(* while an operation is under way or needs manual recovery, its verified    *)
(* backup still is (stage disposes of files only after every gate,           *)
(* rollback keeps `previous` until a durable terminal).  The installer keeps *)
(* its own backup while it runs.                                             *)
InstalledProgramKept ==
  exec.task # "install" =>
    \/ live = journal.installed
    \/ /\ journal.op.phase \in Committed \cup {"manual"}
       /\ HasFile(journal.op.id, "previous", journal.installed)

(* A fence is irreversible: an operation with a durable outcome is never     *)
(* under way again, whatever requests arrive late, are repeated or overwrite *)
(* each other (terminal_fence, the Stage gate and Abort's own fence).        *)
FenceIrreversible ==
  ~Quiet(journal.op) => journal.op.id \notin fenced

(* Whatever root decided about the operation the application still waits     *)
(* for can be read from the journal's public view by its own identifier:     *)
(* neither a refused Stage nor a later end overwrites that fence.            *)
OutcomeReachesApplication ==
  Open(disk.op) /\ disk.op.id \in fenced
    => TerminalFor(StatusOf(journal), disk.op.id) # None

(* The configuration that the accepted operation pinned is the one that is   *)
(* saved when the candidate is proved ready: from the commit decision until  *)
(* a terminal is recorded the application that runs accepts no change,       *)
(* across its own restarts, crashes of root and a reboot, and it remembers   *)
(* that decision only while the operation is open (commit_intent,            *)
(* pending_launch).                                                          *)
ConfigurationPinned ==
  /\ journal.op.phase \in Committed => saved = journal.op.rev
  /\ Running /\ journal.op.phase \in Committed => app.frozen
  /\ disk.intent => Open(disk.op)

(* The installed identity changes only at the commit point of a validated    *)
(* candidate that runs and proved readiness in this very operation, or by a  *)
(* registered installation.                                                  *)
InstalledAtCommitPointOnly ==
  [][journal'.installed # journal.installed =>
       \/ exec.task = "install"
       \/ /\ journal.op.phase = "validating" /\ journal'.op.phase = "succeeded"
          /\ journal'.installed = journal.op.cand /\ live = journal.op.cand]_vars

(* An outcome the application could read never changes, except that a proven *)
(* reinstallation closes one that needed manual recovery.                    *)
PublishedOutcomeStands ==
  [][\A o \in Ops :
       TerminalFor(status, o) # None /\ TerminalFor(status', o) # None
         => \/ TerminalFor(status', o) = TerminalFor(status, o)
            \/ TerminalFor(status, o).phase = "manual" /\ exec.task = "install"]_vars

(* The installed program is kept and its identity honest.                    *)
InstalledKept == []InstalledProgramKept /\ InstalledAtCommitPointOnly

(* An outcome, once decided, stands and reaches the application.             *)
OutcomesReliable ==
  []FenceIrreversible /\ []OutcomeReachesApplication /\ PublishedOutcomeStands

(* An operation the application has closed is not under way at root          *)
(* (reconcile: "Root rejects that old invocation").                          *)
ClosedIsNotUnderWay ==
  disk.op # None /\ disk.op.finished /\ ~Quiet(journal.op)
    => journal.op.id # disk.op.id

(* An operation past the commit decision always reaches a terminal: by       *)
(* readiness, by rollback, by recovery after the run died, or after a boot   *)
(* by the verification the application asks for.  Only a fault that strikes  *)
(* the recovery itself leaves it to the next boot.                           *)
RecoveryStruck == \E i \in DOMAIN faults : faults[i]
CommittedEnds ==
  journal.op.phase \in Committed ~> (journal.op.phase \in Terminal \/ RecoveryStruck)

(* An outcome that is published, and needs no manual recovery, is taken up:  *)
(* the application closes the operation and accepts changes again, unless    *)
(* it is not running, an installer is at work, or root still works on an     *)
(* operation the application had closed before (Orphaned, see update_late).  *)
(* reconcile only tries for the permit, so changes must stop at some point.  *)
Orphaned == ~Quiet(journal.op) /\ journal.op.id # disk.op.id
OutcomeTakenUp ==
  <>[]~app.saving =>
    ((Open(disk.op) /\ TerminalFor(status, disk.op.id).phase \in Terminal \ {"manual"})
       ~> (~Open(disk.op) \/ ~service.active \/ journal.pending # None \/ Orphaned))

-----------------------------------------------------------------------------
(* The journal implements the promise. *)
StateOf(op) ==
  CASE op.phase \in Precommit -> "open"
    [] op.phase \in Committed -> "passed"
    [] op.phase = "rolled_back" -> "restored"
    [] op.phase = "aborted" -> "failed"
    [] OTHER -> op.phase

Promise ==
  INSTANCE UpdatePromise WITH
    Operations <- Ops, Identities <- Programs,
    anchor <- journal.installed,
    current <- [id |-> IF journal.op = None THEN 0 ELSE journal.op.id,
                state |-> StateOf(journal.op),
                cand |-> IF journal.op = None THEN 0 ELSE journal.op.cand],
    over <- fenced

(* Every behaviour of the executor, with crashes, restarts and the installer *)
(* at any point, is one the promise allows.                                  *)
ImplementsPromise == Promise!PromiseSpec
=============================================================================
