-------------------------- MODULE UpdateCoordinator --------------------------
(***************************************************************************)
(* The management half of the update transaction                           *)
(* (src/src/manage/updates/operation.rs, updates.rs, updates/state.rs): a  *)
(* loop that reads root's public status, reconciles, sends the health      *)
(* receipt and starts one job per operation; and that job, which stages,   *)
(* checks and commits.  Memory and update-state.json agree: save_locked    *)
(* rereads the file after a failed write.                                  *)
(***************************************************************************)
EXTENDS UpdateExecutor

CONSTANT MaxRev

ASSUME MaxRevAssumption == MaxRev \in Nat \ {0}

VARIABLES
  app,    \* the running application: loop, job, freeze, status snapshot
  disk,   \* update-state.json: operation, commit intent; identifiers drawn
  saved   \* revision of the saved configuration

appVars == <<app, disk, saved>>

Down == [loop |-> "down", view |-> None, frozen |-> FALSE, job |-> "none",
         op |-> None, launched |-> 0, saving |-> FALSE]

AppOperation(o, rev) ==
  [id |-> o, inv |-> service.inv, rev |-> rev, old |-> service.prog,
   cand |-> service.prog + 1, phase |-> "accepted", finished |-> FALSE]

CoordInit ==
  /\ app = Down
  /\ disk = [op |-> None, intent |-> FALSE, drawn |-> 0]
  /\ saved = 1

Open(op) == op # None /\ ~op.finished

(* Mutant: a change does not hold the permit. *)
PermitFreeOfJobs == app.job \notin {"locked", "intent", "commit"}

(* The mutation permit: configuration changes, reconcile and the last part   *)
(* of the job exclude each other.                                            *)
PermitFree == app.job \notin {"locked", "intent", "commit"} /\ ~app.saving

Running == app.loop # "down"

RootSame == UNCHANGED <<journal, status, live, files, service, exec, machine,
                        nonce, installs, fenced>>

NoIpc == UNCHANGED <<inbox, receipt, faults>>

(* Coordinator::change with save_locked: on an error either file may be      *)
(* observed, and an observed intent freezes.                                 *)
Change(d, ok, bad) ==
  \/ disk' = d /\ app' = ok /\ UNCHANGED faults
  \/ /\ Len(faults) < MaxFaults
     /\ faults' = Append(faults, Recovering)
     /\ disk' \in {disk, d}
     /\ app' = [bad EXCEPT !.frozen = @ \/ disk'.intent]

-----------------------------------------------------------------------------

(* Coordinator::open. *)
AppStart ==
  /\ service.active
  /\ ~Running
  /\ app' = [Down EXCEPT !.loop = "poll", !.view = status,
                         !.frozen = disk.intent \/ status.launch # None]
  /\ UNCHANGED <<disk, saved>>
  /\ RootSame /\ NoIpc

Poll ==
  /\ app.loop = "poll"
  /\ app' = [app EXCEPT !.view = status, !.loop = "reconcile"]
  /\ UNCHANGED <<disk, saved>>
  /\ RootSame /\ NoIpc

(* reconcile, by the snapshot taken at the start of this round. *)
Anchored == service.prog = app.view.installed
Unoccupied == app.view.active = None /\ app.view.launch = None

Superseded(op) ==
  /\ service.inv # op.inv
  /\ Unoccupied /\ Anchored
  /\ app.view.capability # "installation_pending"
  /\ ~disk.intent
  /\ TerminalFor(app.view, op.id) = None

(* Mutant: only the process that accepted the operation takes its outcome.   *)
DecidedHere(op) ==
  /\ TerminalFor(app.view, op.id) # None
  /\ TerminalFor(app.view, op.id).phase # "manual"
  /\ Unoccupied /\ Anchored
  /\ service.inv = op.inv

Decided(op) ==
  /\ TerminalFor(app.view, op.id) # None
  /\ TerminalFor(app.view, op.id).phase # "manual"
  /\ Unoccupied /\ Anchored

FinishedOp(op, ph) == [op EXCEPT !.finished = TRUE, !.phase = ph]

Taken(op) ==
  [disk EXCEPT !.op = FinishedOp(op, TerminalFor(app.view, op.id).phase),
               !.intent = FALSE]

Reconcile ==
  /\ app.loop = "reconcile"
  /\ LET next == [app EXCEPT !.loop = "heartbeat"]
         thawed == [next EXCEPT !.frozen = FALSE]
         op == disk.op
     IN  IF ~PermitFree THEN app' = next /\ UNCHANGED <<disk, faults>>
         ELSE IF ~Open(op) /\ ~disk.intent
              THEN /\ app' = IF Unoccupied /\ Anchored /\ app.view.capability = "available"
                             THEN thawed ELSE next
                   /\ UNCHANGED <<disk, faults>>
         ELSE IF Superseded(op)
              THEN Change([disk EXCEPT !.op = FinishedOp(op, "failed")], thawed, next)
         ELSE IF Decided(op)
              THEN Change(Taken(op), thawed, next)
         ELSE app' = next /\ UNCHANGED <<disk, faults>>
  /\ UNCHANGED <<saved, inbox, receipt>>
  /\ RootSame

Asks(l) ==
  l.phase = "awaiting_readiness" /\ app.view.capability # "installation_pending"

(* heartbeat: freeze, the receipt, and after a boot rollback the request to  *)
(* verify it unless another request waits.                                   *)
Heartbeat ==
  /\ app.loop = "heartbeat"
  /\ LET l == app.view.launch
         mine == l # None /\ l.prog = service.prog
         asks == mine /\ Asks(l)
     IN  /\ app' = [app EXCEPT !.loop = "launch", !.frozen = @ \/ l # None]
         /\ \E healthy \in BOOLEAN :
              receipt' = IF ~mine THEN receipt
                         ELSE [nonce |-> l.nonce, prog |-> l.prog, inv |-> service.inv,
                               rev |-> saved, healthy |-> healthy]
         /\ inbox' = IF asks /\ inbox = None
                     THEN [kind |-> "verify", id |-> l.id] ELSE inbox
  /\ UNCHANGED <<disk, saved, faults>>
  /\ RootSame

(* The end of a round: at most one job or Abort per operation and process.   *)
AbortOf(op) == Request("abort", op)

Launch ==
  /\ app.loop = "launch"
  /\ LET op == disk.op
         new == app.job = "none" /\ Open(op) /\ app.launched # op.id
         mine == new /\ op.inv = service.inv /\ op.phase = "accepted"
         aborts == new /\ ~mine /\ (op.inv # service.inv \/ ~app.frozen)
     IN  /\ app' = [app EXCEPT !.loop = "poll",
                               !.launched = IF new THEN op.id ELSE @,
                               !.job = IF mine THEN "stage" ELSE @,
                               !.op = IF mine THEN op ELSE @]
         /\ disk' = IF aborts THEN [disk EXCEPT !.op.phase = "aborting"] ELSE disk
         /\ inbox' = IF aborts THEN AbortOf(op) ELSE inbox
  /\ UNCHANGED <<saved, receipt, faults>>
  /\ RootSame

-----------------------------------------------------------------------------
(* accept: one unfinished operation at a time, under the permit. *)
Accept ==
  /\ Running
  /\ PermitFree
  /\ ~Open(disk.op)
  /\ ~app.frozen
  /\ app.view.capability = "available" /\ Anchored
  /\ disk.drawn < MaxOps
  /\ service.prog < MaxProg
  /\ disk' = [disk EXCEPT !.op = AppOperation(disk.drawn + 1, saved), !.drawn = @ + 1]
  /\ UNCHANGED <<app, saved>>
  /\ RootSame /\ NoIpc

(* A configuration change: the freeze is read once, after the permit, and    *)
(* the change may take long under it.                                        *)
BeginSave ==
  /\ Running
  /\ PermitFree
  /\ ~app.frozen
  /\ saved < MaxRev
  /\ app' = [app EXCEPT !.saving = TRUE]
  /\ UNCHANGED <<disk, saved>>
  /\ RootSame /\ NoIpc

EndSave ==
  /\ app.saving
  /\ app' = [app EXCEPT !.saving = FALSE]
  /\ saved' \in {saved, saved + 1}
  /\ UNCHANGED disk
  /\ RootSame /\ NoIpc

-----------------------------------------------------------------------------
(* stage_and_commit, step by step; every error ends in abort_before_commit.  *)
Job(next) == [app EXCEPT !.job = next]

SetPhase(ph) ==
  IF disk.op # None /\ disk.op.id = app.op.id THEN [disk EXCEPT !.op.phase = ph]
  ELSE disk

JobStage ==
  /\ app.job = "stage"
  /\ inbox' = Request("stage", app.op)
  /\ app' = Job("mark")
  /\ UNCHANGED <<disk, saved, receipt, faults>>
  /\ RootSame

JobMark ==
  /\ app.job \in {"mark", "preflight"}
  /\ IF disk.op.id = app.op.id
     THEN Change(SetPhase("working"),
                 Job(IF app.job = "mark" THEN "poll" ELSE "check"), Job("abort"))
     ELSE app' = Job("abort") /\ UNCHANGED <<disk, faults>>
  /\ UNCHANGED <<saved, inbox, receipt>>
  /\ RootSame

JobPoll ==
  /\ app.job = "poll"
  /\ app' = IF app.view.active = Outcome(app.op.id, "staged") THEN Job("preflight")
            ELSE Job("none")
  /\ \/ app.view.active = Outcome(app.op.id, "staged")
     \/ TerminalFor(app.view, app.op.id) # None
  /\ UNCHANGED <<disk, saved>>
  /\ RootSame /\ NoIpc

(* The 420 s deadline, a stop, or a preflight that differs. *)
JobGivesUp ==
  /\ app.job \in {"poll", "check", "locked"}
  /\ app' = Job("abort")
  /\ UNCHANGED <<disk, saved>>
  /\ RootSame /\ NoIpc

(* The two checks agree; then the permit. *)
JobCheck ==
  /\ app.job = "check"
  /\ PermitFree
  /\ app' = Job("locked")
  /\ UNCHANGED <<disk, saved>>
  /\ RootSame /\ NoIpc

JobLocked ==
  /\ app.job = "locked"
  /\ app' = IF /\ saved = app.op.rev
               /\ status.installed = service.prog
               /\ status.active = Outcome(app.op.id, "staged")
            THEN Job("intent") ELSE Job("abort")
  /\ UNCHANGED <<disk, saved>>
  /\ RootSame /\ NoIpc

(* The durable intent, then the freeze, then the Commit request. *)
JobIntent ==
  /\ app.job = "intent"
  /\ IF disk.op.id = app.op.id /\ Open(disk.op) /\ saved = app.op.rev
     THEN Change([disk EXCEPT !.intent = TRUE, !.op.phase = "working"],
                 [Job("commit") EXCEPT !.frozen = TRUE], Job("abort"))
     ELSE app' = Job("abort") /\ UNCHANGED <<disk, faults>>
  /\ UNCHANGED <<saved, inbox, receipt>>
  /\ RootSame

JobCommit ==
  /\ app.job = "commit"
  /\ inbox' = Request("commit", app.op)
  /\ app' = Job("none")
  /\ UNCHANGED <<disk, saved, receipt, faults>>
  /\ RootSame

JobAbort ==
  /\ app.job = "abort"
  /\ disk' = SetPhase("aborting")
  /\ inbox' = AbortOf(app.op)
  /\ app' = Job("none")
  /\ UNCHANGED <<saved, receipt, faults>>
  /\ RootSame

JobNext ==
  \/ JobStage \/ JobMark \/ JobPoll \/ JobGivesUp \/ JobCheck \/ JobLocked
  \/ JobIntent \/ JobCommit \/ JobAbort

LoopNext == AppStart \/ Poll \/ Reconcile \/ Heartbeat \/ Launch
=============================================================================
