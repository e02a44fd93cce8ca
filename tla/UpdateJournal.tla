---------------------------- MODULE UpdateJournal ----------------------------
(***************************************************************************)
(* The data of the update transaction: the root journal, the public status *)
(* derived from it, the fences it keeps and the requests that arrive in    *)
(* the one-name inbox (src/src/update/executor/journal.rs,                 *)
(* src/src/update/ipc.rs).                                                 *)
(*                                                                         *)
(* An operation identifier stands for the pair of random operation ID and  *)
(* phase nonce: the application draws both together and never changes one  *)
(* alone.  A program stands for an executable and the build information    *)
(* that identifies it; a larger number is a newer version.                 *)
(***************************************************************************)
EXTENDS Naturals, Sequences

CONSTANTS MaxOps, MaxProg

ASSUME MaxOpsAssumption == MaxOps \in Nat \ {0}
ASSUME MaxProgAssumption == MaxProg \in Nat \ {0}

Ops == 1 .. MaxOps
Programs == 0 .. MaxProg

Precommit == {"accepted", "downloading", "staged"}
Committed == {"committing", "stopping", "starting", "validating",
              "rolling_back", "awaiting_boot", "awaiting_readiness"}
Terminal == {"succeeded", "rolled_back", "failed", "aborted", "manual"}
Phases == Precommit \cup Committed \cup Terminal

(* An absent optional value. *)
None == [id |-> 0, phase |-> "none"]

Outcome(o, ph) == [id |-> o, phase |-> ph]

Launches == [id : 0 .. MaxOps, nonce : Nat, prog : Programs, skip : BOOLEAN,
             phase : Phases]

(* Journal's operation: outcome, both identities, the pinned invocation and  *)
(* revision, whether a rollback start was attempted and the launch wanted.   *)
NewOperation(r, installed) ==
  [id |-> r.id, phase |-> "accepted", old |-> installed, cand |-> r.cand,
   inv |-> r.inv, rev |-> r.rev, started |-> FALSE, launch |-> None]

Ended(op) == op.phase \in Terminal
Quiet(op) == op.phase \in Terminal \cup {"none"}

(* Journal::status: the disposable public view of the journal. *)
StatusOf(j) ==
  [installed |-> j.installed,
   capability |-> IF j.pending # None THEN "installation_pending"
                  ELSE IF j.op.phase = "manual"
                       THEN "manual_recovery_required" ELSE "available",
   active |-> IF Quiet(j.op) THEN None ELSE Outcome(j.op.id, j.op.phase),
   last |-> IF Ended(j.op) THEN Outcome(j.op.id, j.op.phase) ELSE j.last,
   extra |-> IF Ended(j.op) /\ j.last # None /\ j.op.id # j.last.id
             THEN j.last ELSE None,
   launch |-> IF j.op # None /\ j.op.launch # None THEN j.op.launch
              ELSE IF j.pending # None THEN j.pending.launch ELSE None]

(* PublicStatus::terminal_for. *)
TerminalFor(s, o) ==
  LET found == {t \in {s.last, s.extra} : t.id = o /\ t.phase \in Terminal}
  IN  IF found = {} THEN None ELSE IF s.last \in found THEN s.last ELSE s.extra

(* Journal::finish: a fence of another operation survives the owner's end.   *)
Finish(j, ph) ==
  IF j.op = None THEN j
  ELSE [j EXCEPT !.op.phase = ph,
                 !.op.launch = None,
                 !.last = IF j.last = None \/ j.last.id = j.op.id
                          THEN Outcome(j.op.id, ph) ELSE @]

WithPhase(j, ph) == [j EXCEPT !.op.phase = ph]

(* Journal::commit: the identity and the terminal change in one value.       *)
CommitJournal(j) == Finish([j EXCEPT !.installed = j.op.cand], "succeeded")

(* Journal::installation keeps the earlier operation and its fences.         *)
Installation(j, p, pend) == [j EXCEPT !.installed = p, !.pending = pend]

(* Journal::supersede_manual_recovery and the end of the installation.       *)
CompleteInstallation(j) ==
  LET closed == IF ~j.pending.restores /\ j.op.phase = "manual"
                THEN Finish(j, "failed") ELSE j
  IN  [closed EXCEPT !.pending = None]

(* terminal_fence: the recorded outcome of this very operation, if any.      *)
TerminalFence(j, o) ==
  IF j.op # None /\ j.op.id = o THEN j.op.phase \in Terminal
  ELSE j.last # None /\ j.last.id = o /\ j.last.phase \in Terminal

Matching(j, o) == j.op # None /\ j.op.id = o

(* reject_stage, and abort of an operation that root never began: a terminal *)
(* for the sender that leaves the owning operation alone.                    *)
Fenced(j, o, ph) == [j EXCEPT !.last = Outcome(o, ph)]

(* The fences of a journal: every operation with a recorded outcome.         *)
Fences(j) == {t.id : t \in {x \in {j.last} : x # None}}
             \cup (IF Ended(j.op) THEN {j.op.id} ELSE {})

Request(kind, op) ==
  [kind |-> kind, id |-> op.id, inv |-> op.inv, rev |-> op.rev, cand |-> op.cand,
   old |-> op.old]
=============================================================================
