----------------------------- MODULE UpdateCheck -----------------------------
(***************************************************************************)
(* Checks for new releases (manage/updates.rs, manage/update_checks.rs):   *)
(* when a check is due, what it fetches, and the candidate and plan it     *)
(* leaves in the update state, which survives restarts, failed saves, an   *)
(* update that is rolled back and programs installed by hand.              *)
(*                                                                         *)
(* A program and a release are their version; a release's entity tag names *)
(* it.  Whether the running program can install a release by itself        *)
(* depends on the release (UcManual).  Minutes and hours are a few units   *)
(* of time, without jitter.                                                *)
(***************************************************************************)
EXTENDS Integers, FiniteSetsExt

CONSTANTS
  UcVersions,     \* versions 1 .. UcVersions; the first one runs at the start
  UcManual,       \* releases that only the installer can install
  UcGap,          \* the minute between two checks
  UcInterval,     \* check_interval_hours
  UcTime, UcFaults, UcRestarts   \* bounds: time, failed saves, restarts

ASSUME UcAssumption ==
  /\ {UcVersions, UcGap, UcInterval} \subseteq Nat \ {0} /\ {UcTime, UcFaults, UcRestarts} \subseteq Nat
  /\ UcManual \subseteq 1 .. UcVersions

VARIABLES
  ucTime, ucFaults, ucRestarts,
  ucLatest,       \* the latest release on GitHub
  ucRunning,      \* BuildInfo::current
  ucTrial,        \* the program an update replaced, 0 when none is on trial
  ucDisk,         \* update-state.json
  ucState,        \* Coordinator::state
  ucCheck,        \* the check under way: what it read, and what it fetched
  ucFetched,      \* when the last fetch began
  ucChecked,      \* the program that completed the last successful check
  ucBack          \* history: the newest program that was rolled back, or 0

ucVars == <<ucTime, ucFaults, ucRestarts, ucLatest, ucRunning, ucTrial, ucDisk, ucState,
            ucCheck, ucFetched, ucChecked, ucBack>>

UcProgram == 1 .. UcVersions
UcFresh == [validated |-> FALSE, etag |-> 0, next |-> 0, retry |-> 0, failures |-> 0,
            error |-> FALSE, manual |-> FALSE, candidate |-> 0, plan |-> 0, operation |-> 0]
UcGot(candidate, etag, is) == [candidate |-> candidate, etag |-> etag, is |-> is]
UcIdle == [on |-> FALSE, old |-> UcFresh, got |-> UcGot(0, 0, "waiting")]

\* Coordinator::open on a new directory: the first check waits
UcInit ==
  /\ ucTime = 0 /\ ucFaults = 0 /\ ucRestarts = 0
  /\ ucLatest = 1 /\ ucRunning = 1 /\ ucTrial = 0
  /\ ucDisk = UcFresh /\ ucState = [UcFresh EXCEPT !.next = 1]
  /\ ucCheck = UcIdle /\ ucFetched = -UcGap /\ ucChecked = 0 /\ ucBack = 0

\* retry_backoff_ms: 5, 15 and then 60 minutes
UcBackoff(failures) == UcGap + Min({failures, 3})

\* failed_check
UcFailed(s) ==
  LET failures == Min({s.failures + 1, 3})
  IN  [s EXCEPT !.failures = failures, !.retry = ucTime + UcBackoff(failures),
                !.next = ucTime + UcBackoff(failures), !.error = TRUE, !.manual = FALSE]

\* save_locked and, for a check, persistence_failed_locked: a failed save goes
\* on with what the file holds, whether or not the rename was seen, or with the
\* state before when the file cannot be read
UcSaved(next) ==
  ucDisk' = next /\ ucState' = next /\ UNCHANGED ucFaults
UcSaveFails(next, check) ==
  LET after(s) == IF check THEN UcFailed(s) ELSE s IN
  /\ ucFaults < UcFaults /\ ucFaults' = ucFaults + 1
  /\ \/ UNCHANGED ucDisk /\ ucState' = after(ucDisk)
     \/ ucDisk' = next /\ ucState' = after(next)
     \/ (UNCHANGED ucDisk \/ ucDisk' = next) /\ ucState' = after(ucState)

UcChecking == ucCheck.on

\* due
UcDue(auto) ==
  /\ ~UcChecking
  /\ auto \/ ucState.manual
  /\ ucState.retry <= ucTime /\ ucState.next <= ucTime

\* request_check: a check under way answers for it
UcRequest ==
  /\ ~UcChecking /\ ucState.retry <= ucTime
  /\ LET next == [ucState EXCEPT !.next = ucTime, !.manual = TRUE]
     IN  UcSaved(next) \/ UcSaveFails(next, TRUE)
  /\ UNCHANGED <<ucTime, ucRestarts, ucLatest, ucRunning, ucTrial, ucCheck, ucFetched, ucChecked, ucBack>>

\* perform_check, before the fetch: the next check is put off on disk first
UcBegun(s) == [s EXCEPT !.manual = FALSE, !.retry = ucTime + UcGap]
UcBegin(auto) ==
  /\ UcDue(auto)
  /\ \/ /\ UcSaved(UcBegun(ucState))
        /\ ucCheck' = [UcIdle EXCEPT !.on = TRUE, !.old = ucState] /\ ucFetched' = ucTime
     \/ /\ UcSaveFails(UcBegun(ucState), TRUE)
        /\ UNCHANGED <<ucCheck, ucFetched>>
  /\ UNCHANGED <<ucTime, ucRestarts, ucLatest, ucRunning, ucTrial, ucChecked, ucBack>>

\* revalidate_cached_candidate
UcRevalidated(candidate) == IF candidate <= ucRunning THEN 0 ELSE candidate

\* fetch_candidate, and revalidate_cached_candidate when nothing was modified;
\* "error" for a failed request or an invalid release
UcFound ==
  IF ucCheck.old.validated /\ ucCheck.old.etag = ucLatest
  THEN UcGot(UcRevalidated(ucCheck.old.candidate), ucLatest, "found")
  ELSE UcGot(UcRevalidated(ucLatest), ucLatest, "found")
UcFetch ==
  /\ UcChecking /\ ucCheck.got.is = "waiting"
  /\ \E found \in {UcFound, UcGot(0, 0, "error")} : ucCheck' = [ucCheck EXCEPT !.got = found]
  /\ UNCHANGED <<ucTime, ucFaults, ucRestarts, ucLatest, ucRunning, ucTrial, ucDisk, ucState, ucFetched, ucChecked, ucBack>>

\* the plan of a successful check, bound to the running program
UcPlan(candidate, supported) ==
  IF supported /\ candidate # 0 /\ candidate \notin UcManual THEN ucRunning ELSE 0
UcSucceeded(s, found, supported) ==
  [s EXCEPT !.candidate = found.candidate, !.etag = found.etag, !.validated = TRUE, !.error = FALSE,
            !.failures = 0, !.next = ucTime + UcInterval,
            !.plan = IF s.operation # 0 THEN @ ELSE UcPlan(found.candidate, supported)]

\* perform_check, after the fetch
UcApply(supported) ==
  /\ UcChecking /\ ucCheck.got.is # "waiting"
  /\ LET next == IF ucCheck.got.is = "found" THEN UcSucceeded(ucState, ucCheck.got, supported) ELSE UcFailed(ucState)
     IN  \/ UcSaved(next) /\ ucChecked' = IF ucCheck.got.is = "found" THEN ucRunning ELSE ucChecked
         \/ UcSaveFails(next, TRUE) /\ UNCHANGED ucChecked
  /\ ucCheck' = UcIdle
  /\ UNCHANGED <<ucTime, ucRestarts, ucLatest, ucRunning, ucTrial, ucFetched, ucBack>>

\* Mutant: any plan will do.
UcPlanHoldsUnbound == ucState.plan # 0

\* accept: the plan must have been made by the program that runs
UcPlanHolds == ucState.plan = ucRunning
UcAccept ==
  /\ ucState.operation = 0 /\ UcPlanHolds
  /\ ucState.candidate # 0 /\ ucState.candidate \notin UcManual
  /\ LET next == [ucState EXCEPT !.operation = ucState.candidate, !.plan = 0]
     IN  UcSaved(next) \/ UcSaveFails(next, FALSE)
  /\ UNCHANGED <<ucTime, ucRestarts, ucLatest, ucRunning, ucTrial, ucCheck, ucFetched, ucChecked, ucBack>>

\* finish: the operation is over, once no program is on trial
UcFinish ==
  /\ ucState.operation # 0 /\ ucTrial = 0
  /\ LET next == [ucState EXCEPT !.operation = 0]
     IN  UcSaved(next) \/ UcSaveFails(next, FALSE)
  /\ UNCHANGED <<ucTime, ucRestarts, ucLatest, ucRunning, ucTrial, ucCheck, ucFetched, ucChecked, ucBack>>

\* Coordinator::open: a cached candidate that is not newer than the program is
\* dropped with its plan, and this is saved if it can be
UcOpened(program) ==
  LET kept == IF ucDisk.candidate # 0 /\ ucDisk.candidate <= program
              THEN [ucDisk EXCEPT !.candidate = 0, !.plan = 0] ELSE ucDisk
  IN  /\ ucState' = [kept EXCEPT !.next = IF kept.next <= ucTime THEN ucTime + 1 ELSE kept.next]
      /\ \/ ucDisk' = kept /\ UNCHANGED ucFaults
         \/ kept # ucDisk /\ ucFaults < UcFaults /\ ucFaults' = ucFaults + 1 /\ UNCHANGED ucDisk

\* a start: the same program, the one the operation installs (only the program
\* that accepted it is ever replaced, so never a newer one), the one before it
\* when the update is rolled back, or a newer one installed by hand
UcStart(program) ==
  /\ ucRestarts < UcRestarts /\ ucRestarts' = ucRestarts + 1
  /\ \/ program = ucRunning /\ UNCHANGED <<ucTrial, ucBack>>
     \/ /\ program = ucDisk.operation /\ program > ucRunning /\ ucTrial = 0
        /\ ucTrial' = ucRunning /\ UNCHANGED ucBack
     \/ program = ucTrial /\ ucTrial' = 0 /\ ucBack' = Max({ucBack, ucRunning})
     \/ program > ucRunning /\ ucTrial = 0 /\ UNCHANGED <<ucTrial, ucBack>>
  /\ ucRunning' = program /\ UcOpened(program)
  /\ ucCheck' = UcIdle /\ ucChecked' = 0
  /\ UNCHANGED <<ucTime, ucLatest, ucFetched>>

\* the updater keeps the program on trial
UcTrialEnds ==
  /\ ucTrial # 0 /\ ucTrial' = 0
  /\ UNCHANGED <<ucTime, ucFaults, ucRestarts, ucLatest, ucRunning, ucDisk, ucState, ucCheck, ucFetched, ucChecked, ucBack>>

\* a release is published, or withdrawn
UcPublish(release) ==
  /\ release # ucLatest /\ ucLatest' = release
  /\ UNCHANGED <<ucTime, ucFaults, ucRestarts, ucRunning, ucTrial, ucDisk, ucState, ucCheck, ucFetched, ucChecked, ucBack>>

UcTick ==
  /\ ucTime < UcTime /\ ucTime' = ucTime + 1
  /\ UNCHANGED <<ucFaults, ucRestarts, ucLatest, ucRunning, ucTrial, ucDisk, ucState, ucCheck, ucFetched, ucChecked, ucBack>>

UcNext ==
  \/ UcRequest \/ UcFetch \/ UcAccept \/ UcFinish \/ UcTrialEnds \/ UcTick
  \/ \E flag \in BOOLEAN : UcBegin(flag) \/ UcApply(flag)
  \/ \E v \in UcProgram : UcStart(v) \/ UcPublish(v)

(***************************************************************************)
(* Properties                                                              *)
(***************************************************************************)

\* Two fetches are never closer than the gap, whoever asked for them: not
\* after a crash in a check, a failed save or a manual request
\* (perform_check saves retry_at before it fetches; request_check, due).
ChecksSpaced == [][~ucCheck.on /\ ucCheck'.on => ucTime >= ucFetched + UcGap]_ucVars

\* An operation is only accepted for a release that is newer than the program
\* that accepts it and that it can install by itself, although the plan may
\* have been made by an earlier program and come back from a file that a
\* failed save left behind (accept, Coordinator::open).
AcceptedIsNewer ==
  [][ucState.operation = 0 /\ ucState'.operation # 0 /\ ucRunning' = ucRunning =>
       ucState'.operation > ucRunning /\ ucState'.operation \notin UcManual]_ucVars

\* The console says "up_to_date" after a check by the running program only if
\* the release that check saw is not newer than the program, through restarts,
\* failed saves and unmodified releases that are not looked at again; the one
\* exception is a program rolled back to, whose successor on trial had dropped
\* the candidate or found none (view, fetch_candidate, Coordinator::open).
UpToDateUnlessRolledBack ==
  ucState.validated /\ ~ucState.error /\ ~UcChecking /\ ucState.candidate <= ucRunning
    /\ ucChecked = ucRunning => ucState.etag <= Max({ucRunning, ucBack})

\* Checks are spaced, and what they say of a release is true of the program
\* that runs when it is shown or accepted.
ChecksSound == []UpToDateUnlessRolledBack /\ ChecksSpaced /\ AcceptedIsNewer
=============================================================================
