----------------------------- MODULE DnsRuntime -----------------------------
(***************************************************************************)
(* The owner of the DNS generations of a managed process: Manager          *)
(* (src/manage/runtime.rs) applies configurations, restores the saved one, *)
(* and hands a failed start to the retry task (src/manage/dns_retry.rs);   *)
(* Server (src/server.rs) supervises the listeners of one generation and   *)
(* publishes its health (src/runtime_health.rs).                           *)
(*                                                                         *)
(* A configuration is its revision, 0 standing for none.  Validation that  *)
(* fails before the running generation is touched changes nothing and is   *)
(* no step.  Times (backoff, grace) are nondeterministic.                  *)
(***************************************************************************)
EXTENDS Naturals, FiniteSets

CONSTANTS
  RtListeners,   \* the listener slots of a configuration
  RtRevisions,   \* bound on the saved revision
  RtGenerations, \* bound on the generations one process starts
  RtCrashes      \* bound on the crashes

ASSUME RtAssumption == {RtRevisions, RtGenerations, RtCrashes} \subseteq Nat

VARIABLES
  rtDisk,      \* revision of the configuration in the state directory
  rtSaved,     \* Manager.saved
  rtRun,       \* Manager.running: task, generation and configuration
  rtUp,        \* ListenerStatus.state: which listeners run
  rtChanged,   \* Listeners.changed has an unseen notification
  rtHealth,    \* runtime_health::Health
  rtGen,       \* Manager.generation
  rtStartup,   \* Manager.startup is set: a restart is due
  rtLocal,     \* Manager.local_error is set
  rtCache,     \* Manager.cache_ready
  rtPc,        \* where the transaction holding the Manager lock stands
  rtNext,      \* the revision being applied
  rtDue,       \* dns_retry saw a due restart and is about to take the permit
  rtBad,       \* history: generations that ended or started badly
  rtCrashCount

rtVars == <<rtDisk, rtSaved, rtRun, rtUp, rtChanged, rtHealth, rtGen, rtStartup,
            rtLocal, rtCache, rtPc, rtNext, rtDue, rtBad, rtCrashCount>>

RtNoRun == [task |-> "none", gen |-> 0, cfg |-> 0]

RtUnconfigured == [state |-> "Unconfigured", gen |-> 0]

(* The process is down until RtOpen. *)
RtInit ==
  /\ rtDisk = 0 /\ rtSaved = 0 /\ rtRun = RtNoRun /\ rtUp = {} /\ rtChanged = FALSE
  /\ rtHealth = RtUnconfigured /\ rtGen = 0 /\ rtStartup = FALSE /\ rtLocal = FALSE
  /\ rtCache = TRUE /\ rtPc = "down" /\ rtNext = 0 /\ rtDue = FALSE /\ rtBad = {}
  /\ rtCrashCount = 0

-----------------------------------------------------------------------------
(* Health                                                                   *)

(* An older generation is refused, and so is a later state of a failed one. *)
RtPublished(h, state, gen) ==
  IF \/ gen < h.gen
     \/ gen = h.gen /\ h.state = "Failed"
  THEN h
  ELSE [state |-> state, gen |-> gen]

(* Listeners::all_running decides what a serving generation reports. *)
RtServingState(up) == IF up = RtListeners THEN "Running" ELSE "Degraded"

-----------------------------------------------------------------------------
(* One generation                                                           *)

(* Running::start: the next generation serves cfg on the listeners in up.   *)
RtStart(cfg, up) ==
  /\ rtGen < RtGenerations
  /\ rtGen' = rtGen + 1
  /\ rtRun' = [task |-> "serving", gen |-> rtGen + 1, cfg |-> cfg]
  /\ rtUp' = up
  /\ rtChanged' = FALSE
  /\ rtHealth' = RtPublished(rtHealth, RtServingState(up), rtGen + 1)

(* A supervisor marks its listener retrying after an exit, and running after
   it has bound it again; either notifies the run loop.                     *)
RtListenerFails(l) ==
  /\ rtRun.task = "serving" /\ l \in rtUp
  /\ rtUp' = rtUp \ {l}
  /\ rtChanged' = TRUE
  /\ UNCHANGED <<rtDisk, rtSaved, rtRun, rtHealth, rtGen, rtStartup, rtLocal, rtCache,
                 rtPc, rtNext, rtDue, rtBad, rtCrashCount>>

RtListenerRuns(l) ==
  /\ rtRun.task = "serving" /\ l \in RtListeners \ rtUp
  /\ rtUp' = rtUp \cup {l}
  /\ rtChanged' = TRUE
  /\ UNCHANGED <<rtDisk, rtSaved, rtRun, rtHealth, rtGen, rtStartup, rtLocal, rtCache,
                 rtPc, rtNext, rtDue, rtBad, rtCrashCount>>

(* Server::publish_health, run by the loop on a notification. *)
RtPublishHealth ==
  /\ rtRun.task = "serving" /\ rtChanged
  /\ rtChanged' = FALSE
  /\ rtHealth' = RtPublished(rtHealth, RtServingState(rtUp), rtRun.gen)
  /\ UNCHANGED <<rtDisk, rtSaved, rtRun, rtUp, rtGen, rtStartup, rtLocal, rtCache, rtPc,
                 rtNext, rtDue, rtBad, rtCrashCount>>

(* The task ends and publishes its terminal state: Stopped after a requested
   and quiescent stop, Failed after a panic, a supervisor's error or a drain
   past its deadline.                                                       *)
RtTaskEnds(clean) ==
  /\ rtRun.task \in {"serving", "draining"}
  /\ clean => rtRun.task = "draining"
  /\ rtRun' = [rtRun EXCEPT !.task = "over"]
  /\ rtHealth' = RtPublished(rtHealth, IF clean THEN "Stopped" ELSE "Failed", rtRun.gen)
  /\ rtBad' = IF clean THEN rtBad ELSE rtBad \cup {rtRun.gen}
  /\ UNCHANGED <<rtDisk, rtSaved, rtUp, rtChanged, rtGen, rtStartup, rtLocal, rtCache,
                 rtPc, rtNext, rtDue, rtCrashCount>>

-----------------------------------------------------------------------------
(* Manager                                                                  *)

(* Manager::open reads the saved configuration, may find its local rules
   unusable or fail to consume the cache snapshot, and restores.            *)
RtOpen ==
  /\ rtPc = "down"
  /\ rtSaved' = rtDisk
  /\ rtPc' = IF rtDisk = 0 THEN "idle" ELSE "restore"
  /\ rtLocal' \in {FALSE, rtDisk # 0}
  /\ rtCache' \in BOOLEAN
  /\ UNCHANGED <<rtDisk, rtRun, rtUp, rtChanged, rtHealth, rtGen, rtStartup, rtNext,
                 rtDue, rtBad, rtCrashCount>>

(* Server::bind_with_policy for a restore: every listener binds or is left to
   its supervisor on its own.                                               *)
RtBindings == SUBSET RtListeners

(* restore: refused for good by unusable local rules; otherwise the saved
   configuration starts, on the listeners that could be bound.              *)
RtRestoreRefused ==
  /\ rtPc = "restore" /\ rtLocal
  /\ rtPc' = "idle"
  /\ UNCHANGED <<rtDisk, rtSaved, rtRun, rtUp, rtChanged, rtHealth, rtGen, rtStartup,
                 rtLocal, rtCache, rtNext, rtDue, rtBad, rtCrashCount>>

RtRestored(up) ==
  /\ rtPc = "restore" /\ ~rtLocal /\ rtCache
  /\ RtStart(rtSaved, up)
  /\ rtStartup' = FALSE
  /\ rtPc' = "idle"
  /\ UNCHANGED <<rtDisk, rtSaved, rtLocal, rtCache, rtNext, rtDue, rtBad, rtCrashCount>>

(* A failed start is published for the current generation and retried. *)
RtRestoreFails ==
  /\ rtPc = "restore" /\ ~rtLocal
  /\ rtHealth' = RtPublished(rtHealth, "Failed", rtGen)
  /\ rtBad' = rtBad \cup {rtGen}
  /\ rtStartup' = TRUE
  /\ rtPc' = "idle"
  /\ UNCHANGED <<rtDisk, rtSaved, rtRun, rtUp, rtChanged, rtGen, rtLocal, rtCache, rtNext,
                 rtDue, rtCrashCount>>

(* apply, management-only settings: saved without touching DNS. *)
RtApplyUpdates ==
  /\ rtPc = "idle" /\ rtSaved \in 1..(RtRevisions - 1)
  /\ rtDisk' = rtSaved + 1
  /\ rtSaved' = rtSaved + 1
  /\ rtRun' = IF rtRun.task = "none" THEN rtRun ELSE [rtRun EXCEPT !.cfg = rtSaved + 1]
  /\ UNCHANGED <<rtUp, rtChanged, rtHealth, rtGen, rtStartup, rtLocal, rtCache, rtPc,
                 rtNext, rtDue, rtBad, rtCrashCount>>

(* apply, a change the live generation can take: saved, then swapped in. *)
RtApplyHot ==
  /\ rtPc = "idle" /\ rtCache /\ rtSaved \in 1..(RtRevisions - 1)
  /\ rtRun.task = "serving"
  /\ rtDisk' = rtSaved + 1
  /\ rtSaved' = rtSaved + 1
  /\ rtRun' = [rtRun EXCEPT !.cfg = rtSaved + 1]
  /\ UNCHANGED <<rtUp, rtChanged, rtHealth, rtGen, rtStartup, rtLocal, rtCache, rtPc,
                 rtNext, rtDue, rtBad, rtCrashCount>>

(* apply, any other change: the running generation is stopped first. *)
RtApply ==
  /\ rtPc = "idle" /\ rtCache /\ rtSaved < RtRevisions
  /\ rtNext' = rtSaved + 1
  /\ rtPc' = "stopping"
  /\ rtRun' = IF rtRun.task = "serving" THEN [rtRun EXCEPT !.task = "draining"] ELSE rtRun
  /\ UNCHANGED <<rtDisk, rtSaved, rtUp, rtChanged, rtHealth, rtGen, rtStartup, rtLocal,
                 rtCache, rtDue, rtBad, rtCrashCount>>

(* Running::stop gives up after the grace: the aborted task is awaited, and
   dropping its completion publishes the failure.                           *)
RtAborted ==
  /\ rtPc \in {"stopping", "terminal"} /\ rtRun.task = "draining"
  /\ rtRun' = [rtRun EXCEPT !.task = "over"]
  /\ rtHealth' = RtPublished(rtHealth, "Failed", rtRun.gen)
  /\ rtBad' = rtBad \cup {rtRun.gen}
  /\ UNCHANGED <<rtDisk, rtSaved, rtUp, rtChanged, rtGen, rtStartup, rtLocal, rtCache,
                 rtPc, rtNext, rtDue, rtCrashCount>>

RtStopped == rtPc \in {"stopping", "terminal"} /\ rtRun.task \in {"none", "over"}

(* Manager::stop, its task awaited: the generation is reported stopped. *)
RtStop ==
  /\ RtStopped
  /\ rtRun' = RtNoRun
  /\ rtHealth' = RtPublished(rtHealth, "Stopped", rtGen)
  /\ rtPc' = IF rtPc = "stopping" THEN "bind" ELSE "closed"
  /\ UNCHANGED <<rtDisk, rtSaved, rtUp, rtChanged, rtGen, rtStartup, rtLocal, rtCache,
                 rtNext, rtDue, rtBad, rtCrashCount>>

(* The candidate bound every listener, is saved, and starts. *)
RtApplied ==
  /\ rtPc = "bind"
  /\ rtDisk' = rtNext
  /\ RtStart(rtNext, RtListeners)
  /\ rtSaved' = rtNext
  /\ rtLocal' = FALSE
  /\ rtStartup' = FALSE
  /\ rtPc' = "idle"
  /\ UNCHANGED <<rtCache, rtNext, rtDue, rtBad, rtCrashCount>>

(* Where a rejected candidate leaves the transaction: the previous
   configuration, if there is one, is restored.                             *)
RtFallback == IF rtSaved = 0 THEN "idle" ELSE "restore"

(* A listener of the candidate could not be bound, or it was not saved. *)
RtRejected ==
  /\ rtPc = "bind"
  /\ rtPc' = RtFallback
  /\ UNCHANGED <<rtDisk, rtSaved, rtRun, rtUp, rtChanged, rtHealth, rtGen, rtStartup,
                 rtLocal, rtCache, rtNext, rtDue, rtBad, rtCrashCount>>

-----------------------------------------------------------------------------
(* The retry task, shutdown and crashes                                     *)

(* due: a finished task is reaped, and a recorded failure makes a restart due
   once its backoff has passed.                                             *)
RtReap ==
  /\ rtPc = "idle"
  /\ rtRun.task = "over" \/ (rtStartup /\ rtRun.task = "none" /\ rtSaved # 0)
  /\ rtRun' = IF rtRun.task = "over" THEN RtNoRun ELSE rtRun
  /\ rtStartup' = TRUE
  /\ rtDue' = (rtSaved # 0)
  /\ UNCHANGED <<rtDisk, rtSaved, rtUp, rtChanged, rtHealth, rtGen, rtLocal, rtCache,
                 rtPc, rtNext, rtBad, rtCrashCount>>

\* Mutant: a due restart is not checked again under the permit.
RtStillDueUnchecked == rtSaved # 0

(* Checked again under the permit and the Manager lock. *)
RtStillDue == rtStartup /\ rtRun.task = "none" /\ rtSaved # 0

(* With the permit, a restart that is still due restores the saved revision. *)
RtRetry ==
  /\ rtPc = "idle" /\ rtDue
  /\ rtDue' = FALSE
  /\ rtPc' = IF RtStillDue THEN "restore" ELSE "idle"
  /\ rtRun' = IF rtRun.task = "over" THEN RtNoRun ELSE rtRun
  /\ rtStartup' = (rtStartup \/ rtRun.task = "over")
  /\ UNCHANGED <<rtDisk, rtSaved, rtUp, rtChanged, rtHealth, rtGen, rtLocal, rtCache,
                 rtNext, rtBad, rtCrashCount>>

(* terminal_shutdown, after management has drained its transactions. *)
RtTerminal ==
  /\ rtPc = "idle"
  /\ rtPc' = "terminal"
  /\ rtDue' = FALSE
  /\ rtRun' = IF rtRun.task = "serving" THEN [rtRun EXCEPT !.task = "draining"] ELSE rtRun
  /\ UNCHANGED <<rtDisk, rtSaved, rtUp, rtChanged, rtHealth, rtGen, rtStartup, rtLocal,
                 rtCache, rtNext, rtBad, rtCrashCount>>

(* Only the state directory survives; a save may have reached it before the
   candidate started.                                                       *)
RtCrash ==
  /\ rtPc # "down" /\ rtCrashCount < RtCrashes
  /\ rtDisk' \in {rtDisk} \cup (IF rtPc = "bind" THEN {rtNext} ELSE {})
  /\ rtSaved' = 0 /\ rtRun' = RtNoRun /\ rtUp' = {} /\ rtChanged' = FALSE
  /\ rtHealth' = RtUnconfigured /\ rtGen' = 0 /\ rtStartup' = FALSE /\ rtLocal' = FALSE
  /\ rtCache' = TRUE /\ rtPc' = "down" /\ rtNext' = 0 /\ rtDue' = FALSE /\ rtBad' = {}
  /\ rtCrashCount' = rtCrashCount + 1

RtNext ==
  \/ RtOpen \/ RtRestoreRefused \/ RtRestoreFails
  \/ RtApplyUpdates \/ RtApplyHot \/ RtApply \/ RtAborted \/ RtStop \/ RtApplied
  \/ RtRejected \/ RtReap \/ RtRetry \/ RtTerminal \/ RtCrash \/ RtPublishHealth
  \/ \E up \in RtBindings : RtRestored(up)
  \/ \E l \in RtListeners : RtListenerFails(l) \/ RtListenerRuns(l)
  \/ \E clean \in BOOLEAN : RtTaskEnds(clean)

RtSpec == RtInit /\ [][RtNext]_rtVars

-----------------------------------------------------------------------------
(* Whenever no transaction is under way, what serves is what is saved, in
   memory and on disk: a rejected apply has put the previous configuration
   back, and an accepted one is not lost by a restart.                      *)
RuntimeServesSaved ==
  rtPc = "idle" =>
    /\ rtSaved = rtDisk
    /\ rtRun.task # "none" => rtRun.cfg = rtSaved

(* A generation that failed is reported failed for as long as it is the
   latest one, although its owner publishes a normal stop after it.         *)
RuntimeFailureVisible == rtHealth.gen \in rtBad => rtHealth.state = "Failed"

(* Ready is reported only for the generation that is serving, or still
   draining, and only if all its listeners run or the change is about to be
   published.                                                               *)
RuntimeReadyIsServing ==
  rtHealth.state = "Running" =>
    /\ rtRun.task \in {"serving", "draining"}
    /\ rtRun.gen = rtHealth.gen
    /\ rtUp = RtListeners \/ rtChanged

(* A saved configuration that nothing serves is never forgotten: a restart is
   due, unless its local rules cannot be compiled.                          *)
RuntimeNotAbandoned ==
  rtPc = "idle" /\ rtSaved # 0 /\ rtRun.task = "none" => rtStartup \/ rtLocal

(* No generation starts beside another: a due restart that lost its reason
   while it waited for the permit starts nothing.                           *)
RuntimeOneGeneration ==
  [][rtGen' = rtGen + 1 => rtRun.task = "none"]_rtVars

(* What the console shows, what is saved and what serves agree, through
   applies, rollbacks, failing generations, retries and stops.              *)
RuntimeSound ==
  /\ []RuntimeServesSaved /\ []RuntimeFailureVisible
  /\ []RuntimeReadyIsServing /\ []RuntimeNotAbandoned
  /\ RuntimeOneGeneration
=============================================================================
