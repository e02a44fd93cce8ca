---------------------------- MODULE RuntimeProofs ----------------------------
(***************************************************************************)
(* The server side for any number of configurations, connections, streams  *)
(* and certificate roles: configuration transactions and generations       *)
(* (DnsRuntime), certificate reloads (Certificates), and the deadlines of  *)
(* a stop (Serving).                                                       *)
(***************************************************************************)
EXTENDS DnsRuntime, Certificates, Serving, FiniteSetTheorems, TLAPS

(***************************************************************************)
(* DnsRuntime                                                              *)
(***************************************************************************)

RtTasks == {"none", "serving", "draining", "over"}
RtPhases == {"down", "idle", "restore", "stopping", "bind", "terminal", "closed"}
RtHealthStates == {"Unconfigured", "Running", "Degraded", "Stopped", "Failed"}

RtTypeOK ==
  /\ rtDisk \in Nat /\ rtSaved \in Nat /\ rtNext \in Nat /\ rtGen \in Nat
  /\ rtRun \in [task : RtTasks, gen : Nat, cfg : Nat]
  /\ rtHealth \in [state : RtHealthStates, gen : Nat]
  /\ rtPc \in RtPhases
  /\ rtBad \subseteq Nat

\* The phases of a transaction: nothing runs where a generation may start, what
\* runs is the latest generation and serves what is saved, and between its
\* transactions the process has on disk what it has in memory.
RtPhaseInv ==
  /\ rtPc \in {"down", "restore", "bind", "closed"} => rtRun.task = "none"
  /\ rtRun.task # "none" => rtRun.gen = rtGen /\ rtRun.cfg = rtSaved
  /\ rtPc # "down" => rtSaved = rtDisk

\* What is published is not ahead of the latest generation, and no generation
\* that failed is ahead of what is published.
RtPublishedInv ==
  /\ rtHealth.gen <= rtGen
  /\ \A b \in rtBad : b <= rtHealth.gen

RtIInv ==
  /\ RtTypeOK /\ RtPhaseInv /\ RtPublishedInv
  /\ RuntimeFailureVisible /\ RuntimeReadyIsServing /\ RuntimeNotAbandoned

\* RtInit satisfies the inductive invariant.
LEMMA RtInitIInv == RtInit => RtIInv
  BY DEF RtInit, RtIInv, RtTypeOK, RtPhaseInv, RtPublishedInv, RuntimeFailureVisible,
         RuntimeReadyIsServing, RuntimeNotAbandoned, RtNoRun, RtUnconfigured, RtTasks, RtPhases,
         RtHealthStates

\* What becomes of the health when the latest generation publishes a state.
LEMMA RtLatestPublishes ==
  ASSUME RtIInv, NEW state \in RtHealthStates, NEW gen \in Nat, gen >= rtGen
  PROVE  /\ RtPublished(rtHealth, state, gen) \in [state : RtHealthStates, gen : Nat]
         /\ RtPublished(rtHealth, state, gen).gen = gen
         /\ \/ RtPublished(rtHealth, state, gen).state = state
            \/ RtPublished(rtHealth, state, gen).state = "Failed"
         /\ gen \in rtBad => RtPublished(rtHealth, state, gen).state = "Failed"
  BY DEF RtPublished, RtIInv, RtTypeOK, RtPublishedInv, RuntimeFailureVisible

\* Every step that leaves the health alone keeps the invariant.
LEMMA RtQuietStep ==
  ASSUME RtIInv,
         \/ RtOpen \/ RtRestoreRefused \/ RtApplyUpdates \/ RtApplyHot \/ RtApply \/ RtRejected
         \/ RtReap \/ RtRetry \/ RtTerminal \/ RtCrash
         \/ \E l \in RtListeners : RtListenerFails(l) \/ RtListenerRuns(l)
         \/ UNCHANGED rtVars
  PROVE  RtIInv'
  <1> USE DEF RtIInv, RtTypeOK, RtPhaseInv, RtPublishedInv, RuntimeFailureVisible,
              RuntimeReadyIsServing, RuntimeNotAbandoned, RtTasks, RtPhases
  <1>1. CASE RtOpen
    BY <1>1 DEF RtOpen
  <1>2. CASE RtRestoreRefused
    BY <1>2 DEF RtRestoreRefused
  <1>3. CASE RtApplyUpdates
    BY <1>3, RtAssumption DEF RtApplyUpdates
  <1>4. CASE RtApplyHot
    BY <1>4, RtAssumption DEF RtApplyHot
  <1>5. CASE RtApply
    BY <1>5 DEF RtApply
  <1>6. CASE RtRejected
    BY <1>6 DEF RtRejected, RtFallback
  <1>7. CASE RtReap
    BY <1>7 DEF RtReap, RtNoRun
  <1>8. CASE RtRetry
    BY <1>8, Zenon DEF RtRetry, RtStillDue, RtNoRun
  <1>9. CASE RtTerminal
    BY <1>9 DEF RtTerminal
  <1>10. CASE RtCrash
    BY <1>10 DEF RtCrash, RtNoRun, RtUnconfigured, RtHealthStates
  <1>11. CASE \E l \in RtListeners : RtListenerFails(l) \/ RtListenerRuns(l)
    BY <1>11, Zenon DEF RtListenerFails, RtListenerRuns
  <1>12. CASE UNCHANGED rtVars
    BY <1>12 DEF rtVars
  <1> QED
    BY <1>1, <1>2, <1>3, <1>4, <1>5, <1>6, <1>7, <1>8, <1>9, <1>10, <1>11, <1>12

\* Every start of a generation keeps it: nothing else runs.
LEMMA RtStartStep ==
  ASSUME RtIInv, NEW cfg \in Nat, NEW up \in SUBSET RtListeners, RtStart(cfg, up),
         rtPc \in {"restore", "bind"}, rtPc' = "idle",
         rtSaved' = cfg, rtDisk' = cfg, UNCHANGED <<rtNext, rtBad>>
  PROVE  RtIInv'
  <1> DEFINE state == RtServingState(up)
  <1>1. state \in RtHealthStates /\ (state = "Running" => up = RtListeners)
    BY DEF RtServingState, RtHealthStates
  <1> HIDE DEF state
  <1>2. /\ rtHealth' \in [state : RtHealthStates, gen : Nat] /\ rtHealth'.gen = rtGen + 1
        /\ rtHealth'.state \in {state, "Failed"}
    BY <1>1, RtLatestPublishes DEF RtStart, RtIInv, RtTypeOK, state
  <1>3. rtRun' = [task |-> "serving", gen |-> rtGen + 1, cfg |-> cfg] /\ rtGen' = rtGen + 1 /\ rtUp' = up
    BY DEF RtStart
  <1>4. RtTypeOK' /\ RtPhaseInv'
    BY <1>2, <1>3 DEF RtIInv, RtTypeOK, RtPhaseInv, RtTasks, RtPhases
  <1>5. RtPublishedInv' /\ RuntimeFailureVisible'
    BY <1>2, <1>3 DEF RtIInv, RtTypeOK, RtPublishedInv, RuntimeFailureVisible
  <1>6. RuntimeReadyIsServing' /\ RuntimeNotAbandoned'
    BY <1>1, <1>2, <1>3 DEF RuntimeReadyIsServing, RuntimeNotAbandoned
  <1> QED
    BY <1>4, <1>5, <1>6 DEF RtIInv

\* The end of a task, its abort and the stop that follows keep it.
LEMMA RtEndStep ==
  ASSUME RtIInv, RtAborted \/ RtStop \/ \E clean \in BOOLEAN : RtTaskEnds(clean)
  PROVE  RtIInv'
  <1> USE DEF RtIInv, RtTypeOK, RtPhaseInv, RtPublishedInv
  <1>1. ASSUME NEW clean \in BOOLEAN, RtTaskEnds(clean)
        PROVE  RtIInv'
    <2>1. rtRun.gen = rtGen /\ rtRun.task # "none"
      BY <1>1 DEF RtTaskEnds
    <2>2. CASE clean
      <3>1. /\ rtHealth' \in [state : RtHealthStates, gen : Nat] /\ rtHealth'.gen = rtGen
            /\ rtHealth'.state \in {"Stopped", "Failed"}
            /\ rtGen \in rtBad => rtHealth'.state = "Failed"
        BY <1>1, <2>1, <2>2, RtLatestPublishes DEF RtTaskEnds, RtHealthStates
      <3> QED
        BY <1>1, <2>1, <2>2, <3>1 DEF RtTaskEnds, RuntimeFailureVisible, RuntimeReadyIsServing,
                                      RuntimeNotAbandoned, RtTasks
    <2>3. CASE ~clean
      <3>1. /\ rtHealth' \in [state : RtHealthStates, gen : Nat] /\ rtHealth'.gen = rtGen
            /\ rtHealth'.state = "Failed"
        BY <1>1, <2>1, <2>3, RtLatestPublishes DEF RtTaskEnds, RtHealthStates
      <3> QED
        BY <1>1, <2>1, <2>3, <3>1 DEF RtTaskEnds, RuntimeFailureVisible, RuntimeReadyIsServing,
                                      RuntimeNotAbandoned, RtTasks
    <2> QED
      BY <2>2, <2>3
  <1>2. CASE RtAborted
    <2>1. rtRun.gen = rtGen
      BY <1>2 DEF RtAborted
    <2>2. /\ rtHealth' \in [state : RtHealthStates, gen : Nat] /\ rtHealth'.gen = rtGen
          /\ rtHealth'.state = "Failed"
      BY <1>2, <2>1, RtLatestPublishes DEF RtAborted, RtHealthStates
    <2> QED
      BY <1>2, <2>1, <2>2 DEF RtAborted, RuntimeFailureVisible, RuntimeReadyIsServing,
                              RuntimeNotAbandoned, RtTasks
  <1>3. CASE RtStop
    <2>1. /\ rtHealth' \in [state : RtHealthStates, gen : Nat] /\ rtHealth'.gen = rtGen
          /\ rtHealth'.state \in {"Stopped", "Failed"}
          /\ rtGen \in rtBad => rtHealth'.state = "Failed"
      BY <1>3, RtLatestPublishes DEF RtStop, RtHealthStates
    <2> QED
      BY <1>3, <2>1 DEF RtStop, RtStopped, RtNoRun, RuntimeFailureVisible, RuntimeReadyIsServing,
                        RuntimeNotAbandoned, RtTasks, RtPhases
  <1> QED
    BY <1>1, <1>2, <1>3

\* Every step keeps it.
LEMMA RtNextIInv == RtIInv /\ [RtNext]_rtVars => RtIInv'
  <1> SUFFICES ASSUME RtIInv, [RtNext]_rtVars PROVE RtIInv'
    OBVIOUS
  <1>1. ASSUME NEW up \in RtBindings, RtRestored(up)
        PROVE  RtIInv'
    BY <1>1, RtStartStep DEF RtRestored, RtBindings, RtIInv, RtTypeOK, RtPhaseInv
  <1>2. CASE RtApplied
    BY <1>2, RtStartStep DEF RtApplied, RtIInv, RtTypeOK
  <1>3. CASE RtRestoreFails
    <2>1. /\ rtHealth' \in [state : RtHealthStates, gen : Nat] /\ rtHealth'.gen = rtGen
          /\ rtHealth'.state = "Failed"
      BY <1>3, RtLatestPublishes DEF RtRestoreFails, RtHealthStates, RtIInv, RtTypeOK
    <2> QED
      BY <1>3, <2>1 DEF RtRestoreFails, RtIInv, RtTypeOK, RtPhaseInv, RtPublishedInv, RuntimeFailureVisible,
                        RuntimeReadyIsServing, RuntimeNotAbandoned, RtPhases
  <1>4. CASE RtPublishHealth
    <2> DEFINE state == RtServingState(rtUp)
    <2>1. state \in RtHealthStates /\ (state = "Running" => rtUp = RtListeners)
      BY DEF RtServingState, RtHealthStates
    <2> HIDE DEF state
    <2>2. /\ rtHealth' \in [state : RtHealthStates, gen : Nat] /\ rtHealth'.gen = rtGen
          /\ rtHealth'.state \in {state, "Failed"}
          /\ rtGen \in rtBad => rtHealth'.state = "Failed"
      BY <1>4, <2>1, RtLatestPublishes DEF RtPublishHealth, RtIInv, RtTypeOK, RtPhaseInv, state
    <2> QED
      BY <1>4, <2>1, <2>2 DEF RtPublishHealth, RtIInv, RtTypeOK, RtPhaseInv, RtPublishedInv,
                        RuntimeFailureVisible, RuntimeReadyIsServing, RuntimeNotAbandoned
  <1> QED
    BY <1>1, <1>2, <1>3, <1>4, RtQuietStep, RtEndStep DEF RtNext

\* For any set of listeners and any number of revisions, generations, retries and
\* crashes: what serves is what is saved, a failed generation stays visible, ready
\* is reported of a serving generation only, a saved configuration is not
\* abandoned and no generation starts beside another (manage/runtime.rs,
\* manage/dns_retry.rs, runtime_health.rs).
THEOREM RuntimeIsSound == RtSpec => RuntimeSound
  <1>1. RtIInv => /\ RuntimeServesSaved /\ RuntimeFailureVisible
                  /\ RuntimeReadyIsServing /\ RuntimeNotAbandoned
    BY DEF RtIInv, RtPhaseInv, RuntimeServesSaved
  <1>2. RtIInv /\ [RtNext]_rtVars => [rtGen' = rtGen + 1 => rtRun.task = "none"]_rtVars
    <2> SUFFICES ASSUME RtIInv, RtNext, rtGen' = rtGen + 1 PROVE rtRun.task = "none"
      OBVIOUS
    <2>1. rtGen \in Nat /\ rtGen # rtGen + 1 /\ 0 # rtGen + 1
      BY DEF RtIInv, RtTypeOK
    <2>2. RtApplied \/ \E up \in RtBindings : RtRestored(up)
      BY <2>1, Zenon DEF RtNext, RtOpen, RtRestoreRefused, RtRestoreFails, RtApplyUpdates, RtApplyHot, RtApply,
                  RtAborted, RtStop, RtRejected, RtReap, RtRetry, RtTerminal, RtCrash, RtPublishHealth,
                  RtListenerFails, RtListenerRuns, RtTaskEnds
    <2> QED
      BY <2>2 DEF RtApplied, RtRestored, RtIInv, RtPhaseInv
  <1> QED
    BY <1>1, <1>2, RtInitIInv, RtNextIInv, PTL DEF RtSpec, RuntimeSound, RuntimeOneGeneration

(***************************************************************************)
(* Certificates                                                            *)
(***************************************************************************)

CeTypeOK ==
  /\ ceDisk \in [cert : Nat, key : Nat, rules : Nat]
  /\ ceRead \in [rules : Nat, of : [CeRoles -> [CeFiles -> Nat]]]
  /\ ceTask \in {"none", "reading", "ready"}
  /\ cePending \in BOOLEAN
  /\ ceActive \in [rules : Nat, of : [CeRoles -> Nat], gen : Nat]
  /\ ceSignals \in Nat

\* What a preparation has read of a file is the same for every role; once it is
\* ready it is complete, valid and among the pairs that were read together.
CeReadInv ==
  /\ \A r, s \in CeRoles, f \in CeFiles :
       ceRead.of[r][f] # 0 /\ ceRead.of[s][f] # 0 => ceRead.of[r][f] = ceRead.of[s][f]
  /\ ceTask = "ready" =>
       \A r \in CeRoles : ceRead.of[r]["cert"] # 0 /\ <<ceRead.rules, ceRead.of[r]["cert"]>> \in ceSeen

\* A signal that did not start a reload is remembered.
CeSignalInv == ~cePending => ceStarted = ceSignals

\* No identity has two complete files.
CeImportInv ==
  /\ \A m, n \in ceImports : m.id = n.id /\ m.whole /\ n.whole => m = n
  /\ \A i \in ceGranted : \E m \in ceImports : m.id = i /\ m.whole

CeIInv ==
  /\ CeTypeOK /\ CeReadInv /\ CeSignalInv /\ CeImportInv
  /\ (ceTask = "none" => ~cePending)
  /\ RolesShareIdentity /\ ReloadIsWhole

\* Nothing is read when a preparation begins.
LEMMA CeUnreadFacts ==
  /\ CeUnread \in [rules : Nat, of : [CeRoles -> [CeFiles -> Nat]]]
  /\ \A r \in CeRoles, f \in CeFiles : CeUnread.of[r][f] = 0
  BY DEF CeUnread

\* CeInit satisfies the inductive invariant.
LEMMA CeInitIInv == CeInit => CeIInv
  <1> SUFFICES ASSUME CeInit PROVE CeIInv
    OBVIOUS
  <1>1. CeTypeOK
    BY CeUnreadFacts, Zenon DEF CeInit, CeTypeOK
  <1>2. CeReadInv
    BY CeUnreadFacts DEF CeInit, CeReadInv
  <1> QED
    BY <1>1, <1>2 DEF CeInit, CeIInv, CeSignalInv, CeImportInv, RolesShareIdentity, ReloadIsWhole

\* The end of a reload keeps the facts about reading and signals.
LEMMA CeTaskEndsKeeps ==
  ASSUME CeIInv, CeTaskEnds, UNCHANGED ceSignals
  PROVE  /\ ceRead' \in [rules : Nat, of : [CeRoles -> [CeFiles -> Nat]]]
         /\ ceTask' \in {"none", "reading", "ready"} /\ cePending' \in BOOLEAN
         /\ CeReadInv' /\ CeSignalInv' /\ (ceTask' = "none" => ~cePending')
  <1>1. ceRead' = CeUnread /\ ceTask' \in {"none", "reading"} /\ cePending' = FALSE
    BY DEF CeTaskEnds, CeBegin
  <1>2. CeReadInv'
    BY <1>1, CeUnreadFacts DEF CeReadInv
  <1>3. CeSignalInv'
    BY DEF CeTaskEnds, CeIInv, CeSignalInv
  <1> QED
    BY <1>1, <1>2, <1>3, CeUnreadFacts, Zenon

\* The steps of a reload keep the invariant.
LEMMA CeReloadStep ==
  ASSUME CeIInv,
         \/ CeSignal \/ CeReadRules \/ CeReject \/ CePrepared \/ CeTooLate \/ CeClose
         \/ \E held \in BOOLEAN : CePublish(held)
         \/ \E f \in DOMAIN ceDisk : CeRenew(f)
         \/ \E r \in CeRoles, f \in CeFiles : CeReadFile(r, f)
  PROVE  CeIInv'
  <1> USE DEF CeIInv
  <1>1. CASE CeSignal
    <2>1. UNCHANGED <<ceDisk, ceActive, ceSeen, ceImports, ceGranted>> /\ ceSignals' \in Nat
      BY <1>1 DEF CeSignal, CeTypeOK
    <2>2. CASE ceTask = "none"
      <3>1. ceTask' = "reading" /\ ceRead' = CeUnread /\ ceStarted' = ceSignals' /\ cePending' = cePending
        BY <1>1, <2>2 DEF CeSignal, CeBegin
      <3>2. CeReadInv'
        BY <3>1, CeUnreadFacts DEF CeReadInv
      <3> QED
        BY <2>1, <3>1, <3>2, CeUnreadFacts
        DEF CeTypeOK, CeSignalInv, CeImportInv, RolesShareIdentity, ReloadIsWhole
    <2>3. CASE ceTask # "none"
      <3>1. cePending' = TRUE /\ UNCHANGED <<ceTask, ceRead, ceStarted>>
        BY <1>1, <2>3, Zenon DEF CeSignal, CePendingAfter, CeTypeOK
      <3> QED
        BY <2>1, <2>3, <3>1 DEF CeTypeOK, CeReadInv, CeSignalInv, CeImportInv, RolesShareIdentity, ReloadIsWhole
    <2> QED
      BY <2>2, <2>3
  <1>2. CASE CeReadRules
    BY <1>2 DEF CeReadRules, CeTypeOK, CeReadInv, CeSignalInv,
                CeImportInv, CeStored, RolesShareIdentity, ReloadIsWhole
  <1>3. CASE CeReject \/ CeTooLate
    BY <1>3, CeTaskEndsKeeps
    DEF CeReject, CeTooLate, CeTypeOK, CeImportInv, RolesShareIdentity, ReloadIsWhole
  <1>4. CASE CePrepared
    <2>1. CeReadInv'
      BY <1>4 DEF CePrepared, CeAllRead, CeReadInv, CeFiles
    <2> QED
      BY <1>4, <2>1 DEF CePrepared, CeTypeOK, CeSignalInv, CeImportInv,
                        RolesShareIdentity, ReloadIsWhole
  <1>5. CASE CeClose
    BY <1>5 DEF CeClose, CeTypeOK, CeReadInv, CeSignalInv, CeImportInv,
                RolesShareIdentity, ReloadIsWhole
  <1>6. ASSUME NEW held \in BOOLEAN, CePublish(held)
        PROVE  CeIInv'
    <2>1. CASE ceActive' = ceActive
      BY <1>6, <2>1, CeTaskEndsKeeps
      DEF CePublish, CeTypeOK, CeImportInv, RolesShareIdentity, ReloadIsWhole
    <2>2. CASE ceActive' = [rules |-> ceRead.rules, of |-> CeIdentity.of, gen |-> CeIdentity.gen]
      <3>1. CeIdentity.of = [r \in CeRoles |-> ceRead.of[r]["cert"]] /\ CeIdentity.gen \in Nat
        BY DEF CeIdentity, CeTypeOK
      <3>2. ceActive' \in [rules : Nat, of : [CeRoles -> Nat], gen : Nat]
        BY <2>2, <3>1 DEF CeTypeOK, CeFiles
      <3>3. RolesShareIdentity' /\ ReloadIsWhole'
        <4>1. ceTask = "ready" /\ ceSeen' = ceSeen /\ "cert" \in CeFiles
          BY <1>6, Zenon DEF CePublish, CeFiles
        <4>2. /\ ceActive'.rules = ceRead.rules
              /\ \A r \in CeRoles : ceActive'.of[r] = ceRead.of[r]["cert"]
          BY <2>2, <3>1
        <4>3. /\ \A r, s \in CeRoles : ceRead.of[r]["cert"] = ceRead.of[s]["cert"]
              /\ \A r \in CeRoles : <<ceRead.rules, ceRead.of[r]["cert"]>> \in ceSeen
          BY <4>1, Zenon DEF CeReadInv
        <4> QED
          BY <4>1, <4>2, <4>3 DEF RolesShareIdentity, ReloadIsWhole
      <3> QED
        BY <1>6, <3>2, <3>3, CeTaskEndsKeeps DEF CePublish, CeTypeOK, CeImportInv
    <2> QED
      BY <1>6, <2>1, <2>2 DEF CePublish, CeRefused
  <1>7. ASSUME NEW f \in DOMAIN ceDisk, CeRenew(f)
        PROVE  CeIInv'
    <2>1. ceDisk' \in [cert : Nat, key : Nat, rules : Nat]
      BY <1>7 DEF CeRenew, CeTypeOK
    <2>2. UNCHANGED <<ceRead, ceTask, cePending, ceActive, ceSignals, ceStarted, ceSeen,
                      ceImports, ceGranted>>
      BY <1>7, Zenon DEF CeRenew
    <2>3. CeTypeOK' /\ CeReadInv' /\ CeSignalInv' /\ (ceTask' = "none" => ~cePending')
      BY <2>1, <2>2 DEF CeTypeOK, CeReadInv, CeSignalInv
    <2>4. CeImportInv' /\ RolesShareIdentity' /\ ReloadIsWhole'
      BY <2>2 DEF CeImportInv, RolesShareIdentity, ReloadIsWhole
    <2> QED
      BY <2>3, <2>4
  <1>8. ASSUME NEW r \in CeRoles, NEW f \in CeFiles, CeReadFile(r, f)
        PROVE  CeIInv'
    <2>1. PICK v \in CeContents(f) : ceRead' = [ceRead EXCEPT !.of[r][f] = v]
      BY <1>8 DEF CeReadFile
    <2>2. v \in Nat
      <3>1. ceDisk[f] \in Nat /\ \A s \in CeRoles : ceRead.of[s][f] \in Nat
        BY DEF CeTypeOK, CeFiles
      <3> QED
        BY <3>1 DEF CeContents
    <2>3. \A s \in CeRoles : ceRead.of[s][f] # 0 => v = ceRead.of[s][f]
      <3> SUFFICES ASSUME NEW s \in CeRoles, ceRead.of[s][f] # 0 PROVE v = ceRead.of[s][f]
        OBVIOUS
      <3>1. v \in {ceRead.of[q][f] : q \in CeRoles} \ {0}
        BY Zenon DEF CeContents
      <3> QED
        BY <3>1 DEF CeReadInv
    <2>4. ceRead' \in [rules : Nat, of : [CeRoles -> [CeFiles -> Nat]]]
      BY <2>1, <2>2, Zenon DEF CeTypeOK
    <2>5. /\ ceRead'.of[r][f] = v
          /\ \A s \in CeRoles, g \in CeFiles : s # r \/ g # f => ceRead'.of[s][g] = ceRead.of[s][g]
      BY <2>1 DEF CeTypeOK
    <2>6. CeReadInv'
      BY <1>8, <2>3, <2>5 DEF CeReadFile, CeReadInv
    <2> QED
      BY <1>8, <2>4, <2>6, Zenon DEF CeReadFile, CeTypeOK, CeSignalInv, CeImportInv,
                              RolesShareIdentity, ReloadIsWhole
  <1> QED
    BY <1>1, <1>2, <1>3, <1>4, <1>5, <1>6, <1>7, <1>8

\* Imports keep the invariant: a file is added only where none is complete.
LEMMA CeImportStep ==
  ASSUME CeIInv, NEW i \in CeIdentities, CeImport(i) \/ CeImportCut(i)
  PROVE  CeIInv'
  <1> USE DEF CeIInv
  <1>1. CeImportInv'
    <2>1. CASE ceImports' = ceImports /\ CeStored(i) # {} /\ ceGranted' = ceGranted \cup {i}
      BY <2>1 DEF CeImportInv, CeStored
    <2>2. ASSUME NEW n, CeStored(i) = {}, ceGranted' = ceGranted \cup {i},
                 ceImports' = ceImports \cup {[file |-> n, id |-> i, whole |-> TRUE]}
          PROVE  CeImportInv'
      <3> DEFINE x == [file |-> n, id |-> i, whole |-> TRUE]
      <3>1. x.id = i /\ x.whole = TRUE
        OBVIOUS
      <3>2. \A m \in ceImports : ~(m.id = i /\ m.whole)
        BY <2>2 DEF CeStored
      <3> HIDE DEF x
      <3>3. ceImports' = ceImports \cup {x}
        BY <2>2 DEF x
      <3> QED
        BY <2>2, <3>1, <3>2, <3>3 DEF CeImportInv
    <2>3. ASSUME NEW n, ceGranted' = ceGranted,
                 ceImports' = ceImports \cup {[file |-> n, id |-> i, whole |-> FALSE]}
          PROVE  CeImportInv'
      BY <2>3 DEF CeImportInv
    <2> QED
      BY <2>1, <2>2, <2>3, Zenon DEF CeImport, CeImportCut, CeFound
  <1> QED
    BY <1>1 DEF CeImport, CeImportCut, CeTypeOK, CeReadInv, CeSignalInv, RolesShareIdentity, ReloadIsWhole

\* For any roles, renewals, signals and imports: one identity for all roles, rules
\* and identity of one reload, no signal lost, one complete file for an identity
\* (tls/certificates.rs, server.rs ReloadHandle, manage/certificates.rs).
THEOREM CertificatesAreSound == CeSpec => []CertificatesSound
  <1>1. CeIInv => CertificatesSound
    <2> SUFFICES ASSUME CeIInv PROVE CertificatesSound
      OBVIOUS
    <2>1. ASSUME NEW i \in ceGranted PROVE Cardinality(CeStored(i)) = 1
      <3>0. PICK m \in ceImports : m.id = i /\ m.whole
        BY DEF CeIInv, CeImportInv
      <3>1. CeStored(i) = {m}
        BY <3>0 DEF CeIInv, CeImportInv, CeStored
      <3> QED
        BY <3>1, FS_Singleton, Zenon
    <2> QED
      BY <2>1 DEF CeIInv, CertificatesSound, SignalNotLost, CeSignalInv, ImportKept
  <1>2. CeIInv /\ UNCHANGED ceVars => CeIInv'
    BY DEF ceVars, CeIInv, CeTypeOK, CeReadInv, CeSignalInv, CeImportInv,
           RolesShareIdentity, ReloadIsWhole
  <1>3. CeIInv /\ [CeNext]_ceVars => CeIInv'
    BY <1>2, CeReloadStep, CeImportStep DEF CeNext
  <1> QED
    BY <1>1, <1>3, CeInitIInv, PTL DEF CeSpec

(***************************************************************************)
(* Serving                                                                 *)
(***************************************************************************)

SvConnStates == {"none", "handshake", "open", "closing", "waiting", "draining", "done"}
SvStreamStates == SvActive \cup {"none", "delivered", "failed", "refused", "aborted"}
SvListenerStates == {"none", "serving", "draining", "down", "ended"}

SvTypeOK ==
  /\ svTime \in 0 .. SvTime /\ svStop \in Int
  /\ svKind \in SvKinds \cup {"none"}
  /\ svListener \in [is : SvListenerStates, at : Int]
  /\ svConn \in [SvConns -> [is : SvConnStates, at : Int]]
  /\ svStream \in [SvConns -> [SvStreams -> SvStreamStates]]

\* The stop happens at a time that has come.  Before it no connection closes, and
\* without a listener there is none.
SvStopInv ==
  /\ svStop = SvNever \/ svStop <= svTime
  /\ svListener.at <= svTime
  /\ svKind = "none" <=> svListener.is = "none"
  /\ \A c \in SvConns :
       /\ ~SvStopping => svConn[c].is # "closing"
       /\ svListener.is = "none" => svConn[c].is = "none"

\* Time does not pass while the listener has not seen the stop, nor while a
\* connection has not: a closing window counts from the stop, or from the moment
\* the listener left, and ends within the grace of the listener.
SvWindowInv ==
  SvStopping => \A c \in SvConns :
    /\ svListener.is = "serving" /\ svConn[c].is = "closing" => svConn[c].at <= svTime + SvCloseWindow
    /\ svListener.is = "draining" /\ svListener.at >= svStop =>
         /\ svConn[c].is = "closing" => svConn[c].at <= svListener.at + SvCloseWindow
         /\ svConn[c].is \in {"handshake", "open"} /\ svKind # "frames" => svTime = svListener.at

\* Frames are answered one at a time and have no closing window.
SvFramesInv == svKind = "frames" => \A c \in SvConns : svConn[c].is # "closing"

SvIInv == SvTypeOK /\ SvStopInv /\ SvWindowInv /\ SvFramesInv

\* SvInit satisfies the inductive invariant.
LEMMA SvInitIInv == SvInit => SvIInv
  BY SvAssumption DEF SvInit, SvIInv, SvTypeOK, SvStopInv, SvWindowInv, SvFramesInv, SvConnStates,
                      SvStreamStates, SvListenerStates, SvKinds, SvNever, SvStopping

\* The window in which a DoH peer may close is within the grace.
LEMMA SvWindow == SvCloseWindow \in Nat /\ SvCloseWindow <= SvGrace
  BY SvAssumption DEF SvCloseWindow

\* What a step of one connection does to the requests keeps their type.
LEMMA SvStreamTypes ==
  ASSUME SvTypeOK, NEW c \in SvConns
  PROVE  /\ \A s \in SvStreams, state \in SvStreamStates :
              [svStream EXCEPT ![c][s] = state] \in [SvConns -> [SvStreams -> SvStreamStates]]
         /\ SvAborted(c) \in [SvStreams -> SvStreamStates]
         /\ [svStream EXCEPT ![c] = SvAborted(c)] \in [SvConns -> [SvStreams -> SvStreamStates]]
  <1>1. svStream \in [SvConns -> [SvStreams -> SvStreamStates]] /\ "aborted" \in SvStreamStates
    BY DEF SvTypeOK, SvStreamStates
  <1>2. SvAborted(c) \in [SvStreams -> SvStreamStates]
    BY <1>1 DEF SvAborted
  <1> QED
    BY <1>1, <1>2

\* A step of one connection that opens nothing new and whose closing window
\* begins now, if it begins, keeps the invariant.
LEMMA SvConnMoves ==
  ASSUME SvIInv, NEW c \in SvConns, NEW is \in SvConnStates, NEW at \in Int,
         SvTo(c, is, at) \/ UNCHANGED svConn,
         svStream' \in [SvConns -> [SvStreams -> SvStreamStates]],
         UNCHANGED <<svStop, svTime, svKind, svListener>>,
         is = "none" \/ svListener.is # "none",
         is = "handshake" => svListener.is = "serving",
         is = "open" => svConn[c].is = "handshake",
         is = "closing" => /\ svKind # "frames" /\ SvStopping /\ svConn[c].is = "open"
                           /\ at = svTime + SvCloseWindow
  PROVE  SvIInv'
  <1> USE DEF SvIInv
  <1>1. CASE UNCHANGED svConn
    BY <1>1 DEF SvTypeOK, SvStopInv, SvWindowInv, SvFramesInv, SvStopping
  <1>2. CASE SvTo(c, is, at)
    <2>1. svConn' \in [SvConns -> [is : SvConnStates, at : Int]]
      BY <1>2, Zenon DEF SvTo, SvTypeOK
    <2>2. /\ \A d \in SvConns : d # c => svConn'[d] = svConn[d]
          /\ svConn'[c].is = is /\ svConn'[c].at = at
      BY <1>2 DEF SvTo, SvTypeOK
    <2>3. SvTypeOK'
      BY <2>1 DEF SvTypeOK
    <2>4. SvStopInv' /\ SvFramesInv'
      BY <2>2 DEF SvStopInv, SvFramesInv, SvStopping
    <2>5. SvWindowInv'
      BY <2>2, SvWindow DEF SvWindowInv, SvStopping, SvTypeOK
    <2> QED
      BY <2>3, <2>4, <2>5
  <1> QED
    BY <1>1, <1>2

\* Every step of a connection and of its requests keeps the invariant.
LEMMA SvConnStep ==
  ASSUME SvIInv, NEW c \in SvConns,
         \/ SvAccept(c) \/ SvHandshaken(c) \/ SvHandshakeEnds(c) \/ SvSeesStop(c) \/ SvClosed(c)
         \/ SvBreaks(c) \/ SvJoined(c) \/ SvConnDrainOver(c)
  PROVE  SvIInv'
  <1>1. svTime \in Int /\ svTime + SvCloseWindow \in Int
    BY SvWindow, SvAssumption DEF SvIInv, SvTypeOK
  <1>2. svConn[c].is # "none" => svListener.is # "none"
    BY DEF SvIInv, SvStopInv
  <1>3. svStream \in [SvConns -> [SvStreams -> SvStreamStates]]
    BY DEF SvIInv, SvTypeOK
  <1>4. [svStream EXCEPT ![c] = SvAborted(c)] \in [SvConns -> [SvStreams -> SvStreamStates]]
    BY SvStreamTypes DEF SvIInv
  <1> USE DEF SvConnStates, SvRest
  <1>5. CASE SvAccept(c)
    BY <1>1, <1>3, <1>5, SvConnMoves DEF SvAccept
  <1>6. CASE SvHandshaken(c)
    BY <1>1, <1>2, <1>3, <1>6, SvConnMoves DEF SvHandshaken
  <1>7. CASE SvHandshakeEnds(c)
    BY <1>1, <1>2, <1>3, <1>7, SvConnMoves DEF SvHandshakeEnds
  <1>8. CASE SvSeesStop(c)
    <2>1. CASE svKind = "doh"
      BY <1>1, <1>2, <1>3, <1>8, <2>1, SvConnMoves DEF SvSeesStop
    <2>2. CASE svKind = "quic"
      BY <1>1, <1>2, <1>3, <1>8, <2>2, SvConnMoves DEF SvSeesStop
    <2>3. CASE svKind \notin {"doh", "quic"}
      BY <1>1, <1>2, <1>3, <1>8, <2>3, SvConnMoves DEF SvSeesStop
    <2> QED
      BY <2>1, <2>2, <2>3
  <1>9. CASE SvClosed(c)
    BY <1>1, <1>2, <1>3, <1>9, SvConnMoves DEF SvClosed
  <1>10. CASE SvBreaks(c)
    BY <1>1, <1>2, <1>3, <1>4, <1>10, SvConnMoves, Zenon DEF SvBreaks
  <1>11. CASE SvJoined(c)
    BY <1>1, <1>2, <1>3, <1>11, SvConnMoves, Zenon DEF SvJoined
  <1>12. CASE SvConnDrainOver(c)
    BY <1>1, <1>2, <1>4, <1>12, SvConnMoves DEF SvConnDrainOver
  <1> QED
    BY <1>5, <1>6, <1>7, <1>8, <1>9, <1>10, <1>11, <1>12

\* A request moves on, and with frames its end ends the connection.
LEMMA SvRequestMoves ==
  ASSUME SvIInv, NEW c \in SvConns, NEW s \in SvStreams, NEW state \in SvStreamStates,
         SvBecomes(c, s, state), SvRest,
         UNCHANGED svConn \/ (SvTo(c, "done", svTime) /\ svListener.is # "none")
  PROVE  SvIInv'
  <1>1. svStream' \in [SvConns -> [SvStreams -> SvStreamStates]]
    BY SvStreamTypes DEF SvIInv, SvBecomes
  <1>2. svTime \in Int
    BY SvAssumption DEF SvIInv, SvTypeOK
  <1>3. CASE UNCHANGED svConn
    BY <1>1, <1>3 DEF SvIInv, SvTypeOK, SvStopInv, SvWindowInv, SvFramesInv, SvStopping, SvRest
  <1>4. CASE SvTo(c, "done", svTime) /\ svListener.is # "none"
    BY <1>1, <1>2, <1>4, SvConnMoves, Zenon DEF SvRest, SvConnStates
  <1> QED
    BY <1>3, <1>4

\* Every step of a request keeps the invariant.
LEMMA SvRequestStep ==
  ASSUME SvIInv, NEW c \in SvConns, NEW s \in SvStreams,
         \/ SvOpens(c, s) \/ SvComplete(c, s) \/ SvRefused(c, s) \/ SvFails(c, s)
         \/ SvResolved(c, s) \/ SvWritten(c, s)
  PROVE  SvIInv'
  <1>1. svKind = "frames" => svListener.is # "none"
    BY DEF SvIInv, SvStopInv
  <1>0. {"reading", "resolving", "writing", "delivered", "failed", "refused"} \subseteq SvStreamStates
    BY DEF SvStreamStates, SvActive
  <1> USE <1>0, <1>1, SvRequestMoves
  <1>2. ASSUME NEW state \in {"failed", "refused"}, SvEnds(c, s, state)
        PROVE  SvIInv'
    BY <1>2 DEF SvEnds
  <1>3. CASE SvOpens(c, s)
    BY <1>3, Zenon DEF SvOpens
  <1>4. CASE SvComplete(c, s)
    BY <1>4 DEF SvComplete
  <1>5. CASE SvRefused(c, s) \/ SvFails(c, s)
    BY <1>2, <1>5, Zenon DEF SvRefused, SvFails
  <1>6. CASE SvResolved(c, s)
    BY <1>2, <1>6, Zenon DEF SvResolved
  <1>7. CASE SvWritten(c, s)
    BY <1>7, Zenon DEF SvWritten
  <1> QED
    BY <1>3, <1>4, <1>5, <1>6, <1>7

\* A step of the listener alone keeps it, when it does not start to serve after a
\* stop and only a serving listener starts to drain.
LEMMA SvListenerMoves ==
  ASSUME SvIInv, svKind # "none", NEW state \in SvListenerStates \ {"none"},
         svListener' = [is |-> state, at |-> svTime],
         state = "serving" => ~SvStopping, state = "draining" => svListener.is = "serving",
         UNCHANGED <<svStop, svTime, svKind, svConn, svStream>>
  PROVE  SvIInv'
  <1> USE SvAssumption DEF SvIInv
  <1>1. svListener'.is = state /\ svListener'.at = svTime /\ svTime \in Int /\ svStop \in Int
    BY DEF SvTypeOK
  <1>2. SvTypeOK' /\ SvFramesInv'
    BY <1>1 DEF SvTypeOK, SvFramesInv
  <1>3. SvStopping' <=> SvStopping
    BY DEF SvStopping
  <1>4. SvStopInv'
    BY <1>1, <1>3 DEF SvStopInv
  <1>5. SvWindowInv'
    <2> SUFFICES ASSUME SvStopping, NEW c \in SvConns, state = "draining"
                 PROVE  svConn[c].is = "closing" => svConn[c].at <= svTime + SvCloseWindow
      BY <1>1, <1>3 DEF SvWindowInv
    <2> QED
      BY DEF SvWindowInv
  <1> QED
    BY <1>2, <1>4, <1>5

\* Every step keeps it.
LEMMA SvNextIInv == SvIInv /\ [SvNext]_svVars => SvIInv'
  <1> SUFFICES ASSUME SvIInv, [SvNext]_svVars PROVE SvIInv'
    OBVIOUS
  <1> USE SvAssumption DEF SvIInv
  <1>1. ASSUME NEW kind \in SvKinds, SvServes(kind)
        PROVE  SvIInv'
    <2>1. /\ svKind = "none" /\ svListener.is = "none" /\ \A c \in SvConns : svConn[c].is = "none"
          /\ svKind' = kind /\ svListener' = [is |-> "serving", at |-> svTime]
          /\ UNCHANGED <<svStop, svTime, svConn, svStream>>
      BY <1>1, Zenon DEF SvServes, SvStopInv
    <2>2. kind # "none" /\ svListener'.is = "serving" /\ svListener'.at = svTime
      BY <2>1, Zenon DEF SvKinds
    <2>3. SvTypeOK' /\ SvFramesInv' /\ SvWindowInv'
      BY <2>1, <2>2 DEF SvTypeOK, SvFramesInv, SvWindowInv, SvListenerStates
    <2>4. SvStopInv'
      BY <2>1, <2>2 DEF SvStopInv, SvTypeOK
    <2> QED
      BY <2>3, <2>4
  <1>2. CASE SvLeaves
    <2>1. svKind # "none"
      BY <1>2 DEF SvLeaves, SvStopInv
    <2> QED
      BY <1>2, <2>1, SvListenerMoves DEF SvLeaves, SvListenerStates
  <1>3. CASE SvDrained
    <2>1. svKind # "none"
      BY <1>3 DEF SvDrained, SvStopInv
    <2> QED
      BY <1>3, <2>1, SvListenerMoves DEF SvDrained, SvLeft, SvListenerStates
  <1>4. CASE SvDrainOver
    <2>1. svStream' \in [SvConns -> [SvStreams -> SvStreamStates]]
      BY <1>4, SvStreamTypes DEF SvDrainOver
    <2>2. \A c \in SvConns : svConn'[c] \in [is : SvConnStates, at : Int] /\ svConn'[c].is \in {"none", "done"}
      BY <1>4 DEF SvDrainOver, SvLive, SvTypeOK, SvConnStates
    <2>3. svConn' \in [SvConns -> [is : SvConnStates, at : Int]]
      BY <1>4, <2>2 DEF SvDrainOver
    <2>4. svListener'.is \in {"ended", "down"} /\ svListener'.at = svTime /\ svListener' \in [is : SvListenerStates, at : Int]
      BY <1>4 DEF SvDrainOver, SvLeft, SvListenerStates, SvTypeOK
    <2> QED
      BY <1>4, <2>1, <2>2, <2>3, <2>4
      DEF SvDrainOver, SvTypeOK, SvStopInv, SvWindowInv, SvFramesInv, SvStopping
  <1>5. CASE SvRebinds
    <2>1. svKind # "none"
      BY <1>5 DEF SvRebinds, SvStopInv
    <2> QED
      BY <1>5, <2>1, SvListenerMoves DEF SvRebinds, SvListenerStates
  <1>6. CASE SvStops
    <2>1. SvTypeOK' /\ SvFramesInv' /\ SvStopping'
      BY <1>6 DEF SvStops, SvTypeOK, SvFramesInv, SvStopping
    <2>2. \A c \in SvConns : svConn[c].is # "closing"
      BY <1>6 DEF SvStops, SvStopInv
    <2>3. svListener.at >= svTime => svTime = svListener.at
      BY DEF SvStopInv, SvTypeOK
    <2>4. SvStopInv'
      BY <1>6, <2>1 DEF SvStops, SvStopInv, SvTypeOK
    <2>5. SvWindowInv'
      BY <1>6, <2>2, <2>3 DEF SvStops, SvWindowInv
    <2> QED
      BY <2>1, <2>4, <2>5
  <1>7. CASE SvTick
    <2>1. SvTypeOK' /\ SvFramesInv'
      BY <1>7 DEF SvTick, SvTypeOK, SvFramesInv
    <2>2. SvStopping' <=> SvStopping
      BY <1>7 DEF SvTick, SvStopInv, SvStopping, SvNever, SvTypeOK
    <2>3. SvStopInv'
      BY <1>7, <2>2 DEF SvTick, SvStopInv, SvNever, SvTypeOK
    <2>4. SvStopping => /\ svListener.is # "serving"
                       /\ \A c \in SvConns : svConn[c].is \in {"handshake", "open"} => svKind = "frames"
      BY <1>7 DEF SvTick, SvReady
    <2>5. SvWindowInv'
      BY <1>7, <2>2, <2>4 DEF SvTick, SvWindowInv
    <2> QED
      BY <2>1, <2>3, <2>5
  <1>8. CASE UNCHANGED svVars
    BY <1>8 DEF svVars, SvTypeOK, SvStopInv, SvWindowInv, SvFramesInv, SvStopping
  <1> QED
    BY <1>1, <1>2, <1>3, <1>4, <1>5, <1>6, <1>7, <1>8, SvConnStep, SvRequestStep DEF SvNext

\* During a stop, only a step that forces it aborts a request.
LEMMA SvAbortStep ==
  ASSUME SvIInv, SvNext, SvStopping, NEW c \in SvConns, NEW s \in SvStreams,
         svStream[c][s] # "aborted", svStream'[c][s] = "aborted"
  PROVE  svForced'
  <1>1. ASSUME NEW d \in SvConns, NEW t \in SvStreams, NEW state, SvBecomes(d, t, state),
               state # "aborted"
        PROVE  FALSE
    BY <1>1 DEF SvBecomes, SvIInv, SvTypeOK
  <1>2. ASSUME NEW d \in SvConns, NEW t \in SvStreams,
               \/ SvOpens(d, t) \/ SvComplete(d, t) \/ SvRefused(d, t) \/ SvFails(d, t)
               \/ SvResolved(d, t) \/ SvWritten(d, t)
        PROVE  FALSE
    BY <1>1, <1>2, Zenon DEF SvOpens, SvComplete, SvRefused, SvFails, SvResolved, SvWritten, SvEnds
  <1>3. ASSUME NEW d \in SvConns, SvBreaks(d)
        PROVE  FALSE
    BY <1>3, Zenon DEF SvBreaks, SvKeeps
  <1>4. CASE SvDrainOver \/ \E d \in SvConns : SvConnDrainOver(d)
    BY <1>4, Zenon DEF SvDrainOver, SvConnDrainOver
  <1> QED
    BY <1>2, <1>3, <1>4, Zenon DEF SvNext, SvAccept, SvHandshaken, SvHandshakeEnds, SvSeesStop, SvClosed,
       SvJoined, SvServes, SvLeaves, SvDrained, SvRebinds, SvStops, SvTick

\* A drain of the listener that began with the stop is forced by a complete query.
LEMMA SvForcedStep ==
  ASSUME SvIInv, SvDrainOver, SvStopping, svListener.at >= svStop,
         \A d \in SvConns : svConn[d].is # "draining"
  PROVE  \E c \in SvConns, s \in SvStreams :
            svStream[c][s] \in {"resolving", "writing"} /\ svStream'[c][s] = "aborted"
  <1>1. PICK c \in SvConns : SvLive(c)
    BY DEF SvDrainOver
  <1>2. svTime >= svListener.at + SvGrace /\ svListener.is = "draining" /\ ~SvReady
    BY DEF SvDrainOver
  <1>3. svConn[c].is \in {"open", "closing", "waiting"} /\ (svConn[c].is = "open" => svKind = "frames")
    BY <1>1, <1>2 DEF SvLive, SvReady, SvIInv, SvTypeOK, SvConnStates
  <1>4. svConn[c].is = "closing" => svTime >= svConn[c].at
    BY <1>2, SvWindow, SvAssumption DEF SvIInv, SvWindowInv, SvTypeOK
  <1>5. PICK s \in SvStreams : svStream[c][s] \in SvActive
    BY <1>2, <1>3, <1>4 DEF SvReady, SvBusy
  <1>6. svStream[c][s] \in {"resolving", "writing"}
    BY <1>2, <1>5 DEF SvReady, SvActive
  <1>7. svStream'[c][s] = "aborted"
    BY <1>5 DEF SvDrainOver, SvAborted, SvBusy
  <1> QED
    BY <1>6, <1>7

\* For any number of connections, requests and listener errors and any grace: a
\* stop cuts no complete query off before it is forced, and only unfinished
\* complete queries or a drain that began before it force it (Ingress::drain,
\* doh::connection, quic.rs drain_streams).
THEOREM StopIsSound == SvSpec => StopSound
  <1> DEFINE Finishes == SvStopping => \A c \in SvConns, s \in SvStreams :
               svStream[c][s] # "aborted" /\ svStream'[c][s] = "aborted" => svForced'
             ByWork == svForced' /\ ~svForced =>
               \/ \E c \in SvConns, s \in SvStreams :
                    svStream[c][s] \in {"resolving", "writing"} /\ svStream'[c][s] = "aborted"
               \/ \E c \in SvConns : svConn[c].is = "draining"
               \/ svListener.is = "draining" /\ svListener.at < svStop
  <1>1. SvIInv /\ [SvNext]_svVars => [Finishes]_svVars
    BY SvAbortStep
  <1>2. SvIInv /\ [SvNext]_svVars => [ByWork]_svVars
    <2> SUFFICES ASSUME SvIInv, SvNext, svForced', ~svForced PROVE ByWork
      OBVIOUS
    <2>1. SvDrainOver \/ \E c \in SvConns : SvConnDrainOver(c)
      BY Zenon DEF SvNext, SvAccept, SvHandshaken, SvHandshakeEnds, SvSeesStop, SvClosed, SvBreaks,
             SvJoined, SvOpens, SvComplete, SvRefused, SvFails, SvResolved, SvWritten, SvEnds, SvRest,
             SvServes, SvLeaves, SvDrained, SvRebinds, SvStops, SvTick
    <2>2. CASE \E c \in SvConns : SvConnDrainOver(c)
      BY <2>2 DEF SvConnDrainOver
    <2>3. CASE SvDrainOver
      <3>1. SvStopping /\ svListener.is = "draining"
        BY <2>3, Zenon DEF SvDrainOver
      <3>2. svListener.at < svStop \/ svListener.at >= svStop
        BY DEF SvIInv, SvTypeOK
      <3> QED
        BY <2>3, <3>1, <3>2, SvForcedStep
    <2> QED
      BY <2>1, <2>2, <2>3
  <1> QED
    BY <1>1, <1>2, SvInitIInv, SvNextIInv, PTL DEF SvSpec, StopSound, CompleteQueryFinishes, ForcedByWorkOnly
==============================================================================
