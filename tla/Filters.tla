------------------------------ MODULE Filters ------------------------------
(***************************************************************************)
(* Filter subscriptions: the catalog that selects one stored content per   *)
(* source (filter_subscriptions/store.rs), the single worker that prepares *)
(* and refreshes sources or builds a configuration candidate               *)
(* (service.rs, service/operations.rs, service/material.rs), and the       *)
(* handle that swaps the served policy (handle.rs).                        *)
(*                                                                         *)
(* A source is its fingerprint, a content its SHA-256, and a policy the    *)
(* function from the sources in use to the contents it was built from:     *)
(* what publication_digest tells apart.  Derived indexes are rebuilt on    *)
(* demand and are left out.  An orderly stop leaves the disk as a crash    *)
(* does.                                                                   *)
(***************************************************************************)
EXTENDS Naturals, FiniteSets

CONSTANTS FlSources,     \* fingerprints a configuration may name
          FlContents,    \* contents a download may bring
          FlNone,        \* no content
          FlPrepared,    \* unreferenced records the catalog keeps (16)
          FlRev,         \* bound: configuration revisions
          FlChanges,     \* bound: content revisions
          FlFaults       \* bound: storage faults and crashes

ASSUME FlAssumption == /\ FlNone \notin FlContents
                       /\ FlPrepared \in Nat

VARIABLES flCat,      \* catalog file: as visible (live), as surely durable (safe)
          flObjects,  \* contents stored under objects/
          flStore,    \* the writer: open, uncertain after a failed directory sync
          flConf,     \* saved configuration: revision, sources, rollback copy
          flSvc,      \* Service state of the running process
          flHandle,   \* served policy, and which generations requests still hold
          flWork,     \* the one worker's job
          flStale,    \* sources whose record outlived PREPARED_TTL
          flFrozen,   \* a software update froze the process
          flFaultCount

flVars == <<flCat, flObjects, flStore, flConf, flSvc, flHandle, flWork,
            flStale, flFrozen, flFaultCount>>

FlEmpty == [s \in FlSources |-> FlNone]
FlCatalog == [rev |-> 0, sel |-> FlEmpty, current |-> {}, previous |-> {}]
FlIdle == [kind |-> "none", step |-> "idle", rev |-> 0, content |-> 0,
           todo |-> {}, got |-> FlEmpty, policy |-> FlEmpty, use |-> {}]

\* Service::open before its first policy: an empty handle and no store.
FlDown == [up |-> FALSE, ready |-> FALSE, rev |-> 0, use |-> {}, previous |-> {},
           deferred |-> FALSE]
FlFresh == [policy |-> FlEmpty, current |-> FALSE, retired |-> FALSE]

\* A data directory whose empty catalog is durable and whose configuration
\* names no source; the process is not running yet.
FlInit ==
    /\ flCat = [live |-> FlCatalog, safe |-> FlCatalog]
    /\ flObjects = {}
    /\ flStore = [open |-> FALSE, uncertain |-> FALSE]
    /\ flConf = [rev |-> 0, use |-> {}, previous |-> {}, unsure |-> FALSE]
    /\ flSvc = FlDown
    /\ flHandle = FlFresh
    /\ flWork = FlIdle
    /\ flStale = {}
    /\ flFrozen = FALSE
    /\ flFaultCount = 0

-----------------------------------------------------------------------------
(* The store. *)

FlRecords(cat) == {s \in FlSources : cat.sel[s] # FlNone}
FlReferenced(cat) == cat.current \cup cat.previous
FlUnreferenced(cat) == FlRecords(cat) \ FlReferenced(cat)

\* verified_object: the record's bytes are there.
FlVerified(cat, s) == cat.sel[s] \in flObjects

\* WorkPin: what the running job keeps from collection.
FlPins == {flWork.got[s] : s \in FlSources} \cap FlContents

\* A record is dropped by clearing its selection.
FlDropped(cat, gone) ==
    [cat EXCEPT !.sel = [s \in FlSources |-> IF s \in gone THEN FlNone ELSE @[s]]]

\* trim_prepared: evict unreferenced, unpinned records that are not part of
\* this commit until at most FlPrepared remain.  Which of them is the oldest is
\* left open.  No result: "prepared slots are pinned".
FlTrimmed(cat, retain) ==
    LET loose == FlUnreferenced(cat)
        free == {s \in loose \ retain : cat.sel[s] \notin FlPins}
        excess == IF Cardinality(loose) > FlPrepared
                  THEN Cardinality(loose) - FlPrepared ELSE 0
    IN {FlDropped(cat, gone) : gone \in {g \in SUBSET free : Cardinality(g) = excess}}

\* commit_selection: a changed choice is a new content revision.
FlRevised(cat) ==
    [cat EXCEPT !.rev = IF cat.sel # flCat.live.sel THEN @ + 1 ELSE @]

\* commit_catalog_with_check: the rename is the commit point.  A failure before
\* it changes nothing; a failed directory sync after it leaves both versions
\* possible after a crash.
FlWrite(cat) ==
    \/ /\ flCat' = [live |-> cat, safe |-> cat]
       /\ flStore' = [flStore EXCEPT !.open = TRUE, !.uncertain = FALSE]
       /\ UNCHANGED flFaultCount
    \/ /\ flFaultCount < FlFaults
       /\ flFaultCount' = flFaultCount + 1
       /\ flCat' = [flCat EXCEPT !.live = cat]
       /\ flStore' = [flStore EXCEPT !.open = TRUE, !.uncertain = TRUE]

FlWriteFails ==
    /\ flFaultCount < FlFaults
    /\ flFaultCount' = flFaultCount + 1

\* collect_orphans: unpinned contents no record selects are removed.
FlKept == flObjects \cap ({flCat.live.sel[s] : s \in FlSources} \cup FlPins)

\* material::compile: the policy built from the selected contents of `use`,
\* with the job's own records in place of the catalog's.
FlSelected(cat, use, got) ==
    [s \in FlSources |-> IF s \notin use THEN FlNone
                         ELSE IF got[s] # FlNone THEN got[s] ELSE cat.sel[s]]

\* Every source in use has verified content.
FlComplete(policy, use) == \A s \in use : policy[s] \in flObjects

-----------------------------------------------------------------------------
(* Work: begin, execute, commit, fail (operations.rs). *)

\* The mutation permit is held through an admission, a configuration change and
\* a commit.
FlPermitFree == flWork.step \in {"idle", "fetching", "candidate"}

\* PolicyHandle::ensure_available.
FlAvailable == ~flHandle.retired

\* begin, up to its storage block: refresh one source, which may be configured
\* and disabled, or all that are in use, or prepare one that is not in use.  Every refusal changes nothing.
FlBegin ==
    /\ flSvc.up /\ ~flFrozen /\ FlPermitFree
    /\ flWork.kind = "none"
    /\ FlAvailable
    /\ \E kind \in {"refresh", "prepare"}, todo \in SUBSET FlSources :
          /\ \/ kind = "refresh" /\ (todo = flSvc.use \/ Cardinality(todo) = 1)
             \/ kind = "prepare" /\ Cardinality(todo) = 1
                /\ todo \cap flSvc.use = {}
          /\ flWork' = [FlIdle EXCEPT !.kind = kind, !.step = "roots",
                                      !.rev = flSvc.rev, !.todo = todo]
    /\ UNCHANGED <<flCat, flObjects, flStore, flConf, flSvc, flHandle, flStale,
                   flFrozen, flFaultCount>>

\* set_references: the configuration's sources and its rollback copy's.
FlRoots(cat) == [cat EXCEPT !.current = flSvc.use, !.previous = flSvc.previous]

\* sync_roots: read the actual catalog, make it durable, give it the current
\* roots.  An uncertain write ends the admission; the next one reconciles.
FlSyncRoots ==
    /\ flWork.step = "roots"
    /\ \/ \E cat \in FlTrimmed(FlRoots(flCat.live), {}) :
             /\ FlWrite(FlRevised(cat))
             /\ flWork' = IF flStore'.uncertain THEN FlIdle
                          ELSE [flWork EXCEPT !.step = "collect"]
       \/ /\ FlWriteFails
          /\ flWork' = FlIdle
          /\ UNCHANGED <<flCat, flStore>>
    /\ flStale' = flStale \cap FlRecords(flCat'.live)
    /\ UNCHANGED <<flObjects, flConf, flSvc, flHandle, flFrozen>>

\* The records a collection drops: unreferenced, unpinned, and expired or in
\* the way of a download.
FlExpired(pressure) ==
    {s \in FlUnreferenced(flCat.live) :
        /\ flCat.live.sel[s] \notin FlPins
        /\ pressure \/ s \in flStale}

\* Mutant: orphans are removed after an uncertain commit too.
FlAfterDropAlways == "sweep"

\* Only a durable catalog lets the collection go on to the objects.
FlAfterDrop == IF flStore'.uncertain THEN "failed" ELSE "sweep"

\* collect, once for expired records and, when a download lacks space, once
\* more under pressure: first the catalog without the records.
FlCollect ==
    /\ flWork.step \in {"collect", "pressure"}
    /\ LET gone == FlExpired(flWork.step = "pressure")
       IN \/ /\ gone = {}
             /\ flWork' = [flWork EXCEPT !.step = "sweep"]
             /\ UNCHANGED <<flCat, flStore, flFaultCount>>
          \/ /\ gone # {}
             /\ FlWrite(FlRevised(FlDropped(flCat.live, gone)))
             /\ flWork' = IF FlAfterDrop = "failed" THEN FlIdle
                          ELSE [flWork EXCEPT !.step = FlAfterDrop]
          \/ /\ gone # {}
             /\ FlWriteFails
             /\ flWork' = FlIdle
             /\ UNCHANGED <<flCat, flStore>>
    /\ flStale' = flStale \cap FlRecords(flCat'.live)
    /\ UNCHANGED <<flObjects, flConf, flSvc, flHandle, flFrozen>>

\* collect_orphans at admission, then the operation is registered with the
\* content revision it starts from.  A removal that fails ends the admission
\* with some orphans gone.
FlSweep ==
    /\ flWork.step = "sweep"
    /\ \/ /\ flObjects' = FlKept
          /\ \/ flWork' = [flWork EXCEPT !.step = "fetching", !.content = flCat.live.rev]
             \/ /\ FlExpired(TRUE) # {}
                /\ flWork' = [flWork EXCEPT !.step = "pressure"]
          /\ UNCHANGED flFaultCount
       \/ /\ FlWriteFails
          /\ \E rest \in SUBSET (flObjects \ FlKept) : flObjects' = FlKept \cup rest
          /\ flWork' = FlIdle
    /\ UNCHANGED <<flCat, flStore, flConf, flSvc, flHandle, flStale, flFrozen>>

\* begin_reserved collects orphans before it makes room.
FlStaged == FlKept

\* fetch_source: reuse a preparation, or stage, download, verify and install an
\* object and pin it; a server that answers "not modified" keeps the old one; a
\* failed source keeps its selection.
FlFetch ==
    /\ flWork.step = "fetching"
    /\ flWork.rev = flSvc.rev
    /\ \E s \in flWork.todo :
          /\ \/ /\ flWork.kind = "prepare" /\ s \notin flStale
                /\ FlVerified(flCat.live, s)
                /\ flWork' = [flWork EXCEPT !.todo = @ \ {s},
                                            !.got[s] = flCat.live.sel[s]]
                /\ UNCHANGED flObjects
             \/ \E c \in FlContents :
                   /\ flObjects' = FlStaged \cup {c}
                   /\ flWork' = [flWork EXCEPT !.todo = @ \ {s}, !.got[s] = c]
             \/ /\ FlVerified(flCat.live, s)
                /\ flObjects' = FlStaged
                /\ flWork' = [flWork EXCEPT !.todo = @ \ {s},
                                            !.got[s] = flCat.live.sel[s]]
             \/ /\ flObjects' = FlStaged
                /\ flWork' = [flWork EXCEPT !.todo = @ \ {s}]
    /\ UNCHANGED <<flCat, flStore, flConf, flSvc, flHandle, flStale, flFrozen,
                   flFaultCount>>

\* The end of execute: one aggregate of every source in use; writing its index
\* stages a file and so collects orphans.
FlCompile ==
    /\ flWork.step = "fetching" /\ flWork.todo = {}
    /\ flWork.rev = flSvc.rev
    /\ LET built == flWork.kind = "refresh" /\ flWork.got # FlEmpty
           policy == FlSelected(flCat.live, flSvc.use, flWork.got)
       IN /\ built => FlComplete(policy, flSvc.use)
          /\ flWork' = [flWork EXCEPT !.step = "candidate",
                            !.policy = IF built THEN policy ELSE flHandle.policy]
          /\ flObjects' = IF built THEN FlStaged ELSE flObjects
    /\ UNCHANGED <<flCat, flStore, flConf, flSvc, flHandle, flStale, flFrozen,
                   flFaultCount>>

\* fail: any error, the deadline or a close ends the operation; what it
\* installed and never selected stays as an orphan.
FlFail ==
    /\ flWork.step \in {"fetching", "candidate"}
    /\ flWork.kind # "config"
    /\ flWork' = FlIdle
    /\ UNCHANGED <<flCat, flObjects, flStore, flConf, flSvc, flHandle, flStale,
                   flFrozen, flFaultCount>>

\* commit, up to the rename: under the mutation permit, refused when frozen,
\* when the configuration or the content changed since the work began, or when
\* an object is missing (FlFail then ends it).
FlCommit ==
    /\ flWork.step = "candidate" /\ flWork.kind # "config"
    /\ ~flFrozen
    /\ flWork.rev = flSvc.rev /\ flWork.content = flCat.live.rev
    /\ ~flStore.uncertain
    /\ LET new == {s \in FlSources : flWork.got[s] # FlNone}
           cat == [flCat.live EXCEPT !.sel =
                      [s \in FlSources |-> IF s \in new THEN flWork.got[s] ELSE @[s]]]
       IN /\ \A s \in new : FlVerified(cat, s)
          /\ \E trimmed \in FlTrimmed(cat, new) : FlWrite(FlRevised(trimmed))
          /\ flStale' = (flStale \ new) \cap FlRecords(flCat'.live)
    /\ flWork' = [flWork EXCEPT !.step = "selected"]
    /\ UNCHANGED <<flObjects, flConf, flSvc, flHandle, flFrozen>>

\* PolicyHandle::publish: the old generation lives on while a request holds it.
FlSwapped(policy) ==
    IF policy = flHandle.policy THEN flHandle
    ELSE [policy |-> policy, current |-> FALSE, retired |-> flHandle.current]

\* commit, after the rename: swap the policy and close the operation.
FlPublish ==
    /\ flWork.step = "selected"
    /\ flHandle' = FlSwapped(flWork.policy)
    /\ flSvc' = [flSvc EXCEPT !.ready =
                 @ \/ (flWork.kind = "refresh" /\ flWork.got # FlEmpty)]
    /\ flWork' = FlIdle
    /\ UNCHANGED <<flCat, flObjects, flStore, flConf, flStale, flFrozen, flFaultCount>>

-----------------------------------------------------------------------------
(* Configuration candidates (service.rs), under the mutation permit. *)

\* prepare_config_owned: every source in use has verified content; a policy
\* that differs from the served one needs a free retired slot.
FlPrepareConfig ==
    /\ flSvc.up /\ ~flFrozen /\ FlPermitFree
    /\ flWork.kind = "none"
    /\ flConf.rev < FlRev
    /\ \E use \in SUBSET FlSources :
          LET policy == FlSelected(flCat.live, use, FlEmpty)
          IN /\ use = {} \/ flStore.open
             /\ FlComplete(policy, use)
             /\ policy # flHandle.policy => FlAvailable
             /\ flWork' = [FlIdle EXCEPT !.kind = "config", !.step = "prepared",
                               !.rev = flSvc.rev, !.policy = policy, !.use = use]
    /\ UNCHANGED <<flCat, flObjects, flStore, flConf, flSvc, flHandle, flStale,
                   flFrozen, flFaultCount>>

\* A validation, a failed bind or a failed save drops the candidate.
FlDropConfig ==
    /\ flWork.step = "prepared"
    /\ flWork' = FlIdle
    /\ UNCHANGED <<flCat, flObjects, flStore, flConf, flSvc, flHandle, flStale,
                   flFrozen, flFaultCount>>

\* The caller saves the configuration; its predecessor is the rollback copy.
\* `unsure` records that the catalog it was built on may not survive a crash.
FlSaveConfig ==
    /\ flWork.step = "prepared"
    /\ flConf' = [rev |-> flConf.rev + 1, use |-> flWork.use, previous |-> flConf.use,
                  unsure |-> flStore.uncertain]
    /\ flWork' = [flWork EXCEPT !.step = "saved"]
    /\ UNCHANGED <<flCat, flObjects, flStore, flSvc, flHandle, flStale, flFrozen,
                   flFaultCount>>

\* publish_config.
FlPublishConfig ==
    /\ flWork.step = "saved"
    /\ flSvc' = [flSvc EXCEPT !.use = flWork.use, !.previous = flSvc.use,
                              !.rev = flConf.rev, !.ready = TRUE]
    /\ flHandle' = FlSwapped(flWork.policy)
    /\ flWork' = FlIdle
    /\ UNCHANGED <<flCat, flObjects, flStore, flConf, flStale, flFrozen, flFaultCount>>

\* A change of the update settings alone: set_revision without a candidate.
FlTouch ==
    /\ flSvc.up /\ ~flFrozen /\ FlPermitFree /\ flConf.rev < FlRev
    /\ flConf' = [flConf EXCEPT !.rev = @ + 1, !.previous = flConf.use]
    /\ flSvc' = [flSvc EXCEPT !.rev = flConf.rev + 1]
    /\ UNCHANGED <<flCat, flObjects, flStore, flHandle, flWork, flStale, flFrozen,
                   flFaultCount>>

-----------------------------------------------------------------------------
(* Start, thaw, crash, and the rest of the world. *)

\* Service::open.  A frozen start only reads; otherwise the store opens, takes
\* the configuration's roots and, with a durable catalog, compiles (writing an
\* index collects orphans).  A store that fails to open, or an uncertain one
\* without a usable index, leaves the service without a policy.
FlOpen ==
    /\ ~flSvc.up
    /\ LET svc == [FlDown EXCEPT !.up = TRUE, !.rev = flConf.rev, !.use = flConf.use,
                                 !.previous = flConf.previous, !.deferred = flFrozen]
           policy == FlSelected(flCat'.live, flConf.use, FlEmpty)
           Ready(ok) ==
              /\ flSvc' = [svc EXCEPT !.ready = ok]
              /\ flHandle' = [FlFresh EXCEPT !.policy = IF ok THEN policy ELSE @]
           roots == [flCat.live EXCEPT !.current = flConf.use, !.previous = flConf.previous]
       IN \/ /\ flFrozen
             /\ UNCHANGED <<flCat, flStore, flObjects, flFaultCount>>
             /\ Ready(FlComplete(policy, flConf.use))
          \/ /\ ~flFrozen
             /\ \E cat \in FlTrimmed(roots, {}) : FlWrite(FlRevised(cat))
             /\ \/ /\ ~flStore'.uncertain
                   /\ flObjects' = flObjects \cap {flCat'.live.sel[s] : s \in FlSources}
                   /\ Ready(FlComplete(policy, flConf.use))
                \/ /\ flStore'.uncertain
                   /\ UNCHANGED flObjects
                   /\ \E ok \in BOOLEAN : Ready(ok /\ FlComplete(policy, flConf.use))
          \/ /\ ~flFrozen
             /\ FlWriteFails
             /\ UNCHANGED <<flCat, flStore, flObjects>>
             /\ Ready(flConf.use = {})
    /\ flStale' = flStale \cap FlRecords(flCat'.live)
    /\ UNCHANGED <<flConf, flWork, flFrozen>>

\* open_deferred, under the permit of the update coordinator: the store a frozen
\* start left closed opens with the current roots.  A failure keeps it deferred.
FlThaw ==
    /\ flSvc.up /\ flSvc.deferred /\ ~flStore.open /\ ~flFrozen /\ FlPermitFree
    /\ \E cat \in FlTrimmed(FlRoots(flCat.live), {}) : FlWrite(FlRevised(cat))
    /\ flSvc' = [flSvc EXCEPT !.deferred = FALSE]
    /\ flStale' = flStale \cap FlRecords(flCat'.live)
    /\ UNCHANGED <<flObjects, flConf, flHandle, flWork, flFrozen>>

\* A crash keeps one of the catalogs the directory may hold.
FlCrash ==
    /\ flSvc.up
    /\ flFaultCount < FlFaults
    /\ flFaultCount' = flFaultCount + 1
    /\ \E cat \in {flCat.live, flCat.safe} :
          /\ flCat' = [live |-> cat, safe |-> cat]
          /\ flStale' = flStale \cap FlRecords(cat)
    /\ flStore' = [open |-> FALSE, uncertain |-> FALSE]
    /\ flSvc' = FlDown
    /\ flHandle' = FlFresh
    /\ flWork' = FlIdle
    /\ UNCHANGED <<flObjects, flConf, flFrozen>>

\* A request takes or drops a generation.
FlRead ==
    /\ flSvc.up
    /\ flHandle' \in {[flHandle EXCEPT !.current = ~@], [flHandle EXCEPT !.retired = FALSE]}
    /\ flHandle' # flHandle
    /\ UNCHANGED <<flCat, flObjects, flStore, flConf, flSvc, flWork, flStale,
                   flFrozen, flFaultCount>>

\* A record passes PREPARED_TTL.
FlAge ==
    /\ \E s \in FlRecords(flCat.live) \ flStale : flStale' = flStale \cup {s}
    /\ UNCHANGED <<flCat, flObjects, flStore, flConf, flSvc, flHandle, flWork,
                   flFrozen, flFaultCount>>

\* The update coordinator freezes under the permit; a settled update thaws.
FlFreeze ==
    /\ FlPermitFree
    /\ flFrozen' = ~flFrozen
    /\ UNCHANGED <<flCat, flObjects, flStore, flConf, flSvc, flHandle, flWork,
                   flStale, flFaultCount>>

FlNext ==
    /\ \/ FlBegin \/ FlSyncRoots \/ FlCollect \/ FlSweep \/ FlFetch \/ FlCompile
       \/ FlFail \/ FlCommit \/ FlPublish \/ FlPrepareConfig \/ FlDropConfig
       \/ FlSaveConfig \/ FlPublishConfig \/ FlTouch \/ FlOpen \/ FlThaw \/ FlCrash
       \/ FlRead \/ FlAge \/ FlFreeze
    /\ flCat'.live.rev <= FlChanges

-----------------------------------------------------------------------------

\* Every content that a catalog able to survive a crash selects is stored, and
\* so is everything the running job has pinned: installation precedes
\* selection, and collection waits for a durable catalog (store.rs collect,
\* collect_orphans, begin_reserved).
FilterContentKept ==
    /\ \A cat \in {flCat.live, flCat.safe} :
          {cat.sel[s] : s \in FlRecords(cat)} \subseteq flObjects
    /\ FlPins \subseteq flObjects

\* A ready service serves the policy built from exactly the contents its
\* catalog selects for its configured sources, except between a commit point
\* and the swap that follows it (operations.rs commit, service.rs
\* publish_config).
FilterPolicyCurrent ==
    flSvc.ready /\ flWork.step \notin {"selected", "saved"} =>
        flHandle.policy = FlSelected(flCat.live, flSvc.use, FlEmpty)

\* A saved configuration names only sources whose content a restart will find,
\* unless it was saved on a catalog whose durability was uncertain.
FilterConfigUsable ==
    ~flConf.unsure =>
        \A s \in flConf.use : flCat.safe.sel[s] \in flObjects

\* Once the catalog or the configuration is committed, the swap that follows
\* finds no retired generation still held: publish cannot panic (handle.rs).
FilterSwapAccepted ==
    flWork.step \in {"selected", "saved"} /\ flWork.policy # flHandle.policy =>
        ~flHandle.retired

\* What is selected is stored, what is saved can be started, and what is
\* selected serves, through crashes and uncertain writes at every step.
FiltersKept ==
    FilterContentKept /\ FilterPolicyCurrent /\ FilterConfigUsable /\ FilterSwapAccepted
=============================================================================
