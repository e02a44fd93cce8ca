# PariNS: models, checks and proofs

TLA+ modules that model PariNS (a DNS server in Rust), the TLC configurations
that check them on small instances, and TLAPS proofs of the main invariants for
every instance. `PROJECT.json` lists components, runs, mutants, the map from
definitions to source lines, findings, hazards and theorems.

Source paths below are relative to `src/src/`.

## The system

PariNS answers DNS queries over UDP, TCP, DoT, DoH and DoQ. A query passes the
source limits and the filtering policy, is looked up in the cache, and on a miss
is resolved through upstreams or by recursion; equal misses share one exchange.
A management server changes the configuration, filter subscriptions and the
program itself, and the cache survives a clean restart in a one-use file.

| Part | What is hard | Module |
|---|---|---|
| Answer cache (`cache.rs`) | charges of removed entries that readers hold; two partitions; variants by client subnet; a clock read before the lock | `Cache` |
| Epoch fence (`cache.rs`) | old work admitted after an invalidation; lock order | `EpochFence` |
| ECS scopes (`ecs.rs`) | nested networks, two families, learned scopes | `EcsScope` |
| Learned sharing (`cache/sharing.rs`) | independent evidence, cooldown, a bounded table | `Sharing`, `SharingHistory` |
| Shared exchanges, refresh owner (`flight.rs`, `resolver.rs`, `resolver/refresh.rs`) | counter and flag are separate atomics; epochs; slots released exactly once | `Flights` |
| Clean snapshot (`cache_persistence.rs`, `runtime_lifecycle.rs`, `main.rs`) | crashes and power loss between steps; timeouts that leave a worker running | `CleanSnapshot` |
| Snapshot records, lifetimes (`cache/persistence.rs`, `cache.rs`) | two clocks, rounding at each restart; a load that fails half way | `SnapshotAge`, `Cache` |
| Upstreams (`upstreams.rs`, `upstreams/`, `upstream.rs`) | one permit budget for all races; only unsent work moves on | `UpstreamPool`, `UpstreamSend` |
| HTTP/3, DoT (`upstreams/h3.rs`, `tls/pool.rs`, `tls.rs`) | late outcome of a replaced connection; cancellation between permit, slot and exchange | `UpstreamH3`, `DotPool` |
| Recursion (`recursion.rs`, `recursion/outbound.rs`) | one bucket for all, refusals that are no failures, what of a validated result is sent | `Recursion`, `RecursionReply` |
| Source limits, login budget (`limits.rs`, `manage/auth_budget.rs`) | full tables, bounded sweeps, clock readings out of order | `Limits`, `AuthBudget` |
| Listeners and connections (`server.rs`, `ingress.rs`, `tls.rs`, `doh.rs`, `quic.rs`) | what a stop may and may not cut off, and within which time | `Serving` |
| DNS generations (`manage/runtime.rs`, `manage/dns_retry.rs`, `server.rs`, `runtime_health.rs`) | a step of an apply fails; late health of an old generation | `DnsRuntime` |
| Certificates (`tls/certificates.rs`, `manage/certificates.rs`) | files replaced one by one while several roles read them; coalesced signals | `Certificates` |
| Policy (`policy.rs`, `policy/`) | reduced rules, radix tree and validation agree | `Policy` |
| Filter subscriptions (`filter_subscriptions/`) | failed directory sync; material that is stale at commit; collection | `Filters` |
| Console (`manage/mod.rs`, `manage/account.rs`, `manage/live.rs`, `manage/turnstile.rs`) | what was read before a slow hash and used after it; shutdown order | `Console` |
| Observability storage (`storage/`, `query_log.rs`, `manage/live.rs`) | resets and clears while requests count and batches are written | `Statistics`, `LogStore` |
| Update checks (`manage/updates.rs`, `manage/update_checks.rs`) | conditional answers across restarts and rollbacks | `UpdateCheck` |
| Update transaction (`update/`, `manage/updates/`) | two processes, a crash at any step, late requests, an old status | `UpdateJournal`, `UpdateExecutor`, `UpdateCoordinator`, `UpdateSystem`, `UpdatePromise` |

How the parts interact. A request captures the cache epoch, joins a flight of
that epoch, and the work it shares admits its answer, which `EpochFence` refuses
when an invalidation came in between. `Cache` decides what is stored and consults
`Sharing`; both use `EcsScope`. `CleanSnapshot` decides which file is offered to
the restore that `Cache` models. The work of a flight goes to `UpstreamPool`,
which sends through `UpstreamSend` and its connections, or to `Recursion`. The
update coordinator and root's executor talk through a request file and a status
file only, and `UpdateSystem` composes them with the machine under both.

## Modules and the code

**EpochFence** (`cache.rs` admit, admit_failure, invalidate). Each lock, epoch
compare, store, sweep and release is a step. A fill is `Capture`,
`AdmitLock`, `AdmitCheck`, `AdmitStore`, or `FetchFails`; an invalidation is
`StartClear`, `LockShard` once a shard in index order, `Advance`, `Sweep` once a
shard, `Finish`. `tick`, `began` and `cleared` are history for `Fenced`.

**EcsScope** (`ecs.rs`, `scopes_overlap` of `cache.rs`). Scopes as records;
addresses are bit sequences of `Width` bits, and networks are their prefixes.

**Sharing, SharingHistory** (`cache/sharing.rs`). `Sharing` holds the pure
operations of the table; `SharingHistory` drives one table with every sequence
of observations and invalidations and logs them.

**Cache** (`cache.rs`, loading of `cache/persistence.rs`). One shard; each action
is one critical section of its lock. An answer is its fingerprint, partition,
fresh lifetime and charge. `Readers` hold entries beyond the lock, which keeps
their charge after removal. `Skew` lets an operation run with an earlier clock
reading. The epoch is absent: `EpochFence` shows an invalidation is one step and
that stale work stores nothing. Counters nothing reads are left out; `useful`,
`renewed` and `heard` are there for properties.

**Flights** (`flight.rs`, `resolver.rs`, `resolver/refresh.rs`). Hold counter and
`sent` flag change in steps of their own. Callers are requests that miss, or hit
an entry due for prefetch. Keys whose lookups bypass the cache (`Bypassing`) are
never filled or prefetched, so their last caller drops sent work without a
handover; requests that bypass sharing have no group and are left out. `TaskEnds` is the drop of the task's hold and of its completion.
Choosing the registry is one step with locking it.

**CleanSnapshot** (`cache_persistence.rs`, `runtime_lifecycle.rs`, `main.rs`, the
directory lock of `storage/database.rs`). Runs are numbered; a snapshot is the
number of the run that saved it. `clean` is the directory as processes see it,
`maybe` every state a power loss may return to. A blocking worker abandoned by a
timeout goes on until its process is gone. That a rename or an unlink may be
lost until the directory is synced is an assumption about the file system.

**SnapshotAge** (`prepare_response`, `write_clean_snapshot`,
`restore_clean_snapshot`). One answer of two records through any number of clean
restarts. Time is in ticks of half a second, so every rounding happens. The two
clocks are read one after the other (`gap`), and the wall clock may be set while
the server is down; `agSlip` is the history of both.

**Limits, AuthBudget** (`limits.rs`, `manage/auth_budget.rs`). A step is one hold
of the table's lock. A caller brings a time it read up to a bounded skew earlier.
The scan of a full table visits a bounded number of entries, which ones is free.

**DnsRuntime** (`manage/runtime.rs`, `manage/dns_retry.rs`, `server.rs`,
`runtime_health.rs`). A configuration is its revision. Apply, its fallback to the
previous generation, the retry task with its check that it is still due, listener
failures and health publication are steps. Validation that fails before the
running generation is touched changes nothing and is no step; times are free.

**Serving** (`ingress.rs`, `server.rs`, `tls.rs`, `doh.rs`, `quic.rs`). One listener,
its connections and streams, and a stop. Time is in halves of the grace; a task
that is ready runs before time passes, which is an assumption on the scheduler
(it is what makes a bound on time meaningful). UDP is left out. `drain` looks at
the stop when its grace ends, so a drain keeps the time it began.

**Certificates** (`tls/certificates.rs`, the reload of `server.rs`, signal loops,
`manage/certificates.rs`). The contents of a file are a version, and a pair is
valid when both versions agree. All roles name the same files.

**Console** (`manage/mod.rs`, `account.rs`, `turnstile.rs`, `live.rs`, `filters.rs`). A
request is a process; what it read before an await is a field of its record. Host,
Origin and JSON checks and wrong passwords end a request (`CnDrop`).

**Filters** (`filter_subscriptions/`). Catalog on disk and in memory, object files,
the one worker's task, the served policy. A refresh takes all sources in use or one
by its id, in use or not. Contents are model values. Derived
indexes, disk quota and rate limits are left out; a closed service behaves as a
failed or crashed one.

**Statistics, LogStore** (`storage/`, `query_log.rs`, `manage/live.rs`). The two
halves of one worker and of one transaction, in two modules. One counter stands
for a whole `Snapshot`. A failed SQLite transaction changes nothing. Size trimming
is `LgCleanup`. An open publishes the log epoch before its last steps, so one that
fails there leaves it published (`LgOpenEpoch`, `LgOpenFails`). A push to the live
reader may leave out the oldest entries of an answer for their size; `told` is the
row up to which the reader was told to reload.

**UpstreamSend, UpstreamPool, UpstreamH3, DotPool**. `UpstreamSend` follows one query
over the addresses and protocols of one endpoint and marks each time it leaves
the program; `UpstreamPool` chooses endpoints, races them and keeps the trace;
`UpstreamH3` is one endpoint's connection and cooldown shared by attempts;
`DotPool` is slots, permits and idle connections. The length of a cooldown and
the idle timeout are free.

**Recursion, RecursionReply** (`recursion.rs`, `recursion/outbound.rs`). The
recursor (hickory) is external: which queries it makes and what it finds are free.

**Policy** (`policy.rs`, `policy/`). `PoCanonical` is the reduction, `PoBuilt` the
compressed radix tree of `radix.rs` with one symbol a label, `PoWalked` the
validation of `radix_disk.rs`; the reference is a lookup in all rules.

**UpdateCheck** (`manage/updates.rs`, `manage/update_checks.rs`, the plan of
`manage/updates/operation.rs`). A release is its version and so is its entity
tag. `ucBack` is history: the newest program that was rolled back.

**UpdateJournal, UpdateExecutor, UpdateCoordinator, UpdateSystem, UpdatePromise**
(`update/`, `manage/updates/`, and the units in `src/deploy/`). The executor steps
where the code persists the journal, calls systemctl or waits; a persist may
write nothing, or the journal without the status, which stands both for an I/O
error and for dying there. The coordinator is its poll loop, its job and the
files it keeps. An operation identifier stands for the pair of operation ID and
phase nonce, a program for an executable with its build identity. Cooldown, plan
expiry, unit files and disk space are free choices; no fault strikes the
installer's session. `UpdatePromise` is the abstract specification: one operation
open at a time, fenced or past the point of no return, the installed identity
changed by success or installation only. `ImplementsPromise` maps the journal to
it.

`MC*` modules define values for the constants, and the symmetry sets. `MCTraffic`,
`MCStores` and `MCLive` also put independent parts side by side: a behaviour picks one part
at its start and moves only that part, so the states are the sum of the parts'
states, and every invariant is checked of the part it is about. Parts share no
variable; the two model values they share are never compared between parts, so
one symmetry set is sound for all of them. `MCLive`, whose properties are about what
eventually happens, declares none.

## Runs

| Run | Checks | Instance | Distinct states |
|---|---|---|---|
| `live` | `Fenced`, `InvalidationReturns`, `WorkEnds` (`RequestsEnd`, `SlotsFreed`) | `EpochFence`: 2 shards, 1 fill, 2 invalidations; `Flights`: 2 requests, 1 key | 117 thousand |
| `cache_books` | `BudgetsKept` (`BooksBalance`, `WithinLimits`), `RecencyAgrees`, `RefreshSettledOnce` | 2 keys, restore of 2 records, 1 reader | 294 thousand |
| `cache_scopes` | `OneVerdict`, `NothingObsolete`, `LearnedIsVouched`, `NegativesEvictNoPositive` | 1 key, 3 subnets (two nested), sharing on, late clocks | 141 thousand |
| `flights` | `HoldsExact`, `OneFlight`, `SlotsMatchTasks`, `SentWorkAccounted` | 2 requests, 2 keys (one bypasses the cache), 1 refresh slot, 1 invalidation | 830 thousand |
| `flights_sent` | `SentWorkHandedOver`, violated | 2 requests, 1 key | until found |
| `clean_snapshot_late` | `NoFileBeside`, violated | 2 runs | until found |
| `update` | `InstalledKept` (`InstalledProgramKept`, `InstalledAtCommitPointOnly`), `OutcomesReliable` (`FenceIrreversible`, `OutcomeReachesApplication`, `PublishedOutcomeStands`), `ConfigurationPinned`, `CommittedEnds`, `OutcomeTakenUp`, `ImplementsPromise` | 2 operations, 1 new program, 1 fault, 1 installation | 690 thousand |
| `update_late` | `ClosedIsNotUnderWay`, violated | 1 operation, 1 new program, 1 fault, no installation | until found |
| `serving_forced` | `OnlyStopDrainForces`, violated | 1 connection, 1 listener error | until found |
| `traffic` | see below | thirteen parts | 1.3 million |
| `stores` | see below | seven parts | 3.1 million |
| `policy_walk` | `BuiltIndexWalks`, violated | 3 rules on 4 names | until found |

A property with others in parentheses is their conjunction: one statement about one
part, whose clauses have a name and a comment of their own in the module. The
checks of the parts below are such conjunctions too.

Run `traffic`:

| Part | Checks | What they say |
|---|---|---|
| sharing | `SharingSound` (`EvidenceDisjoint`, `SharedIsEarned`, `RevocationRests`) | sharing is earned by disjoint, current and equal evidence of two spans, and revocation rests |
| limits | `LimitsKept` (`LimitBooksKept`, `LimitDebtKept`) | permits keep their entry; a full table and late clocks give a source no more than its rate and burst |
| attempts | `AuthBudgetKept` (`AttemptsLimited`, `AttemptBooksKept`) | no window holds more attempts than allowed |
| runtime | `RuntimeSound` (`RuntimeServesSaved`, `RuntimeFailureVisible`, `RuntimeReadyIsServing`, `RuntimeNotAbandoned`, `RuntimeOneGeneration`) | what serves is what is saved, failures show, a DNS that should run is running, being started or due for a retry |
| certificates | `CertificatesSound` (`RolesShareIdentity`, `ReloadIsWhole`, `SignalNotLost`, `ImportKept`) | one identity for all roles, no half reload, no lost signal, imports survive |
| send | `NeverResent` | a query is sent once, except for the TCP retry of a truncated answer and the single DoT reconnect |
| h3 | `CooldownSound` (`LateOutcomeIgnored`, `BackoffPerCooldown`) | outcomes of replaced connections change nothing; one backoff step per cooldown |
| pool | `UpstreamChoiceSound` (`WeightedShares`, `ExtraPermitsKept`, `RaceKeepsAnswer`, `TraceKeepsTerminal`) | exact weighted shares, no lost permit, no lost answer, a trace that explains the result |
| dot | `DotPoolSound` (`DotSlotsEnough`, `DotConnectionsClean`) | a permit always finds a slot; only clean connections are used again |
| recursion | `RecursionSound` (`OutboundRateCapped`, `ResolutionsCounted`, `RefusalIsNoFailure`) | the rate is a hard cap, counters balance, a refusal is not taken for an authority's failure |
| reply | `RecursiveReplySound` | what a client gets of a validated result |
| policy | `PolicySound` (`PolicyAnswersKept`, `ChainChecked`) | the reduced index answers as all rules; every name of a chain is checked |
| serving | `StopSound` (`CompleteQueryFinishes`, `ForcedByWorkOnly`) | a stop cuts no complete query before it is forced, and only work, or a drain older than the stop, forces it |

Run `stores`:

| Part | Checks | What they say |
|---|---|---|
| snapshot | `SnapshotKept` (`RestoredOnce`, `FileBesideIsLate`, `RestoredIsLatest`, `FoundIsComplete`) | a snapshot is restored at most once, complete, and is the last serving run's |
| age | `SnapshotAgesKept` | restarts extend no deadline and no TTL |
| filters | `FiltersKept` (`FilterContentKept`, `FilterPolicyCurrent`, `FilterConfigUsable`, `FilterSwapAccepted`) | referenced content stays on disk, the served policy is the catalog's, a saved configuration can be built again, no publication panics |
| console | `ConsoleSound` (`SessionsCurrent`, `RevisionsKept`, `DrainedBeforeTerminal`) | sessions rest on current credentials, no lost update, shutdown drains before it ends |
| statistics | `StatisticsExact` (`TotalsExact`, `HistoryExact`, `StoredTotalsGrow`) | every request is counted once through resets, clears, failed writes and restarts |
| logs | `LogsKept` (`ClearedStaysCleared`, `LogQueueBooksKept`, `LiveLogComplete`, `LiveLogOnce`) | cleared entries stay away; a live reader gets every entry or is told to reload past it, and nothing twice |
| check | `ChecksSound` (`UpToDateUnlessRolledBack`, `ChecksSpaced`, `AcceptedIsNewer`) | checks keep their distance, accepted plans go forward |

Why the bounds are enough to be interesting:

- `live`: fills meet each other only at a shard's lock, so one fill suffices for
  TLC; two invalidations, of one key or of everything, can wait for each other. The
  proofs cover any number. `Flights` is as in `flights`, with one key.
- `cache_books`: three units of positive and two of negative budget, with charges
  of one and two, so one admission can evict two entries or be refused; the
  reader can hold an entry that is evicted. `MaxClock` bounds entries ever made.
- `cache_scopes`: one network lies inside another, one beside; lifetimes 0, 1, 2
  against a clock of three readings and a skew of one.
- `flights`: two requests fill a group (`MaxWaiters`) and one key fills the
  registry (`MaxGroups`), so the refusals happen. One of the two keys bypasses the
  cache; callers are symmetric.
- `update_late`: one operation and one application restart are enough for the trace.
- `update`: a second operation is the first that can be refused beside, or overwrite,
  an open one; the fault can strike any persist, start or recovery, and boots and
  application crashes come out of the same bounded work. An instance with more
  faults and programs (2.3 million states) was checked once and passes too.
- `traffic`: sharing's four events are two samples, a conflict and one more; tables
  of limits and attempts hold fewer sources than there are; three generations, of
  which one falls back; three racing endpoints with two queries; more DoT requests
  than slots; three rules, of which one covers and one is covered; two connections
  of which one may be idle.
- `stores`: a third run of the snapshot is the first that could restore something
  twice; one prepared slot and two sources make preparation compete; a queue of two
  and four writes fill and evict a log of three rows, and three rows exceed both caps
  of a live answer, two entries and any size; two restarts and a three-second TTL
  round an age four times.

`update`, `traffic`, `stores` and the violated runs over their modules
(`update_late`, `serving_forced`, `policy_walk`) switch deadlock checking off, since
operations, clocks and histories are bounded and the modelled parts may be at rest.

Every property of a passing run has a mutant: a plausible bug in one definition
under which TLC finds the property violated. Mutated forms stand before the
definitions they change. A conjunction has one mutant, which breaks one of its
clauses; `PROJECT.json` does not list one for each clause.

### Fairness

- `EpochFence`: running code goes on (weak), and a mutex that keeps being
  released is eventually acquired (strong, on `LockShard`). Fills need not start.
- `Flights`: a request that can run or waits for a lock takes its step; an
  exchange ends by its deadline (`WorkDone` with no admission); a refresh task
  that is done ends. Nothing is assumed about clients leaving, queries being
  sent, or time passing.
- `UpdateSystem`: weak fairness of the helper once it is started (systemd runs what
  the path unit or the boot triggers, and `ExecStopPost` after each run), of the
  application's poll loop and its job, of an installer that has begun to register,
  and of a save that holds the permit (each ends by itself). Crashes, boots,
  requests and installations need not happen.

## Proofs

`EpochFenceProofs`, for any number of shards, keys, fills and invalidations, from
`FenceAssumption`: `TypeCorrect`, `FillsAreFenced` (`Fenced`) and
`SweepsAreAtomic` (`InvalidationAtomic`). The types and `InvalidationAtomic` are
proved only; no run repeats them. `Fenced` alone is not inductive: a fill
past its compare could still store. The inductive invariant adds who holds which
lock (`LockInv`), that the compare still holds at the store (`CompareInv`), that
a fill older than an invalidation which advanced the epoch holds an older epoch
(`OlderInv`), that swept shards hold nothing selected and older (`SweptInv`), and
bounds on the history (`HistoryInv`).

`CleanSnapshotProofs`, for any number of runs, from `MaxRunsAssumption`:
`TypeCorrect`, `SnapshotsRestoredOnce`, `FilesBesideAreLate`,
`RestoresAreLatest`, `FoundAreComplete`, and `SnapshotsAreKept` for the four
together (`SnapshotKept`, as run `stores` checks it). The invariant says the lock is with the
newest run that has not let it go (`LockInv`), a run publishes once
(`PublishedInv`), what the owner's worker has made of the directory (`DirInv`),
that a snapshot which is not late is no older than a run that served
(`LatestInv`), that one restored or about to be is no longer in the directory
(`OnceInv`), and that names refer to synced data (`FlushedInv`).

`UpstreamProofs`, for any number of addresses, attempts, requests, slots and
records, from `UsAssumption`, `UhAssumption`, `DpAssumption` and `RrAssumption`:

- `QueriesAreNotResent` (`NeverResent`). The invariant `UsSendsInv` ties the number
  of transmissions to where the query is: nothing was sent before it is handed
  over, unless it follows a truncated answer or a closed reused connection, and
  those two run on a transport that no failure leaves for another address.
- `CooldownFollowsConnection` (`CooldownSound`). An attempt observes a connection that
  existed when it looked (`UhObservedInv`), so an outcome never reaches a later one.
- `PoolIsSound` (`DotPoolSound`). Busy slots are those of the leases, one each
  (`DpLeaseInv`); every permit is in the semaphore or with a holder
  (`DpPermitInv`), so a holder without a lease finds a free slot by counting; a
  connection is in one place, and dirty only while in use (`DpConnInv`).
- `RepliesAreSound` (`RecursiveReplySound`), from what `RrWeakest` says of the weakest
  validation among the records of a reply.

`RuntimeProofs`, for any number of listeners, revisions, generations, roles,
connections and requests, from `RtAssumption`, `CeAssumption` and `SvAssumption`:

- `RuntimeIsSound` (`RuntimeSound`). What runs is the latest generation and serves
  what is saved, and nothing runs in the phases that may start one (`RtPhaseInv`);
  the published state is between the latest failure and the latest generation
  (`RtPublishedInv`).
- `CertificatesAreSound` (`CertificatesSound`). Roles that have read a file have read
  the same version of it (`CeReadInv`), a signal that started no reload is pending
  (`CeSignalInv`), and no identity has two complete files (`CeImportInv`).
- `StopIsSound` (`StopSound`). A closing window counts from the stop or from the moment
  the listener left, and so ends within the listener's grace (`SvWindowInv`).

Only model-checked: the properties of all other modules, the refinement
`ImplementsPromise`, and all liveness (`InvalidationReturns`, `WorkEnds`,
`CommittedEnds`, `OutcomeTakenUp`). Liveness under fairness, and
induction over data, are outside what the installed provers do. `Policy` builds and walks
its tree with RECURSIVE operators, which no proof can reach; it stands alone, so
proofs can be added to every other module.

## Findings

- **Sent work can be cancelled without being offered** (`flights_sent`).
  `Drop for Waiting` (`resolver.rs:851`) loads `sent` before it leaves the hold.
  Another holder can send and leave in between; the caller that read false then
  drops the last hold. The comment at `resolver.rs:817` says a caller that leaves
  last after the send hands the work over. The effect is a lost cache fill.
  `SentWorkAccounted` finds no other such case in the instance of run `flights`.
- **A timed-out save can publish beside a running successor**
  (`clean_snapshot_late`). After the timeout the runtime directory lock is
  dropped while the abandoned save may still run for main's shutdown timeout. The
  comment at `runtime_lifecycle.rs:159` says the lock is kept until the process
  exits. `FileBesideIsLate` shows no other file can be there, and `RestoredOnce`
  holds all the same.
- **An operation is closed while root begins it** (`update_late`). Root compares the
  invocation of a Stage request with the running service, then begins the
  operation. When the application restarts in between and reads the status that
  was published before, `reconcile` closes the operation as superseded
  (`manage/updates/operation.rs:305`), and root goes on to stage it. Nobody aborts
  it; until root's state is repaired, later operations are refused. The module
  comment of `update/executor/mod.rs` (line 11) says a new invocation drives the
  Abort arbitration for unfinished old work.
- **A drain older than the stop forces it** (`serving_forced`). `Ingress::drain`
  (`ingress.rs:76`) looks at the stop when its grace ends. A listener that left its
  accept loop on an error, or a QUIC connection that was lost, drains from before
  the stop; when its grace ends in the stop it forces it, with the stop's own grace
  not over and possibly no query unfinished. The comment at `quic.rs:220` says only
  the listener's drain counts the grace in a stop and that a connection that ends
  outside a stop drains without forcing, `doh.rs:7` that an error exit outside a stop
  drains without forcing. `ForcedByWorkOnly` shows it is the only exception.
- **A built policy index fails its own validation** (`policy_walk`). `walk`
  (`policy/radix_disk.rs:374`) compares an exact block rule with the suffix rule of
  a strict ancestor even if its own name has a suffix rule, which is its nearest
  cover. For suffix `a` (slot 1), suffix `b.a` (slot 2) and exact `b.a` (slot 1) the
  reduction keeps all three, and `publication_digest` panics on the index
  (`policy/radix_disk.rs:58`). `PolicyAnswersKept` shows that lookups in such an
  index are right.

Observations that contradict no statement of the repository, or only in a corner,
and have no run of their own:

- After an update is rolled back the trial program has dropped the candidate but
  kept the entity tag, so the previous program's next check gets "not modified",
  has no candidate to revalidate and reports `up_to_date` (`manage/updates.rs`, `open`
  and `perform_check_with`). `UpToDateUnlessRolledBack` shows it is the only way.
- A configuration can be saved on a filter catalog whose durability is uncertain:
  `prepare_config` does not look at `uncertain` (`flConf.unsure` in `Filters`).
- If a thaw fails to open the filter store once and later work opens it, `deferred`
  stays set and each later thaw fails on the process's own directory lock.
- Health stays ready while a generation drains (`DnsRuntime`).
- A live socket of a revoked session serves on while another upgrade of the same
  session still holds a copy of it (`CnRevoked`).
- The generation guard of `runtime_health.rs` and the sequence guard of stored totals
  never refuse anything in the models: they are defensive. So is the `expect` in
  `tls/pool.rs`, which `DotSlotsEnough` shows unreachable.

## Not modelled

- Configuration (`config.rs`), filter settings and release manifests: pure validation
  of parsed text, without state. Their outcome is a free choice where it matters.
- Wire formats: DNS messages (`protocol.rs`, most of `ecs.rs`), TCP framing, UDP packet
  information, HTTP routing, cookies and assets, SQL queries for search and export.
  They are conversions whose errors end one request.
- TLS, QUIC, HTTP/2 and HTTP/3, the recursor and SQLite are libraries; the models
  take from them what the code relies on.
- UDP listeners and the back-off of `transport/accept.rs`: a loop that holds no state.
- Metrics, decision labels and QUIC diagnostics: counters that nothing reads back.
- The resolver's sequential pipeline (`resolver.rs`) beyond capture, sharing, waiting
  and refresh: each stage it calls has a module, their order has no interleaving
  of its own.
- The permits of password hashing, the filter disk quota and derived index files.

The definitions map about 14,000 lines of the source, 34.5% of all lines with the
tests in their files counted.

## Plan

Proofs next: `HoldsExact` of `Flights`, `WithinLimits` of `Cache`, the books of
`Limits`, and the executor's refinement of `UpdatePromise`.
