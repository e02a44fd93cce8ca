------------------------------- MODULE Cache -------------------------------
(***************************************************************************)
(* One shard of the DNS cache (cache.rs): lookup, admission of answers and *)
(* of upstream failures, invalidation, and the restore of a clean snapshot *)
(* before the shard serves.  Each action is one critical section of the    *)
(* shard lock.  Work whose captured epoch is no longer current stores      *)
(* nothing: module EpochFence models that check, and shows that an         *)
(* invalidation is one step, so neither the epoch nor stale work is here.  *)
(*                                                                         *)
(* An answer is its fingerprint, partition, fresh lifetime (0 when it      *)
(* cannot be admitted) and charge.  Counters nothing reads are left out.   *)
(***************************************************************************)
EXTENDS Sharing

CONSTANTS
    Keys,            \* cache keys of this shard
    Subs,            \* outgoing client subnets that ask
    Answers,         \* answers an upstream gives
    Filters,         \* invalidation requests: [keys, scope]
    Readers,         \* lookups that hold an entry outside the lock
    MaxEntries,      \* Partition.max_entries
    MaxBytes,        \* Partition.max_bytes
    MaxVariants,     \* cache.max_variants
    StaleRetention,  \* stale.retention_secs, 0 when stale answers are off
    FailureLifetime, \* min(servfail_ttl_secs, negative_ttl_cap_secs)
    FailureCharge,   \* charge of a stored SERVFAIL
    SharingEnabled,  \* ecs_sharing.enabled
    Origins,         \* {FALSE}, or {FALSE, TRUE} with prefetch refreshes
    Records,         \* records in the clean snapshot at startup
    Skew,            \* bound: how old a clock reading is once the lock is held
    MaxTime,         \* bound: the monotonic clock stops here
    MaxClock         \* bound: uses and admissions

Parts == {"positive", "negative"}
Part(negative) == IF negative THEN "negative" ELSE "positive"

ASSUME CacheAssumption ==
    /\ Subs \subseteq Subnets
    /\ \A a \in Answers :
         /\ DOMAIN a = {"fp", "lifetime", "negative", "charge"}
         /\ a.lifetime \in Nat /\ a.charge \in Nat \ {0} /\ a.negative \in BOOLEAN
    /\ MaxEntries \in [Parts -> Nat]
    /\ MaxBytes \in [Parts -> Nat]
    /\ {MaxVariants, FailureCharge} \subseteq Nat \ {0}
    /\ {StaleRetention, FailureLifetime, Records, Skew, MaxTime, MaxClock} \subseteq Nat
    /\ SharingEnabled \in BOOLEAN
    /\ Origins \subseteq BOOLEAN

VARIABLES
    now,      \* the monotonic clock
    shard,    \* Shard and its partitions: entries is the buckets index, by id
    table,    \* Shard.sharing
    reading,  \* the Arc<Entry> each lookup holds
    useful,   \* refresh_useful
    renewed,  \* entries written by a refresh (history)
    phase,    \* startup: authenticating, loading, then serving
    position, \* records of the snapshot visited
    heard     \* Shard.clock when a subnet was last given an answer (history)

vars == <<now, shard, table, reading, useful, renewed, phase, position, heard>>
startup == <<phase, position>>

Nobody == [id |-> 0, negative |-> FALSE, charge |-> 0]

Init ==
    /\ now = 0
    /\ shard = [entries |-> <<>>, lru |-> [p \in Parts |-> <<>>],
                charged |-> [p \in Parts |-> 0], clock |-> 0,
                learned |-> 0, failures |-> 0, unused |-> 0]
    /\ table = <<>>
    /\ reading = [r \in Readers |-> Nobody]
    /\ useful = 0
    /\ renewed = 0
    /\ phase = IF Records = 0 THEN "serving" ELSE "authenticating"
    /\ position = 0
    /\ heard = [k \in Keys |-> [sub \in Subs |-> 0]]

(***************************************************************************)
(* Entries.  t is the instant the operation was given, read by its caller  *)
(* before it waited for the lock: saturating_duration_since.               *)
(***************************************************************************)
Age(e, t) == IF t > e.inserted THEN t - e.inserted ELSE 0
Fresh(e, t) == Age(e, t) < e.lifetime
Retained(e, t) == Age(e, t) < e.retention

Clocks == {t \in (now - Skew)..now : t >= 0}

Bucket(s, k) == {i \in DOMAIN s.entries : s.entries[i].key = k}
Overlapping(s, k, scope) == {i \in Bucket(s, k) : ScopesOverlap(s.entries[i].scope, scope)}
\* Mutant: a removed entry returns its charge although a reader holds it.
NeverHeld(i) == FALSE

Held(i) == \E r \in Readers : reading[r].id = i

\* Shard::select: the candidates, and the best of them by freshness, prefix
\* length and, last, place in the bucket.
Candidates(k, sub, t, stale) ==
    {i \in Bucket(shard, k) :
       LET e == shard.entries[i] IN
       /\ Matches(e.scope, sub)
       /\ Retained(e, t)
       /\ Fresh(e, t) \/ stale
       /\ ~(stale /\ e.failure)}

Outranks(i, j, t) ==
    LET a == shard.entries[i]
        b == shard.entries[j]
    IN  \/ Fresh(a, t) /\ ~Fresh(b, t)
        \/ /\ Fresh(a, t) = Fresh(b, t)
           /\ \/ PrefixLen(a.scope) > PrefixLen(b.scope)
              \/ PrefixLen(a.scope) = PrefixLen(b.scope) /\ i >= j

Select(ids, t) == CHOOSE i \in ids : \A j \in ids : Outranks(i, j, t)

(***************************************************************************)
(* Removal, by every path: settle a refresh nobody used, keep the counts,  *)
(* drop both index entries; the charge goes with the last handle.          *)
(***************************************************************************)
RemoveIds(s, ids) ==
    LET of(P(_)) == {i \in ids : P(s.entries[i])}
        freed(p) == {i \in ids : Part(s.entries[i].negative) = p /\ ~Held(i)}
    IN  IF ids = {} THEN s ELSE
        [s EXCEPT
          !.entries = Restrict(@, DOMAIN @ \ ids),
          !.lru = [p \in Parts |-> SelectSeq(@[p], LAMBDA i : i \notin ids)],
          !.charged = [p \in Parts |->
             @[p] - FoldSet(LAMBDA i, sum : s.entries[i].charge + sum, 0, freed(p))],
          !.learned = @ - Cardinality(of(LAMBDA e : e.scope.kind = "learned")),
          !.failures = @ - Cardinality(of(LAMBDA e : e.failure)),
          !.unused = @ + Cardinality(of(LAMBDA e : e.refreshed))]

\* Cache::prune
Prune(s, k, t) == RemoveIds(s, {i \in Bucket(s, k) : ~Retained(s.entries[i], t)})

(***************************************************************************)
(* Cache::place.  The new entry's id is the next clock value.              *)
(***************************************************************************)

Fits(s, p, charge) ==
    /\ Len(s.lru[p]) < MaxEntries[p]
    /\ s.charged[p] + charge <= MaxBytes[p]

\* The n least recently used entries of a partition.
LruTail(s, p, n) == ToSet(SubSeq(s.lru[p], Len(s.lru[p]) - n + 1, Len(s.lru[p])))

\* The eviction loop stops at the first n that makes room, or with nothing left.
EvictFor(s, p, charge) ==
    LET enough == {n \in 1..Len(s.lru[p]) : Fits(RemoveIds(s, LruTail(s, p, n)), p, charge)}
        n == IF enough = {} THEN Len(s.lru[p]) ELSE Min(enough)
    IN  IF Fits(s, p, charge) THEN s ELSE RemoveIds(s, LruTail(s, p, n))

\* Mutant: the variant ceiling evicts from either partition.
AnyVariantVictim(s, k, negative) ==
    {i \in Bucket(s, k) : \A j \in Bucket(s, k) : s.entries[i].accessed <= s.entries[j].accessed}

\* The variant that makes way: the least recently used of the same partition.
VariantVictims(s, k, negative) ==
    LET same == {i \in Bucket(s, k) : s.entries[i].negative = negative}
    IN  {i \in same : \A j \in same : s.entries[i].accessed <= s.entries[j].accessed}

Insert(s, e, restored) ==
    LET id == s.clock + 1
        p == Part(e.negative)
    IN  [s EXCEPT
          !.entries = (id :> (IF restored THEN e ELSE [e EXCEPT !.accessed = id])) @@ @,
          !.lru[p] = IF restored THEN Append(@, id) ELSE <<id>> \o @,
          !.charged[p] = @ + e.charge,
          !.clock = id,
          !.learned = @ + (IF e.scope.kind = "learned" THEN 1 ELSE 0),
          !.failures = @ + (IF e.failure THEN 1 ELSE 0)]

Place(s, e, restored) ==
    LET p == Part(e.negative)
        full == Cardinality(Bucket(s, e.key)) >= MaxVariants
        victims == VariantVictims(s, e.key, e.negative)
        spare == EvictFor(IF full THEN RemoveIds(s, victims) ELSE s, p, e.charge)
    IN  IF \/ e.charge > MaxBytes[p] \/ MaxEntries[p] = 0
           \/ full /\ victims = {}
          THEN s
        ELSE IF Fits(spare, p, e.charge) THEN Insert(spare, e, restored)
        ELSE spare

Entry(k, scope, a, t) ==
    [key |-> k, scope |-> scope, fp |-> a.fp, inserted |-> t, lifetime |-> a.lifetime,
     retention |-> a.lifetime + (IF a.negative THEN 0 ELSE StaleRetention),
     negative |-> a.negative, failure |-> FALSE, refreshed |-> FALSE,
     accessed |-> 0, charge |-> a.charge]

(***************************************************************************)
(* Cache::lookup_inner, up to the unlock; the caller then decodes the      *)
(* entry it holds and drops it.                                            *)
(***************************************************************************)
Miss(k, sub, stale, t) ==
    /\ phase = "serving"
    /\ Candidates(k, sub, t, stale) = {}
    /\ shard' = Prune(shard, k, t)
    /\ UNCHANGED <<now, table, reading, useful, renewed, startup, heard>>

Handle(i) == [id |-> i, negative |-> shard.entries[i].negative, charge |-> shard.entries[i].charge]

\* Mutant: a use does not settle the refresh.
TouchUnsettled(s, i, counted) ==
    LET p == Part(s.entries[i].negative)
        first == <<i>> \o SelectSeq(s.lru[p], LAMBDA j : j # i)
    IN  [s EXCEPT !.clock = @ + 1, !.entries[i].accessed = s.clock + 1,
                  !.lru[p] = first, !.unused = @ + counted]

Touch(s, i, counted) ==
    LET p == Part(s.entries[i].negative)
        first == <<i>> \o SelectSeq(s.lru[p], LAMBDA j : j # i)
    IN  [s EXCEPT !.clock = @ + 1,
                  !.entries[i].accessed = s.clock + 1,
                  !.entries[i].refreshed = FALSE,
                  !.lru[p] = first,
                  !.unused = @ + counted]

Hit(r, k, sub, stale, t) ==
    LET ids == Candidates(k, sub, t, stale)
        i == Select(ids, t)
        e == shard.entries[i]
        settled(fresh) == IF e.refreshed /\ Fresh(e, t) = fresh THEN 1 ELSE 0
    IN  /\ phase = "serving"
        /\ reading[r] = Nobody
        /\ shard.clock < MaxClock
        /\ ids # {}
        /\ shard' = Touch(shard, i, settled(FALSE))
        /\ useful' = useful + settled(TRUE)
        /\ reading' = [reading EXCEPT ![r] = Handle(i)]
        /\ UNCHANGED <<now, table, renewed, startup, heard>>

\* Cache::peek: no use is recorded, nothing is pruned.
Peek(r, k, sub, t) ==
    LET ids == Candidates(k, sub, t, FALSE)
    IN  /\ phase = "serving"
        /\ reading[r] = Nobody
        /\ ids # {}
        /\ reading' = [reading EXCEPT ![r] = Handle(Select(ids, t))]
        /\ UNCHANGED <<now, shard, table, useful, renewed, startup, heard>>

\* The last handle of a removed entry gives its charge back (Entry::drop).
Release(r) ==
    LET h == reading[r]
        last == h.id \notin DOMAIN shard.entries /\ \A q \in Readers \ {r} : reading[q].id # h.id
    IN  /\ h # Nobody
        /\ reading' = [reading EXCEPT ![r] = Nobody]
        /\ shard' = IF last THEN [shard EXCEPT !.charged[Part(h.negative)] = @ - h.charge]
                            ELSE shard
        /\ UNCHANGED <<now, table, useful, renewed, startup, heard>>

(***************************************************************************)
(* Cache::admit for an answer (Origin::Answer, Origin::Refresh): prune,    *)
(* classify, supersede every overlapping entry, then store what can be     *)
(* stored.  An answer that cannot still supersedes.                        *)
(***************************************************************************)
Classified(k, scope, a, t) ==
    IF SharingEnabled
      THEN Observe(table, k, scope, IF scope.kind = "exact" THEN a.fp ELSE NoFingerprint,
                   a.lifetime, t)
      ELSE [table |-> table, scope |-> scope, revoked |-> FALSE]

\* Mutant: an answer that cannot be stored leaves older knowledge in place.
SupersedeIfStored(s, k, scope, a) ==
    IF a.lifetime = 0 THEN s ELSE RemoveIds(s, Overlapping(s, k, scope))

Supersede(s, k, scope, a) == RemoveIds(s, Overlapping(s, k, scope))

Admit(k, sub, scope, a, refresh, t) ==
    LET seen == Classified(k, scope, a, t)
        cleared == Supersede(Prune(shard, k, t), k, seen.scope, a)
        entry == [Entry(k, seen.scope, a, t) EXCEPT !.refreshed = refresh]
        stored == IF a.lifetime = 0 THEN cleared ELSE Place(cleared, entry, FALSE)
    IN  /\ phase = "serving"
        /\ shard.clock < MaxClock
        /\ shard' = stored
        /\ table' = seen.table
        /\ renewed' = IF refresh /\ stored.clock > shard.clock THEN renewed + 1 ELSE renewed
        /\ heard' = [heard EXCEPT ![k][sub] = shard.clock]
        /\ UNCHANGED <<now, reading, useful, startup>>

(***************************************************************************)
(* Cache::admit_failure: a SERVFAIL in the namespace of the sent query.  A *)
(* fresh overlapping answer refuses it; it replaces only failures.         *)
(***************************************************************************)
FailureEntry(k, scope, t) ==
    [Entry(k, scope, [fp |-> NoFingerprint, lifetime |-> FailureLifetime, negative |-> TRUE,
                      charge |-> FailureCharge], t) EXCEPT !.failure = TRUE]

\* Mutant: only an answer in the failure's own namespace refuses it.
RefusedBySameScope(s, k, scope, t) ==
    \E i \in Bucket(s, k) :
      s.entries[i].scope = scope /\ ~s.entries[i].failure /\ Fresh(s.entries[i], t)

Refused(s, k, scope, t) ==
    \E i \in Overlapping(s, k, scope) : ~s.entries[i].failure /\ Fresh(s.entries[i], t)

AdmitFailure(k, sub, t) ==
    LET scope == SourceScope(sub)
        pruned == Prune(shard, k, t)
        older == {i \in Overlapping(pruned, k, scope) : pruned.entries[i].failure}
    IN  /\ phase = "serving"
        /\ FailureLifetime > 0
        /\ shard.clock < MaxClock
        /\ shard' = IF Refused(pruned, k, scope, t) THEN pruned
                    ELSE Place(RemoveIds(pruned, older), FailureEntry(k, scope, t), FALSE)
        /\ UNCHANGED <<now, table, reading, useful, renewed, startup, heard>>

(***************************************************************************)
(* This shard's part of Cache::invalidate.                                 *)
(***************************************************************************)
Invalidate(filter) ==
    LET selected(e) ==
          /\ e.key \in filter.keys
          /\ \/ filter.scope = AnyScope
             \/ e.scope = filter.scope
             \/ LearnedServes(e.scope, filter.scope)
    IN  /\ phase = "serving"
        /\ shard' = RemoveIds(shard, {i \in DOMAIN shard.entries : selected(shard.entries[i])})
        /\ table' = Forget(table, filter.keys, filter.scope)
        /\ UNCHANGED <<now, reading, useful, renewed, startup, heard>>

Tick ==
    /\ phase = "serving"
    /\ now < MaxTime
    /\ now' = now + 1
    /\ UNCHANGED <<shard, table, reading, useful, renewed, startup, heard>>

(***************************************************************************)
(* Cache::restore_clean_snapshot.  Nothing else uses the cache until it    *)
(* returns, and every record is given the same instant.                    *)
(***************************************************************************)
RestoreVars == <<now, table, reading, useful, renewed, heard>>

\* Mutant: the use clock keeps its value, below the restored stamps.
NoFloor(s) == s

Floor(s) == [s EXCEPT !.clock = IF @ > Records THEN @ ELSE Records]

Authenticated ==
    /\ phase = "authenticating"
    /\ phase' = "loading"
    /\ shard' = Floor(shard)
    /\ UNCHANGED <<RestoreVars, position>>

\* A damaged, foreign or outdated file, or no time: nothing is admitted.
NotAuthenticated ==
    /\ phase = "authenticating"
    /\ phase' = "serving"
    /\ UNCHANGED <<RestoreVars, shard, position>>

\* The use stamp of the record at place n (from 0) of the file.
Stamp(n) == Records - n

\* One record.  A lifetime of 0 is a record that expired while offline.
RestoreRecord(k, scope, a) ==
    LET entry == [Entry(k, scope, a, now) EXCEPT !.accessed = Stamp(position)]
        room == /\ Fits(shard, Part(a.negative), a.charge)
                /\ Cardinality(Bucket(shard, k)) < MaxVariants
                /\ Overlapping(shard, k, scope) = {}
    IN  /\ phase = "loading"
        /\ position < Records
        /\ position' = position + 1
        /\ shard' = IF a.lifetime > 0 /\ room THEN Place(shard, entry, TRUE) ELSE shard
        /\ UNCHANGED <<RestoreVars, phase>>

\* All records visited, or the deadline: what is loaded stays.
RestoreDone ==
    /\ phase = "loading"
    /\ phase' = "serving"
    /\ UNCHANGED <<RestoreVars, shard, position>>

\* A record that does not decode: unload what this restore admitted.
RestoreFails ==
    /\ phase = "loading"
    /\ position < Records
    /\ phase' = "serving"
    /\ shard' = RemoveIds(shard, {i \in DOMAIN shard.entries : i > Records})
    /\ UNCHANGED <<RestoreVars, position>>

(***************************************************************************)
LookupNext ==
    \E k \in Keys, sub \in Subs, t \in Clocks :
      \/ \E stale \in BOOLEAN :
           \/ Miss(k, sub, stale, t)
           \/ \E r \in Readers : Hit(r, k, sub, stale, t)
      \/ \E r \in Readers : Peek(r, k, sub, t)

AdmitNext ==
    \E k \in Keys, sub \in Subs, t \in Clocks :
      \/ \E scope \in ResponseScopes(sub), a \in Answers, refresh \in Origins :
           Admit(k, sub, scope, a, refresh, t)
      \/ AdmitFailure(k, sub, t)

RestoreNext ==
    \/ Authenticated
    \/ NotAuthenticated
    \/ \E k \in Keys, sub \in Subs, a \in Answers :
         \E scope \in ResponseScopes(sub) \cup (IF sub.sent THEN {Learned(sub.ipv4)} ELSE {}) :
           RestoreRecord(k, scope, a)
    \/ RestoreDone
    \/ RestoreFails

Next ==
    \/ LookupNext
    \/ \E r \in Readers : Release(r)
    \/ AdmitNext
    \/ \E filter \in Filters : Invalidate(filter)
    \/ Tick
    \/ RestoreNext

Spec == Init /\ [][Next]_vars

(***************************************************************************)
(* Properties                                                              *)
(***************************************************************************)
Live == DOMAIN shard.entries
Partition(p) == {i \in Live : Part(shard.entries[i].negative) = p}

\* Whatever mix of admissions, supersessions, evictions, prunes, invalidations
\* and an aborted restore came before: both indexes hold the same entries, each
\* once; the learned and failure counts are exact; and a partition's charge is
\* that of its entries and of the removed ones that readers still hold.
BooksBalance ==
    LET held(p) == {h \in {reading[r] : r \in Readers} :
                      h # Nobody /\ h.id \notin Live /\ Part(h.negative) = p}
    IN  /\ \A p \in Parts :
             /\ ToSet(shard.lru[p]) = Partition(p)
             /\ Len(shard.lru[p]) = Cardinality(Partition(p))
             /\ shard.charged[p] =
                  FoldSet(LAMBDA i, sum : shard.entries[i].charge + sum, 0, Partition(p))
                  + FoldSet(LAMBDA h, sum : h.charge + sum, 0, held(p))
        /\ shard.learned = Cardinality({i \in Live : shard.entries[i].scope.kind = "learned"})
        /\ shard.failures = Cardinality({i \in Live : shard.entries[i].failure})

\* Entry, byte and variant limits hold at every step, held entries included.
WithinLimits ==
    /\ \A p \in Parts : Len(shard.lru[p]) <= MaxEntries[p] /\ shard.charged[p] <= MaxBytes[p]
    /\ \A k \in Keys : Cardinality(Bucket(shard, k)) <= MaxVariants

\* The budgets are real: the limits hold, and the books they are checked
\* against are exact (insert, remove, Charge::drop).
BudgetsKept == BooksBalance /\ WithinLimits

\* The use stamps and the LRU lists, which pick the victims of the variant
\* ceiling and of the budgets, order the entries alike, restored ones included.
RecencyAgrees ==
    \A p \in Parts : \A i, j \in DOMAIN shard.lru[p] :
      i < j => shard.entries[shard.lru[p][i]].accessed > shard.entries[shard.lru[p][j]].accessed

\* A client subnet never has two cached verdicts: at most one answer and one
\* failure of a key serve it, and the failure came after that answer's expiry.
OneVerdict ==
    \A k \in Keys, sub \in Subs : \A i, j \in Bucket(shard, k) :
      LET a == shard.entries[i]
          b == shard.entries[j]
      IN  (i # j /\ Matches(a.scope, sub) /\ Matches(b.scope, sub)) =>
            /\ a.failure # b.failure
            /\ b.failure => a.inserted + a.lifetime <= b.inserted

\* Nothing that serves a subnet is older than the last answer the subnet got,
\* not even when that answer could not be stored (TTL 0, over a budget): known
\* obsolete data is never served again.
NothingObsolete ==
    \A k \in Keys, sub \in Subs : \A i \in Bucket(shard, k) :
      Matches(shard.entries[i].scope, sub) => i > heard[k][sub]

\* Negative answers and failures take no slot from retained positive answers:
\* a positive entry removed when one is stored was past its retention or is
\* superseded by a negative answer for the same clients.
NegativesEvictNoPositive ==
    [][\A j \in DOMAIN shard'.entries \ Live : \A i \in Live \ DOMAIN shard'.entries :
         LET new == shard'.entries[j]
             old == shard.entries[i]
         IN  (new.negative /\ ~old.negative) =>
               \/ ~Retained(old, now)
               \/ /\ ~new.failure
                  /\ old.key = new.key
                  /\ ScopesOverlap(old.scope, new.scope)]_vars

\* Every entry a refresh wrote is settled once, as useful or as unused, by its
\* first use or by its removal, or is still waiting.
RefreshSettledOnce ==
    renewed = useful + shard.unused + Cardinality({i \in Live : shard.entries[i].refreshed})

\* A shared answer is one its class still vouches for: a learned entry goes
\* with the revocation, expiry or restart of its class, and has the
\* fingerprint the class was promoted with.
LearnedIsVouched ==
    \A i \in Live : \A n \in DOMAIN table :
      LET e == shard.entries[i]
          rec == table[n]
      IN  (e.scope = Learned(rec.ipv4) /\ e.key = rec.key) =>
            /\ rec.is.phase = "shared"
            /\ e.fp = rec.is.fp
=============================================================================
