-------------------------- MODULE SharingHistory ---------------------------
(***************************************************************************)
(* The sharing table of one shard (cache/sharing.rs) under any sequence of *)
(* observed answers and invalidations, with the history of what was        *)
(* observed.  The cache entries of module Cache are left out, so longer    *)
(* histories and more networks are in reach.                               *)
(***************************************************************************)
EXTENDS Sharing

CONSTANTS
    Classes,    \* question classes: cache keys
    Networks,   \* networks that ask: [ipv4, bits]
    Seen,       \* observed answers: [fp, lifetime]
    MaxEvents,  \* bound: observations and invalidations
    MaxTime     \* bound: the clock stops here

VARIABLES
    table,      \* Shard.sharing
    now,        \* the monotonic clock
    log         \* what was observed, oldest first (history)

sharingVars == <<table, now, log>>

SharingInit ==
    /\ table = <<>>
    /\ now = 0
    /\ log = <<>>

\* One call of Table::observe, for an answer without a usable option of its own
\* (exact) or one that names the scope it holds for.
Event(k, scope, fp, expires) ==
    [key |-> k, scope |-> scope, fp |-> fp, at |-> now, expires |-> expires]

\* An event that speaks against sharing: which network it came from is left out
\* of the history.
Against(k, scope) ==
    Event(k, IF scope = AnyScope THEN AnyScope ELSE Learned(scope.ipv4), NoFingerprint, now)

ObserveExact(k, n, seen) ==
    LET scope == ExactSource(n.ipv4, n.bits)
    IN  /\ Len(log) < MaxEvents
        /\ table' = Observe(table, k, scope, seen.fp, seen.lifetime, now).table
        /\ log' = Append(log, IF seen.fp = NoFingerprint THEN Against(k, scope)
                              ELSE Event(k, scope, seen.fp, now + seen.lifetime))
        /\ UNCHANGED now

ObserveScoped(k, n) ==
    LET scope == Network(n.ipv4, n.bits)
    IN  /\ Len(log) < MaxEvents
        /\ table' = Observe(table, k, scope, NoFingerprint, 1, now).table
        /\ log' = Append(log, Against(k, scope))
        /\ UNCHANGED now

\* Table::invalidate
Invalidate(k, scope) ==
    /\ Len(log) < MaxEvents
    /\ table' = Forget(table, {k}, scope)
    /\ log' = Append(log, Against(k, scope))
    /\ UNCHANGED now

SharingTick ==
    /\ now < MaxTime
    /\ now' = now + 1
    /\ UNCHANGED <<table, log>>

SharingNext ==
    \/ \E k \in Classes, n \in Networks : ObserveScoped(k, n)
    \/ \E k \in Classes, n \in Networks, seen \in Seen : ObserveExact(k, n, seen)
    \/ \E k \in Classes, scope \in {AnyScope, Learned(TRUE)} : Invalidate(k, scope)
    \/ SharingTick

SharingSpec == SharingInit /\ [][SharingNext]_sharingVars

(***************************************************************************)
(* Properties                                                              *)
(***************************************************************************)
\* The evidence for sharing counts no network twice: the samples of a class
\* are pairwise disjoint, however the networks that asked nest.
EvidenceDisjoint ==
    \A n \in DOMAIN table : \A i, j \in DOMAIN table[n].is.samples :
      i # j => Disjoint(table[n].is.samples[i].bits, table[n].is.samples[j].bits)

\* The events of a record's class that concern it.
Concerns(rec, e) == e.key = rec.key /\ (e.scope = AnyScope \/ e.scope.ipv4 = rec.ipv4)

\* A shared class that has not outlived its evidence has earned it:
\* MinNetworks disjoint networks of more than one span were answered alike,
\* each answer still valid at the promotion, and since the first of them
\* nothing spoke against it: no other answer, no response with a scope of its
\* own, no invalidation.
SharedIsEarned ==
    \A n \in DOMAIN table :
      LET rec == table[n]
          ours == {i \in DOMAIN log : Concerns(rec, log[i])}
          votes == {i \in ours : /\ log[i].fp = rec.is.fp
                                 /\ log[i].at <= rec.is.time /\ log[i].expires > rec.is.time}
      IN  (rec.is.phase = "shared" /\ now - rec.is.time < SharedMaxAge) =>
            \E V \in SUBSET votes :
              /\ Cardinality(V) = MinNetworks
              /\ \A i, j \in V : i # j => Disjoint(log[i].scope.bits, log[j].scope.bits)
              /\ \E i, j \in V : Span(log[i].scope.bits) # Span(log[j].scope.bits)
              /\ \A e \in ours : (\E i \in V : e > i) => log[e].fp = rec.is.fp

\* A revoked class rests: within the cooldown no answer makes it shared or
\* starts a new observation.
RevocationRests ==
    [][\A n \in DOMAIN table, m \in DOMAIN table' :
         (/\ table[n].is.phase = "revoked" /\ table[n].is.time > now
          /\ table'[m].key = table[n].key /\ table'[m].ipv4 = table[n].ipv4)
           => table'[m].is = table[n].is]_sharingVars

\* Sharing is granted and withdrawn on evidence only (Sharing::observe,
\* contradict).
SharingSound == []SharedIsEarned /\ []EvidenceDisjoint /\ RevocationRests
=============================================================================
