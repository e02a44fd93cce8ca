----------------------------- MODULE Sharing ------------------------------
(***************************************************************************)
(* Learned ECS-invariant sharing (cache/sharing.rs): the classification    *)
(* table one cache shard owns, as operators on its value.  Module Cache    *)
(* calls Observe and Forget under the shard lock.                          *)
(*                                                                         *)
(* A table is the sequence of its records, most recently used first, as    *)
(* the LruCache keeps them.  A fingerprint is a value; NoFingerprint is an *)
(* answer that cannot be normalized.                                       *)
(***************************************************************************)
EXTENDS EcsScope, FiniteSets, SequencesExt

CONSTANTS
    MinNetworks,     \* ecs_sharing.min_networks
    RevokeCooldown,  \* ecs_sharing.revoke_cooldown_secs
    SharedMaxAge,    \* SHARED_MAX_AGE
    SpanBits,        \* 16 for IPv4, 32 for IPv6
    RecordCapacity,  \* the shard's slice of the table
    NoFingerprint

ASSUME SharingAssumption ==
    /\ MinNetworks \in Nat \ {0}
    /\ {RevokeCooldown, SharedMaxAge, SpanBits} \subseteq Nat
    /\ RecordCapacity \in Nat \ {0}

Sample(b, expires) == [bits |-> b, expires |-> expires]

Observing(fp, samples) ==
    [phase |-> "observing", fp |-> fp, samples |-> samples, time |-> 0]
Shared(fp, since) == [phase |-> "shared", fp |-> fp, samples |-> <<>>, time |-> since]
Revoked(until) == [phase |-> "revoked", fp |-> NoFingerprint, samples |-> <<>>, time |-> until]

Record(k, v4, phase) == [key |-> k, ipv4 |-> v4, is |-> phase]

\* The place of a class in the table; 0 when it has no record.
PlaceOf(table, k, v4) ==
    LET at == {i \in DOMAIN table : table[i].key = k /\ table[i].ipv4 = v4}
    IN  IF at = {} THEN 0 ELSE CHOOSE i \in at : TRUE

\* get_mut and put: the record becomes the most recently used one.
PutRecord(table, k, v4, phase) ==
    LET at == PlaceOf(table, k, v4)
        rest == IF at = 0 THEN table ELSE RemoveAt(table, at)
        all == <<Record(k, v4, phase)>> \o rest
    IN  SubSeq(all, 1, IF Len(all) > RecordCapacity THEN RecordCapacity ELSE Len(all))

Span(b) == SubSeq(b, 1, IF Len(b) < SpanBits THEN Len(b) ELSE SpanBits)
\* promotable: enough samples, and not all of one /16 (or /32).
Promotable(samples) ==
    /\ Len(samples) >= MinNetworks
    /\ \E i \in DOMAIN samples : Span(samples[i].bits) # Span(samples[1].bits)

\* swap_remove of the first sample that expires soonest.
DropOldest(samples) ==
    LET soonest(i) == \A j \in DOMAIN samples : samples[i].expires <= samples[j].expires
        oldest == CHOOSE i \in DOMAIN samples :
                    soonest(i) /\ \A j \in 1..(i - 1) : ~soonest(j)
    IN  Front([samples EXCEPT ![oldest] = Last(samples)])

\* The phase of a record that is observing fp once the sample is added.
AddSample(samples, fp, b, expires, now) ==
    LET others == SelectSeq(samples, LAMBDA s : Disjoint(s.bits, b))
        room == IF Len(others) >= MinNetworks THEN DropOldest(others) ELSE others
        all == Append(room, Sample(b, expires))
    IN  IF Promotable(all) THEN Shared(fp, now) ELSE Observing(fp, all)

\* A new observation by one answer, admitted (lifetime > 0) or not.
FirstSample(fp, b, lifetime, now) ==
    Observing(fp, IF lifetime > 0 THEN <<Sample(b, now + lifetime)>> ELSE <<>>)

\* Mutant: a class that is shared is not compared with new answers.
SharedStays(is, fp, restart, revoke, now) ==
    IF now - is.time >= SharedMaxAge THEN restart ELSE is

SharedNext(is, fp, restart, revoke, now) ==
    IF now - is.time >= SharedMaxAge THEN restart
    ELSE IF fp = is.fp THEN is ELSE revoke

\* Mutant: the cooldown is not waited for.
RevokedRestarts(is, restart, now) == restart

RevokedNext(is, restart, now) == IF is.time > now THEN is ELSE restart

(***************************************************************************)
(* The phase that follows `is` when an ExactSource answer is observed.     *)
(* lifetime is 0 when the answer is not admitted and cannot be evidence.   *)
(***************************************************************************)
NextPhase(is, b, fp, lifetime, now) ==
    LET live == SelectSeq(is.samples, LAMBDA s : s.expires > now)
        restart == IF fp = NoFingerprint THEN is ELSE FirstSample(fp, b, lifetime, now)
        revoke == Revoked(now + RevokeCooldown)
    IN  CASE is.phase = "revoked" -> RevokedNext(is, restart, now)
          [] is.phase = "shared" -> SharedNext(is, fp, restart, revoke, now)
          [] is.phase = "observing" ->
               IF fp = NoFingerprint
                 THEN IF live = <<>> THEN [is EXCEPT !.samples = <<>>] ELSE revoke
               ELSE IF live # <<>> /\ is.fp # fp THEN revoke
               ELSE IF lifetime = 0 THEN Observing(fp, live)
               ELSE AddSample(live, fp, b, now + lifetime, now)

(***************************************************************************)
(* Table::observe: the table, the namespace to store under, and whether    *)
(* the answer revoked its class.                                           *)
(***************************************************************************)
Observe(table, k, scope, fp, lifetime, now) ==
    LET at == PlaceOf(table, k, scope.ipv4)
        is == table[at].is
        next == NextPhase(is, scope.bits, fp, lifetime, now)
        explicit == scope.kind = "network" /\ Len(scope.bits) > 0
        put(phase) == PutRecord(table, k, scope.ipv4, phase)
        result(t, sc, rev) == [table |-> t, scope |-> sc, revoked |-> rev]
    IN  CASE explicit /\ at # 0 /\ ~(is.phase = "revoked" /\ is.time > now) ->
               result(put(Revoked(now + RevokeCooldown)), scope, TRUE)
          [] explicit /\ at # 0 /\ is.phase = "revoked" /\ is.time > now ->
               result(put(is), scope, FALSE)
          [] scope.kind = "exact" /\ at = 0 /\ fp # NoFingerprint ->
               result(put(FirstSample(fp, scope.bits, lifetime, now)), scope, FALSE)
          [] scope.kind = "exact" /\ at # 0 ->
               result(put(next),
                      IF next.phase = "shared" /\ ~(is.phase = "shared" /\ now - is.time >= SharedMaxAge)
                        THEN Learned(scope.ipv4) ELSE scope,
                      next.phase = "revoked" /\ next # is)
          [] OTHER -> result(table, scope, FALSE)

\* The absent scope filter of an invalidation.
AnyScope == [kind |-> "any", ipv4 |-> TRUE, bits |-> <<>>]

(***************************************************************************)
(* Table::invalidate for the classes whose key is in keys.                 *)
(***************************************************************************)
Forget(table, keys, scope) ==
    LET touches(rec) ==
          /\ rec.key \in keys
          /\ \/ scope = AnyScope
             \/ scope.kind = "learned" /\ rec.ipv4 = scope.ipv4
             \/ Netlike(scope) /\ PrefixLen(scope) > 0 /\ rec.ipv4 = scope.ipv4
    IN  SelectSeq(table, LAMBDA rec : ~touches(rec))
=============================================================================
