------------------------------- MODULE Limits -------------------------------
(***************************************************************************)
(* The per-source admission budgets of src/src/limits.rs: a bounded table  *)
(* of entries keyed by the peer's subnet, each with a token bucket and two *)
(* counts of permits that are out.  A caller takes its timestamp before it *)
(* takes the lock, so timestamps can reach the table out of order, at most *)
(* LimSkew ticks late.                                                     *)
(***************************************************************************)
EXTENDS Integers, FiniteSets, Sequences, SequencesExt

CONSTANTS
  LimSources,      \* subnets (Limiter::source maps a peer to one)
  LimWatched,      \* the source whose grants are added up
  LimToken,        \* credit of one query
  LimRate,         \* credit gained per tick
  LimBurst,        \* tokens of a full bucket
  LimTable,        \* max_sources
  LimScan,         \* RECLAIM_SCAN
  LimInflight,     \* max_inflight
  LimConnections,  \* max_connections
  LimSkew,         \* how late a timestamp can be
  LimTime          \* bound on the clock

ASSUME LimAssumption ==
  /\ LimWatched \in LimSources
  /\ {LimToken, LimRate, LimBurst, LimTable, LimScan} \subseteq Nat \ {0}
  /\ {LimInflight, LimConnections} \subseteq Nat \ {0}
  /\ {LimSkew, LimTime} \subseteq Nat

VARIABLES
  limEntries,  \* source -> entry, for the sources in the table
  limSweep,    \* the order in which entries are considered for reclamation
  limOut,      \* permits not yet dropped, per source and kind
  limClock,
  limEarned    \* history: an ideal bucket for LimWatched, never reclaimed

limVars == <<limEntries, limSweep, limOut, limClock, limEarned>>

LimKinds == {"query", "connection"}
LimFull == LimBurst * LimToken

LimInit ==
  /\ limEntries = <<>>
  /\ limSweep = <<>>
  /\ limOut = [s \in LimSources |-> [k \in LimKinds |-> 0]]
  /\ limClock = 0
  /\ limEarned = LimFull

(* Mutant: a late timestamp moves the accounting clock back. *)
LimRefillBack(e, now) ==
  [e EXCEPT !.credit = IF now > e.updated
                       THEN LET c == e.credit + (now - e.updated) * LimRate
                            IN  IF c < LimFull THEN c ELSE LimFull
                       ELSE @,
            !.updated = now]

(* Entry::refill. *)
LimRefill(e, now) ==
  IF now <= e.updated THEN e
  ELSE [e EXCEPT !.credit = LET c == @ + (now - e.updated) * LimRate
                            IN  IF c < LimFull THEN c ELSE LimFull,
                 !.updated = now]

LimNewEntry(now) == [credit |-> LimFull, updated |-> now, query |-> 0, connection |-> 0]

LimReclaimable(e) == e.query = 0 /\ e.connection = 0 /\ e.credit = LimFull

(* The bounded scan of a full table: the entries it looks at are refilled,   *)
(* it stops at the first that can go, and the others move to the back.       *)
LimScanned(now) ==
  LET looked == SubSeq(limSweep, 1, IF LimScan < Len(limSweep) THEN LimScan ELSE Len(limSweep))
      fresh == [s \in DOMAIN limEntries |-> LimRefill(limEntries[s], now)]
      free == {i \in DOMAIN looked : LimReclaimable(fresh[looked[i]])}
      stop == IF free = {} THEN Len(looked)
              ELSE CHOOSE i \in free : \A k \in free : i <= k
      seen == {looked[i] : i \in 1 .. stop}
      gone == IF free = {} THEN {} ELSE {looked[stop]}
      kept == SubSeq(looked, 1, IF free = {} THEN stop ELSE stop - 1)
  IN  [entries |-> [s \in DOMAIN limEntries \ gone |->
                      IF s \in seen THEN fresh[s] ELSE limEntries[s]],
       sweep |-> SubSeq(limSweep, stop + 1, Len(limSweep)) \o kept]

LimAllows(e, kind) ==
  IF kind = "query" THEN e.query < LimInflight /\ e.credit >= LimToken
  ELSE e.connection < LimConnections

LimEarn(n) == LET m == LimFull + LimRate * LimSkew
              IN  IF limEarned + n < m THEN limEarned + n ELSE m

(* Limiter::acquire_at. *)
LimAcquire(s, kind, now) ==
  LET known == s \in DOMAIN limEntries
      size(f) == Cardinality(DOMAIN f)
      table == IF ~known /\ size(limEntries) = LimTable THEN LimScanned(now)
               ELSE [entries |-> limEntries, sweep |-> limSweep]
      room == known \/ size(table.entries) < LimTable
      base == IF known THEN LimRefill(limEntries[s], now) ELSE LimRefill(LimNewEntry(now), now)
      charged == IF kind = "query"
                 THEN [base EXCEPT !.query = @ + 1, !.credit = @ - LimToken]
                 ELSE [base EXCEPT !.connection = @ + 1]
      admitted == room /\ LimAllows(base, kind)
      put(e) == [x \in DOMAIN table.entries \cup {s} |->
                   IF x = s THEN e ELSE table.entries[x]]
  IN  /\ limEntries' = IF ~room THEN table.entries
                       ELSE put(IF admitted THEN charged ELSE base)
      /\ limSweep' = IF known \/ ~room THEN table.sweep ELSE Append(table.sweep, s)
      /\ limOut' = IF admitted THEN [limOut EXCEPT ![s][kind] = @ + 1] ELSE limOut
      /\ limEarned' = IF s # LimWatched THEN limEarned
                      ELSE LimEarn(IF ~known /\ room THEN LimRate * LimSkew ELSE 0)
                           - (IF admitted /\ kind = "query" THEN LimToken ELSE 0)
      /\ UNCHANGED limClock

(* Permit::drop: the rate token is not refunded. *)
LimRelease(s, kind) ==
  /\ limOut[s][kind] > 0
  /\ limOut' = [limOut EXCEPT ![s][kind] = @ - 1]
  /\ limEntries' = IF s \in DOMAIN limEntries
                   THEN [limEntries EXCEPT ![s][kind] = @ - 1] ELSE limEntries
  /\ UNCHANGED <<limSweep, limClock, limEarned>>

LimTick ==
  /\ limClock < LimTime
  /\ limClock' = limClock + 1
  /\ limEarned' = LimEarn(LimRate)
  /\ UNCHANGED <<limEntries, limSweep, limOut>>

LimNext ==
  \/ \E s \in LimSources, k \in LimKinds, now \in 0 .. limClock :
       limClock - now <= LimSkew /\ LimAcquire(s, k, now)
  \/ \E s \in LimSources, k \in LimKinds : LimRelease(s, k)
  \/ LimTick

(* Every permit that is out is counted in an entry that is in the table, and *)
(* every entry is in the sweep exactly once (the unwraps of Permit::drop and *)
(* of the scan cannot fail, and no count goes below zero).                   *)
LimitBooksKept ==
  /\ \A s \in LimSources, k \in LimKinds :
       limOut[s][k] = IF s \in DOMAIN limEntries THEN limEntries[s][k] ELSE 0
  /\ ToSet(limSweep) = DOMAIN limEntries
  /\ IsInjective(limSweep)

(* In no span of time is a source granted more than its burst and what its   *)
(* rate earned, however often its entry was reclaimed and made anew          *)
(* ("cycling source addresses cannot reset token debt"): an ideal bucket     *)
(* that is never reclaimed covers every grant.  Only the lateness of a       *)
(* timestamp is earned again with a new entry.                               *)
LimitDebtKept == limEarned >= 0

(* A source's limits hold over time and across its entries: exact books and  *)
(* no forgotten debt (Limits::query, connection, Permit::drop).              *)
LimitsKept == LimitBooksKept /\ LimitDebtKept
=============================================================================
