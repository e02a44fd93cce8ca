---------------------------- MODULE SnapshotAge -----------------------------
(***************************************************************************)
(* How long an answer lives: the lifetime prepare_response (cache.rs)      *)
(* gives it, the TTLs a hit is sent with, and what is left of both after   *)
(* any number of clean restarts, each of which rounds the age of the entry *)
(* to seconds twice (cache/persistence.rs).                                *)
(*                                                                         *)
(* Time counts in ticks, AgTicks of them a second.  One answer with two    *)
(* records; in a negative one record 1 is the SOA, sent after record 2.    *)
(***************************************************************************)
EXTENDS Integers, FiniteSetsExt, Functions

CONSTANTS
  AgTicks,    \* ticks of a second
  AgTtl,      \* TTLs and SOA minimums an upstream sends: 0 .. AgTtl
  AgMax,      \* max_ttl_secs
  AgCap,      \* negative_ttl_cap_secs
  AgTime, AgRuns, AgGap   \* bounds: the clock, restarts, the time between two readings

ASSUME AgAssumption ==
  /\ {AgTicks, AgMax, AgCap} \subseteq Nat \ {0}
  /\ {AgTtl, AgTime, AgRuns, AgGap} \subseteq Nat

VARIABLES
  agTime,     \* real time, which Instant measures
  agAhead,    \* how far SystemTime is ahead of it
  agEntry,    \* the entry in the cache
  agFile,     \* the record in the clean snapshot
  agRun,
  agFirst,    \* history: the answer as it was first admitted
  agSlip      \* history: the time restores could not know of

agVars == <<agTime, agAhead, agEntry, agFile, agRun, agFirst, agSlip>>

AgRecords == 1 .. 2
AgNone == [is |-> "none", at |-> 0, lifetime |-> 0, ttl |-> [r \in AgRecords |-> 0], soa |-> 0]
AgNoFile == [is |-> "none", at |-> 0, saved |-> 0, remaining |-> 0, ttl |-> AgNone.ttl, soa |-> 0]

AgInit ==
  /\ agTime = 0 /\ agAhead = 0 /\ agRun = 0 /\ agSlip = 0
  /\ agEntry = AgNone /\ agFile = AgNoFile /\ agFirst = AgNone

\* prepare_response: the TTLs kept and the lifetime in seconds; a negative
\* answer (soa is its SOA's minimum, -1 in a positive one) is capped
\* and its SOA says so
AgPrepared(ttl, soa) ==
  LET limit == IF soa < 0 THEN AgMax ELSE Min({AgMax, AgCap, ttl[1], soa})
      kept == [r \in AgRecords |->
                 IF soa >= 0 /\ r = 1 THEN Min({ttl[1], ttl[2], limit}) ELSE Min({ttl[r], AgMax})]
  IN  [ttl |-> kept, lifetime |-> Min({limit} \cup Range(kept))]

\* admit of an upstream's answer
AgAdmit(ttl, soa) ==
  /\ agFirst.is = "none"
  /\ LET p == AgPrepared(ttl, soa)
     IN  /\ p.lifetime > 0
         /\ agEntry' = [is |-> "entry", at |-> agTime, lifetime |-> p.lifetime, ttl |-> p.ttl, soa |-> soa]
  /\ agFirst' = agEntry'
  /\ UNCHANGED <<agTime, agAhead, agFile, agRun, agSlip>>

AgFloor(ticks) == ticks \div AgTicks
AgCeil(ticks) == (ticks + AgTicks - 1) \div AgTicks

\* age_records
AgAged(ttl, seconds) == [r \in AgRecords |-> Max({ttl[r] - seconds, 0})]

\* Mutant: the age is rounded down when it is saved.
AgElapsedDown(age) == AgFloor(age)

AgElapsed(age) == AgCeil(age)

\* write_clean_snapshot: the age rounded up, the lifetime left rounded down.
\* SystemTime was read gap ticks before Instant.
AgSave(gap) ==
  /\ agEntry.is = "entry" /\ agRun < AgRuns
  /\ LET age == agTime - agEntry.at
         remaining == AgFloor(agEntry.lifetime * AgTicks - age)
     IN  agFile' = IF remaining <= 0 THEN AgNoFile
                   ELSE [is |-> "saved", at |-> agTime, saved |-> agTime - gap + agAhead,
                         remaining |-> remaining, ttl |-> AgAged(agEntry.ttl, AgElapsed(age)),
                         soa |-> agEntry.soa]
  /\ agEntry' = AgNone /\ agRun' = agRun + 1
  /\ UNCHANGED <<agTime, agAhead, agFirst, agSlip>>

\* restore_clean_snapshot: the time offline rounded up; a record whose lifetime
\* is over, or a clock that went back past the save, restores nothing.  Here too
\* SystemTime is read first.
AgRestored(wall) ==
  LET offline == AgCeil(wall - agFile.saved)
      ttl == AgAged(agFile.ttl, offline)
      p == AgPrepared(ttl, agFile.soa)
      lifetime == Min({p.lifetime, agFile.remaining - offline})
  IN  IF wall < agFile.saved \/ lifetime <= 0 THEN AgNone
      ELSE [is |-> "entry", at |-> agTime, lifetime |-> lifetime, ttl |-> p.ttl, soa |-> agFile.soa]

AgRestore(gap) ==
  /\ agFile.is = "saved" /\ agTime - gap >= agFile.at
  /\ agEntry' = AgRestored(agTime - gap + agAhead)
  /\ agSlip' = agSlip + gap
  /\ agFile' = AgNoFile
  /\ UNCHANGED <<agTime, agAhead, agRun, agFirst>>

\* the wall clock is set while the server is down (bound: once)
AgSetClock(ticks) ==
  /\ agFile.is = "saved" /\ agAhead = 0
  /\ agAhead' = ticks
  /\ agSlip' = agSlip + Max({-ticks, 0})
  /\ UNCHANGED <<agTime, agEntry, agFile, agRun, agFirst>>

\* time is counted from the admission
AgTick ==
  /\ agFirst.is = "entry" /\ agTime < AgTime /\ agTime' = agTime + 1
  /\ UNCHANGED <<agAhead, agEntry, agFile, agRun, agFirst, agSlip>>

AgNext ==
  \/ \E ttl \in [AgRecords -> 0 .. AgTtl], soa \in -1 .. AgTtl : AgAdmit(ttl, soa)
  \/ \E gap \in 0 .. AgGap : AgSave(gap) \/ AgRestore(gap)
  \/ \E ticks \in {-1, 1} : AgSetClock(ticks)
  \/ AgTick

(***************************************************************************)
(* Properties                                                              *)
(***************************************************************************)
\* Restarts make no answer younger.  An entry ends no later than it would have
\* without them, and while it is fresh every record is sent with a TTL of at
\* least a second and at most what it would have had; only the time between the
\* two clock readings of a restore, and a clock set back, are not counted
\* (write_clean_snapshot and restore_clean_snapshot round against the entry).
SnapshotAgesKept ==
  LET age == agTime - agEntry.at
      whole == agTime - agFirst.at - agSlip
  IN  agEntry.is = "entry" /\ age < agEntry.lifetime * AgTicks =>
        /\ agEntry.at + agEntry.lifetime * AgTicks <= agFirst.at + agFirst.lifetime * AgTicks + agSlip
        /\ \A r \in AgRecords :
             agEntry.ttl[r] - AgFloor(age) \in 1 .. agFirst.ttl[r] - AgFloor(whole)
=============================================================================
