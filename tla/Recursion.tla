----------------------------- MODULE Recursion -----------------------------
(***************************************************************************)
(* Recursive resolution (recursion.rs) and the bounds on what it sends     *)
(* (recursion/outbound.rs).  A resolution makes one query to an authority  *)
(* after another; each is admitted by a permit, held until it ends, and by *)
(* a token of one shared bucket.  The clock is read before the bucket is   *)
(* locked, so callers can reach the bucket in another order than they read *)
(* the clock.  The recursor itself (hickory) is external: which queries it *)
(* makes and what a resolution finds are free.                             *)
(***************************************************************************)
EXTENDS Integers, FiniteSets, FiniteSetsExt

CONSTANTS
  RcResolutions,  \* resolutions at once (concurrent queries of one behave like two of them)
  RcInflight,     \* max_outbound_inflight
  RcRate,         \* max_outbound_per_second: the tokens the bucket holds
  RcCost,         \* parts of a token earned in one clock tick are 1 / RcCost
  RcTime,         \* bound: the clock
  RcStarts        \* bound: resolutions

ASSUME RcAssumption ==
  /\ {RcInflight, RcRate, RcCost} \subseteq Nat \ {0}
  /\ {RcTime, RcStarts} \subseteq Nat

VARIABLES
  rcTime,         \* the clock
  rcBucket,       \* Bounds::bucket: parts of tokens, and the time they are earned up to
  rcFree,         \* permits available
  rcClosed,       \* the semaphore is closed
  rcShut,         \* Recursion::shutdown
  rcRes,          \* the resolutions
  rcCounts,       \* Counts
  rcSent          \* history: queries sent, by the time the bucket had reached

rcVars == <<rcTime, rcBucket, rcFree, rcClosed, rcShut, rcRes, rcCounts, rcSent>>

RcOutcomes == {"answered", "negative", "bogus", "failed"}
RcNoResolution == [pc |-> "idle", now |-> 0, until |-> 0, refused |-> FALSE]

\* Recursion::new, Bounds::new: the bucket starts full
RcInit ==
  /\ rcTime = 0 /\ rcBucket = [parts |-> RcRate * RcCost, at |-> 0]
  /\ rcFree = RcInflight /\ rcClosed = FALSE /\ rcShut = FALSE
  /\ rcRes = [r \in RcResolutions |-> RcNoResolution]
  /\ rcCounts = [k \in RcOutcomes \cup {"started", "shutdown", "deadline"} |-> 0]
  /\ rcSent = [t \in 0 .. RcTime |-> 0]

RcTick ==
  /\ rcTime < RcTime /\ rcTime' = rcTime + 1
  /\ UNCHANGED <<rcBucket, rcFree, rcClosed, rcShut, rcRes, rcCounts, rcSent>>

RcCounted(k) == [rcCounts EXCEPT ![k] = @ + 1]

\* exchange up to the recursor: a shut down Recursion takes no query
RcStart(r) ==
  /\ rcRes[r].pc = "idle" /\ ~rcShut /\ rcCounts["started"] < RcStarts
  /\ rcRes' = [rcRes EXCEPT ![r] = [RcNoResolution EXCEPT !.pc = "resolving"]]
  /\ rcCounts' = RcCounted("started")
  /\ UNCHANGED <<rcTime, rcBucket, rcFree, rcClosed, rcShut, rcSent>>

\* Provider::admit, the permit: a closed semaphore refuses, also who waits for it
RcAdmit(r) ==
  /\ rcRes[r].pc = "resolving"
  /\ \/ /\ rcClosed
        /\ rcRes' = [rcRes EXCEPT ![r].refused = TRUE] /\ UNCHANGED rcFree
     \/ /\ ~rcClosed /\ rcFree > 0
        /\ rcRes' = [rcRes EXCEPT ![r].pc = "taking"] /\ rcFree' = rcFree - 1
  /\ UNCHANGED <<rcTime, rcBucket, rcClosed, rcShut, rcCounts, rcSent>>

\* Bounds::take, before the lock: closed meanwhile, or the time of this try
RcRead(r) ==
  /\ rcRes[r].pc = "taking" \/ (rcRes[r].pc = "asleep" /\ rcTime >= rcRes[r].until)
  /\ IF rcClosed
     THEN /\ rcRes' = [rcRes EXCEPT ![r].pc = "resolving", ![r].refused = TRUE]
          /\ rcFree' = rcFree + 1
     ELSE /\ rcRes' = [rcRes EXCEPT ![r].pc = "read", ![r].now = rcTime]
          /\ UNCHANGED rcFree
  /\ UNCHANGED <<rcTime, rcBucket, rcClosed, rcShut, rcCounts, rcSent>>

\* the bucket at a try: what was earned since, at most one second of tokens
RcEarned(b, now) ==
  LET gain == IF now > b.at THEN now - b.at ELSE 0
  IN  IF b.parts + gain > RcRate * RcCost THEN RcRate * RcCost ELSE b.parts + gain
RcRefill(b, now) == [parts |-> RcEarned(b, now), at |-> IF now > b.at THEN now ELSE b.at]

\* Bounds::take, under the lock: a token and the query is sent, or sleep until
\* the bucket has one
RcTake(r) ==
  /\ rcRes[r].pc = "read"
  /\ LET b == RcRefill(rcBucket, rcRes[r].now)
     IN  IF b.parts >= RcCost
         THEN /\ rcBucket' = [b EXCEPT !.parts = @ - RcCost]
              /\ rcRes' = [rcRes EXCEPT ![r].pc = "sent"]
              /\ rcSent' = [rcSent EXCEPT ![b.at] = @ + 1]
         ELSE /\ rcBucket' = b
              /\ rcRes' = [rcRes EXCEPT ![r].pc = "asleep", ![r].until = rcTime + RcCost - b.parts]
              /\ UNCHANGED rcSent
  /\ UNCHANGED <<rcTime, rcFree, rcClosed, rcShut, rcCounts>>

\* the attempt ends, with an answer or a timeout, and its permit goes back
RcAttemptEnds(r) ==
  /\ rcRes[r].pc = "sent"
  /\ rcRes' = [rcRes EXCEPT ![r].pc = "resolving"] /\ rcFree' = rcFree + 1
  /\ UNCHANGED <<rcTime, rcBucket, rcClosed, rcShut, rcCounts, rcSent>>

\* Counts::record: a failure during a shutdown is no fault of the resolution
RcKind(outcome) == IF outcome = "failed" /\ rcShut THEN "shutdown" ELSE outcome
RcFinish(r, outcome) ==
  /\ rcRes[r].pc = "resolving"
  /\ rcCounts' = RcCounted(RcKind(outcome))
  /\ rcRes' = [rcRes EXCEPT ![r] = RcNoResolution]
  /\ UNCHANGED <<rcTime, rcBucket, rcFree, rcClosed, rcShut, rcSent>>

\* Pending::drop: the deadline, a cancelled request or the shutdown drops the
\* resolution wherever it is, with the permit it holds
RcHolds(pc) == pc \in {"taking", "read", "asleep", "sent"}
RcDropCounted == RcCounted(IF rcShut THEN "shutdown" ELSE "deadline")
RcDrop(r) ==
  /\ rcRes[r].pc # "idle"
  /\ rcCounts' = RcDropCounted
  /\ rcFree' = IF RcHolds(rcRes[r].pc) THEN rcFree + 1 ELSE rcFree
  /\ rcRes' = [rcRes EXCEPT ![r] = RcNoResolution]
  /\ UNCHANGED <<rcTime, rcBucket, rcClosed, rcShut, rcSent>>

\* Recursion::shutdown: the flag, then the semaphore
RcShutdown ==
  /\ ~rcShut
  /\ rcShut' = TRUE
  /\ UNCHANGED <<rcTime, rcBucket, rcFree, rcClosed, rcRes, rcCounts, rcSent>>

\* Mutant: the bounds may close before the flag is set.
RcMayCloseFirst == TRUE

RcMayClose == rcShut
RcClose ==
  /\ ~rcClosed /\ RcMayClose
  /\ rcClosed' = TRUE
  /\ UNCHANGED <<rcTime, rcBucket, rcFree, rcShut, rcRes, rcCounts, rcSent>>

RcNext ==
  \/ \E r \in RcResolutions :
       \/ RcStart(r) \/ RcAdmit(r) \/ RcRead(r) \/ RcTake(r) \/ RcAttemptEnds(r) \/ RcDrop(r)
       \/ \E outcome \in RcOutcomes : RcFinish(r, outcome)
  \/ RcTick \/ RcShutdown \/ RcClose

(***************************************************************************)
(* Properties                                                              *)
(***************************************************************************)

\* The sustained rate is a hard cap: in no interval of the time the bucket has
\* reached are more queries sent than one second of tokens and what the
\* interval earns, even when callers lock the bucket in another order than
\* they read the clock and when waits are cancelled (Bounds::take).
OutboundRateCapped ==
  \A from \in 0 .. rcBucket.at :
    RcCost * MapThenSumSet(LAMBDA t : rcSent[t], from .. RcTime)
      <= RcRate * RcCost + (rcBucket.at - from)

\* Every resolution that was started is running or counted under exactly one
\* outcome, dropped ones included (Pending, Counts::record).
ResolutionsCounted ==
  rcCounts["started"] = Cardinality({r \in RcResolutions : rcRes[r].pc # "idle"})
    + MapThenSumSet(LAMBDA k : rcCounts[k], RcOutcomes \cup {"shutdown", "deadline"})

\* A resolution that lost a query to the shutdown is never counted as a
\* failure: the flag is visible before the bounds close (Recursion::shutdown).
RefusalIsNoFailure ==
  [][\A r \in RcResolutions : rcRes[r].refused /\ rcRes'[r].pc = "idle"
        => rcCounts'["failed"] = rcCounts["failed"]]_rcVars

\* Resolutions stay within the outbound rate and end in the counter that says
\* why, also when the service shuts down under them.
RecursionSound == []OutboundRateCapped /\ []ResolutionsCounted /\ RefusalIsNoFailure
=============================================================================
