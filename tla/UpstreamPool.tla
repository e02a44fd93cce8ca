---------------------------- MODULE UpstreamPool ----------------------------
(***************************************************************************)
(* The pool of equivalent upstreams (upstreams.rs) and what it records of  *)
(* its attempts (upstreams/diagnostics.rs).  In weighted mode each query   *)
(* goes to one endpoint by smooth weighted round-robin.  In parallel mode  *)
(* a query races several endpoints: the first one is free, every other one *)
(* needs one of the pool's extra permits, and the first good answer drops  *)
(* the rest.                                                               *)
(***************************************************************************)
EXTENDS Integers, FiniteSets, Sequences, SequencesExt, FiniteSetsExt

CONSTANTS
  UwEndpoints,    \* number of configured servers
  UwMaxWeight,    \* bound: weights 1..UwMaxWeight (1000 in the code)
  UwRounds,       \* bound: full rounds of weighted choices
  UwQueries,      \* queries racing at a time
  UwParallel,     \* upstreams.max_parallel
  UwExtra,        \* upstreams.max_extra_inflight
  UwTrace,        \* attempts a trace keeps (8 in the code)
  UwRecords       \* bound: attempts of one query

ASSUME UwAssumption ==
  /\ {UwEndpoints, UwMaxWeight, UwParallel, UwExtra} \subseteq Nat \ {0}
  /\ UwTrace \in Nat /\ UwTrace >= 2
  /\ IsFiniteSet(UwQueries) /\ UwRounds \in Nat /\ UwRecords \in Nat

VARIABLES
  uwMode,         \* settings.mode, "unset" before the pool is built
  uwWeights, uwScores, uwPicked,
  uwCursor, uwPermits,
  uwQ             \* each racing query

uwVars == <<uwMode, uwWeights, uwScores, uwPicked, uwCursor, uwPermits, uwQ>>

UwServers == 1 .. UwEndpoints
UwTotal == FoldFunctionOnSet(+, 0, uwWeights, UwServers)
UwNoQuery == [at |-> "idle", flight |-> {}, extra |-> {}, best |-> "none",
              trace |-> <<>>, omitted |-> 0, record |-> <<>>]

UwInit ==
  /\ uwMode = "unset"
  /\ uwWeights = [e \in UwServers |-> 0] /\ uwScores = uwWeights /\ uwPicked = uwWeights
  /\ uwCursor = 0 /\ uwPermits = UwExtra
  /\ uwQ = [q \in UwQueries |-> UwNoQuery]

\* Settings::validate and Pool::new: parallel mode needs room for every server
UwBuild ==
  /\ uwMode = "unset"
  /\ \/ uwMode' = "parallel" /\ UwEndpoints <= UwParallel /\ UNCHANGED uwWeights
     \/ uwMode' = "weighted" /\ uwWeights' \in [UwServers -> 1 .. UwMaxWeight]
  /\ UNCHANGED <<uwScores, uwPicked, uwCursor, uwPermits, uwQ>>

(***************************************************************************)
(* Weighted mode                                                           *)
(***************************************************************************)

UwRaised == [e \in UwServers |-> uwScores[e] + uwWeights[e]]
\* the first endpoint with the highest score
UwSelected == CHOOSE e \in UwServers :
                \A f \in UwServers : UwRaised[e] > UwRaised[f] \/ (UwRaised[e] = UwRaised[f] /\ e <= f)

\* what the selected endpoint pays back
UwPays(e) == UwTotal

UwPick ==
  /\ uwMode = "weighted"
  /\ FoldFunctionOnSet(+, 0, uwPicked, UwServers) < UwRounds * UwTotal
  /\ uwScores' = [UwRaised EXCEPT ![UwSelected] = @ - UwPays(UwSelected)]
  /\ uwPicked' = [uwPicked EXCEPT ![UwSelected] = @ + 1]
  /\ UNCHANGED <<uwMode, uwWeights, uwCursor, uwPermits, uwQ>>

(***************************************************************************)
(* Parallel mode                                                           *)
(***************************************************************************)

\* exchange_inner: the rotated list of servers, cut where the permits end
UwRace(q) ==
  /\ uwMode = "parallel" /\ uwQ[q].at = "idle"
  /\ LET wanted == Min({UwEndpoints, UwParallel})
         n      == Min({wanted, 1 + uwPermits})
         server(i) == ((uwCursor + i) % UwEndpoints) + 1
     IN  /\ uwQ' = [uwQ EXCEPT ![q] = [UwNoQuery EXCEPT !.at = "racing",
                      !.flight = {server(i) : i \in 0 .. n - 1},
                      !.extra = {server(i) : i \in 1 .. n - 1}]]
         /\ uwPermits' = uwPermits - (n - 1)
  /\ uwCursor' = (uwCursor + 1) % UwEndpoints
  /\ UNCHANGED <<uwMode, uwWeights, uwScores, uwPicked>>

\* Operation::record: the first attempts, and among later ones the last
\* success and the last failure; a cancelled or skipped one only counts
UwRecorded(t, outcome) ==
  IF Len(t) < UwTrace THEN Append(t, outcome)
  ELSE IF outcome.how = "succeeded" THEN [t EXCEPT ![UwTrace] = outcome]
  ELSE IF outcome.how = "failed"
       THEN [t EXCEPT ![IF t[UwTrace].how = "succeeded" THEN UwTrace - 1 ELSE UwTrace] = outcome]
  ELSE t

UwNoted(query, how) ==
  LET entry == [how |-> how, n |-> Len(query.record) + 1]
  IN  [query EXCEPT !.trace = UwRecorded(@, entry), !.record = Append(@, entry),
                    !.omitted = IF Len(query.trace) < UwTrace THEN @ ELSE @ + 1]

\* an attempt inside a request that is not its last: HTTP/3 before HTTP/2, an
\* address before the next, UDP before TCP
UwAttempt(q, how) ==
  /\ uwQ[q].at = "racing" /\ Len(uwQ[q].record) < UwRecords
  /\ uwQ' = [uwQ EXCEPT ![q] = UwNoted(@, how)]
  /\ UNCHANGED <<uwMode, uwWeights, uwScores, uwPicked, uwCursor, uwPermits>>

\* Mutant: the last failure replaces an earlier answer.
UwKeepsLast(best, answer) == answer

\* the failure that is kept while the race goes on: any response is better
\* than an error
UwKeeps(best, answer) == IF best \in {"none", "error"} \/ answer = "rcode" THEN answer ELSE best

\* a request ends: NOERROR or NXDOMAIN wins and drops the others, whose
\* attempts are recorded as cancelled and whose permits come back
UwRequestEnds(q, e, answer) ==
  /\ uwQ[q].at = "racing" /\ e \in uwQ[q].flight
  /\ LET won   == answer = "good"
         rest  == uwQ[q].flight \ {e}
         lost  == [i \in 1 .. IF won THEN Cardinality(rest) ELSE 0 |-> "cancelled"]
         noted == FoldLeft(UwNoted,
                           UwNoted(uwQ[q], IF answer = "error" THEN "failed" ELSE "succeeded"), lost)
         back  == IF won THEN uwQ[q].extra ELSE uwQ[q].extra \cap {e}
     IN  /\ uwQ' = [uwQ EXCEPT ![q] =
              [noted EXCEPT !.flight = IF won THEN {} ELSE rest,
                            !.extra = @ \ back,
                            !.best = IF won THEN "good" ELSE UwKeeps(@, answer),
                            !.at = IF won \/ rest = {} THEN "done" ELSE "racing"]]
         /\ uwPermits' = uwPermits + Cardinality(back)
  /\ UNCHANGED <<uwMode, uwWeights, uwScores, uwPicked, uwCursor>>

\* the caller has its result, or gave up at the deadline
UwReleased(q) == uwQ[q].extra
UwReturn(q) ==
  /\ uwQ[q].at \in {"racing", "done"}
  /\ uwQ' = [uwQ EXCEPT ![q] = UwNoQuery]
  /\ uwPermits' = uwPermits + Cardinality(UwReleased(q))
  /\ UNCHANGED <<uwMode, uwWeights, uwScores, uwPicked, uwCursor>>

UwNext ==
  \/ UwBuild \/ UwPick
  \/ \E q \in UwQueries :
       \/ UwRace(q) \/ UwReturn(q)
       \/ \E how \in {"succeeded", "failed", "skipped"} : UwAttempt(q, how)
       \/ \E e \in UwServers, answer \in {"good", "rcode", "error"} : UwRequestEnds(q, e, answer)

(***************************************************************************)
(* Properties                                                              *)
(***************************************************************************)

\* Weighted choice is exact and smooth: after every full round each endpoint
\* has been used as often as its weight says, and in between no endpoint is a
\* whole turn ahead of or behind its share (Pool::exchange_inner).
WeightedShares ==
  uwMode = "weighted" =>
    LET picks == FoldFunctionOnSet(+, 0, uwPicked, UwServers)
    IN  \A e \in UwServers :
          /\ picks % UwTotal = 0 => uwPicked[e] = (picks \div UwTotal) * uwWeights[e]
          /\ uwPicked[e] * UwTotal - picks * uwWeights[e] < UwTotal
          /\ picks * uwWeights[e] - uwPicked[e] * UwTotal < UwTotal

\* Every extra permit is in the pool or held by a request in flight: a lost or
\* dropped race gives back what it took, so parallel queries never run out of
\* extra requests for good; a query always has a request of its own in flight
\* until it is done (Pool::exchange_inner).
ExtraPermitsKept ==
  /\ uwPermits + MapThenSumSet(LAMBDA q : Cardinality(uwQ[q].extra), UwQueries) = UwExtra
  /\ \A q \in UwQueries :
       uwQ[q].extra \subseteq uwQ[q].flight /\ (uwQ[q].at = "racing" => uwQ[q].flight # {})

\* A race loses no answer: when it is done without a good answer, the result
\* is an upstream's response if any endpoint gave one, whatever failed after
\* it (the "failure" kept by exchange_inner).
RaceKeepsAnswer ==
  [][\A q \in UwQueries : uwQ[q].best = "rcode" => uwQ'[q].best \in {"rcode", "good", "none"}]_uwVars

\* The bounded trace keeps what explains the result: the last attempt that
\* succeeded, and the last attempt that ended on its own, are always in it
\* however many attempts followed (Operation::record).
TraceKeepsTerminal ==
  \A q \in UwQueries :
    LET kept == ToSet(uwQ[q].trace)
        last(hows) == {r \in ToSet(uwQ[q].record) :
                         r.how \in hows /\ \A s \in ToSet(uwQ[q].record) : s.how \in hows => s.n <= r.n}
    IN  /\ last({"succeeded"}) \subseteq kept /\ last({"succeeded", "failed"}) \subseteq kept
        /\ Len(uwQ[q].trace) + uwQ[q].omitted = Len(uwQ[q].record)

\* Choosing and racing upstreams is fair, gives back what it takes and keeps
\* the answer and the trace that explains it.
UpstreamChoiceSound ==
  []WeightedShares /\ []ExtraPermitsKept /\ []TraceKeepsTerminal /\ RaceKeepsAnswer
=============================================================================
