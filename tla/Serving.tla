------------------------------- MODULE Serving -------------------------------
(***************************************************************************)
(* Client connections and their end: one listener of a generation (TCP or  *)
(* DoT as "frames", DoH, or QUIC for DoQ and DoH3), the requests on its    *)
(* connections, and what a stop does to each (ingress.rs, server.rs,       *)
(* tls.rs, doh.rs, quic.rs).                                               *)
(*                                                                         *)
(* A request is reading (its query is not complete), resolving or writing, *)
(* and then delivered, failed (by its peer or its deadline), refused       *)
(* (cancelled by the stop) or aborted (by the end of its connection or of  *)
(* a grace).  Time is counted in halves of the shutdown grace; a task that *)
(* is ready takes its step before time goes on (SvReady).  The I/O         *)
(* deadline may pass at any moment.                                        *)
(***************************************************************************)
EXTENDS Integers, FiniteSets

CONSTANTS
  SvConns,        \* client connections
  SvStreams,      \* requests of a connection (max_streams)
  SvPermits,      \* Ingress::connections
  SvGrace,        \* shutdown_grace
  SvErrors, SvTime   \* bounds: listener errors, time

ASSUME SvAssumption ==
  /\ {SvPermits, SvGrace} \subseteq Nat \ {0} /\ {SvErrors, SvTime} \subseteq Nat
  /\ IsFiniteSet(SvConns) /\ IsFiniteSet(SvStreams)

VARIABLES
  svStop,         \* Ingress::stop, and since when
  svTime, svErrors,
  svKind,         \* what the listener serves
  svListener,     \* serving, draining since, down (to be bound again) or ended
  svConn,         \* connections: state, and the time it began or is due
  svStream,       \* requests
  svForced        \* Resolver::shutdown_forced

svVars == <<svStop, svTime, svErrors, svKind, svListener, svConn, svStream, svForced>>

SvKinds == {"frames", "doh", "quic"}
SvNever == SvTime + 1
SvActive == {"reading", "resolving", "writing"}
SvBusy(c) == {s \in SvStreams : svStream[c][s] \in SvActive}
SvStopping == svStop <= svTime
SvLive(c) == svConn[c].is \notin {"none", "done"}

SvInit ==
  /\ svStop = SvNever /\ svTime = 0 /\ svErrors = 0
  /\ svKind = "none" /\ svListener = [is |-> "none", at |-> 0]
  /\ svConn = [c \in SvConns |-> [is |-> "none", at |-> 0]]
  /\ svStream = [c \in SvConns |-> [s \in SvStreams |-> "none"]]
  /\ svForced = FALSE

SvTo(c, is, at) == svConn' = [svConn EXCEPT ![c].is = is, ![c].at = at]
SvBecomes(c, s, state) == svStream' = [svStream EXCEPT ![c][s] = state]
SvAborted(c) == [s \in SvStreams |-> IF s \in SvBusy(c) THEN "aborted" ELSE svStream[c][s]]
SvRest == UNCHANGED <<svStop, svTime, svErrors, svKind, svListener, svForced>>

(***************************************************************************)
(* Connections                                                             *)
(***************************************************************************)

\* the accept loops: admission comes before the handshake.  The loop may take
\* one more connection before it sees the stop
SvAccept(c) ==
  /\ svListener.is = "serving" /\ svConn[c].is = "none"
  /\ Cardinality({d \in SvConns : SvLive(d)}) < SvPermits
  /\ SvTo(c, "handshake", svTime) /\ UNCHANGED svStream /\ SvRest

\* the handshake races the stop; for frames the stop has priority
SvHandshaken(c) ==
  /\ svConn[c].is = "handshake" /\ (svKind = "frames" => ~SvStopping)
  /\ SvTo(c, "open", svTime) /\ UNCHANGED svStream /\ SvRest
SvHandshakeEnds(c) ==
  /\ svConn[c].is = "handshake"
  /\ SvTo(c, "done", svTime) /\ UNCHANGED svStream /\ SvRest

\* a request is accepted: one frame at a time, or within max_streams
SvOpens(c, s) ==
  /\ svConn[c].is = "open" /\ svStream[c][s] = "none"
  /\ svKind = "frames" => SvBusy(c) = {} /\ ~SvStopping
  /\ SvBecomes(c, s, "reading") /\ UNCHANGED svConn /\ SvRest

\* a query received in full is resolved, also when the stop came meanwhile
SvComplete(c, s) ==
  /\ svStream[c][s] = "reading" /\ (svKind = "frames" => ~SvStopping)
  /\ SvBecomes(c, s, "resolving") /\ UNCHANGED svConn /\ SvRest

\* the end of a request ends a connection of frames
SvEnds(c, s, state) ==
  /\ SvBecomes(c, s, state)
  /\ IF svKind = "frames" THEN SvTo(c, "done", svTime) ELSE UNCHANGED svConn
  /\ SvRest

\* Ingress::stopped: a request without a complete query owns no work
SvRefused(c, s) == svStream[c][s] = "reading" /\ SvStopping /\ SvEnds(c, s, "refused")

\* a bad request, a reset or lost connection, the request's deadline; a query
\* being resolved for frames notices none of them
SvFails(c, s) ==
  /\ svStream[c][s] \in SvActive
  /\ svKind = "frames" => svStream[c][s] # "resolving"
  /\ SvEnds(c, s, "failed")

\* handle_for_delivery returns: an answer, or none, which ends the request
SvResolved(c, s) ==
  /\ svStream[c][s] = "resolving"
  /\ \/ SvBecomes(c, s, "writing") /\ UNCHANGED svConn /\ SvRest
     \/ SvEnds(c, s, "failed")

SvWritten(c, s) ==
  /\ svStream[c][s] = "writing"
  /\ SvBecomes(c, s, "delivered") /\ UNCHANGED svConn /\ SvRest

\* the connection sees the stop: DoH says so and gives its peer half a grace,
\* QUIC waits for its requests, frames end unless a query is being answered
SvCloseWindow == SvGrace \div 2
SvSeesStop(c) ==
  /\ svConn[c].is = "open" /\ SvStopping
  /\ CASE svKind = "doh" -> SvTo(c, "closing", svTime + SvCloseWindow)
       [] svKind = "quic" -> SvTo(c, "waiting", svTime)
       [] OTHER -> SvBusy(c) = {} /\ SvTo(c, "done", svTime)
  /\ UNCHANGED svStream /\ SvRest

\* DoH: with no request left, the peer closes or the window passes
SvClosed(c) ==
  /\ svConn[c].is = "closing" /\ SvBusy(c) = {}
  /\ SvTo(c, "done", svTime) /\ UNCHANGED svStream /\ SvRest

\* Mutant: a stop aborts DoH requests whose peer has gone.
SvKeepsOnlyQuic(c) == svKind = "quic"

\* the peer has gone, or was idle for too long: in a stop the requests finish;
\* otherwise DoH aborts them and QUIC drains them within a grace
SvKeeps(c) == svKind = "quic" \/ SvStopping
SvBreaks(c) ==
  /\ svConn[c].is \in {"open", "closing"} /\ svKind # "frames"
  /\ IF SvKeeps(c)
     THEN /\ SvTo(c, IF SvStopping THEN "waiting" ELSE "draining", svTime) /\ UNCHANGED svStream
     ELSE /\ SvTo(c, "done", svTime) /\ svStream' = [svStream EXCEPT ![c] = SvAborted(c)]
  /\ SvRest

SvJoined(c) ==
  /\ svConn[c].is \in {"waiting", "draining"} /\ SvBusy(c) = {}
  /\ SvTo(c, "done", svTime) /\ UNCHANGED svStream /\ SvRest

\* steps of tasks that wait for no peer, answer or deadline any more
SvReady ==
  \E c \in SvConns :
    \/ SvStopping /\ svConn[c].is = "handshake"
    \/ SvStopping /\ svConn[c].is = "open" /\ (svKind = "frames" => SvBusy(c) = {})
    \/ SvStopping /\ \E s \in SvStreams : svStream[c][s] = "reading"
    \/ svConn[c].is = "closing" /\ SvBusy(c) = {} /\ svTime >= svConn[c].at
    \/ svConn[c].is \in {"waiting", "draining"} /\ SvBusy(c) = {}

\* Ingress::drain of one QUIC connection: the grace is over
SvConnDrainOver(c) ==
  /\ svConn[c].is = "draining" /\ svTime >= svConn[c].at + SvGrace /\ ~SvReady
  /\ svForced' = (svForced \/ SvStopping)
  /\ SvTo(c, "done", svTime) /\ svStream' = [svStream EXCEPT ![c] = SvAborted(c)]
  /\ UNCHANGED <<svStop, svTime, svErrors, svKind, svListener>>

(***************************************************************************)
(* The listener                                                            *)
(***************************************************************************)

\* serve_bound
SvServes(kind) ==
  /\ svKind = "none"
  /\ svKind' = kind /\ svListener' = [is |-> "serving", at |-> svTime]
  /\ UNCHANGED <<svStop, svTime, svErrors, svConn, svStream, svForced>>

\* the accept loop ends: the stop, or an error of the listening socket
SvLeaves ==
  /\ svListener.is = "serving"
  /\ \/ SvStopping /\ UNCHANGED svErrors
     \/ svErrors < SvErrors /\ svErrors' = svErrors + 1
  /\ svListener' = [is |-> "draining", at |-> svTime]
  /\ UNCHANGED <<svStop, svTime, svKind, svConn, svStream, svForced>>

\* supervise: a listener that ended without a stop is bound again
SvLeft == [is |-> IF SvStopping THEN "ended" ELSE "down", at |-> svTime]

\* Ingress::drain: every task ended, or the grace is over
SvDrained ==
  /\ svListener.is = "draining" /\ \A c \in SvConns : ~SvLive(c)
  /\ svListener' = SvLeft
  /\ UNCHANGED <<svStop, svTime, svErrors, svKind, svConn, svStream, svForced>>
SvDrainOver ==
  /\ svListener.is = "draining" /\ \E c \in SvConns : SvLive(c)
  /\ svTime >= svListener.at + SvGrace /\ ~SvReady
  /\ svForced' = (svForced \/ SvStopping)
  /\ svConn' = [c \in SvConns |-> IF SvLive(c) THEN [svConn[c] EXCEPT !.is = "done"] ELSE svConn[c]]
  /\ svStream' = [c \in SvConns |-> SvAborted(c)]
  /\ svListener' = SvLeft
  /\ UNCHANGED <<svStop, svTime, svErrors, svKind>>

SvRebinds ==
  /\ svListener.is = "down"
  /\ svListener' = [is |-> IF SvStopping THEN "ended" ELSE "serving", at |-> svTime]
  /\ UNCHANGED <<svStop, svTime, svErrors, svKind, svConn, svStream, svForced>>

SvStops ==
  /\ ~SvStopping /\ svStop' = svTime
  /\ UNCHANGED <<svTime, svErrors, svKind, svListener, svConn, svStream, svForced>>

SvTick ==
  /\ svTime < SvTime /\ ~SvReady
  /\ svListener.is \in {"serving", "down"} => ~SvStopping
  /\ svListener.is = "draining" => svTime < svListener.at + SvGrace /\ \E c \in SvConns : SvLive(c)
  /\ \A c \in SvConns : svConn[c].is = "draining" => svTime < svConn[c].at + SvGrace
  /\ svTime' = svTime + 1
  /\ UNCHANGED <<svStop, svErrors, svKind, svListener, svConn, svStream, svForced>>

SvNext ==
  \/ \E c \in SvConns :
       \/ SvAccept(c) \/ SvHandshaken(c) \/ SvHandshakeEnds(c) \/ SvSeesStop(c) \/ SvClosed(c)
       \/ SvBreaks(c) \/ SvJoined(c) \/ SvConnDrainOver(c)
       \/ \E s \in SvStreams :
            \/ SvOpens(c, s) \/ SvComplete(c, s) \/ SvRefused(c, s) \/ SvFails(c, s)
            \/ SvResolved(c, s) \/ SvWritten(c, s)
  \/ \E kind \in SvKinds : SvServes(kind)
  \/ SvLeaves \/ SvDrained \/ SvDrainOver \/ SvRebinds \/ SvStops \/ SvTick

SvSpec == SvInit /\ [][SvNext]_svVars

(***************************************************************************)
(* Properties                                                              *)
(***************************************************************************)

\* A query that was complete is never cut off by a stop before the stop is
\* forced: not because its peer has gone, and not by a connection or listener
\* that ends on its own (Ingress::drain, doh::connection, drain_streams).
CompleteQueryFinishes ==
  [][SvStopping => \A c \in SvConns, s \in SvStreams :
       svStream[c][s] # "aborted" /\ svStream'[c][s] = "aborted" => svForced']_svVars

\* A stop is forced only by a query that is complete and unfinished: peers that
\* are idle, that shake hands slowly, that never finish a query or never
\* acknowledge the close do not force it.  The exception is a drain that began
\* before the stop, after a listener error or a lost QUIC connection, whose
\* grace does not start again.
ForcedByWorkOnly ==
  [][svForced' /\ ~svForced =>
       \/ \E c \in SvConns, s \in SvStreams :
            svStream[c][s] \in {"resolving", "writing"} /\ svStream'[c][s] = "aborted"
       \/ \E c \in SvConns : svConn[c].is = "draining"
       \/ svListener.is = "draining" /\ svListener.at < svStop]_svVars

\* What the comments on drain_streams and at the head of doh.rs say: a stop is
\* forced by the listener's drain that the stop began, and a drain begun outside
\* a stop, of a lost QUIC connection or after a listener error, does not force.
OnlyStopDrainForces ==
  [][svForced' /\ ~svForced => svListener.is = "draining" /\ svListener.at >= svStop
                                /\ svListener'.is = "ended"]_svVars

\* A stop finishes the queries it has and is forced by nothing else.
StopSound == CompleteQueryFinishes /\ ForcedByWorkOnly
=============================================================================
