---------------------------- MODULE UpstreamSend ----------------------------
(***************************************************************************)
(* One query on its way to one upstream endpoint: the addresses of the     *)
(* endpoint in order, and on each address the transaction of its protocol  *)
(* (upstreams/transport.rs, upstreams/h3.rs, upstream.rs, tls.rs).  A      *)
(* failure marked NotSent moves the query to the next address or from      *)
(* HTTP/3 to HTTP/2; every other failure is the endpoint's answer.         *)
(*                                                                         *)
(* Which failure happens where is the network's choice; each step of a     *)
(* transaction succeeds, fails, or is cut by the resolver's deadline.      *)
(***************************************************************************)
EXTENDS Naturals, FiniteSets

CONSTANTS
  UsAddresses,    \* bound: addresses of a hostname endpoint (16 in the code)
  UsQueries       \* bound: queries one after another

ASSUME UsAssumption == UsAddresses \in Nat \ {0} /\ UsQueries \in Nat

VARIABLES
  usQ,            \* the query in progress
  usDone          \* queries finished

usVars == <<usQ, usDone>>

UsProtocols == {"udp", "tcp", "tls", "https", "quic"}

\* how far the query is, on which transport, and what it has done so far:
\* transmissions, and the two kinds of second transmission the code makes
UsNoQuery == [at |-> "none", proto |-> "udp", over |-> "udp", left |-> 0, h3 |-> FALSE,
              reused |-> FALSE, again |-> FALSE, sends |-> 0, truncated |-> FALSE, closed |-> FALSE]

UsInit == usQ = UsNoQuery /\ usDone = 0

\* the transport an address starts with: an HTTPS endpoint that prefers
\* HTTP/3 tries it first
UsFirst(proto, h3) == IF proto = "https" THEN (IF h3 THEN "h3" ELSE "h2") ELSE proto

\* Client::exchange: a numeric host is one address; Client::addresses may
\* find several, or none and then nothing is tried
UsBootstrap(n) == 1 .. n
UsExchange ==
  /\ usQ.at = "none" /\ usDone < UsQueries
  /\ \E proto \in UsProtocols, h3 \in BOOLEAN, n \in UsBootstrap(UsAddresses) :
       usQ' = [UsNoQuery EXCEPT !.at = "connect", !.proto = proto, !.over = UsFirst(proto, h3),
                                !.h3 = h3, !.left = n - 1]
  /\ UNCHANGED usDone

UsEnd == usQ' = UsNoQuery /\ usDone' = usDone + 1

\* a failure marked NotSent, in Client::exchange: from HTTP/3 to HTTP/2 on the
\* same address, else to the next address while there is one
UsMoved(q) ==
  IF q.over = "h3" THEN [q EXCEPT !.at = "connect", !.over = "h2"]
  ELSE [q EXCEPT !.at = "connect", !.over = UsFirst(q.proto, q.h3), !.left = @ - 1,
                 !.reused = FALSE, !.again = FALSE]
UsNotSent ==
  IF usQ.over = "h3" \/ usQ.left > 0 THEN usQ' = UsMoved(usQ) /\ UNCHANGED usDone ELSE UsEnd

\* a connection: reused from the endpoint's cache or the DoT pool, or new
UsReusable == {"tls", "h2", "h3", "quic"}
UsConnect ==
  /\ usQ.at = "connect"
  /\ \E reused \in (IF usQ.over \in UsReusable THEN BOOLEAN ELSE {FALSE}) :
       usQ' = [usQ EXCEPT !.at = "open", !.reused = reused]
  /\ UNCHANGED usDone

\* Mutant: every failure to connect counts as not sent.
UsConnectNotSentAlways(q) == TRUE

\* whether a failure to connect is marked NotSent: not for the TCP retry after
\* a truncated answer and not for the DoT reconnect, which follow a transmission
UsConnectNotSent(q) == ~q.truncated /\ ~q.closed

UsConnectFails ==
  /\ usQ.at = "connect"
  /\ IF UsConnectNotSent(usQ) THEN UsNotSent ELSE UsEnd

\* the connection closed before it took the request: open_bi, ready,
\* send_request or a UDP send failed.  HTTP/2 retries once when it was reused
UsOpenFails ==
  /\ usQ.at = "open" /\ usQ.over \in {"udp", "h2", "h3", "quic"}
  /\ IF usQ.over = "h2" /\ usQ.reused /\ ~usQ.again
     THEN usQ' = [usQ EXCEPT !.at = "connect", !.again = TRUE] /\ UNCHANGED usDone
     ELSE UsNotSent

\* the query is handed to the transport
UsWrite ==
  /\ usQ.at = "open"
  /\ usQ' = [usQ EXCEPT !.at = "sent", !.sends = @ + 1]
  /\ UNCHANGED usDone

\* a failure after the request was handed over is final, on every transport
UsSentFails ==
  /\ usQ.at = "sent"
  /\ UsEnd

\* DoT: a reused connection that turns out closed is replaced once
UsDotClosed ==
  /\ usQ.at = "sent" /\ usQ.over = "tls" /\ usQ.reused /\ ~usQ.closed
  /\ usQ' = [usQ EXCEPT !.at = "connect", !.closed = TRUE, !.over = "dotAgain"]
  /\ UNCHANGED usDone

\* UDP: a truncated answer is fetched again over TCP from the same address
UsTruncated ==
  /\ usQ.at = "sent" /\ usQ.over = "udp"
  /\ usQ' = [usQ EXCEPT !.at = "connect", !.truncated = TRUE, !.over = "tcp"]
  /\ UNCHANGED usDone

UsAnswer == usQ.at = "sent" /\ UsEnd

\* HTTP/3 skipped (refused, cooling down) or over its connection budget
\* before anything was sent
UsH3Skipped ==
  /\ usQ.over = "h3" /\ usQ.at \in {"connect", "open"}
  /\ usQ' = UsMoved(usQ) /\ UNCHANGED usDone

\* the resolver's deadline or a lost race drops the exchange anywhere
UsCancelled == usQ.at # "none" /\ UsEnd

UsNext ==
  \/ UsExchange \/ UsConnect \/ UsConnectFails \/ UsOpenFails \/ UsWrite
  \/ UsSentFails \/ UsDotClosed \/ UsTruncated \/ UsAnswer \/ UsH3Skipped \/ UsCancelled

UsSpec == UsInit /\ [][UsNext]_usVars

(***************************************************************************)
(* Properties                                                              *)
(***************************************************************************)

\* A query that may have been sent is never resent: one transmission for each
\* exchange with an endpoint, whatever fails on whichever address, except the
\* TCP retry of a truncated UDP answer and the single DoT reconnect
\* (NotSent in upstreams.rs, Client::exchange).
NeverResent ==
  /\ usQ.sends <= 1 + (IF usQ.truncated \/ usQ.closed THEN 1 ELSE 0)
  /\ ~(usQ.truncated /\ usQ.closed)
=============================================================================
