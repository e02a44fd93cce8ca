------------------------------ MODULE DotPool -------------------------------
(***************************************************************************)
(* The DNS-over-TLS connection pool of one endpoint (tls/pool.rs, used by  *)
(* tls.rs Upstream::exchange_inner): max_connections slots under a mutex   *)
(* and as many semaphore permits.  A request waits for a permit, takes a   *)
(* free slot, preferably one whose idle connection goes to its address,    *)
(* and puts the connection back only after a whole exchange.               *)
(***************************************************************************)
EXTENDS Naturals, FiniteSets, Sequences

CONSTANTS
  DpRequests,       \* requests on the endpoint at a time
  DpSlots,          \* upstreams.dot_pool.max_connections
  DpAddresses,      \* resolved addresses of the endpoint
  DpConnections     \* bound: connections made

ASSUME DpAssumption ==
  /\ IsFiniteSet(DpRequests) /\ DpSlots \in Nat \ {0}
  /\ IsFiniteSet(DpAddresses) /\ DpConnections \in Nat

VARIABLES dpSlots, dpPermits, dpReq, dpMade

dpVars == <<dpSlots, dpPermits, dpReq, dpMade>>

\* dirty: bytes of an unfinished exchange may be on the connection
DpNoConn == [id |-> 0, address |-> 0, dirty |-> FALSE]
DpIdle == [at |-> "idle", address |-> 0, slot |-> 0, conn |-> DpNoConn, reused |-> FALSE]
\* Pool::new
DpInit ==
  /\ dpSlots = [s \in 1 .. DpSlots |-> [busy |-> FALSE, idle |-> DpNoConn]]
  /\ dpPermits = DpSlots
  /\ dpReq = [r \in DpRequests |-> DpIdle]
  /\ dpMade = 0

DpStart(r, a) ==
  /\ dpReq[r].at = "idle"
  /\ dpReq' = [dpReq EXCEPT ![r] = [DpIdle EXCEPT !.at = "waiting", !.address = a]]
  /\ UNCHANGED <<dpSlots, dpPermits, dpMade>>

\* available.acquire().await; cancellation while waiting consumes nothing
DpPermit(r) ==
  /\ dpReq[r].at = "waiting" /\ dpPermits > 0
  /\ dpPermits' = dpPermits - 1
  /\ dpReq' = [dpReq EXCEPT ![r].at = "permitted"]
  /\ UNCHANGED <<dpSlots, dpMade>>
DpGiveUp(r) ==
  /\ dpReq[r].at = "waiting"
  /\ dpReq' = [dpReq EXCEPT ![r] = DpIdle]
  /\ UNCHANGED <<dpSlots, dpPermits, dpMade>>

DpFree == {s \in 1 .. DpSlots : ~dpSlots[s].busy}
DpMatching(a) == {s \in DpFree : dpSlots[s].idle # DpNoConn /\ dpSlots[s].idle.address = a}
DpFirst(S) == CHOOSE s \in S : \A t \in S : s <= t

\* checkout under the mutex: a matching free slot, else any free slot; the
\* expect panics when there is none
DpCheckout(r) ==
  /\ dpReq[r].at = "permitted"
  /\ LET found == IF DpMatching(dpReq[r].address) # {} THEN DpMatching(dpReq[r].address) ELSE DpFree
     IN  IF found = {}
         THEN dpReq' = [dpReq EXCEPT ![r].at = "panicked"] /\ UNCHANGED dpSlots
         ELSE LET s == DpFirst(found)
              IN  /\ dpSlots' = [dpSlots EXCEPT ![s] = [busy |-> TRUE, idle |-> DpNoConn]]
                  /\ dpReq' = [dpReq EXCEPT ![r].at = "leased", ![r].slot = s,
                                            ![r].conn = dpSlots[s].idle]
  /\ UNCHANGED <<dpPermits, dpMade>>

\* the idle connection is usable only for this address and within its idle
\* time; otherwise it is dropped and a new one is made (which may fail: the
\* lease is dropped empty)
DpUsable(r) == dpReq[r].conn # DpNoConn /\ dpReq[r].conn.address = dpReq[r].address
DpReuse(r) ==
  /\ dpReq[r].at = "leased" /\ DpUsable(r)
  /\ dpReq' = [dpReq EXCEPT ![r].at = "exchanging", ![r].conn.dirty = TRUE,
                               ![r].reused = TRUE]
  /\ UNCHANGED <<dpSlots, dpPermits, dpMade>>
DpConnect(r) ==
  /\ dpReq[r].at = "leased" /\ dpMade < DpConnections
  /\ dpMade' = dpMade + 1
  /\ dpReq' = [dpReq EXCEPT ![r].at = "exchanging",
                 ![r].conn = [id |-> dpMade', address |-> dpReq[r].address, dirty |-> TRUE]]
  /\ UNCHANGED <<dpSlots, dpPermits>>

\* the stream is taken out of the lease for the exchange and put back only
\* after a complete, matching response: a failed or cancelled exchange leaves
\* the lease empty
DpReturned(c) == IF c.dirty THEN DpNoConn ELSE c
DpFinish(r) ==
  /\ dpReq[r].at = "exchanging"
  /\ dpReq' = [dpReq EXCEPT ![r].at = "returning", ![r].conn.dirty = FALSE]
  /\ UNCHANGED <<dpSlots, dpPermits, dpMade>>
DpCut(r) ==
  /\ dpReq[r].at \in {"leased", "exchanging"}
  /\ dpReq' = [dpReq EXCEPT ![r].at = "returning",
                 ![r].conn = IF dpReq[r].at = "leased" THEN DpNoConn ELSE DpReturned(@)]
  /\ UNCHANGED <<dpSlots, dpPermits, dpMade>>

\* a reused connection that the server had closed: once more on a new one
DpReconnect(r) ==
  /\ dpReq[r].at = "exchanging" /\ dpReq[r].reused /\ dpMade < DpConnections
  /\ dpMade' = dpMade + 1
  /\ dpReq' = [dpReq EXCEPT ![r].reused = FALSE, ![r].conn.id = dpMade']
  /\ UNCHANGED <<dpSlots, dpPermits>>

\* Mutant: the permit is free before the slot.
DpPermitFirst == <<"permit", "slot">>

\* the steps of dropping a Lease: Lease::drop publishes the slot, then the
\* field _permit is dropped
DpDrops == <<"slot", "permit">>
DpDrop(r, i) ==
  /\ dpReq[r].at = (IF i = 1 THEN "returning" ELSE "last")
  /\ \/ /\ DpDrops[i] = "slot"
        /\ dpSlots' = [dpSlots EXCEPT ![dpReq[r].slot] = [busy |-> FALSE, idle |-> dpReq[r].conn]]
        /\ UNCHANGED dpPermits
     \/ /\ DpDrops[i] = "permit"
        /\ dpPermits' = dpPermits + 1
        /\ UNCHANGED dpSlots
  /\ dpReq' = [dpReq EXCEPT ![r] = IF i = 1 THEN [@ EXCEPT !.at = "last"] ELSE DpIdle]
  /\ UNCHANGED dpMade

DpNext == \E r \in DpRequests :
  \/ \E a \in DpAddresses : DpStart(r, a)
  \/ DpPermit(r) \/ DpGiveUp(r) \/ DpCheckout(r) \/ DpReuse(r) \/ DpConnect(r)
  \/ DpFinish(r) \/ DpCut(r) \/ DpReconnect(r) \/ \E i \in 1 .. 2 : DpDrop(r, i)

DpSpec == DpInit /\ [][DpNext]_dpVars

\* Whoever holds a permit finds a free slot: the `expect` in checkout never
\* fails, because a lease frees its slot before its permit, and no permit or
\* slot is lost by a failed, cancelled or abandoned request.
DotSlotsEnough ==
  /\ \A r \in DpRequests : dpReq[r].at # "panicked"
  /\ \A r, q \in DpRequests :
       r # q /\ {dpReq[r].at, dpReq[q].at} \subseteq {"leased", "exchanging", "returning"}
         => dpReq[r].slot # dpReq[q].slot
  /\ (\A r \in DpRequests : dpReq[r] = DpIdle) =>
       dpPermits = DpSlots /\ DpFree = 1 .. DpSlots

\* A connection that waits in a slot carries nothing of an earlier exchange,
\* and no connection is in two places: a response is never read by a request
\* other than the one it answers (exchange_inner takes the stream out of the
\* lease and puts it back after a complete exchange only).
DotConnectionsClean ==
  /\ \A s \in 1 .. DpSlots : ~dpSlots[s].idle.dirty
  /\ \A s \in 1 .. DpSlots, r \in DpRequests :
       dpReq[r].at \in {"leased", "exchanging", "returning"} /\ dpReq[r].conn # DpNoConn
         => dpSlots[s].idle.id # dpReq[r].conn.id
  /\ \A s, t \in 1 .. DpSlots : s # t /\ dpSlots[s].idle # DpNoConn
         => dpSlots[s].idle.id # dpSlots[t].idle.id

\* The pool's slots suffice for its permits and hand out clean connections
\* only, whichever requests fail, are cancelled or reconnect.
DotPoolSound == DotSlotsEnough /\ DotConnectionsClean
=============================================================================
