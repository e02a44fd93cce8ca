--------------------------- MODULE UpstreamProofs ---------------------------
(***************************************************************************)
(* The client side of the server for any number of addresses, attempts,    *)
(* requests and slots: a query that may have been sent is not sent again   *)
(* (UpstreamSend), the HTTP/3 cooldown follows the connection in use       *)
(* (UpstreamH3), the DoT pool has a clean slot for every permit (DotPool), *)
(* and a recursive reply is as valid as the records it is made of          *)
(* (RecursionReply).                                                       *)
(***************************************************************************)
EXTENDS UpstreamSend, UpstreamH3, DotPool, RecursionReply,
        FiniteSetTheorems, WellFoundedInduction, TLAPS

(***************************************************************************)
(* UpstreamSend                                                            *)
(***************************************************************************)

UsTransports == {"udp", "tcp", "tls", "h2", "h3", "quic", "dotAgain"}

UsTypeOK ==
  /\ usQ \in [at : {"none", "connect", "open", "sent"}, proto : UsProtocols, over : UsTransports,
              left : Nat, h3 : BOOLEAN, reused : BOOLEAN, again : BOOLEAN, sends : Nat,
              truncated : BOOLEAN, closed : BOOLEAN]
  /\ usDone \in Nat

\* Before the query is handed over, nothing was sent but what the two second
\* transmissions follow; those run on a transport that no failure leaves for
\* another address, so NotSent is never claimed of a query that was sent.
UsSendsInv ==
  /\ usQ.truncated => usQ.over = "tcp" /\ ~usQ.closed
  /\ usQ.closed => usQ.over = "dotAgain"
  /\ usQ.at # "sent" /\ ~usQ.truncated /\ ~usQ.closed => usQ.sends = 0
  /\ (usQ.at = "sent" <=> ~(usQ.truncated \/ usQ.closed)) => usQ.sends <= 1
  /\ usQ.at = "sent" /\ (usQ.truncated \/ usQ.closed) => usQ.sends <= 2

UsIInv == UsTypeOK /\ UsSendsInv

\* UsInit satisfies the inductive invariant.
LEMMA UsInitIInv == UsInit => UsIInv
  BY DEF UsInit, UsIInv, UsTypeOK, UsSendsInv, UsNoQuery, UsProtocols, UsTransports

\* Every step of a query keeps it.
LEMMA UsNextIInv == UsIInv /\ [UsNext]_usVars => UsIInv'
  <1> SUFFICES ASSUME UsIInv, [UsNext]_usVars PROVE UsIInv'
    OBVIOUS
  <1> USE DEF UsIInv, UsTypeOK, UsSendsInv, UsProtocols, UsTransports
  <1>1. CASE UsExchange
    <2>1. PICK proto \in UsProtocols, h3 \in BOOLEAN, n \in UsBootstrap(UsAddresses) :
            usQ' = [UsNoQuery EXCEPT !.at = "connect", !.proto = proto, !.over = UsFirst(proto, h3),
                                     !.h3 = h3, !.left = n - 1]
      BY <1>1, Zenon DEF UsExchange
    <2>2. n - 1 \in Nat /\ UsFirst(proto, h3) \in UsTransports
      BY UsAssumption DEF UsBootstrap, UsFirst
    <2>3. usQ' = [at |-> "connect", proto |-> proto, over |-> UsFirst(proto, h3), left |-> n - 1,
                  h3 |-> h3, reused |-> FALSE, again |-> FALSE, sends |-> 0,
                  truncated |-> FALSE, closed |-> FALSE]
      BY <2>1, Zenon DEF UsNoQuery
    <2>4. UsTypeOK'
      BY <1>1, <2>2, <2>3, Zenon DEF UsExchange
    <2>5. UsSendsInv'
      BY <2>3
    <2> QED
      BY <2>4, <2>5
  <1>2. ASSUME UsEnd PROVE UsIInv'
    BY <1>2 DEF UsEnd, UsNoQuery
  <1>3. ASSUME UsNotSent, usQ.at \in {"connect", "open"}, ~usQ.truncated, ~usQ.closed
        PROVE  UsIInv'
    <2>1. CASE usQ.over = "h3"
      BY <1>3, <2>1, Zenon DEF UsNotSent, UsMoved
    <2>2. CASE usQ.over # "h3" /\ usQ.left > 0
      <3>1. usQ.left - 1 \in Nat /\ UsFirst(usQ.proto, usQ.h3) \in UsTransports
        BY <2>2 DEF UsFirst
      <3> QED
        BY <1>3, <2>2, <3>1, Zenon DEF UsNotSent, UsMoved
    <2> QED
      BY <1>2, <1>3, <2>1, <2>2 DEF UsNotSent
  <1>4. CASE UsConnect
    BY <1>4, Zenon DEF UsConnect
  <1>5. CASE UsConnectFails
    BY <1>2, <1>3, <1>5 DEF UsConnectFails, UsConnectNotSent
  <1>6. CASE UsOpenFails
    <2>1. CASE usQ.over = "h2" /\ usQ.reused /\ ~usQ.again
      BY <1>6, <2>1, Zenon DEF UsOpenFails
    <2> QED
      BY <1>3, <1>6, <2>1 DEF UsOpenFails
  <1>7. CASE UsWrite
    <2>1. usQ.sends + 1 \in Nat
      OBVIOUS
    <2>2. UsTypeOK'
      BY <1>7, <2>1, Zenon DEF UsWrite
    <2>3. UsSendsInv'
      BY <1>7 DEF UsWrite
    <2> QED
      BY <2>2, <2>3
  <1>8. CASE UsSentFails \/ UsAnswer \/ UsCancelled
    BY <1>2, <1>8 DEF UsSentFails, UsAnswer, UsCancelled
  <1>9. CASE UsDotClosed
    BY <1>9, Zenon DEF UsDotClosed
  <1>10. CASE UsTruncated
    BY <1>10, Zenon DEF UsTruncated
  <1>11. CASE UsH3Skipped
    BY <1>11, Zenon DEF UsH3Skipped, UsMoved
  <1>12. CASE UNCHANGED usVars
    BY <1>12 DEF usVars
  <1> QED
    BY <1>1, <1>4, <1>5, <1>6, <1>7, <1>8, <1>9, <1>10, <1>11, <1>12 DEF UsNext

\* For any number of addresses and of failures on the way, a query is handed to
\* a transport once, but for the TCP retry of a truncated answer and the single
\* DoT reconnect (NotSent in upstreams.rs, Client::exchange).
THEOREM QueriesAreNotResent == UsSpec => []NeverResent
  <1>1. UsIInv => NeverResent
    BY DEF UsIInv, UsTypeOK, UsSendsInv, NeverResent
  <1> QED
    BY <1>1, UsInitIInv, UsNextIInv, PTL DEF UsSpec

(***************************************************************************)
(* UpstreamH3                                                              *)
(***************************************************************************)

UhStages == {"idle", "wait", "handshake", "open", "sent", "answered", "failed", "closing"}

UhTryState == [pc : UhStages, addr : UhAddresses \cup {UhNobody}, obs : Nat, sent : BOOLEAN,
               made : Nat]

UhTypeOK ==
  /\ uhMade \in Nat /\ uhConn \in 0 .. uhMade
  /\ uhFailures \in Nat /\ uhCools \in Nat
  /\ uhTry \in [UhAttempts -> UhTryState]

\* An attempt observes a connection that existed when it looked.
UhObservedInv ==
  \A a \in UhAttempts : uhTry[a].obs <= uhTry[a].made /\ uhTry[a].made <= uhMade

UhIInv == UhTypeOK /\ UhObservedInv /\ BackoffPerCooldown

\* UhInit satisfies the inductive invariant.
LEMMA UhInitIInv == UhInit => UhIInv
  BY DEF UhTryState, UhInit, UhIInv, UhTypeOK, UhObservedInv, BackoffPerCooldown, UhIdle, UhStages

\* A look at the cache keeps it: the attempt observes what is cached now.
LEMMA UhLookKeeps ==
  ASSUME UhIInv, NEW a \in UhAttempts,
         NEW t \in UhTryState,
         NEW found \in UhStages, NEW missed \in UhStages,
         UhLook(a, t, found, missed), UNCHANGED <<uhMade, uhFailures, uhCools>>
  PROVE  UhIInv'
  <1> DEFINE pc == IF UhCached # 0 /\ uhAddr[UhCached] = t.addr THEN found ELSE missed
             u == [t EXCEPT !.obs = UhCached, !.made = uhMade, !.pc = pc]
  <1>1. UhCached \in 0 .. uhMade /\ UhCached \in Nat /\ uhMade \in Nat
    BY DEF UhCached, UhIInv, UhTypeOK
  <1>2. pc \in UhStages
    OBVIOUS
  <1>3. uhTry' = [uhTry EXCEPT ![a] = u] /\ uhConn' = UhCached
    BY DEF UhLook
  <1> HIDE DEF pc
  <1>4. u \in UhTryState /\ u.obs = UhCached /\ u.made = uhMade
    BY <1>1, <1>2, Zenon DEF UhTryState
  <1> HIDE DEF u
  <1>5. UhTypeOK'
    BY <1>1, <1>3, <1>4 DEF UhIInv, UhTypeOK
  <1>6. UhObservedInv'
    BY <1>1, <1>3, <1>4 DEF UhTryState, UhIInv, UhTypeOK, UhObservedInv
  <1> QED
    BY <1>5, <1>6 DEF UhIInv, BackoffPerCooldown

\* An attempt that moves on with what it observed keeps it.
LEMMA UhAttemptMoves ==
  ASSUME UhIInv, NEW a \in UhAttempts, NEW pc \in UhStages, NEW sent \in BOOLEAN,
         UNCHANGED <<uhMade, uhConn, uhFailures, uhCools>>,
         \/ uhTry' = [uhTry EXCEPT ![a].pc = pc]
         \/ uhTry' = [uhTry EXCEPT ![a] = [@ EXCEPT !.pc = pc, !.sent = sent]]
  PROVE  UhIInv'
  <1>1. uhTry \in [UhAttempts -> UhTryState] /\ uhTry[a] \in UhTryState
    BY DEF UhIInv, UhTypeOK
  <1>2. PICK u \in UhTryState : /\ uhTry' = [uhTry EXCEPT ![a] = u]
                               /\ u.obs = uhTry[a].obs /\ u.made = uhTry[a].made
    <2>1. CASE uhTry' = [uhTry EXCEPT ![a].pc = pc]
      <3>1. /\ [uhTry[a] EXCEPT !.pc = pc] \in UhTryState
            /\ [uhTry[a] EXCEPT !.pc = pc].obs = uhTry[a].obs
            /\ [uhTry[a] EXCEPT !.pc = pc].made = uhTry[a].made
        BY <1>1 DEF UhTryState
      <3> QED
        BY <2>1, <3>1, Zenon
    <2>2. CASE uhTry' = [uhTry EXCEPT ![a] = [@ EXCEPT !.pc = pc, !.sent = sent]]
      <3>1. /\ [uhTry[a] EXCEPT !.pc = pc, !.sent = sent] \in UhTryState
            /\ [uhTry[a] EXCEPT !.pc = pc, !.sent = sent].obs = uhTry[a].obs
            /\ [uhTry[a] EXCEPT !.pc = pc, !.sent = sent].made = uhTry[a].made
        BY <1>1, Zenon DEF UhTryState
      <3> QED
        BY <2>2, <3>1, Zenon
    <2> QED
      BY <2>1, <2>2
  <1>3. UhTypeOK'
    BY <1>1, <1>2 DEF UhIInv, UhTypeOK
  <1>4. \A b \in UhAttempts : uhTry'[b].obs = uhTry[b].obs /\ uhTry'[b].made = uhTry[b].made
    BY <1>1, <1>2
  <1> QED
    BY <1>3, <1>4 DEF UhIInv, UhObservedInv, BackoffPerCooldown

\* Every step of an attempt, a connection or the clock keeps it.
LEMMA UhNextIInv == UhIInv /\ [UhNext]_uhVars => UhIInv'
  <1> SUFFICES ASSUME UhIInv, [UhNext]_uhVars PROVE UhIInv'
    OBVIOUS
  <1> USE DEF UhIInv, UhTypeOK, UhObservedInv, BackoffPerCooldown
  <1>1. ASSUME NEW a \in UhAttempts, NEW addr \in UhAddresses, UhStart(a, addr)
        PROVE  UhIInv'
    <2>1. [UhIdle EXCEPT !.addr = addr] \in UhTryState
      BY Zenon DEF UhIdle, UhTryState, UhStages
    <2> QED
      BY <1>1, <2>1, UhLookKeeps DEF UhStart, UhStages
  <1>2. ASSUME NEW a \in UhAttempts, UhLocked(a)
        PROVE  UhIInv'
    <2>1. CASE uhCooling
      BY <1>2, <2>1, UhAttemptMoves, Zenon DEF UhLocked, UhStages
    <2>2. CASE ~uhCooling
      BY <1>2, <2>2, UhLookKeeps DEF UhLocked, UhStages
    <2> QED
      BY <2>1, <2>2
  <1>3. ASSUME NEW a \in UhAttempts, UhConnected(a)
        PROVE  UhIInv'
    <2>0. uhMade + 1 \in Nat /\ uhTry[a] \in UhTryState /\ "open" \in UhStages
      BY DEF UhStages
    <2>1. ASSUME NEW k \in Nat
          PROVE  [uhTry[a] EXCEPT !.pc = "open", !.obs = k, !.made = k] \in UhTryState
      BY <2>0, Zenon DEF UhTryState
    <2>2. uhTry' \in [UhAttempts -> UhTryState]
      BY <1>3, <2>0, <2>1, Zenon DEF UhConnected
    <2>3. UhObservedInv'
      BY <1>3 DEF UhConnected, UhTryState
    <2> QED
      BY <1>3, <2>2, <2>3 DEF UhConnected
  <1>4. ASSUME NEW a \in UhAttempts, UhUnsent(a)
        PROVE  UhIInv'
    BY <1>4, UhAttemptMoves, Zenon DEF UhUnsent, UhStages
  <1>5. ASSUME NEW a \in UhAttempts, UhSend(a)
        PROVE  UhIInv'
    BY <1>5, UhAttemptMoves, Zenon DEF UhSend, UhStages
  <1>6. ASSUME NEW a \in UhAttempts, NEW outcome \in {"answered", "refused", "failed", "closing"},
               UhReceive(a, outcome)
        PROVE  UhIInv'
    BY <1>6, UhAttemptMoves, Zenon DEF UhReceive, UhStages
  <1>7. ASSUME NEW a \in UhAttempts, UhFinish(a)
        PROVE  UhIInv'
    BY <1>7 DEF UhFinish, UhIdle, UhStarts, UhTryState, UhStages
  <1>8. ASSUME NEW a \in UhAttempts, UhCancel(a)
        PROVE  UhIInv'
    BY <1>8 DEF UhCancel, UhIdle, UhTryState, UhStages
  <1>9. CASE UhCooled \/ (\E c \in 1 .. UhConnections : UhCloses(c)) \/ UNCHANGED uhVars
    BY <1>9 DEF UhCooled, UhCloses, uhVars
  <1> QED
    BY <1>1, <1>2, <1>3, <1>4, <1>5, <1>6, <1>7, <1>8, <1>9 DEF UhNext

\* An attempt that ends while a newer connection is in use changes nothing but itself.
LEMMA UhLateStep ==
  ASSUME UhIInv, UhNext, NEW a \in UhAttempts,
         uhTry[a].pc \in {"answered", "failed", "closing"}, uhTry'[a].pc = "idle",
         uhConn > uhTry[a].made
  PROVE  uhCooling' = uhCooling /\ uhFailures' = uhFailures
  <1> USE DEF UhIInv, UhTypeOK, UhObservedInv, UhTryState
  <1>1. ~UhCurrent(uhTry[a])
    BY DEF UhCurrent
  <1>2. ASSUME NEW b \in UhAttempts, UhFinish(b)
        PROVE  b = a
    BY <1>2 DEF UhFinish
  <1>3. ASSUME UhFinish(a)
        PROVE  uhCooling' = uhCooling /\ uhFailures' = uhFailures
    BY <1>1, <1>3 DEF UhFinish
  <1>4. CASE UhCooled
    BY <1>4 DEF UhCooled
  <1> QED
    BY <1>2, <1>3, <1>4, Zenon DEF UhNext, UhStart, UhLocked, UhConnected, UhUnsent, UhSend, UhReceive,
                            UhCancel, UhCloses

\* For any number of attempts at the same time: the failure count grows once per
\* cooldown, and an outcome never applies to a connection established after the
\* attempt looked (upstreams/h3.rs Client::exchange, State::connection_failed).
THEOREM CooldownFollowsConnection == UhSpec => CooldownSound
  <1>1. UhIInv => BackoffPerCooldown
    BY DEF UhIInv
  <1> DEFINE Late ==
        \A a \in UhAttempts :
          uhTry[a].pc \in {"answered", "failed", "closing"} /\ uhTry'[a].pc = "idle" /\ uhConn > uhTry[a].made
            => uhCooling' = uhCooling /\ uhFailures' = uhFailures
  <1>2. UhIInv /\ [UhNext]_uhVars => [Late]_uhVars
    BY UhLateStep
  <1> QED
    BY <1>1, <1>2, UhInitIInv, UhNextIInv, PTL DEF UhSpec, CooldownSound, LateOutcomeIgnored

(***************************************************************************)
(* DotPool                                                                 *)
(***************************************************************************)

DpLeasingAt == {"leased", "exchanging", "returning"}
DpStages == DpLeasingAt \cup {"idle", "waiting", "permitted", "last"}
DpConn == [id : Nat, address : DpAddresses \cup {0}, dirty : BOOLEAN]
DpSlotState == [busy : BOOLEAN, idle : DpConn]
DpReqState == [at : DpStages, address : DpAddresses \cup {0}, slot : Nat, conn : DpConn, reused : BOOLEAN]

\* No request panics: "panicked" is no stage.
DpTypeOK ==
  /\ dpSlots \in [1 .. DpSlots -> DpSlotState]
  /\ dpReq \in [DpRequests -> DpReqState]
  /\ dpPermits \in Nat /\ dpMade \in Nat

\* Requests with a slot, and requests with a permit: a slot is left before its permit.
DpLeasing == {r \in DpRequests : dpReq[r].at \in DpLeasingAt}
DpHolders == {r \in DpRequests : dpReq[r].at \in DpLeasingAt \cup {"permitted", "last"}}

\* The busy slots are those of the leases, one each.
DpLeaseInv ==
  /\ \A r \in DpLeasing : dpReq[r].slot \in 1 .. DpSlots /\ dpSlots[dpReq[r].slot].busy
  /\ \A r, q \in DpLeasing : r # q => dpReq[r].slot # dpReq[q].slot
  /\ \A s \in 1 .. DpSlots : dpSlots[s].busy => \E r \in DpLeasing : dpReq[r].slot = s

\* Every permit is in the semaphore or with a holder.
DpPermitInv == dpPermits + Cardinality(DpHolders) = DpSlots

\* Connections are made once: no two places hold the same one.  A connection is
\* dirty while it is in use and only then.
DpConnInv ==
  /\ \A s \in 1 .. DpSlots :
       LET c == dpSlots[s].idle
       IN  c.id <= dpMade /\ ~c.dirty /\ (c.id = 0 => c = DpNoConn)
  /\ \A r \in DpLeasing :
       LET c == dpReq[r].conn
       IN  c.id <= dpMade /\ (c.id = 0 => c = DpNoConn)
           /\ (IF dpReq[r].at = "exchanging" THEN c.dirty /\ c.id # 0 ELSE ~c.dirty)
  /\ \A s, t \in 1 .. DpSlots : s # t /\ dpSlots[s].idle.id # 0 => dpSlots[s].idle.id # dpSlots[t].idle.id
  /\ \A s \in 1 .. DpSlots, r \in DpLeasing : dpReq[r].conn.id # 0 => dpSlots[s].idle.id # dpReq[r].conn.id
  /\ \A r, q \in DpLeasing : r # q /\ dpReq[r].conn.id # 0 => dpReq[r].conn.id # dpReq[q].conn.id

DpIInv == DpTypeOK /\ DpLeaseInv /\ DpPermitInv /\ DpConnInv

\* The holders and the leasing requests are finitely many.
LEMMA DpFinite ==
  IsFiniteSet(DpHolders) /\ IsFiniteSet(DpLeasing)
    /\ Cardinality(DpHolders) \in Nat /\ Cardinality(DpLeasing) \in Nat
  BY DpAssumption, FS_Subset, FS_CardinalityType DEF DpHolders, DpLeasing

\* A request that moves on with its permit and slot, with its own connection, a
\* new one or none, keeps the invariant.
LEMMA DpRequestMoves ==
  ASSUME DpIInv, NEW r \in DpRequests, NEW x \in DpReqState,
         dpReq' = [dpReq EXCEPT ![r] = x], UNCHANGED <<dpSlots, dpPermits>>,
         dpMade' \in {dpMade, dpMade + 1},
         r \in DpHolders <=> x.at \in DpLeasingAt \cup {"permitted", "last"},
         r \in DpLeasing <=> x.at \in DpLeasingAt,
         x.at \in DpLeasingAt =>
            /\ x.slot = dpReq[r].slot
            /\ \/ x.conn = DpNoConn
               \/ x.conn.id # 0 /\ x.conn.id = dpReq[r].conn.id
               \/ dpMade' = dpMade + 1 /\ x.conn.id = dpMade'
            /\ (IF x.at = "exchanging" THEN x.conn.dirty /\ x.conn.id # 0 ELSE ~x.conn.dirty)
  PROVE  DpIInv'
  <1> USE DEF DpIInv
  <1>1. DpTypeOK'
    BY DEF DpTypeOK
  <1>2. DpHolders' = DpHolders /\ DpLeasing' = DpLeasing
    BY DEF DpTypeOK, DpHolders, DpLeasing
  <1>3. DpLeaseInv'
    BY <1>2 DEF DpTypeOK, DpLeaseInv, DpLeasing
  <1>4. DpPermitInv'
    BY <1>2 DEF DpPermitInv
  <1>5. ASSUME NEW q \in DpRequests
        PROVE  dpReq'[q] = IF q = r THEN x ELSE dpReq[q]
    BY DEF DpTypeOK
  <1>6. dpMade' \in Nat /\ dpMade <= dpMade'
    BY DEF DpTypeOK
  <1>7. \A s \in 1 .. DpSlots : dpSlots[s].idle \in DpConn /\ dpSlots[s].idle.id \in Nat
    BY DEF DpTypeOK, DpSlotState, DpConn
  <1>8. \A q \in DpRequests : dpReq[q].conn \in DpConn /\ dpReq[q].conn.id \in Nat
    BY DEF DpTypeOK, DpReqState, DpConn
  <1>9. DpNoConn.id = 0 /\ ~DpNoConn.dirty
    BY DEF DpNoConn
  <1>10. ASSUME NEW q \in DpLeasing'
         PROVE  LET c == dpReq'[q].conn
                IN  c.id <= dpMade' /\ (c.id = 0 => c = DpNoConn)
                    /\ (IF dpReq'[q].at = "exchanging" THEN c.dirty /\ c.id # 0 ELSE ~c.dirty)
    <2>1. CASE q = r
      BY <1>2, <1>5, <1>6, <1>8, <1>9, <2>1 DEF DpConnInv, DpLeasing
    <2>2. CASE q # r
      BY <1>2, <1>5, <1>6, <1>8, <2>2 DEF DpConnInv, DpLeasing, DpTypeOK
    <2> QED
      BY <2>1, <2>2
  <1>11. ASSUME NEW q \in DpLeasing', dpReq'[q].conn.id # 0
         PROVE  \/ dpReq'[q].conn.id = dpReq[q].conn.id
                \/ q = r /\ dpReq'[q].conn.id > dpMade
    BY <1>2, <1>5, <1>9, <1>11 DEF DpLeasing, DpTypeOK
  <1>12. DpConnInv'
    <2>1. \A s \in 1 .. DpSlots, q \in DpLeasing' :
             dpReq'[q].conn.id # 0 => dpSlots'[s].idle.id # dpReq'[q].conn.id
      BY <1>2, <1>7, <1>11 DEF DpConnInv, DpTypeOK
    <2>2. \A q, o \in DpLeasing' :
             q # o /\ dpReq'[q].conn.id # 0 => dpReq'[q].conn.id # dpReq'[o].conn.id
      BY <1>2, <1>8, <1>11, SMTT(30) DEF DpConnInv, DpTypeOK, DpLeasing
    <2>3. \A s \in 1 .. DpSlots :
             LET c == dpSlots[s].idle
             IN  c.id <= dpMade' /\ ~c.dirty /\ (c.id = 0 => c = DpNoConn)
      BY <1>6, <1>7 DEF DpConnInv, DpTypeOK
    <2> QED
      BY <1>10, <2>1, <2>2, <2>3 DEF DpConnInv
  <1> QED
    BY <1>1, <1>3, <1>4, <1>12

\* A set of naturals with an element has a least one.
LEMMA LeastNatural ==
  ASSUME NEW S \in SUBSET Nat, S # {}
  PROVE  \E m \in S : \A k \in S : m <= k
  <1>1. PICK m \in S : \A k \in S : ~(<<k, m>> \in OpToRel(<, Nat))
    BY NatLessThanWellFounded, WFMin, Zenon
  <1>2. \A k \in S : ~(k < m)
    BY <1>1, Zenon DEF OpToRel
  <1> QED
    BY <1>2

\* The `expect` of checkout: whoever has a permit finds a free slot, as the busy
\* slots are those of other holders of a permit.
LEMMA DpSlotFree ==
  ASSUME DpIInv, NEW r \in DpRequests, dpReq[r].at = "permitted"
  PROVE  DpFree # {}
  <1> SUFFICES ASSUME DpFree = {} PROVE FALSE
    OBVIOUS
  <1> DEFINE f == [q \in DpLeasing |-> dpReq[q].slot]
  <1>1. f \in Surjection(DpLeasing, 1 .. DpSlots)
    BY DEF DpIInv, DpLeaseInv, DpFree, Surjection
  <1>2. Cardinality(1 .. DpSlots) = DpSlots
    BY DpAssumption, FS_Interval
  <1>3. DpSlots <= Cardinality(DpLeasing)
    BY <1>1, <1>2, DpFinite, FS_Surjection
  <1>4. DpLeasing \subseteq DpHolders \ {r} /\ r \in DpHolders
    BY DEF DpLeasing, DpHolders, DpLeasingAt
  <1>5. Cardinality(DpLeasing) <= Cardinality(DpHolders) - 1
    <2>1. IsFiniteSet(DpHolders \ {r}) /\ Cardinality(DpHolders \ {r}) = Cardinality(DpHolders) - 1
      BY <1>4, DpFinite, FS_RemoveElement
    <2> QED
      BY <1>4, <2>1, FS_Subset
  <1> QED
    BY <1>3, <1>5, DpFinite, DpAssumption DEF DpIInv, DpPermitInv, DpTypeOK

\* Taking a slot keeps the invariant: the idle connection moves to the lease.
LEMMA DpCheckoutStep ==
  ASSUME DpIInv, NEW r \in DpRequests, DpCheckout(r)
  PROVE  DpIInv'
  <1> DEFINE found == IF DpMatching(dpReq[r].address) # {} THEN DpMatching(dpReq[r].address) ELSE DpFree
             s == DpFirst(found)
  <1>1. dpReq[r].at = "permitted" /\ r \notin DpLeasing /\ r \in DpHolders
    BY Zenon DEF DpCheckout, DpLeasing, DpHolders, DpLeasingAt
  <1>2. found # {} /\ found \subseteq DpFree
    BY <1>1, DpSlotFree DEF DpMatching
  <1>3. s \in DpFree
    <2> HIDE DEF found
    <2>1. found \in SUBSET Nat
      BY <1>2, DpAssumption DEF DpFree
    <2>2. \E m \in found : \A k \in found : m <= k
      BY <1>2, <2>1, LeastNatural
    <2> QED
      BY <1>2, <2>2 DEF DpFirst
  <1>4. /\ dpSlots' = [dpSlots EXCEPT ![s] = [busy |-> TRUE, idle |-> DpNoConn]]
        /\ dpReq' = [dpReq EXCEPT ![r].at = "leased", ![r].slot = s, ![r].conn = dpSlots[s].idle]
        /\ UNCHANGED <<dpPermits, dpMade>>
    BY <1>2, Zenon DEF DpCheckout
  <1>5. s \in 1 .. DpSlots /\ ~dpSlots[s].busy
    BY <1>3 DEF DpFree
  <1> HIDE DEF found, s
  <1> USE DEF DpIInv
  <1>6. dpSlots[s].idle \in DpConn /\ s \in Nat /\ DpNoConn \in DpConn
    BY <1>5, DpAssumption DEF DpTypeOK, DpSlotState, DpNoConn, DpConn
  <1>7. /\ \A q \in DpRequests : q # r => dpReq'[q] = dpReq[q]
        /\ dpReq'[r].at = "leased" /\ dpReq'[r].slot = s /\ dpReq'[r].conn = dpSlots[s].idle
        /\ dpReq'[r] \in DpReqState
    BY <1>4, <1>6, Zenon DEF DpTypeOK, DpReqState, DpStages, DpLeasingAt
  <1>8. dpReq' \in [DpRequests -> DpReqState]
    BY <1>4, <1>7 DEF DpTypeOK
  <1>9. /\ \A t \in 1 .. DpSlots : t # s => dpSlots'[t] = dpSlots[t]
        /\ dpSlots'[s] = [busy |-> TRUE, idle |-> DpNoConn]
        /\ dpSlots' \in [1 .. DpSlots -> DpSlotState]
    BY <1>4, <1>5, <1>6 DEF DpTypeOK, DpSlotState
  <1>10. DpTypeOK'
    BY <1>4, <1>8, <1>9 DEF DpTypeOK
  <1>11. DpLeasing' = DpLeasing \cup {r} /\ DpHolders' = DpHolders
    BY <1>1, <1>7 DEF DpLeasing, DpHolders, DpLeasingAt
  <1>12. DpLeaseInv'
    BY <1>1, <1>5, <1>7, <1>9, <1>11 DEF DpLeaseInv, DpLeasing
  <1>13. DpPermitInv'
    BY <1>4, <1>11 DEF DpPermitInv
  <1>14. DpNoConn.id = 0 /\ ~DpNoConn.dirty /\ DpNoConn.id <= dpMade
    BY DEF DpNoConn, DpTypeOK
  <1>15. DpConnInv'
    <2>1. /\ \A t \in 1 .. DpSlots : dpSlots'[t].idle = IF t = s THEN DpNoConn ELSE dpSlots[t].idle
          /\ \A q \in DpLeasing' : q = r \/ (q \in DpLeasing /\ dpReq'[q] = dpReq[q])
          /\ \A t \in 1 .. DpSlots : dpSlots[t].idle.id \in Nat
          /\ dpMade' = dpMade
      BY <1>4, <1>5, <1>7, <1>9, <1>11 DEF DpLeasing, DpTypeOK, DpSlotState, DpConn
    <2>2. \A t \in 1 .. DpSlots :
             LET c == dpSlots'[t].idle
             IN  c.id <= dpMade' /\ ~c.dirty /\ (c.id = 0 => c = DpNoConn)
      BY <1>14, <2>1 DEF DpConnInv
    <2>3. \A q \in DpLeasing' :
             LET c == dpReq'[q].conn
             IN  c.id <= dpMade' /\ (c.id = 0 => c = DpNoConn)
                 /\ (IF dpReq'[q].at = "exchanging" THEN c.dirty /\ c.id # 0 ELSE ~c.dirty)
      BY <1>5, <1>7, <2>1, SMTT(30) DEF DpConnInv
    <2>4. \A t, u \in 1 .. DpSlots :
             t # u /\ dpSlots'[t].idle.id # 0 => dpSlots'[t].idle.id # dpSlots'[u].idle.id
      BY <1>14, <2>1, SMTT(30) DEF DpConnInv
    <2>5. \A t \in 1 .. DpSlots, q \in DpLeasing' :
             dpReq'[q].conn.id # 0 => dpSlots'[t].idle.id # dpReq'[q].conn.id
      BY <1>5, <1>7, <1>14, <2>1 DEF DpConnInv
    <2>6. \A q, o \in DpLeasing' :
             q # o /\ dpReq'[q].conn.id # 0 => dpReq'[q].conn.id # dpReq'[o].conn.id
      BY <1>5, <1>7, <2>1 DEF DpConnInv
    <2> QED
      BY <2>2, <2>3, <2>4, <2>5, <2>6 DEF DpConnInv
  <1> QED
    BY <1>10, <1>12, <1>13, <1>15

\* Lease::drop keeps the invariant: the slot is free again, with the connection
\* of the lease.
LEMMA DpDropSlotStep ==
  ASSUME DpIInv, NEW r \in DpRequests, DpDrop(r, 1)
  PROVE  DpIInv'
  <1> DEFINE s == dpReq[r].slot
             d == dpReq[r].conn
  <1> USE DEF DpIInv
  <1>1. /\ dpReq[r].at = "returning"
        /\ dpSlots' = [dpSlots EXCEPT ![s] = [busy |-> FALSE, idle |-> d]]
        /\ dpReq' = [dpReq EXCEPT ![r] = [@ EXCEPT !.at = "last"]]
        /\ UNCHANGED <<dpPermits, dpMade>>
    BY DEF DpDrop, DpDrops
  <1>2. r \in DpLeasing /\ s \in 1 .. DpSlots /\ d \in DpConn /\ ~d.dirty
    BY <1>1 DEF DpLeasing, DpLeasingAt, DpLeaseInv, DpTypeOK, DpReqState, DpConnInv
  <1>3. /\ \A q \in DpRequests : q # r => dpReq'[q] = dpReq[q]
        /\ dpReq'[r].at = "last" /\ dpReq'[r] \in DpReqState
    BY <1>1, Zenon DEF DpTypeOK, DpReqState, DpStages
  <1>4. /\ \A t \in 1 .. DpSlots : t # s => dpSlots'[t] = dpSlots[t]
        /\ dpSlots'[s] = [busy |-> FALSE, idle |-> d]
        /\ dpSlots' \in [1 .. DpSlots -> DpSlotState]
    BY <1>1, <1>2 DEF DpTypeOK, DpSlotState
  <1>5. DpTypeOK'
    BY <1>1, <1>3, <1>4 DEF DpTypeOK
  <1>6. DpLeasing' = DpLeasing \ {r} /\ DpHolders' = DpHolders
    BY <1>1, <1>3 DEF DpLeasing, DpHolders, DpLeasingAt
  <1>7. DpLeaseInv'
    BY <1>2, <1>3, <1>4, <1>6 DEF DpLeaseInv, DpLeasing
  <1>8. DpPermitInv'
    BY <1>1, <1>6 DEF DpPermitInv
  <1>9. DpConnInv'
    <2> HIDE DEF s, d
    <2>1. /\ \A t \in 1 .. DpSlots : dpSlots'[t].idle = IF t = s THEN d ELSE dpSlots[t].idle
          /\ \A q \in DpLeasing' : q # r /\ q \in DpLeasing /\ dpReq'[q] = dpReq[q]
          /\ dpMade' = dpMade
      BY <1>1, <1>3, <1>4, <1>6 DEF DpLeasing
    <2>2. /\ d.id <= dpMade /\ (d.id = 0 => d = DpNoConn)
          /\ \A t \in 1 .. DpSlots : d.id # 0 => dpSlots[t].idle.id # d.id
          /\ \A q \in DpLeasing : q # r /\ d.id # 0 => d.id # dpReq[q].conn.id
          /\ \A q \in DpLeasing : q # r /\ dpReq[q].conn.id # 0 => d.id # dpReq[q].conn.id
      BY <1>2 DEF DpConnInv, d
    <2>3. \A t, u \in 1 .. DpSlots :
             t # u /\ dpSlots'[t].idle.id # 0 => dpSlots'[t].idle.id # dpSlots'[u].idle.id
      <3> SUFFICES ASSUME NEW t \in 1 .. DpSlots, NEW u \in 1 .. DpSlots, t # u,
                          dpSlots'[t].idle.id # 0
                   PROVE  dpSlots'[t].idle.id # dpSlots'[u].idle.id
        OBVIOUS
      <3>1. CASE t # s /\ u # s
        BY <2>1, <3>1 DEF DpConnInv
      <3>2. CASE t = s
        BY <2>1, <2>2, <3>2
      <3>3. CASE u = s
        BY <2>1, <2>2, <3>3
      <3> QED
        BY <3>1, <3>2, <3>3
    <2>4. \A t \in 1 .. DpSlots :
             /\ dpSlots'[t].idle.id <= dpMade /\ ~dpSlots'[t].idle.dirty
             /\ dpSlots'[t].idle.id = 0 => dpSlots'[t].idle = DpNoConn
      BY <1>2, <2>1, <2>2 DEF DpConnInv
    <2>5. \A t \in 1 .. DpSlots, q \in DpLeasing' :
             dpReq'[q].conn.id # 0 => dpSlots'[t].idle.id # dpReq'[q].conn.id
      BY <2>1, <2>2 DEF DpConnInv
    <2>6. \A q \in DpLeasing' :
             /\ dpReq'[q].conn.id <= dpMade /\ (dpReq'[q].conn.id = 0 => dpReq'[q].conn = DpNoConn)
             /\ IF dpReq'[q].at = "exchanging" THEN dpReq'[q].conn.dirty /\ dpReq'[q].conn.id # 0
                                               ELSE ~dpReq'[q].conn.dirty
      BY <2>1 DEF DpConnInv
    <2>7. \A q, p \in DpLeasing' : q # p /\ dpReq'[q].conn.id # 0 => dpReq'[q].conn.id # dpReq'[p].conn.id
      BY <2>1 DEF DpConnInv
    <2> QED
      BY <2>1, <2>3, <2>4, <2>5, <2>6, <2>7 DEF DpConnInv
  <1> QED
    BY <1>5, <1>7, <1>8, <1>9

\* A permit taken from the semaphore, or put back, is counted with its holder.
LEMMA DpPermitMoves ==
  ASSUME DpIInv, NEW r \in DpRequests, NEW x \in DpReqState, x.at \in {"permitted", "idle"},
         dpReq' = [dpReq EXCEPT ![r] = x], UNCHANGED <<dpSlots, dpMade>>,
         IF x.at = "permitted" THEN dpReq[r].at = "waiting" /\ dpPermits > 0 /\ dpPermits' = dpPermits - 1
                               ELSE dpReq[r].at = "last" /\ dpPermits' = dpPermits + 1
  PROVE  DpIInv'
  <1> USE DEF DpIInv
  <1>1. DpTypeOK'
    BY DEF DpTypeOK
  <1>2. \A q \in DpRequests : dpReq'[q] = IF q = r THEN x ELSE dpReq[q]
    BY DEF DpTypeOK
  <1>3. DpLeasing' = DpLeasing /\ \A q \in DpLeasing : dpReq'[q] = dpReq[q]
    BY <1>2 DEF DpLeasing, DpLeasingAt
  <1>4. DpLeaseInv' /\ DpConnInv'
    <2>1. DpLeaseInv'
      BY <1>3 DEF DpLeaseInv
    <2>2. /\ \A t \in 1 .. DpSlots, q \in DpLeasing' :
               dpReq'[q].conn.id # 0 => dpSlots'[t].idle.id # dpReq'[q].conn.id
          /\ \A q, p \in DpLeasing' :
               q # p /\ dpReq'[q].conn.id # 0 => dpReq'[q].conn.id # dpReq'[p].conn.id
      BY <1>3 DEF DpConnInv
    <2>3. \A q \in DpLeasing' :
             /\ dpReq'[q].conn.id <= dpMade /\ (dpReq'[q].conn.id = 0 => dpReq'[q].conn = DpNoConn)
             /\ IF dpReq'[q].at = "exchanging" THEN dpReq'[q].conn.dirty /\ dpReq'[q].conn.id # 0
                                               ELSE ~dpReq'[q].conn.dirty
      BY <1>3 DEF DpConnInv
    <2>4. DpConnInv'
      BY <2>2, <2>3 DEF DpConnInv
    <2> QED
      BY <2>1, <2>4
  <1>5. CASE x.at = "permitted"
    <2>1. DpHolders' = DpHolders \cup {r} /\ r \notin DpHolders
      BY <1>2, <1>5 DEF DpHolders, DpLeasingAt
    <2>2. Cardinality(DpHolders') = Cardinality(DpHolders) + 1
      BY <2>1, DpFinite, FS_AddElement, Zenon
    <2> QED
      BY <1>1, <1>4, <1>5, <2>2, DpFinite, DpAssumption DEF DpPermitInv, DpTypeOK
  <1>6. CASE x.at = "idle"
    <2>1. DpHolders' = DpHolders \ {r} /\ r \in DpHolders
      BY <1>2, <1>6 DEF DpHolders, DpLeasingAt
    <2>2. Cardinality(DpHolders') = Cardinality(DpHolders) - 1
      BY <2>1, DpFinite, FS_RemoveElement, Zenon
    <2> QED
      BY <1>1, <1>4, <1>6, <2>2, DpFinite, DpAssumption DEF DpPermitInv, DpTypeOK
  <1> QED
    BY <1>5, <1>6

\* DpInit satisfies the inductive invariant.
LEMMA DpInitIInv == DpInit => DpIInv
  <1> SUFFICES ASSUME DpInit PROVE DpIInv
    OBVIOUS
  <1>1. DpNoConn \in DpConn /\ DpNoConn.id = 0 /\ ~DpNoConn.dirty
    BY DEF DpNoConn, DpConn
  <1>2. DpIdle \in DpReqState /\ DpIdle.at = "idle"
    BY <1>1 DEF DpIdle, DpReqState, DpStages
  <1>3. DpLeasing = {} /\ DpHolders = {}
    BY <1>2 DEF DpInit, DpLeasing, DpHolders, DpLeasingAt
  <1>4. DpTypeOK
    BY <1>1, <1>2, DpAssumption DEF DpInit, DpTypeOK, DpSlotState
  <1>5. DpPermitInv
    BY <1>3, FS_EmptySet, DpAssumption DEF DpInit, DpPermitInv
  <1> QED
    BY <1>1, <1>3, <1>4, <1>5 DEF DpInit, DpIInv, DpLeaseInv, DpConnInv

\* Every step of a request keeps it.
LEMMA DpNextIInv == DpIInv /\ [DpNext]_dpVars => DpIInv'
  <1> SUFFICES ASSUME DpIInv, [DpNext]_dpVars PROVE DpIInv'
    OBVIOUS
  <1> USE DEF DpIInv
  <1>0. DpNoConn \in DpConn /\ DpNoConn.id = 0 /\ ~DpNoConn.dirty
    BY DEF DpNoConn, DpConn
  <1>1. ASSUME NEW r \in DpRequests PROVE
          /\ dpReq[r] \in DpReqState /\ dpReq[r].conn \in DpConn
          /\ dpReq[r].at = "idle" \/ dpReq[r].at = "waiting" => r \notin DpHolders
          /\ r \in DpLeasing <=> dpReq[r].at \in DpLeasingAt
          /\ r \in DpLeasing => r \in DpHolders
    BY DEF DpTypeOK, DpReqState, DpHolders, DpLeasing, DpLeasingAt
  <1>2. ASSUME NEW r \in DpRequests, NEW a \in DpAddresses, DpStart(r, a)
        PROVE  DpIInv'
    <2> DEFINE x == [DpIdle EXCEPT !.at = "waiting", !.address = a]
    <2>1. x \in DpReqState /\ x.at = "waiting"
      BY <1>0, Zenon DEF DpIdle, DpReqState, DpStages
    <2> HIDE DEF x
    <2> QED
      BY <1>1, <1>2, <2>1, DpRequestMoves, Zenon DEF DpStart, x, DpLeasingAt
  <1>3. ASSUME NEW r \in DpRequests, DpPermit(r)
        PROVE  DpIInv'
    <2> DEFINE x == [dpReq[r] EXCEPT !.at = "permitted"]
    <2>1. x \in DpReqState /\ x.at = "permitted" /\ dpReq' = [dpReq EXCEPT ![r] = x]
      BY <1>1, <1>3 DEF DpPermit, DpReqState, DpStages
    <2> HIDE DEF x
    <2> QED
      BY <1>3, <2>1, DpPermitMoves, Zenon DEF DpPermit
  <1>4. ASSUME NEW r \in DpRequests, DpGiveUp(r)
        PROVE  DpIInv'
    <2>1. DpIdle \in DpReqState /\ DpIdle.at = "idle"
      BY <1>0 DEF DpIdle, DpReqState, DpStages
    <2> QED
      BY <1>1, <1>4, <2>1, DpRequestMoves, Zenon DEF DpGiveUp, DpLeasingAt
  <1>5. ASSUME NEW r \in DpRequests, DpReuse(r)
        PROVE  DpIInv'
    <2> DEFINE x == [dpReq[r] EXCEPT !.at = "exchanging", !.conn.dirty = TRUE, !.reused = TRUE]
    <2>1. /\ x \in DpReqState /\ x.at = "exchanging" /\ x.slot = dpReq[r].slot
          /\ x.conn.dirty /\ x.conn.id = dpReq[r].conn.id
          /\ dpReq' = [dpReq EXCEPT ![r] = x]
      BY <1>1, <1>5, Zenon DEF DpReuse, DpReqState, DpStages, DpLeasingAt, DpConn
    <2>2. r \in DpLeasing /\ dpReq[r].conn.id # 0
      BY <1>1, <1>5 DEF DpReuse, DpUsable, DpLeasingAt, DpConnInv
    <2> HIDE DEF x
    <2> QED
      BY <1>1, <1>5, <2>1, <2>2, DpRequestMoves, Zenon DEF DpReuse, DpLeasingAt
  <1>6. ASSUME NEW r \in DpRequests, DpConnect(r)
        PROVE  DpIInv'
    <2> DEFINE c == [id |-> dpMade + 1, address |-> dpReq[r].address, dirty |-> TRUE]
               x == [dpReq[r] EXCEPT !.at = "exchanging", !.conn = c]
    <2>1. c \in DpConn /\ c.id = dpMade + 1 /\ c.dirty
      BY <1>1 DEF DpConn, DpReqState, DpTypeOK
    <2>2. dpReq' = [dpReq EXCEPT ![r] = x]
      BY <1>6, Zenon DEF DpConnect, DpTypeOK
    <2> HIDE DEF c
    <2>3. x \in DpReqState /\ x.at = "exchanging" /\ x.slot = dpReq[r].slot /\ x.conn = c
      BY <1>1, <2>1, Zenon DEF DpReqState, DpStages, DpLeasingAt
    <2>4. r \in DpLeasing /\ dpMade' = dpMade + 1 /\ dpMade + 1 # 0
      BY <1>1, <1>6 DEF DpConnect, DpLeasingAt, DpTypeOK
    <2> HIDE DEF x
    <2>5. x.conn.id = dpMade' /\ x.conn.id # 0 /\ x.conn.dirty /\ x.at \in DpLeasingAt
      BY <2>1, <2>3, <2>4 DEF DpLeasingAt
    <2>6. UNCHANGED <<dpSlots, dpPermits>>
      BY <1>6 DEF DpConnect
    <2> QED
      BY <1>1, <2>2, <2>3, <2>4, <2>5, <2>6, DpRequestMoves, Zenon
  <1>7. ASSUME NEW r \in DpRequests, DpFinish(r)
        PROVE  DpIInv'
    <2> DEFINE x == [dpReq[r] EXCEPT !.at = "returning", !.conn.dirty = FALSE]
    <2>1. /\ x \in DpReqState /\ x.at = "returning" /\ x.slot = dpReq[r].slot
          /\ ~x.conn.dirty /\ x.conn.id = dpReq[r].conn.id
          /\ dpReq' = [dpReq EXCEPT ![r] = x]
      BY <1>1, <1>7, Zenon DEF DpFinish, DpReqState, DpStages, DpLeasingAt, DpConn
    <2>2. r \in DpLeasing /\ dpReq[r].conn.id # 0
      BY <1>1, <1>7 DEF DpFinish, DpLeasingAt, DpConnInv
    <2> HIDE DEF x
    <2> QED
      BY <1>1, <1>7, <2>1, <2>2, DpRequestMoves, Zenon DEF DpFinish, DpLeasingAt
  <1>8. ASSUME NEW r \in DpRequests, DpCut(r)
        PROVE  DpIInv'
    <2> DEFINE x == [dpReq[r] EXCEPT !.at = "returning", !.conn = DpNoConn]
    <2>1. r \in DpLeasing /\ (dpReq[r].at = "exchanging" => dpReq[r].conn.dirty)
      BY <1>1, <1>8 DEF DpCut, DpLeasingAt, DpConnInv
    <2>2. dpReq' = [dpReq EXCEPT ![r] = x]
      BY <1>8, <2>1, Zenon DEF DpCut, DpReturned
    <2>3. x \in DpReqState /\ x.at = "returning" /\ x.slot = dpReq[r].slot /\ x.conn = DpNoConn
      BY <1>0, <1>1, Zenon DEF DpReqState, DpStages, DpLeasingAt
    <2> HIDE DEF x
    <2> QED
      BY <1>0, <1>1, <1>8, <2>1, <2>2, <2>3, DpRequestMoves, Zenon DEF DpCut, DpLeasingAt
  <1>9. ASSUME NEW r \in DpRequests, DpReconnect(r)
        PROVE  DpIInv'
    <2>1. dpMade + 1 \in Nat /\ dpMade + 1 # 0 /\ r \in DpLeasing /\ dpReq[r].conn.dirty
      BY <1>1, <1>9 DEF DpTypeOK, DpReconnect, DpLeasingAt, DpConnInv
    <2>2. PICK n \in Nat : n = dpMade + 1
      BY <2>1
    <2> DEFINE x == [dpReq[r] EXCEPT !.reused = FALSE, !.conn.id = n]
    <2>3. /\ x \in DpReqState /\ x.at = dpReq[r].at /\ x.slot = dpReq[r].slot
          /\ x.conn.id = n /\ x.conn.dirty
      BY <1>1, <2>1, Zenon DEF DpReqState, DpConn
    <2>4. dpReq' = [dpReq EXCEPT ![r] = x]
      BY <1>9, <2>2, Zenon DEF DpReconnect
    <2> HIDE DEF x
    <2> QED
      BY <1>1, <1>9, <2>1, <2>2, <2>3, <2>4, DpRequestMoves, Zenon DEF DpReconnect, DpLeasingAt
  <1>10. ASSUME NEW r \in DpRequests, DpDrop(r, 2)
         PROVE  DpIInv'
    <2>1. DpIdle \in DpReqState /\ DpIdle.at = "idle"
      BY <1>0 DEF DpIdle, DpReqState, DpStages
    <2>2. /\ dpReq[r].at = "last" /\ dpReq' = [dpReq EXCEPT ![r] = DpIdle]
          /\ dpPermits' = dpPermits + 1 /\ UNCHANGED <<dpSlots, dpMade>>
      BY <1>10 DEF DpDrop, DpDrops
    <2> QED
      BY <2>1, <2>2, DpPermitMoves, Zenon
  <1>11. CASE UNCHANGED dpVars
    BY <1>11 DEF dpVars, DpTypeOK, DpLeaseInv, DpPermitInv, DpConnInv, DpLeasing, DpHolders
  <1>12. ASSUME NEW i \in 1 .. 2 PROVE i = 1 \/ i = 2
    OBVIOUS
  <1> QED
    BY <1>2, <1>3, <1>4, <1>5, <1>6, <1>7, <1>8, <1>9, <1>10, <1>11, <1>12, DpCheckoutStep, DpDropSlotStep
    DEF DpNext

\* For any number of requests, slots and addresses: checkout never fails its
\* `expect`, no slot or permit is lost, and no connection with an unfinished
\* exchange is handed out or is in two places (tls/pool.rs checkout, Lease::drop).
THEOREM PoolIsSound == DpSpec => []DotPoolSound
  <1>1. ASSUME DpIInv PROVE DotSlotsEnough
    <2> USE <1>1 DEF DpIInv
    <2>1. \A r \in DpRequests : dpReq[r].at # "panicked"
      BY DEF DpTypeOK, DpReqState, DpStages, DpLeasingAt
    <2>2. \A r, q \in DpRequests :
            r # q /\ {dpReq[r].at, dpReq[q].at} \subseteq {"leased", "exchanging", "returning"}
              => dpReq[r].slot # dpReq[q].slot
      BY DEF DpLeaseInv, DpLeasing, DpLeasingAt
    <2>3. ASSUME \A r \in DpRequests : dpReq[r] = DpIdle
          PROVE  dpPermits = DpSlots /\ DpFree = 1 .. DpSlots
      <3>1. DpLeasing = {} /\ DpHolders = {}
        BY <2>3 DEF DpLeasing, DpHolders, DpLeasingAt, DpIdle
      <3>2. Cardinality(DpHolders) = 0
        BY <3>1, FS_EmptySet
      <3>3. dpPermits = DpSlots
        BY <3>2, DpAssumption DEF DpPermitInv, DpTypeOK
      <3> QED
        BY <3>1, <3>3 DEF DpFree, DpLeaseInv
    <2> QED
      BY <2>1, <2>2, <2>3 DEF DotSlotsEnough
  <1>2. ASSUME DpIInv PROVE DotConnectionsClean
    <2> USE <1>2 DEF DpIInv, DpConnInv, DpNoConn
    <2>1. \A s \in 1 .. DpSlots : ~dpSlots[s].idle.dirty
      OBVIOUS
    <2>2. \A s \in 1 .. DpSlots, r \in DpRequests :
            dpReq[r].at \in {"leased", "exchanging", "returning"} /\ dpReq[r].conn # DpNoConn
              => dpSlots[s].idle.id # dpReq[r].conn.id
      BY DEF DpLeasing, DpLeasingAt
    <2>3. \A s, t \in 1 .. DpSlots : s # t /\ dpSlots[s].idle # DpNoConn
            => dpSlots[s].idle.id # dpSlots[t].idle.id
      OBVIOUS
    <2> QED
      BY <2>1, <2>2, <2>3 DEF DotConnectionsClean
  <1>3. DpIInv => DotPoolSound
    BY <1>1, <1>2 DEF DotPoolSound
  <1> QED
    BY <1>3, DpInitIInv, DpNextIInv, PTL DEF DpSpec

(***************************************************************************)
(* RecursionReply                                                          *)
(***************************************************************************)

\* The validation of records is that of the weakest of them.
LEMMA RrWeakest ==
  ASSUME NEW records, \A rec \in records : rec.proof \in RrProofs
  PROVE  /\ RrValidation(records) # "bogus" => \A rec \in records : rec.proof # "bogus"
         /\ RrValidation(records) = "secure" => \A rec \in records : rec.proof = "secure"
  <1>1. CASE records = {}
    BY <1>1
  <1>2. CASE records # {}
    <2> DEFINE Worst(p) == (\E rec \in records : rec.proof = p)
                           /\ \A rec \in records : RrRank[rec.proof] <= RrRank[p]
    <2>1. /\ RrRank["secure"] = 0 /\ RrRank["insecure"] = 1
          /\ RrRank["indeterminate"] = 2 /\ RrRank["bogus"] = 3
      BY DEF RrRank
    <2>2. \E p \in RrProofs : Worst(p)
      BY <1>2, <2>1 DEF RrProofs
    <2>3. RrValidation(records) \in RrProofs /\ Worst(RrValidation(records))
      BY <1>2, <2>2, Zenon DEF RrValidation
    <2> QED
      BY <2>1, <2>3 DEF RrProofs
  <1> QED
    BY <1>1, <1>2

\* A resolution's records carry a proof.
LEMMA RrResultRecords ==
  ASSUME NEW result \in RrResults
  PROVE  /\ \A rec \in result.answers \cup result.authorities : rec.proof \in RrProofs
         /\ result.err # "none" => result.answers = {}
  <1>1. ASSUME NEW S, NEW T \in RrSections(S) PROVE T \subseteq S
    BY <1>1 DEF RrSections, kSubset
  <1>2. /\ \A T \in RrSections(RrAnswerRecords) : \A rec \in T : rec.proof \in RrProofs
        /\ \A T \in RrSections(RrAuthorityRecords) : \A rec \in T : rec.proof \in RrProofs
    BY <1>1, Zenon DEF RrAnswerRecords, RrAuthorityRecords
  <1> QED
    BY <1>2 DEF RrResults

\* What respond makes of a result is as good as it says.
LEMMA RrRespondSound ==
  ASSUME NEW q \in RrQueries, NEW result \in RrResults
  PROVE  LET reply == RrRespond(q, result)
             records == reply.answers \cup reply.authorities
         IN  /\ ~q.cd => \A rec \in records : rec.proof # "bogus"
             /\ reply.ad => ~q.cd /\ \A rec \in records \cup result.answers : rec.proof = "secure"
  <1> DEFINE answered == \E rec \in result.answers : rec.part = "queried"
             kept == IF answered THEN RrDenials(q, result.authorities) ELSE result.authorities
             proof == RrValidation(IF answered THEN result.answers ELSE result.answers \cup result.authorities)
             reply == RrRespond(q, result)
  <1>1. CASE reply.answers = {} /\ reply.authorities = {} /\ ~reply.ad
    BY <1>1
  <1>2. CASE result.err \in {"timeout", "other", "referral", "budget", "bogus"} \/ proof = "bogus"
    <2>1. reply \in {RrReplyOf("error", FALSE, {}, {}), RrReplyOf("servfail", FALSE, {}, {}), RrBogus}
      <3>1. CASE result.err \in {"timeout", "other"}
        BY <3>1, Zenon DEF RrRespond
      <3>2. CASE result.err \in {"referral", "budget"}
        BY <3>2, Zenon DEF RrRespond
      <3>3. CASE result.err \notin {"timeout", "other", "referral", "budget"}
        BY <1>2, <3>3, Zenon DEF RrRespond
      <3> QED
        BY <3>1, <3>2, <3>3, Zenon
    <2>2. ASSUME NEW code
          PROVE  LET x == RrReplyOf(code, FALSE, {}, {})
                 IN  x.answers = {} /\ x.authorities = {} /\ x.ad = FALSE
      BY DEF RrReplyOf
    <2> HIDE DEF reply
    <2>3. reply.answers = {} /\ reply.authorities = {} /\ ~reply.ad
      BY <2>1, <2>2, Zenon DEF RrBogus
    <2> QED
      BY <1>1, <2>3
  <1>3. CASE result.err \notin {"timeout", "other", "referral", "budget", "bogus"} /\ proof # "bogus"
    <2>1. reply = RrReplyOf(IF answered THEN "answer" ELSE "negative", ~q.cd /\ proof = "secure",
                            RrStripped(q, result.answers), RrStripped(q, kept))
      BY <1>3, Zenon DEF RrRespond
    <2>2. /\ reply.ad = (~q.cd /\ proof = "secure")
          /\ reply.answers \subseteq result.answers /\ reply.authorities \subseteq kept
      <3>1. \A x : RrStripped(q, x) \subseteq x
        BY DEF RrStripped
      <3>2. /\ reply.ad = (~q.cd /\ proof = "secure")
            /\ reply.answers = RrStripped(q, result.answers) /\ reply.authorities = RrStripped(q, kept)
        <4> HIDE DEF proof, kept, answered, reply
        <4> QED
          BY <2>1, Zenon DEF RrReplyOf
      <3> HIDE DEF kept, reply
      <3> QED
        BY <3>1, <3>2, Zenon
    <2>3. CASE answered
      <3>1. /\ \A rec \in result.answers : rec.proof # "bogus"
            /\ proof = "secure" => \A rec \in result.answers : rec.proof = "secure"
        BY <1>3, <2>3, RrWeakest, RrResultRecords
      <3>2. ~q.cd => \A rec \in kept : rec.proof = "secure"
        BY <2>3 DEF RrDenials
      <3> QED
        BY <2>2, <3>1, <3>2, Zenon
    <2>4. CASE ~answered
      <3>1. /\ \A rec \in result.answers \cup result.authorities : rec.proof # "bogus"
            /\ proof = "secure" => \A rec \in result.answers \cup result.authorities : rec.proof = "secure"
        BY <1>3, <2>4, RrWeakest, RrResultRecords
      <3> QED
        BY <2>2, <2>4, <3>1, Zenon
    <2> QED
      BY <2>3, <2>4
  <1> QED
    BY <1>2, <1>3

\* For sections of any size: no reply to a client that does not validate carries
\* a Bogus record, and AD vouches for every record of the reply and of the
\* answer it was made of (recursion.rs respond).
THEOREM RepliesAreSound == RrSpec => []RecursiveReplySound
  <1>1. RrInit => RecursiveReplySound
    BY DEF RrInit, RecursiveReplySound, RrReplyOf
  <1>2. RecursiveReplySound /\ [RrNext]_rrVars => RecursiveReplySound'
    <2>1. ASSUME NEW q \in RrQueries, NEW result \in RrResults,
                 rrReply' = [q |-> q, result |-> result, reply |-> RrRespond(q, result)]
          PROVE  RecursiveReplySound'
      BY <2>1, RrRespondSound DEF RecursiveReplySound
    <2>2. CASE UNCHANGED rrVars
      BY <2>2 DEF rrVars, RecursiveReplySound
    <2> QED
      BY <2>1, <2>2 DEF RrNext, RrAnswer
  <1> QED
    BY <1>1, <1>2, PTL DEF RrSpec
=============================================================================
