----------------------------- MODULE UpstreamH3 -----------------------------
(***************************************************************************)
(* The HTTP/3 client of one endpoint (upstreams/h3.rs): attempts that run  *)
(* at the same time share one cached connection, connect under one lock,   *)
(* and report to one state that can put the whole endpoint in a cooldown.  *)
(* Connections are numbered in the order they are established.             *)
(***************************************************************************)
EXTENDS Naturals, FiniteSets

CONSTANTS
  UhAttempts,     \* attempts at a time
  UhAddresses,    \* bootstrap addresses
  UhConnections,  \* bound: connections ever established
  UhCooldowns     \* bound: cooldowns started

ASSUME UhAssumption ==
  /\ IsFiniteSet(UhAttempts) /\ IsFiniteSet(UhAddresses)
  /\ UhConnections \in Nat /\ UhCooldowns \in Nat

VARIABLES
  uhConn,         \* State.connection: its number, 0 for none
  uhAlive,        \* connections that are open
  uhAddr,         \* the address of each connection
  uhCooling,      \* retry_after is in the future
  uhFailures,     \* State.failures
  uhRefused,      \* State.refused
  uhLock,         \* the connecting lock
  uhTry,          \* each attempt
  uhMade,         \* connections established so far
  uhCools         \* history: cooldowns begun since the last answer

uhVars == <<uhConn, uhAlive, uhAddr, uhCooling, uhFailures, uhRefused, uhLock, uhTry, uhMade, uhCools>>

UhNobody == "nobody"
\* where an attempt is, its address, the connection it observed or uses, whether its
\* request was sent, and (history) the connections that existed when it looked
UhIdle == [pc |-> "idle", addr |-> UhNobody, obs |-> 0, sent |-> FALSE, made |-> 0]

UhInit ==
  /\ uhConn = 0 /\ uhAlive = {} /\ uhAddr = <<>> /\ uhCooling = FALSE /\ uhFailures = 0
  /\ uhRefused = FALSE /\ uhLock = UhNobody /\ uhMade = 0 /\ uhCools = 0
  /\ uhTry = [a \in UhAttempts |-> UhIdle]

\* Client::cached: a closed connection is forgotten; the cache state is what
\* the attempt observed
UhCached == IF uhConn \in uhAlive THEN uhConn ELSE 0
UhLook(a, t, found, missed) ==
  /\ uhConn' = UhCached
  /\ uhTry' = [uhTry EXCEPT ![a] =
       [t EXCEPT !.obs = UhCached, !.made = uhMade,
                 !.pc = IF UhCached # 0 /\ uhAddr[UhCached] = t.addr THEN found ELSE missed]]

\* exchange up to the first look at the cache; refused or cooling down skips
\* HTTP/3 altogether and is no step
UhStart(a, addr) ==
  /\ uhTry[a].pc = "idle" /\ ~uhRefused /\ ~uhCooling
  /\ UhLook(a, [UhIdle EXCEPT !.addr = addr], "open", "wait")
  /\ UNCHANGED <<uhAlive, uhAddr, uhCooling, uhFailures, uhRefused, uhLock, uhMade, uhCools>>

\* under the lock: a cooldown that began meanwhile ends the attempt, a
\* connection made meanwhile is shared
UhLocked(a) ==
  /\ uhTry[a].pc = "wait" /\ uhLock = UhNobody
  /\ IF uhCooling THEN uhTry' = [uhTry EXCEPT ![a].pc = "failed"] /\ UNCHANGED <<uhConn, uhLock>>
     ELSE /\ UhLook(a, uhTry[a], "open", "handshake")
          /\ uhLock' = IF uhTry'[a].pc = "handshake" THEN a ELSE UhNobody
  /\ UNCHANGED <<uhAlive, uhAddr, uhCooling, uhFailures, uhRefused, uhMade, uhCools>>

\* the handshake ends: the new connection replaces the cached one
UhConnected(a) ==
  /\ uhTry[a].pc = "handshake" /\ uhMade < UhConnections
  /\ uhMade' = uhMade + 1
  /\ uhConn' = uhMade + 1 /\ uhAlive' = uhAlive \cup {uhMade + 1}
  /\ uhAddr' = [c \in 1 .. uhMade + 1 |-> IF c = uhMade + 1 THEN uhTry[a].addr ELSE uhAddr[c]]
  /\ uhTry' = [uhTry EXCEPT ![a] = [@ EXCEPT !.pc = "open", !.obs = uhMade + 1, !.made = uhMade + 1]]
  /\ uhLock' = UhNobody
  /\ UNCHANGED <<uhCooling, uhFailures, uhRefused, uhCools>>

\* a refused or timed-out handshake, or a request that could not be sent
UhUnsent(a) ==
  /\ uhTry[a].pc \in {"wait", "handshake", "open"}
  /\ uhTry' = [uhTry EXCEPT ![a].pc = "failed"]
  /\ uhLock' = IF uhLock = a THEN UhNobody ELSE uhLock
  /\ UNCHANGED <<uhConn, uhAlive, uhAddr, uhCooling, uhFailures, uhRefused, uhMade, uhCools>>

UhSend(a) ==
  /\ uhTry[a].pc = "open" /\ uhTry[a].obs \in uhAlive
  /\ uhTry' = [uhTry EXCEPT ![a] = [@ EXCEPT !.pc = "sent", !.sent = TRUE]]
  /\ UNCHANGED <<uhConn, uhAlive, uhAddr, uhCooling, uhFailures, uhRefused, uhLock, uhMade, uhCools>>

\* receive: an answer, a definite refusal of the endpoint, a failure of this
\* request, or one that says the connection is closing
UhReceive(a, outcome) ==
  /\ uhTry[a].pc = "sent"
  /\ outcome \in {"answered", "refused"} => uhTry[a].obs \in uhAlive
  /\ uhTry' = [uhTry EXCEPT ![a].pc = IF outcome = "refused" THEN "failed" ELSE outcome]
  /\ uhRefused' = (uhRefused \/ outcome = "refused")
  /\ UNCHANGED <<uhConn, uhAlive, uhAddr, uhCooling, uhFailures, uhLock, uhMade, uhCools>>

\* Mutant: an outcome applies to whatever connection there is.
UhCurrentAny(t) == TRUE

\* the attempt's outcome applies only to the connection or cache state it observed
UhCurrent(t) == t.obs = uhConn

\* a cooldown already in effect is not extended
UhStarts(t) == ~uhCooling

\* the end of exchange, under the state lock.  A sent request that failed on a
\* connection that still works is no fault of the endpoint; a caller that
\* gives up ends the attempt without any report
UhFinish(a) ==
  /\ uhTry[a].pc \in {"answered", "failed", "closing"}
  /\ LET t == uhTry[a]
         fault == t.pc = "closing" \/ (t.pc = "failed" /\ ~(t.sent /\ t.obs \in uhAlive))
     IN  /\ \/ UhCurrent(t) /\ t.pc = "answered"
               /\ uhFailures' = 0 /\ uhCooling' = FALSE /\ uhCools' = 0
            \/ UhCurrent(t) /\ fault /\ UhStarts(t) /\ uhCools < UhCooldowns
               /\ uhFailures' = uhFailures + 1 /\ uhCooling' = TRUE
               /\ uhCools' = IF uhCooling THEN uhCools ELSE uhCools + 1
            \/ (~UhCurrent(t) \/ (t.pc # "answered" /\ (~fault \/ ~UhStarts(t))))
               /\ UNCHANGED <<uhFailures, uhCooling, uhCools>>
  /\ uhTry' = [uhTry EXCEPT ![a] = UhIdle]
  /\ UNCHANGED <<uhConn, uhAlive, uhAddr, uhRefused, uhLock, uhMade>>

UhCancel(a) ==
  /\ uhTry[a].pc # "idle"
  /\ uhTry' = [uhTry EXCEPT ![a] = UhIdle]
  /\ uhLock' = IF uhLock = a THEN UhNobody ELSE uhLock
  /\ UNCHANGED <<uhConn, uhAlive, uhAddr, uhCooling, uhFailures, uhRefused, uhMade, uhCools>>

\* the peer, the idle closer or the dead path closes a connection
UhCloses(c) ==
  /\ c \in uhAlive
  /\ uhAlive' = uhAlive \ {c}
  /\ UNCHANGED <<uhConn, uhAddr, uhCooling, uhFailures, uhRefused, uhLock, uhTry, uhMade, uhCools>>

UhCooled ==
  /\ uhCooling /\ uhCooling' = FALSE
  /\ UNCHANGED <<uhConn, uhAlive, uhAddr, uhFailures, uhRefused, uhLock, uhTry, uhMade, uhCools>>

UhNext ==
  \/ \E a \in UhAttempts :
       \/ \E addr \in UhAddresses : UhStart(a, addr)
       \/ UhLocked(a) \/ UhConnected(a) \/ UhUnsent(a) \/ UhSend(a) \/ UhFinish(a) \/ UhCancel(a)
       \/ \E outcome \in {"answered", "refused", "failed", "closing"} : UhReceive(a, outcome)
  \/ (\E c \in 1 .. UhConnections : UhCloses(c)) \/ UhCooled

UhSpec == UhInit /\ [][UhNext]_uhVars

(***************************************************************************)
(* Properties                                                              *)
(***************************************************************************)

\* A late outcome never touches a replacement: an attempt that ends while the
\* endpoint already uses a connection established after the attempt last
\* looked changes neither the cooldown nor the failure count
\* (Client::exchange, "Its outcome cannot change a replacement").
LateOutcomeIgnored ==
  [][\A a \in UhAttempts :
       uhTry[a].pc \in {"answered", "failed", "closing"} /\ uhTry'[a].pc = "idle" /\ uhConn > uhTry[a].made
         => uhCooling' = uhCooling /\ uhFailures' = uhFailures]_uhVars

\* One broken connection costs one step of the backoff: however many requests
\* fail on it, the failure count that sets the next cooldown grows once per
\* cooldown, and an answer resets it (State::connection_failed).
BackoffPerCooldown == uhFailures = uhCools

\* The HTTP/3 cooldown follows the connections in use, once for each failure.
CooldownSound == []BackoffPerCooldown /\ LateOutcomeIgnored
=============================================================================
