------------------------------- MODULE Console ------------------------------
(***************************************************************************)
(* The management plane (src/manage/mod.rs): sessions of the current       *)
(* transport realm, sign-in, the credential changes of account.rs and      *)
(* turnstile.rs, configuration changes and filter work behind the one      *)
(* mutation permit, the live query log sockets of live.rs, and the order   *)
(* in which shutdown drains all of them.                                   *)
(*                                                                         *)
(* A request is a process: a session, realm, credential or generation read *)
(* before an await is a field of its record and used after it.  Host,      *)
(* Origin and JSON checks, the attempt budget (AuthBudget) and a wrong     *)
(* password end a request: CnDrop.  Work detached from its HTTP connection *)
(* is marked by its pc and can no longer be dropped.                       *)
(***************************************************************************)
EXTENDS Naturals, FiniteSets, Sequences, SequencesExt

CONSTANTS
  CnRequests,   \* concurrent requests
  CnSessions,   \* 16: sessions kept in Active
  CnPerSession, \* PER_SESSION: live sockets of one session
  CnGlobal,     \* GLOBAL: live sockets of the process
  CnIssues,     \* bound on the sessions issued
  CnChanges,    \* bound on credential, Turnstile and management address changes
  CnRevs        \* bound on the configuration revision

ASSUME CnAssumption ==
  /\ {CnSessions, CnPerSession, CnGlobal} \subseteq Nat \ {0}
  /\ {CnIssues, CnChanges, CnRevs} \subseteq Nat

VARIABLES
  cnSaved,    \* Manager.saved: credentials and revision; revision 0 is no setup
  cnTurn,     \* Manager.turnstile.generation
  cnActive,   \* Active: the realm and the sessions, oldest first
  cnIssued,   \* sessions issued so far
  cnReq,      \* the requests
  cnPermit,   \* the holder of the mutation permit, or "free"
  cnWork,     \* rule tasks registered in filter_tasks
  cnSockets,  \* live sockets
  cnStop,     \* how far serve has shut down
  cnAccepted  \* history: configuration changes accepted, setup included

cnVars == <<cnSaved, cnTurn, cnActive, cnIssued, cnReq, cnPermit, cnWork, cnSockets,
            cnStop, cnAccepted>>

CnIdle == [kind |-> "none", pc |-> "idle", sid |-> 0, realm |-> 0, cred |-> 0,
           turn |-> 0, rev |-> 0]

CnInit ==
  /\ cnSaved = [cred |-> 0, rev |-> 0]
  /\ cnTurn = 0
  /\ cnActive = [realm |-> 0, sessions |-> <<>>]
  /\ cnIssued = 0
  /\ cnReq = [w \in CnRequests |-> CnIdle]
  /\ cnPermit = "free"
  /\ cnWork = 0
  /\ cnSockets = {}
  /\ cnStop = "serving"
  /\ cnAccepted = 0

CnSignedIn == {s.id : s \in ToSet(cnActive.sessions)}

(* current_realm: a request of a replaced management address is refused. *)
CnCurrent(w) == cnReq[w].realm = cnActive.realm

(* Shared::authorized *)
CnAuthorized(w) == CnCurrent(w) /\ cnReq[w].sid \in CnSignedIn

(* Shared::session: the oldest session makes room for a new one. *)
CnWithSession(cred, turn) ==
  [cnActive EXCEPT !.sessions =
     Append(IF Len(@) >= CnSessions THEN Tail(@) ELSE @,
            [id |-> cnIssued + 1, cred |-> cred, turn |-> turn, realm |-> cnActive.realm])]

CnSignedOut == [cnActive EXCEPT !.sessions = <<>>]

CnMayChange == cnSaved.cred + cnTurn + cnActive.realm < CnChanges

CnEnd(w) == cnReq' = [cnReq EXCEPT ![w] = CnIdle]

CnAt(w, kinds, pc) == cnReq[w].kind \in kinds /\ cnReq[w].pc = pc

-----------------------------------------------------------------------------
(* A connection takes the snapshot of the transport it was accepted under;
   the cookie it carries is any session issued so far, and the revision of a
   change is the one the client has seen.                                   *)
CnBegin(w) ==
  /\ cnReq[w] = CnIdle /\ cnStop = "serving"
  /\ \E kind \in {"login", "setup", "rotate", "turnstile", "config", "filter", "live"},
        sid \in 0..cnIssued :
       /\ (sid = 0) = (kind \in {"login", "setup"})
       /\ cnReq' = [cnReq EXCEPT ![w] =
            [CnIdle EXCEPT !.kind = kind, !.pc = "begin", !.sid = sid,
                           !.realm = cnActive.realm,
                           !.rev = IF kind \in {"rotate", "config"} THEN cnSaved.rev ELSE 0]]
  /\ UNCHANGED <<cnSaved, cnTurn, cnActive, cnIssued, cnPermit, cnWork, cnSockets, cnStop,
                 cnAccepted>>

(* An error answer or a lost connection before the work is detached. *)
CnDrop(w) ==
  /\ cnReq[w].pc \in {"begin", "verified", "upgrading"}
  /\ CnEnd(w)
  /\ UNCHANGED <<cnSaved, cnTurn, cnActive, cnIssued, cnPermit, cnWork, cnSockets, cnStop,
                 cnAccepted>>

(* Sign-in reads the saved credentials and the Turnstile generation, then
   waits for siteverify and for the password hash.                          *)
CnLoginVerify(w) ==
  /\ CnAt(w, {"login"}, "begin") /\ CnCurrent(w) /\ cnSaved.rev # 0
  /\ cnReq' = [cnReq EXCEPT ![w].pc = "verified", ![w].cred = cnSaved.cred, ![w].turn = cnTurn]
  /\ UNCHANGED <<cnSaved, cnTurn, cnActive, cnIssued, cnPermit, cnWork, cnSockets, cnStop,
                 cnAccepted>>

(* What the verified sign-in rechecks before a session is issued. *)
CnLoginHolds(w) ==
  cnReq[w].cred = cnSaved.cred /\ cnReq[w].turn = cnTurn /\ CnCurrent(w)

CnLoginIssue(w) ==
  /\ CnAt(w, {"login"}, "verified") /\ CnLoginHolds(w) /\ cnIssued < CnIssues
  /\ cnActive' = CnWithSession(cnReq[w].cred, cnReq[w].turn)
  /\ cnIssued' = cnIssued + 1
  /\ CnEnd(w)
  /\ UNCHANGED <<cnSaved, cnTurn, cnPermit, cnWork, cnSockets, cnStop, cnAccepted>>

(* revoke_session, or a session found past its lifetime. *)
CnSignOut(sid) ==
  /\ sid \in CnSignedIn
  /\ cnActive' = [cnActive EXCEPT !.sessions = SelectSeq(@, LAMBDA s : s.id # sid)]
  /\ UNCHANGED <<cnSaved, cnTurn, cnIssued, cnReq, cnPermit, cnWork, cnSockets, cnStop,
                 cnAccepted>>

-----------------------------------------------------------------------------
(* account::change, shared by credential rotation and Turnstile keys        *)

(* The current password is verified outside every lock. *)
CnChangeVerify(w) ==
  /\ CnAt(w, {"rotate", "turnstile"}, "begin") /\ CnAuthorized(w)
  /\ cnReq' = [cnReq EXCEPT ![w].pc = "verified", ![w].cred = cnSaved.cred]
  /\ UNCHANGED <<cnSaved, cnTurn, cnActive, cnIssued, cnPermit, cnWork, cnSockets, cnStop,
                 cnAccepted>>

(* protected_mutation_permit: the session is checked again with the permit;
   from here on the work is detached from its connection.                   *)
CnAdmit(w) ==
  /\ \/ CnAt(w, {"rotate", "turnstile"}, "verified")
     \/ CnAt(w, {"config", "filter"}, "begin")
     \/ CnAt(w, {"setup"}, "begin")
  /\ cnPermit = "free"
  /\ cnReq[w].kind # "setup" => CnAuthorized(w)
  /\ cnPermit' = w
  /\ cnReq' = [cnReq EXCEPT ![w].pc = "admitted"]
  /\ UNCHANGED <<cnSaved, cnTurn, cnActive, cnIssued, cnWork, cnSockets, cnStop, cnAccepted>>

(* The detached work is refused by its recheck, or fails; nothing changes. *)
CnRefused(w) ==
  /\ cnReq[w].pc = "admitted"
  /\ cnPermit' = "free"
  /\ CnEnd(w)
  /\ UNCHANGED <<cnSaved, cnTurn, cnActive, cnIssued, cnWork, cnSockets, cnStop, cnAccepted>>

\* Mutant: the record was cloned when the request began.
CnRotatedStale(w) == [cnSaved EXCEPT !.cred = @ + 1, !.rev = cnReq[w].rev]

(* The stored record is cloned at admission: a configuration accepted while
   the password was hashed keeps its revision.                              *)
CnRotated(w) == [cnSaved EXCEPT !.cred = @ + 1]

(* The rename is the commit point; publication and revocation follow it with
   no await between them.                                                   *)
CnRotate(w) ==
  /\ CnAt(w, {"rotate"}, "admitted") /\ CnAuthorized(w)
  /\ cnReq[w].cred = cnSaved.cred /\ CnMayChange
  /\ cnSaved' = CnRotated(w)
  /\ cnActive' = CnSignedOut
  /\ cnPermit' = "free"
  /\ CnEnd(w)
  /\ UNCHANGED <<cnTurn, cnIssued, cnWork, cnSockets, cnStop, cnAccepted>>

CnTurnstile(w) ==
  /\ CnAt(w, {"turnstile"}, "admitted") /\ CnAuthorized(w)
  /\ cnReq[w].cred = cnSaved.cred /\ CnMayChange
  /\ cnTurn' = cnTurn + 1
  /\ cnActive' = CnSignedOut
  /\ cnPermit' = "free"
  /\ CnEnd(w)
  /\ UNCHANGED <<cnSaved, cnIssued, cnWork, cnSockets, cnStop, cnAccepted>>

-----------------------------------------------------------------------------
(* Configuration                                                            *)

(* Manager::publish: another scheme or public host ends every session. *)
CnPublished(moved) ==
  IF moved THEN [realm |-> cnActive.realm + 1, sessions |-> <<>>] ELSE cnActive

(* PUT and rollback: only on the revision the client has seen. *)
CnConfigure(w, moved) ==
  /\ CnAt(w, {"config"}, "admitted")
  /\ cnSaved.rev = cnReq[w].rev /\ cnSaved.rev \in 1..(CnRevs - 1)
  /\ moved => CnMayChange
  /\ cnSaved' = [cnSaved EXCEPT !.rev = @ + 1]
  /\ cnActive' = CnPublished(moved)
  /\ cnAccepted' = cnAccepted + 1
  /\ cnPermit' = "free"
  /\ CnEnd(w)
  /\ UNCHANGED <<cnTurn, cnIssued, cnWork, cnSockets, cnStop>>

(* Setup happens once and signs its caller in, unless the address moved. *)
CnSetup(w, moved) ==
  /\ CnAt(w, {"setup"}, "admitted") /\ cnSaved.rev = 0 /\ cnIssued < CnIssues
  /\ moved => CnMayChange
  /\ cnSaved' = [cnSaved EXCEPT !.rev = 1]
  /\ cnAccepted' = cnAccepted + 1
  /\ IF ~moved /\ CnCurrent(w)
     THEN /\ cnActive' = CnWithSession(cnSaved.cred, cnTurn)
          /\ cnIssued' = cnIssued + 1
     ELSE /\ cnActive' = CnPublished(moved)
          /\ UNCHANGED cnIssued
  /\ cnPermit' = "free"
  /\ CnEnd(w)
  /\ UNCHANGED <<cnTurn, cnWork, cnSockets, cnStop>>

(* filters::start registers the rule task under the permit and gives the
   permit up; the task waits for it again to commit.  The service refuses a
   second operation while one is under way.                                 *)
CnRegister(w) ==
  /\ CnAt(w, {"filter"}, "admitted") /\ cnWork = 0
  /\ cnWork' = 1
  /\ cnPermit' = "free"
  /\ CnEnd(w)
  /\ UNCHANGED <<cnSaved, cnTurn, cnActive, cnIssued, cnSockets, cnStop, cnAccepted>>

CnWorkEnds ==
  /\ cnWork = 1 /\ cnPermit = "free"
  /\ cnWork' = 0
  /\ UNCHANGED <<cnSaved, cnTurn, cnActive, cnIssued, cnReq, cnPermit, cnSockets, cnStop,
                 cnAccepted>>

-----------------------------------------------------------------------------
(* Live query log                                                           *)

CnUpgrading(sid) == {w \in CnRequests : CnAt(w, {"live"}, "upgrading") /\ cnReq[w].sid = sid}

CnLiveOf(sid) == {k \in cnSockets : k.sid = sid}

(* upgrade: slots are reserved, then the handler waits for the Manager lock
   with its own copy of the session.                                        *)
CnLiveAdmit(w) ==
  /\ CnAt(w, {"live"}, "begin") /\ cnStop = "serving" /\ CnAuthorized(w)
  /\ Cardinality(cnSockets)
       + Cardinality({v \in CnRequests : CnAt(v, {"live"}, "upgrading")}) < CnGlobal
  /\ Cardinality(CnLiveOf(cnReq[w].sid)) + Cardinality(CnUpgrading(cnReq[w].sid)) < CnPerSession
  /\ cnReq' = [cnReq EXCEPT ![w].pc = "upgrading"]
  /\ UNCHANGED <<cnSaved, cnTurn, cnActive, cnIssued, cnPermit, cnWork, cnSockets, cnStop,
                 cnAccepted>>

(* The socket task is registered in the Hub, unless it has been closed. *)
CnLiveOpen(w) ==
  /\ CnAt(w, {"live"}, "upgrading") /\ cnStop = "serving"
  /\ cnSockets' = cnSockets \cup
       {[slot |-> CHOOSE n \in 1..CnGlobal : \A k \in cnSockets : k.slot # n,
         sid |-> cnReq[w].sid, state |-> "auth"]}
  /\ CnEnd(w)
  /\ UNCHANGED <<cnSaved, cnTurn, cnActive, cnIssued, cnPermit, cnWork, cnStop, cnAccepted>>

(* A session leaves Active and the last copy of it is dropped. *)
CnRevoked(sid) == sid \notin CnSignedIn /\ CnUpgrading(sid) = {}

(* The binding is sent and right; a session revoked by then ends the socket. *)
CnLiveAuth(k) ==
  /\ k \in cnSockets /\ k.state = "auth"
  /\ cnSockets' = (cnSockets \ {k}) \cup
       (IF CnRevoked(k.sid) THEN {} ELSE {[k EXCEPT !.state = "serving"]})
  /\ UNCHANGED <<cnSaved, cnTurn, cnActive, cnIssued, cnReq, cnPermit, cnWork, cnStop,
                 cnAccepted>>

(* Revocation, expiry, idling, a protocol error or a stop ends the socket. *)
CnLiveEnd(k) ==
  /\ k \in cnSockets
  /\ cnSockets' = cnSockets \ {k}
  /\ UNCHANGED <<cnSaved, cnTurn, cnActive, cnIssued, cnReq, cnPermit, cnWork, cnStop,
                 cnAccepted>>

-----------------------------------------------------------------------------
(* Shutdown                                                                 *)

(* serve leaves its loop: the listener and the Hub are closed, and the HTTP
   tasks are aborted; detached work goes on.                                *)
CnShutdown ==
  /\ cnStop = "serving"
  /\ cnStop' = "aborted"
  /\ cnReq' = [w \in CnRequests |-> IF cnReq[w].pc = "admitted" THEN cnReq[w] ELSE CnIdle]
  /\ UNCHANGED <<cnSaved, cnTurn, cnActive, cnIssued, cnPermit, cnWork, cnSockets, cnAccepted>>

(* The permit is taken once, so that an admission still holding it has
   registered its rule task.                                                *)
CnAdmissionsOver == cnPermit = "free"

CnBarrier ==
  /\ cnStop = "aborted" /\ cnSockets = {} /\ CnAdmissionsOver
  /\ cnStop' = "barrier"
  /\ UNCHANGED <<cnSaved, cnTurn, cnActive, cnIssued, cnReq, cnPermit, cnWork, cnSockets,
                 cnAccepted>>

CnTasksJoined ==
  /\ cnStop = "barrier" /\ cnWork = 0
  /\ cnStop' = "joined"
  /\ UNCHANGED <<cnSaved, cnTurn, cnActive, cnIssued, cnReq, cnPermit, cnWork, cnSockets,
                 cnAccepted>>

(* The permit is kept: DNS is stopped and the cache saved. *)
CnTerminal ==
  /\ cnStop = "joined" /\ cnPermit = "free"
  /\ cnStop' = "terminal"
  /\ cnPermit' = "shutdown"
  /\ UNCHANGED <<cnSaved, cnTurn, cnActive, cnIssued, cnReq, cnWork, cnSockets, cnAccepted>>

CnNext ==
  \/ \E w \in CnRequests :
       \/ CnBegin(w) \/ CnDrop(w) \/ CnLoginVerify(w) \/ CnLoginIssue(w)
       \/ CnChangeVerify(w) \/ CnAdmit(w) \/ CnRefused(w) \/ CnRotate(w) \/ CnTurnstile(w)
       \/ CnRegister(w) \/ CnLiveAdmit(w) \/ CnLiveOpen(w)
       \/ \E moved \in BOOLEAN : CnConfigure(w, moved) \/ CnSetup(w, moved)
  \/ \E sid \in 1..CnIssues : CnSignOut(sid)
  \/ \E k \in cnSockets : CnLiveAuth(k) \/ CnLiveEnd(k)
  \/ CnWorkEnds \/ CnShutdown \/ CnBarrier \/ CnTasksJoined \/ CnTerminal

-----------------------------------------------------------------------------
(* Every session in Active was issued for the credentials, the Turnstile
   setting and the management address in force: a sign-in that verified what
   was replaced while it waited never yields a session, and a replacement
   leaves none behind.                                                      *)
SessionsCurrent ==
  \A s \in ToSet(cnActive.sessions) :
    s.cred = cnSaved.cred /\ s.turn = cnTurn /\ s.realm = cnActive.realm

(* Every accepted configuration change is still counted by the saved
   revision: neither another change nor a credential change that started
   earlier and committed later undoes it.                                   *)
RevisionsKept == cnSaved.rev = cnAccepted

(* When DNS is stopped for good, no detached transaction, rule task or live
   socket is left to touch it.                                              *)
DrainedBeforeTerminal ==
  cnStop = "terminal" =>
    /\ cnWork = 0 /\ cnSockets = {}
    /\ \A w \in CnRequests : cnReq[w] = CnIdle

(* Sign-ins, changes and live sockets follow the credentials, the saved
   configuration and the stop that are in force when they take effect.      *)
ConsoleSound == SessionsCurrent /\ RevisionsKept /\ DrainedBeforeTerminal
=============================================================================
