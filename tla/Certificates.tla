---------------------------- MODULE Certificates ----------------------------
(***************************************************************************)
(* Inbound TLS identities: the CertificateSet shared by every encrypted    *)
(* listener (src/tls/certificates.rs), the reload a SIGHUP asks for        *)
(* (ReloadHandle of src/server.rs; the signal loops of src/main.rs and     *)
(* src/manage/mod.rs), and the bounded private imports of                  *)
(* src/manage/certificates.rs.                                             *)
(*                                                                         *)
(* A renewer outside the program replaces the certificate file and the key *)
(* file one after the other; the contents of a file are a version, and a   *)
(* pair is valid when both versions agree.  All roles name the same files. *)
(***************************************************************************)
EXTENDS Naturals, FiniteSets

CONSTANTS
  CeRoles,      \* the roles configured with the shared files
  CeIdentities, \* identities an administrator imports
  CeMaxImports, \* MAX_IMPORTS
  CeVersions,   \* bound on the renewals and on the rule file versions
  CeSignals     \* bound on the signals

ASSUME CeAssumption == {CeMaxImports, CeVersions, CeSignals} \subseteq Nat

VARIABLES
  ceDisk,     \* the versions of the certificate, key and rule files
  ceRead,     \* what the reload under way has read; 0 is unread
  ceTask,     \* the reload task: "none", "reading" or "ready"
  cePending,  \* reload_pending
  ceActive,   \* the versions in use: rules, certificate of each role, generation
  ceClosed,   \* publication_closed
  ceSignals,  \* signals received
  ceStarted,  \* history: signals received when the last reload started
  ceSeen,     \* history: the pairs of rules and identity one reload has read
  ceImports,  \* files of the private certificate directory
  ceGranted   \* history: identities whose path was returned to the caller

ceVars == <<ceDisk, ceRead, ceTask, cePending, ceActive, ceClosed, ceSignals, ceStarted,
            ceSeen, ceImports, ceGranted>>

CeFiles == {"cert", "key"}

CeUnread == [rules |-> 0, of |-> [r \in CeRoles |-> [f \in CeFiles |-> 0]]]

CeInit ==
  /\ ceDisk = [cert |-> 1, key |-> 1, rules |-> 1]
  /\ ceRead = CeUnread
  /\ ceTask = "none"
  /\ cePending = FALSE
  /\ ceActive = [rules |-> 1, of |-> [r \in CeRoles |-> 1], gen |-> 1]
  /\ ceClosed = FALSE
  /\ ceSignals = 0
  /\ ceStarted = 0
  /\ ceSeen = {<<1, 1>>}
  /\ ceImports = {}
  /\ ceGranted = {}

-----------------------------------------------------------------------------
(* The renewer and the administrator replace files at any time. *)
CeRenew(f) ==
  /\ ceDisk[f] < CeVersions
  /\ ceDisk' = [ceDisk EXCEPT ![f] = @ + 1]
  /\ UNCHANGED <<ceRead, ceTask, cePending, ceActive, ceClosed, ceSignals, ceStarted,
                 ceSeen, ceImports, ceGranted>>

CeBegin == ceTask' = "reading" /\ ceRead' = CeUnread

(* A signal that meets a reload under way is remembered. *)
CePendingAfter == ceTask # "none"

CeSignal ==
  /\ ceSignals < CeSignals /\ ~ceClosed
  /\ ceSignals' = ceSignals + 1
  /\ IF ceTask = "none"
     THEN CeBegin /\ ceStarted' = ceSignals + 1 /\ UNCHANGED cePending
     ELSE /\ cePending' = (cePending \/ CePendingAfter)
          /\ UNCHANGED <<ceTask, ceRead, ceStarted>>
  /\ UNCHANGED <<ceDisk, ceActive, ceClosed, ceSeen, ceImports, ceGranted>>

(* The task has ended; a remembered signal starts the next reload. *)
CeTaskEnds ==
  /\ cePending' = FALSE
  /\ IF cePending
     THEN CeBegin /\ ceStarted' = ceSignals
     ELSE ceTask' = "none" /\ ceRead' = CeUnread /\ UNCHANGED ceStarted

CeReadRules ==
  /\ ceTask = "reading" /\ ceRead.rules = 0
  /\ ceRead' = [ceRead EXCEPT !.rules = ceDisk.rules]
  /\ UNCHANGED <<ceDisk, ceTask, cePending, ceActive, ceClosed, ceSignals, ceStarted,
                 ceSeen, ceImports, ceGranted>>

\* Mutant: every role reads its files anew.
CeContentsNow(f) == {ceDisk[f]}

(* prepare reads a file once: a role that names a file already read in this
   preparation is given the same bytes.                                     *)
CeContents(f) ==
  LET earlier == {ceRead.of[r][f] : r \in CeRoles} \ {0}
  IN IF earlier = {} THEN {ceDisk[f]} ELSE earlier

CeReadFile(r, f) ==
  /\ ceTask = "reading" /\ ceRead.of[r][f] = 0
  /\ \E v \in CeContents(f) : ceRead' = [ceRead EXCEPT !.of[r][f] = v]
  /\ UNCHANGED <<ceDisk, ceTask, cePending, ceActive, ceClosed, ceSignals, ceStarted,
                 ceSeen, ceImports, ceGranted>>

CeAllRead == ceRead.rules # 0 /\ \A r \in CeRoles, f \in CeFiles : ceRead.of[r][f] # 0

CeValid == \A r \in CeRoles : ceRead.of[r].cert = ceRead.of[r].key

(* A pair whose key does not match, or material that cannot be read, rejects
   the reload and keeps the previous generation.                            *)
CeReject ==
  /\ ceTask = "reading"
  /\ CeAllRead => ~CeValid
  /\ CeTaskEnds
  /\ UNCHANGED <<ceDisk, ceActive, ceClosed, ceSignals, ceSeen, ceImports, ceGranted>>

CePrepared ==
  /\ ceTask = "reading" /\ CeAllRead /\ CeValid
  /\ ceTask' = "ready"
  /\ ceSeen' = ceSeen \cup {<<ceRead.rules, ceRead.of[r].cert>> : r \in CeRoles}
  /\ UNCHANGED <<ceDisk, ceRead, cePending, ceActive, ceClosed, ceSignals, ceStarted,
                 ceImports, ceGranted>>

(* CertificateSet::publish: one snapshot replacement, counted if any role's
   certificate changed.                                                     *)
CeIdentity ==
  LET next == [r \in CeRoles |-> ceRead.of[r].cert]
  IN [of |-> next, gen |-> IF next = ceActive.of THEN ceActive.gen ELSE ceActive.gen + 1]

CeRefused == ceActive

(* Rules and identities are published at one cut.  A retired rule generation
   that old requests still use refuses both; unchanged rules need no room.  *)
CePublish(held) ==
  /\ ceTask = "ready" /\ ~ceClosed
  /\ ceActive' = IF held /\ ceRead.rules # ceActive.rules
                 THEN CeRefused
                 ELSE [rules |-> ceRead.rules, of |-> CeIdentity.of, gen |-> CeIdentity.gen]
  /\ CeTaskEnds
  /\ UNCHANGED <<ceDisk, ceClosed, ceSignals, ceSeen, ceImports, ceGranted>>

(* A reload that reaches publication after the generation closed is refused. *)
CeTooLate ==
  /\ ceTask = "ready" /\ ceClosed
  /\ CeTaskEnds
  /\ UNCHANGED <<ceDisk, ceActive, ceClosed, ceSignals, ceSeen, ceImports, ceGranted>>

(* Server::run closes the publication before it drains. *)
CeClose ==
  /\ ~ceClosed
  /\ ceClosed' = TRUE
  /\ UNCHANGED <<ceDisk, ceRead, ceTask, cePending, ceActive, ceSignals, ceStarted, ceSeen,
                 ceImports, ceGranted>>

-----------------------------------------------------------------------------
(* import, under the mutation permit: an identity already stored is returned
   as it is; otherwise one more file is created, written and synced.        *)
CeStored(i) == {m \in ceImports : m.id = i /\ m.whole}

(* The directory is searched for a file with these very bytes. *)
CeFound(i) == CeStored(i)

CeImport(i) ==
  /\ IF CeFound(i) # {}
     THEN UNCHANGED ceImports
     ELSE /\ Cardinality(ceImports) < CeMaxImports
          /\ ceImports' = ceImports \cup
               {[file |-> Cardinality(ceImports) + 1, id |-> i, whole |-> TRUE]}
  /\ ceGranted' = ceGranted \cup {i}
  /\ UNCHANGED <<ceDisk, ceRead, ceTask, cePending, ceActive, ceClosed, ceSignals,
                 ceStarted, ceSeen>>

(* The process dies while it writes: the file stays, incomplete. *)
CeImportCut(i) ==
  /\ CeFound(i) = {} /\ Cardinality(ceImports) < CeMaxImports
  /\ ceImports' = ceImports \cup
       {[file |-> Cardinality(ceImports) + 1, id |-> i, whole |-> FALSE]}
  /\ UNCHANGED <<ceDisk, ceRead, ceTask, cePending, ceActive, ceClosed, ceSignals,
                 ceStarted, ceSeen, ceGranted>>

CeNext ==
  \/ CeSignal \/ CeReadRules \/ CeReject \/ CePrepared \/ CeTooLate \/ CeClose
  \/ \E held \in BOOLEAN : CePublish(held)
  \/ \E f \in DOMAIN ceDisk : CeRenew(f)
  \/ \E r \in CeRoles, f \in CeFiles : CeReadFile(r, f)
  \/ \E i \in CeIdentities : CeImport(i) \/ CeImportCut(i)

CeSpec == CeInit /\ [][CeNext]_ceVars

-----------------------------------------------------------------------------
(* Roles that share their files serve one identity, however a renewal falls
   between the reads of a reload.                                           *)
RolesShareIdentity == \A r, s \in CeRoles : ceActive.of[r] = ceActive.of[s]

(* The rules and the identity in use were read by one reload (or are those of
   the start): a refused publication of one never lets the other through.   *)
ReloadIsWhole == \A r \in CeRoles : <<ceActive.rules, ceActive.of[r]>> \in ceSeen

(* With no reload under way, the last one began after the last signal, so a
   renewal finished before that signal has been looked at.                  *)
SignalNotLost == ceTask = "none" => ceStarted = ceSignals

(* An identity whose path was returned has exactly one complete file, also
   when an earlier import of it was cut short, so that repeated imports do
   not use up the bounded directory.                                        *)
ImportKept == \A i \in ceGranted : Cardinality(CeStored(i)) = 1

(* A renewal is taken up whole and by all roles, and imports stay bounded.   *)
CertificatesSound ==
  RolesShareIdentity /\ ReloadIsWhole /\ SignalNotLost /\ ImportKept
=============================================================================
