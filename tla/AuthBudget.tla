----------------------------- MODULE AuthBudget -----------------------------
(***************************************************************************)
(* The login budget of src/src/manage/auth_budget.rs: at most AuthAttempts *)
(* per source and window, in a bounded table that a bounded sweep reclaims *)
(* on every attempt.  As in limits.rs a caller takes its timestamp before  *)
(* the lock.                                                               *)
(***************************************************************************)
EXTENDS Naturals, Sequences, FiniteSets, SequencesExt

CONSTANTS
  AuthSources,   \* peers, an IPv6 peer by its /64
  AuthWindow,    \* WINDOW
  AuthAttempts,  \* ATTEMPTS
  AuthTable,     \* MAX_SOURCES
  AuthScan,      \* RECLAIM_SCAN
  AuthSkew,      \* how late a timestamp can be
  AuthTime       \* bound on the clock

ASSUME AuthAssumption ==
  /\ {AuthWindow, AuthAttempts, AuthTable, AuthScan} \subseteq Nat \ {0}
  /\ AuthSkew \in Nat /\ AuthTime \in Nat /\ AuthSkew < AuthWindow

VARIABLES
  authEntries,   \* source -> timestamps of its counted attempts
  authSweep,
  authClock,
  authAllowed    \* history: when each source was really let through, recently

authVars == <<authEntries, authSweep, authClock, authAllowed>>

AuthInit ==
  /\ authEntries = <<>>
  /\ authSweep = <<>>
  /\ authClock = 0
  /\ authAllowed = [s \in AuthSources |-> <<>>]

(* Mutant: the boundary of the window is off by one. *)
AuthExpireEarly(q, now) == SelectSeq(q, LAMBDA t : now < t + AuthWindow - 1)

(* expire pops from the front while the front is old.                        *)
AuthExpire(q, now) ==
  LET kept == {i \in DOMAIN q : now < q[i] + AuthWindow}
  IN  IF kept = {} THEN <<>>
      ELSE SubSeq(q, CHOOSE i \in kept : \A k \in kept : i <= k, Len(q))

(* The sweep at the head of every attempt: the first AuthScan entries are    *)
(* expired, the empty ones leave, the others move to the back.               *)
AuthSwept(now) ==
  LET n == IF AuthScan < Len(authSweep) THEN AuthScan ELSE Len(authSweep)
      looked == SubSeq(authSweep, 1, n)
      fresh == [s \in ToSet(looked) |-> AuthExpire(authEntries[s], now)]
      stays(s) == fresh[s] # <<>>
  IN  [entries |-> [s \in {x \in DOMAIN authEntries : x \in ToSet(looked) => stays(x)} |->
                      IF s \in ToSet(looked) THEN fresh[s] ELSE authEntries[s]],
       sweep |-> SubSeq(authSweep, n + 1, Len(authSweep)) \o SelectSeq(looked, stays)]

(* Budget::attempt_at. *)
AuthAttempt(s, now) ==
  LET t == AuthSwept(now)
      known == s \in DOMAIN t.entries
      room == known \/ Cardinality(DOMAIN t.entries) < AuthTable
      live == IF known THEN AuthExpire(t.entries[s], now) ELSE <<>>
      allowed == room /\ Len(live) < AuthAttempts
      at == IF live # <<>> /\ Last(live) > now THEN Last(live) ELSE now
      mine == IF allowed THEN Append(live, at) ELSE live
  IN  /\ authEntries' = IF ~room THEN t.entries
                        ELSE [x \in DOMAIN t.entries \cup {s} |->
                                IF x = s THEN mine ELSE t.entries[x]]
      /\ authSweep' = IF known \/ ~room THEN t.sweep ELSE Append(t.sweep, s)
      /\ authAllowed' = IF allowed THEN [authAllowed EXCEPT ![s] = Append(@, authClock)]
                        ELSE authAllowed
      /\ UNCHANGED authClock

AuthTick ==
  /\ authClock < AuthTime
  /\ authClock' = authClock + 1
  /\ authAllowed' = [s \in AuthSources |->
       SelectSeq(authAllowed[s], LAMBDA t : authClock + 1 < t + AuthWindow - AuthSkew)]
  /\ UNCHANGED <<authEntries, authSweep>>

AuthNext ==
  \/ \E s \in AuthSources, now \in 0 .. authClock :
       authClock - now <= AuthSkew /\ AuthAttempt(s, now)
  \/ AuthTick

(* No source is let through more than AuthAttempts times within a window     *)
(* (less the lateness of timestamps), whatever the sweep reclaims, however   *)
(* the attempts of other sources fill the table and whatever order the       *)
(* timestamps arrive in.                                                     *)
AttemptsLimited ==
  \A s \in AuthSources : Len(authAllowed[s]) <= AuthAttempts

(* The table and its sweep list hold the same sources, each once, and no     *)
(* more than the table's limit (the unwrap in the sweep cannot fail).        *)
AttemptBooksKept ==
  /\ ToSet(authSweep) = DOMAIN authEntries
  /\ IsInjective(authSweep)
  /\ Cardinality(DOMAIN authEntries) <= AuthTable

(* The login budget holds, and so do the books that enforce it.              *)
AuthBudgetKept == AttemptsLimited /\ AttemptBooksKept
=============================================================================
