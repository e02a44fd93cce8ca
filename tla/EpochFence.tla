---------------------------- MODULE EpochFence ----------------------------
(***************************************************************************)
(* The lock protocol that linearizes cache invalidation with admission     *)
(* (cache.rs: Cache::epoch, admit, admit_failure, invalidate).             *)
(*                                                                         *)
(* A fill captures the cache epoch before it goes to the network and       *)
(* compares it again under the lock of its shard.  An invalidation takes   *)
(* every shard lock in index order, advances the epoch, removes the        *)
(* matching entries of every shard, and only then releases the locks.      *)
(* Every lock, compare, store, sweep and release is a step of its own.     *)
(* What an entry holds, its scope and the budgets are in module Cache.     *)
(***************************************************************************)
EXTENDS Integers, FiniteSets

CONSTANTS
    EfKeys,      \* cache keys
    N,           \* number of shards
    ShardOf,     \* the shard a key hashes to
    Fills,       \* exchanges that end in an admission
    Clears,      \* callers of invalidate
    Selectors,   \* the sets of keys a name/type filter can select
    Free,        \* the owner of an unlocked shard
    MaxClears    \* bound: invalidations that may start

Shards == 1..N

ASSUME FenceAssumption ==
    /\ EfKeys # {}
    /\ N \in Nat \ {0}
    /\ ShardOf \in [EfKeys -> Shards]
    /\ Selectors \subseteq SUBSET EfKeys
    /\ Free \notin Fills \cup Clears
    /\ Fills \cap Clears = {}
    /\ MaxClears \in Nat

VARIABLES
    efEpoch, \* Cache.epoch
    lock,    \* owner of each shard's mutex
    store,   \* entries of each shard: the key, and when the work began
    fill,    \* local state of each exchange
    clear,   \* local state of each invalidation
    tick,    \* invalidations started so far (history)
    cleared  \* the start of the latest finished invalidation of a key (history)

efVars == <<efEpoch, lock, store, fill, clear, tick, cleared>>

Entry == [key : EfKeys, began : Nat]

FillState ==
    [pc : {"idle", "fetch", "locked", "admit"}, key : EfKeys, epoch : Nat, began : Nat]

ClearState ==
    [pc : {"idle", "locking", "sweeping"}, sel : SUBSET EfKeys, start : Nat,
     held : 0..N, swept : 0..N]

IdleClear == [pc |-> "idle", sel |-> {}, start |-> 0, held |-> 0, swept |-> 0]

\* Stack variables of a finished exchange are gone; any key stands for none.
IdleFill == [pc |-> "idle", key |-> CHOOSE k \in EfKeys : TRUE, epoch |-> 0, began |-> 0]

TypeOK ==
    /\ efEpoch \in Nat
    /\ lock \in [Shards -> Fills \cup Clears \cup {Free}]
    /\ store \in [Shards -> SUBSET Entry]
    /\ fill \in [Fills -> FillState]
    /\ clear \in [Clears -> ClearState]
    /\ tick \in Nat
    /\ cleared \in [EfKeys -> Nat]

EfInit ==
    /\ efEpoch = 0
    /\ lock = [s \in Shards |-> Free]
    /\ store = [s \in Shards |-> {}]
    /\ fill = [f \in Fills |-> IdleFill]
    /\ clear = [c \in Clears |-> IdleClear]
    /\ tick = 0
    /\ cleared = [k \in EfKeys |-> 0]

(***************************************************************************)
(* Admission                                                               *)
(***************************************************************************)
FillShard(f) == ShardOf[fill[f].key]

\* resolve_inner reads the epoch before the lookup that misses.
EfCapture(f, k) ==
    /\ fill[f].pc = "idle"
    /\ fill' = [fill EXCEPT ![f] = [pc |-> "fetch", key |-> k, epoch |-> efEpoch, began |-> tick]]
    /\ UNCHANGED <<efEpoch, lock, store, clear, tick, cleared>>

\* The exchange fails, is cancelled, or its response is refused before the lock.
FetchFails(f) ==
    /\ fill[f].pc = "fetch"
    /\ fill' = [fill EXCEPT ![f] = IdleFill]
    /\ UNCHANGED <<efEpoch, lock, store, clear, tick, cleared>>

AdmitLock(f) ==
    /\ fill[f].pc = "fetch"
    /\ lock[FillShard(f)] = Free
    /\ lock' = [lock EXCEPT ![FillShard(f)] = f]
    /\ fill' = [fill EXCEPT ![f].pc = "locked"]
    /\ UNCHANGED <<efEpoch, store, clear, tick, cleared>>

\* A wrong admission for the tests of Fenced: it trusts the epoch it captured.
AdmitUnchecked(f) ==
    /\ fill[f].pc = "locked"
    /\ fill' = [fill EXCEPT ![f].pc = "admit"]
    /\ UNCHANGED <<efEpoch, lock, store, clear, tick, cleared>>

\* A changed epoch returns EpochChanged, which drops the guard.
AdmitCheck(f) ==
    /\ fill[f].pc = "locked"
    /\ IF fill[f].epoch = efEpoch
         THEN /\ fill' = [fill EXCEPT ![f].pc = "admit"]
              /\ UNCHANGED lock
         ELSE /\ fill' = [fill EXCEPT ![f] = IdleFill]
              /\ lock' = [lock EXCEPT ![FillShard(f)] = Free]
    /\ UNCHANGED <<efEpoch, store, clear, tick, cleared>>

\* Any part of the key's older entries is superseded or evicted, and the answer
\* itself is placed or refused; module Cache says which.
AdmitStore(f) ==
    /\ fill[f].pc = "admit"
    /\ \E gone \in SUBSET store[FillShard(f)],
          new \in SUBSET {[key |-> fill[f].key, began |-> fill[f].began]} :
         store' = [store EXCEPT ![FillShard(f)] = (@ \ gone) \cup new]
    /\ fill' = [fill EXCEPT ![f] = IdleFill]
    /\ lock' = [lock EXCEPT ![FillShard(f)] = Free]
    /\ UNCHANGED <<efEpoch, clear, tick, cleared>>

(***************************************************************************)
(* Invalidation                                                            *)
(***************************************************************************)
StartClear(c, sel) ==
    /\ clear[c].pc = "idle"
    /\ tick < MaxClears
    /\ tick' = tick + 1
    /\ clear' = [clear EXCEPT ![c] =
                  [pc |-> "locking", sel |-> sel, start |-> tick + 1, held |-> 0, swept |-> 0]]
    /\ UNCHANGED <<efEpoch, lock, store, fill, cleared>>

\* A wrong order for the tests of InvalidationReturns: it begins with the shard
\* of a selected key, so two invalidations may hold what the other waits for.
LockFromSelected(c) ==
    LET first == IF clear[c].sel = {} THEN 0 ELSE ShardOf[CHOOSE k \in clear[c].sel : TRUE] - 1
        s == ((first + clear[c].held) % N) + 1
    IN  /\ clear[c].pc = "locking"
        /\ clear[c].held < N
        /\ lock[s] = Free
        /\ lock' = [lock EXCEPT ![s] = c]
        /\ clear' = [clear EXCEPT ![c].held = @ + 1]
        /\ UNCHANGED <<efEpoch, store, fill, tick, cleared>>

LockShard(c) ==
    /\ clear[c].pc = "locking"
    /\ clear[c].held < N
    /\ lock[clear[c].held + 1] = Free
    /\ lock' = [lock EXCEPT ![clear[c].held + 1] = c]
    /\ clear' = [clear EXCEPT ![c].held = @ + 1]
    /\ UNCHANGED <<efEpoch, store, fill, tick, cleared>>

EfAdvance(c) ==
    /\ clear[c].pc = "locking"
    /\ clear[c].held = N
    /\ efEpoch' = efEpoch + 1
    /\ clear' = [clear EXCEPT ![c].pc = "sweeping"]
    /\ UNCHANGED <<lock, store, fill, tick, cleared>>

Sweep(c) ==
    /\ clear[c].pc = "sweeping"
    /\ clear[c].swept < N
    /\ store' = [store EXCEPT ![clear[c].swept + 1] =
                  {e \in @ : e.key \notin clear[c].sel}]
    /\ clear' = [clear EXCEPT ![c].swept = @ + 1]
    /\ UNCHANGED <<efEpoch, lock, fill, tick, cleared>>

\* invalidate returns: every guard is dropped.
Finish(c) ==
    /\ clear[c].pc = "sweeping"
    /\ clear[c].swept = N
    /\ lock' = [s \in Shards |-> Free]
    /\ cleared' = [k \in EfKeys |->
                    IF k \in clear[c].sel /\ cleared[k] < clear[c].start
                      THEN clear[c].start ELSE cleared[k]]
    /\ clear' = [clear EXCEPT ![c] = IdleClear]
    /\ UNCHANGED <<efEpoch, store, fill, tick>>

FillNext(f) ==
    \/ \E k \in EfKeys : EfCapture(f, k)
    \/ FetchFails(f)
    \/ AdmitLock(f)
    \/ AdmitCheck(f)
    \/ AdmitStore(f)

ClearNext(c) ==
    \/ \E sel \in Selectors : StartClear(c, sel)
    \/ LockShard(c)
    \/ EfAdvance(c)
    \/ Sweep(c)
    \/ Finish(c)

EfNext ==
    \/ \E f \in Fills : FillNext(f)
    \/ \E c \in Clears : ClearNext(c)

EfSpec == EfInit /\ [][EfNext]_efVars

\* Threads run, and a mutex that keeps being released is eventually acquired.
EfFairness ==
    /\ \A f \in Fills :
         /\ WF_efVars(AdmitCheck(f) \/ AdmitStore(f))
    /\ \A c \in Clears :
         /\ SF_efVars(LockShard(c))
         /\ WF_efVars(EfAdvance(c) \/ Sweep(c) \/ Finish(c))

EfFairSpec == EfSpec /\ EfFairness

(***************************************************************************)
(* Properties                                                              *)
(***************************************************************************)
\* Once invalidate has returned, no shard holds an answer for a selected key
\* whose fill captured its epoch before that call began, however long the fill
\* takes and wherever it was when the call started (cache.rs invalidate:
\* "including work whose encoding started before this call").
Fenced ==
    \A s \in Shards : \A e \in store[s] : e.began >= cleared[e.key]

\* While an invalidation sweeps, no admission adds an entry to any shard, so the
\* epoch change and the removal in all shards are one step for every admission.
InvalidationAtomic ==
    [][(\E c \in Clears : clear[c].pc = "sweeping")
         => \A s \in Shards : store'[s] \subseteq store[s]]_efVars

\* An invalidation that started returns: admissions hold one shard lock and
\* invalidations take the shard locks in one order, so nobody waits in a cycle.
InvalidationReturns ==
    \A c \in Clears : clear[c].pc = "locking" ~> clear[c].pc = "idle"
=============================================================================
