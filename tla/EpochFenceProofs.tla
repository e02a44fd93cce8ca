------------------------- MODULE EpochFenceProofs -------------------------
(***************************************************************************)
(* Fenced and InvalidationAtomic for any number of shards, keys, fills and *)
(* invalidations.  The inductive invariant adds to Fenced who holds which  *)
(* lock, and that a fill which began before an invalidation advanced the   *)
(* epoch holds an epoch that can no longer pass the compare.               *)
(***************************************************************************)
EXTENDS EpochFence, TLAPS

\* A shard lock is held by exactly the fill between its lock and its release, or
\* by the invalidation that has locked that far.
LockInv ==
    /\ \A f \in Fills : fill[f].pc \in {"locked", "admit"} => lock[FillShard(f)] = f
    /\ \A c \in Clears, s \in Shards :
         (clear[c].pc = "sweeping" \/ (clear[c].pc = "locking" /\ s <= clear[c].held))
           => lock[s] = c

\* The compare still holds when the store happens.
CompareInv ==
    \A f \in Fills : fill[f].pc = "admit" => fill[f].epoch = efEpoch

\* A fill older than an invalidation that advanced the epoch captured an older epoch.
OlderInv ==
    \A f \in Fills : fill[f].pc # "idle" =>
        /\ fill[f].epoch <= efEpoch
        /\ fill[f].began < cleared[fill[f].key] => fill[f].epoch < efEpoch
        /\ \A c \in Clears :
             clear[c].pc = "sweeping" /\ fill[f].began < clear[c].start
               => fill[f].epoch < efEpoch

\* Shards already swept hold no selected entry older than the invalidation.
SweptInv ==
    /\ \A c \in Clears : clear[c].pc = "locking" => clear[c].swept = 0
    /\ \A c \in Clears, s \in Shards :
         clear[c].pc = "sweeping" /\ s <= clear[c].swept =>
             \A e \in store[s] : e.key \in clear[c].sel => e.began >= clear[c].start

HistoryInv ==
    /\ \A c \in Clears : clear[c].start <= tick
    /\ \A k \in EfKeys : cleared[k] <= tick

IInv ==
    /\ TypeOK
    /\ LockInv
    /\ CompareInv
    /\ OlderInv
    /\ SweptInv
    /\ HistoryInv
    /\ Fenced

\* The initial state satisfies the inductive invariant.
LEMMA InitIInv == EfInit => IInv
  <1>1. IdleFill \in FillState /\ IdleFill.pc = "idle"
    BY FenceAssumption DEF IdleFill, FillState
  <1>2. IdleClear \in ClearState /\ IdleClear.pc = "idle" /\ IdleClear.start = 0
    BY FenceAssumption DEF IdleClear, ClearState
  <1> QED
    BY <1>1, <1>2, FenceAssumption
    DEF EfInit, IInv, TypeOK, LockInv, CompareInv, OlderInv, SweptInv, HistoryInv, Fenced

\* Moving a fill's program counter keeps its type.
LEMMA FillPc ==
    ASSUME NEW x \in FillState, NEW pc \in {"idle", "fetch", "locked", "admit"}
    PROVE  [x EXCEPT !.pc = pc] \in FillState
  BY DEF FillState

\* Changing the progress of an invalidation keeps its type.
LEMMA ClearProgress ==
    ASSUME NEW x \in ClearState
    PROVE  /\ [x EXCEPT !.pc = "sweeping"] \in ClearState
           /\ \A n \in 0..N : [x EXCEPT !.held = n] \in ClearState
           /\ \A n \in 0..N : [x EXCEPT !.swept = n] \in ClearState
  BY DEF ClearState

\* EfCapture preserves the inductive invariant.
LEMMA CaptureStep ==
    ASSUME IInv, NEW f \in Fills, NEW k \in EfKeys, EfCapture(f, k)
    PROVE  IInv'
  <1> USE FenceAssumption DEF Shards
  <1>1. TypeOK'
    BY DEF IInv, TypeOK, EfCapture, FillState
  <1>2. LockInv'
    BY DEF IInv, TypeOK, LockInv, EfCapture, FillState, FillShard
  <1>3. CompareInv' /\ SweptInv' /\ HistoryInv' /\ Fenced'
    BY DEF IInv, TypeOK, CompareInv, SweptInv, HistoryInv, Fenced, EfCapture, FillState
  <1>4. OlderInv'
    BY SMTT(30) DEF IInv, TypeOK, OlderInv, HistoryInv, EfCapture, FillState, ClearState
  <1> QED
    BY <1>1, <1>2, <1>3, <1>4 DEF IInv

\* FetchFails preserves the inductive invariant.
LEMMA FetchFailsStep ==
    ASSUME IInv, NEW f \in Fills, FetchFails(f)
    PROVE  IInv'
  <1> USE FenceAssumption DEF Shards
  <1>1. TypeOK'
    BY DEF IInv, TypeOK, FetchFails, FillState, IdleFill
  <1>2. LockInv'
    BY DEF IInv, TypeOK, LockInv, FetchFails, FillState, FillShard, IdleFill
  <1>3. CompareInv' /\ OlderInv' /\ SweptInv' /\ HistoryInv' /\ Fenced'
    BY DEF IInv, TypeOK, CompareInv, OlderInv, SweptInv, HistoryInv, Fenced, FetchFails,
           FillState, IdleFill
  <1> QED
    BY <1>1, <1>2, <1>3 DEF IInv

\* AdmitLock preserves the inductive invariant.
LEMMA AdmitLockStep ==
    ASSUME IInv, NEW f \in Fills, AdmitLock(f)
    PROVE  IInv'
  <1> USE FenceAssumption DEF Shards
  <1>1. fill' \in [Fills -> FillState]
    BY FillPc DEF IInv, TypeOK, AdmitLock
  <1>2. TypeOK'
    BY <1>1 DEF IInv, TypeOK, AdmitLock
  <1>3. LockInv'
    BY DEF IInv, TypeOK, LockInv, AdmitLock, FillState, FillShard
  <1>4. CompareInv' /\ OlderInv' /\ SweptInv' /\ HistoryInv' /\ Fenced'
    BY DEF IInv, TypeOK, CompareInv, OlderInv, SweptInv, HistoryInv, Fenced, AdmitLock,
           FillState
  <1> QED
    BY <1>2, <1>3, <1>4 DEF IInv

\* AdmitCheck preserves the inductive invariant.
LEMMA AdmitCheckStep ==
    ASSUME IInv, NEW f \in Fills, AdmitCheck(f)
    PROVE  IInv'
  <1> USE FenceAssumption DEF Shards
  <1>1. CASE fill[f].epoch = efEpoch
    <2>1. /\ fill' = [fill EXCEPT ![f].pc = "admit"]
          /\ UNCHANGED <<efEpoch, lock, store, clear, tick, cleared>>
      BY <1>1 DEF AdmitCheck
    <2>2. TypeOK'
      BY <2>1, FillPc DEF IInv, TypeOK
    <2>3. LockInv'
      BY <2>1 DEF IInv, TypeOK, LockInv, AdmitCheck, FillState, FillShard
    <2>4. CompareInv' /\ OlderInv'
      BY <1>1, <2>1 DEF IInv, TypeOK, CompareInv, OlderInv, AdmitCheck, FillState
    <2>5. SweptInv' /\ HistoryInv' /\ Fenced'
      BY <2>1 DEF IInv, SweptInv, HistoryInv, Fenced
    <2> QED
      BY <2>2, <2>3, <2>4, <2>5 DEF IInv
  <1>2. CASE fill[f].epoch # efEpoch
    <2>1. /\ fill' = [fill EXCEPT ![f] = IdleFill]
          /\ lock' = [lock EXCEPT ![FillShard(f)] = Free]
          /\ UNCHANGED <<efEpoch, store, clear, tick, cleared>>
      BY <1>2 DEF AdmitCheck
    <2>2. TypeOK'
      BY <2>1 DEF IInv, TypeOK, FillState, IdleFill
    <2>3. LockInv'
      BY <2>1, SMTT(30) DEF IInv, TypeOK, LockInv, AdmitCheck, FillState, FillShard, IdleFill
    <2>4. CompareInv' /\ OlderInv'
      BY <2>1 DEF IInv, TypeOK, CompareInv, OlderInv, FillState, IdleFill
    <2>5. SweptInv' /\ HistoryInv' /\ Fenced'
      BY <2>1 DEF IInv, SweptInv, HistoryInv, Fenced
    <2> QED
      BY <2>2, <2>3, <2>4, <2>5 DEF IInv
  <1> QED
    BY <1>1, <1>2

\* AdmitStore preserves the inductive invariant.
LEMMA AdmitStoreStep ==
    ASSUME IInv, NEW f \in Fills, AdmitStore(f)
    PROVE  IInv'
  <1> USE FenceAssumption DEF Shards
  <1> DEFINE new == [key |-> fill[f].key, began |-> fill[f].began]
             s == FillShard(f)
  <1>1. /\ fill[f].pc = "admit"
        /\ fill' = [fill EXCEPT ![f] = IdleFill]
        /\ lock' = [lock EXCEPT ![s] = Free]
        /\ UNCHANGED <<efEpoch, clear, tick, cleared>>
    BY DEF AdmitStore
  <1>2. s \in Shards /\ lock[s] = f /\ fill[f] \in FillState
    BY <1>1 DEF IInv, TypeOK, LockInv, FillShard, FillState
  <1>3. PICK gone \in SUBSET store[s], added \in SUBSET {new} :
          store' = [store EXCEPT ![s] = (@ \ gone) \cup added]
    BY DEF AdmitStore
  <1>4. new \in Entry
    BY <1>2 DEF Entry, FillState
  <1>5. \A r \in Shards : store'[r] \subseteq store[r] \cup (IF r = s THEN {new} ELSE {})
    BY <1>2, <1>3 DEF IInv, TypeOK
  <1>6. TypeOK'
    <2>1. store' \in [Shards -> SUBSET Entry]
      BY <1>2, <1>3, <1>4 DEF IInv, TypeOK
    <2> QED
      BY <1>1, <1>2, <2>1 DEF IInv, TypeOK, IdleFill, FillState
  <1>7. LockInv'
    BY <1>1, <1>2 DEF IInv, TypeOK, LockInv, FillState, FillShard, IdleFill
  <1>8. CompareInv' /\ OlderInv' /\ HistoryInv'
    BY <1>1 DEF IInv, TypeOK, CompareInv, OlderInv, HistoryInv, FillState, IdleFill
  <1>9. SweptInv'
    <2>1. \A c \in Clears : clear[c].pc # "sweeping"
      BY <1>2 DEF IInv, LockInv
    <2> QED
      BY <1>1, <2>1 DEF IInv, SweptInv
  <1>10. Fenced'
    <2>1. fill[f].epoch = efEpoch /\ efEpoch \in Nat
      BY <1>1 DEF IInv, TypeOK, CompareInv
    <2>2. ~(fill[f].began < cleared[fill[f].key])
      BY <1>1, <2>1 DEF IInv, OlderInv
    <2>3. fill[f].began \in Nat /\ cleared[fill[f].key] \in Nat
      BY <1>2 DEF IInv, TypeOK, FillState
    <2>4. new.began >= cleared[new.key]
      BY <2>2, <2>3
    <2> QED
      BY <1>1, <1>5, <2>4 DEF IInv, Fenced
  <1> QED
    BY <1>6, <1>7, <1>8, <1>9, <1>10 DEF IInv

\* StartClear preserves the inductive invariant.
LEMMA StartClearStep ==
    ASSUME IInv, NEW c \in Clears, NEW sel \in Selectors, StartClear(c, sel)
    PROVE  IInv'
  <1> USE FenceAssumption DEF Shards
  <1>1. TypeOK'
    BY DEF IInv, TypeOK, StartClear, ClearState
  <1>2. LockInv'
    BY DEF IInv, TypeOK, LockInv, StartClear, ClearState, FillShard
  <1>3. CompareInv' /\ OlderInv' /\ SweptInv' /\ HistoryInv' /\ Fenced'
    BY DEF IInv, TypeOK, CompareInv, OlderInv, SweptInv, HistoryInv, Fenced, StartClear,
           ClearState
  <1> QED
    BY <1>1, <1>2, <1>3 DEF IInv

\* LockShard preserves the inductive invariant.
LEMMA LockShardStep ==
    ASSUME IInv, NEW c \in Clears, LockShard(c)
    PROVE  IInv'
  <1> USE FenceAssumption DEF Shards
  <1>0. clear[c].held + 1 \in 0..N
    BY DEF IInv, TypeOK, LockShard, ClearState
  <1>1. clear' \in [Clears -> ClearState]
    BY <1>0, ClearProgress DEF IInv, TypeOK, LockShard
  <1>2. TypeOK'
    BY <1>1 DEF IInv, TypeOK, LockShard
  <1>3. LockInv'
    BY SMTT(30) DEF IInv, TypeOK, LockInv, LockShard, ClearState, FillShard
  <1>4. CompareInv' /\ OlderInv' /\ SweptInv' /\ HistoryInv' /\ Fenced'
    BY SMTT(30) DEF IInv, TypeOK, CompareInv, OlderInv, SweptInv, HistoryInv, Fenced, LockShard,
           ClearState
  <1> QED
    BY <1>2, <1>3, <1>4 DEF IInv

\* EfAdvance preserves the inductive invariant.
LEMMA AdvanceStep ==
    ASSUME IInv, NEW c \in Clears, EfAdvance(c)
    PROVE  IInv'
  <1> USE FenceAssumption DEF Shards
  <1>1. clear' \in [Clears -> ClearState]
    BY ClearProgress DEF IInv, TypeOK, EfAdvance
  <1>2. TypeOK'
    BY <1>1 DEF IInv, TypeOK, EfAdvance
  <1>3. LockInv'
    BY DEF IInv, TypeOK, LockInv, EfAdvance, ClearState, FillShard
  <1>4. CompareInv'
    <2>1. \A s \in Shards : lock[s] = c
      BY DEF IInv, TypeOK, LockInv, EfAdvance, ClearState
    <2>2. \A f \in Fills : fill[f].pc # "admit"
      BY <2>1 DEF IInv, TypeOK, LockInv, FillShard, FillState
    <2> QED
      BY <2>2 DEF CompareInv, EfAdvance
  <1>5. OlderInv'
    BY DEF IInv, TypeOK, OlderInv, EfAdvance, FillState
  <1>6. SweptInv'
    BY SMTT(30) DEF IInv, TypeOK, SweptInv, EfAdvance, ClearState
  <1>7. HistoryInv' /\ Fenced'
    BY DEF IInv, TypeOK, HistoryInv, Fenced, EfAdvance, ClearState
  <1> QED
    BY <1>2, <1>3, <1>4, <1>5, <1>6, <1>7 DEF IInv

\* Sweep preserves the inductive invariant.
LEMMA SweepStep ==
    ASSUME IInv, NEW c \in Clears, Sweep(c)
    PROVE  IInv'
  <1> USE FenceAssumption DEF Shards
  <1> DEFINE r == clear[c].swept + 1
  <1>1. /\ clear[c].pc = "sweeping"
        /\ r \in Shards
        /\ store' = [store EXCEPT ![r] = {e \in @ : e.key \notin clear[c].sel}]
        /\ UNCHANGED <<efEpoch, lock, fill, tick, cleared>>
    BY DEF IInv, TypeOK, Sweep, ClearState
  <1>2. clear' = [clear EXCEPT ![c].swept = r] /\ clear' \in [Clears -> ClearState]
    <2>1. clear' = [clear EXCEPT ![c].swept = r]
      BY DEF Sweep
    <2>2. r \in 0..N /\ clear[c] \in ClearState
      BY <1>1 DEF IInv, TypeOK
    <2>3. [clear[c] EXCEPT !.swept = r] \in ClearState
      BY <2>2, ClearProgress
    <2> QED
      BY <2>1, <2>3 DEF IInv, TypeOK
  <1>3. TypeOK'
    BY <1>1, <1>2 DEF IInv, TypeOK
  <1>4. LockInv'
    BY <1>1, <1>2 DEF IInv, TypeOK, LockInv, ClearState, FillShard
  <1>5. CompareInv' /\ OlderInv' /\ HistoryInv'
    BY <1>1, <1>2, SMTT(30) DEF IInv, TypeOK, CompareInv, OlderInv, HistoryInv, ClearState
  <1>6. \A s \in Shards : store'[s] \subseteq store[s]
    BY <1>1 DEF IInv, TypeOK
  <1>7. SweptInv'
    <2>1. \A s \in Shards : s <= r => s <= clear[c].swept \/ s = r
      BY <1>1 DEF IInv, TypeOK, ClearState
    <2>2. \A e \in store'[r] : e.key \notin clear[c].sel
      BY <1>1 DEF IInv, TypeOK
    <2>3. \A d \in Clears : d # c => clear'[d] = clear[d]
      BY <1>2 DEF IInv, TypeOK
    <2>4. /\ clear'[c].pc = clear[c].pc /\ clear'[c].sel = clear[c].sel
          /\ clear'[c].start = clear[c].start /\ clear'[c].swept = r
      BY <1>2 DEF IInv, TypeOK, ClearState
    <2> QED
      BY <1>1, <1>6, <2>1, <2>2, <2>3, <2>4 DEF IInv, SweptInv
  <1>8. Fenced'
    BY <1>1, <1>6 DEF IInv, Fenced
  <1> QED
    BY <1>3, <1>4, <1>5, <1>7, <1>8 DEF IInv

\* Finish preserves the inductive invariant.
LEMMA FinishStep ==
    ASSUME IInv, NEW c \in Clears, Finish(c)
    PROVE  IInv'
  <1> USE FenceAssumption DEF Shards
  <1>1. TypeOK'
    BY DEF IInv, TypeOK, Finish, ClearState, IdleClear
  <1>2. \A s \in Shards : lock[s] = c
    BY DEF IInv, LockInv, Finish
  <1>3. LockInv'
    <2>1. \A f \in Fills : fill[f].pc \notin {"locked", "admit"}
      BY <1>2 DEF IInv, TypeOK, LockInv, FillShard, FillState
    <2>2. \A d \in Clears, s \in Shards :
            d # c => ~(clear[d].pc = "sweeping" \/ (clear[d].pc = "locking" /\ s <= clear[d].held))
      BY <1>2 DEF IInv, LockInv
    <2> QED
      BY <2>1, <2>2 DEF IInv, TypeOK, LockInv, Finish, IdleClear, FillShard
  <1>4. CompareInv' /\ OlderInv'
    BY DEF IInv, TypeOK, CompareInv, OlderInv, Finish, FillState, ClearState, IdleClear
  <1>5. SweptInv' /\ HistoryInv'
    BY DEF IInv, TypeOK, SweptInv, HistoryInv, Finish, ClearState, IdleClear
  <1>6. Fenced'
    <2> SUFFICES ASSUME NEW s \in Shards, NEW e \in store[s]
                 PROVE  e.began >= cleared'[e.key]
      BY DEF Fenced, Finish
    <2>1. e \in Entry /\ e.key \in EfKeys
      BY DEF IInv, TypeOK, Entry
    <2>2. e.began >= cleared[e.key]
      BY DEF IInv, Fenced
    <2>3. e.key \in clear[c].sel => e.began >= clear[c].start
      <3>1. s <= clear[c].swept /\ clear[c].pc = "sweeping"
        BY DEF Finish
      <3> QED
        BY <3>1 DEF IInv, SweptInv
    <2> QED
      BY <2>1, <2>2, <2>3 DEF Finish
  <1> QED
    BY <1>1, <1>3, <1>4, <1>5, <1>6 DEF IInv

\* Every step of the protocol preserves the inductive invariant.
LEMMA NextIInv == IInv /\ [EfNext]_efVars => IInv'
  <1> SUFFICES ASSUME IInv, [EfNext]_efVars
               PROVE  IInv'
    OBVIOUS
  <1>1. CASE UNCHANGED efVars
    BY <1>1 DEF efVars, IInv, TypeOK, LockInv, CompareInv, OlderInv, SweptInv, HistoryInv,
                Fenced, FillShard
  <1>2. ASSUME NEW f \in Fills, FillNext(f)
        PROVE  IInv'
    BY <1>2, CaptureStep, FetchFailsStep, AdmitLockStep, AdmitCheckStep, AdmitStoreStep
    DEF FillNext
  <1>3. ASSUME NEW c \in Clears, ClearNext(c)
        PROVE  IInv'
    BY <1>3, StartClearStep, LockShardStep, AdvanceStep, SweepStep, FinishStep DEF ClearNext
  <1> QED
    BY <1>1, <1>2, <1>3 DEF EfNext

\* The types of the state hold throughout, for any shards, keys and callers.
THEOREM TypeCorrect == EfSpec => []TypeOK
  <1>1. IInv => TypeOK
    BY DEF IInv
  <1> QED
    BY <1>1, InitIInv, NextIInv, PTL DEF EfSpec

\* Invalidation is a fence for every fill that began before it (cache.rs
\* invalidate, admit): whatever the number of shards and of concurrent fills and
\* invalidations, once the call has returned no such fill's answer is stored.
THEOREM FillsAreFenced == EfSpec => []Fenced
  <1>1. IInv => Fenced
    BY DEF IInv
  <1> QED
    BY <1>1, InitIInv, NextIInv, PTL DEF EfSpec

\* No admission adds an entry while an invalidation sweeps (cache.rs invalidate
\* holds every shard lock from before the epoch change to its return).
THEOREM SweepsAreAtomic == EfSpec => InvalidationAtomic
  <1> DEFINE Quiet == (\E c \in Clears : clear[c].pc = "sweeping")
                        => \A s \in Shards : store'[s] \subseteq store[s]
  <1>1. IInv /\ [EfNext]_efVars => [Quiet]_efVars
    <2> SUFFICES ASSUME IInv, EfNext, NEW c \in Clears, clear[c].pc = "sweeping",
                        NEW s \in Shards
                 PROVE  store'[s] \subseteq store[s]
      BY DEF efVars
    <2>1. \A r \in Shards : lock[r] = c
      BY DEF IInv, LockInv
    <2>2. ASSUME NEW f \in Fills, FillNext(f)
          PROVE  UNCHANGED store
      <3>1. ~AdmitStore(f)
        BY <2>1, FenceAssumption DEF IInv, TypeOK, LockInv, AdmitStore, FillShard, FillState
      <3> QED
        BY <2>2, <3>1 DEF FillNext, EfCapture, FetchFails, AdmitLock, AdmitCheck
    <2>3. ASSUME NEW d \in Clears, ClearNext(d)
          PROVE  store'[s] \subseteq store[s]
      BY <2>3 DEF IInv, TypeOK, ClearNext, StartClear, LockShard, EfAdvance, Sweep, Finish
    <2> QED
      BY <2>2, <2>3 DEF EfNext
  <1> QED
    BY <1>1, InitIInv, NextIInv, PTL DEF EfSpec, InvalidationAtomic
=============================================================================
