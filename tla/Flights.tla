------------------------------ MODULE Flights ------------------------------
(***************************************************************************)
(* In-flight sharing of upstream work in one resolver generation: the      *)
(* registries (flight.rs, Generation::flights), the callers that join,     *)
(* wait and leave (resolve_inner and Waiting of resolver.rs), and the      *)
(* bounded refresh owner (resolver/refresh.rs) that runs prefetches and    *)
(* finishes sent work its last caller left.                                *)
(*                                                                         *)
(* Shared work has no task of its own: it advances only while a caller     *)
(* that waits, or a refresh task, polls it, and ends with its last         *)
(* reference.  Operations on the hold counter and on the sent flag are     *)
(* steps of their own; the registry is locked from JoinStart to JoinCount. *)
(* Generation::flights is part of the step that locks the registry it      *)
(* returns: a request overtaken by a newer epoch between the two joins the *)
(* groups it would have joined before.  Works live in slots reused once    *)
(* unreferenced; a weak reference to a free slot is a dead one.            *)
(***************************************************************************)
EXTENDS Integers, Sequences, FiniteSets

CONSTANTS
    Callers,          \* requests
    Keys,             \* canonical work keys
    Bypassing,        \* the keys whose lookups bypass the cache: nothing fills or prefetches them
    NoKey,            \* the key of a free slot
    MaxWaiters,       \* coalescing.max_waiters
    MaxGroups,        \* coalescing.max_groups
    MaxInflight,      \* prefetch.max_inflight
    RatePerSec,       \* prefetch.rate_per_sec
    CooldownCapacity, \* failures the refresh owner remembers
    Hits,             \* whether a request misses, hits an entry due for prefetch, or either
    MaxEpoch          \* bound: invalidations

ASSUME FlightsAssumption ==
    /\ {MaxWaiters, MaxGroups, MaxInflight, RatePerSec, CooldownCapacity} \subseteq Nat \ {0}
    /\ MaxEpoch \in Nat
    /\ Hits \subseteq BOOLEAN
    /\ IsFiniteSet(Callers) /\ NoKey \notin Keys /\ Bypassing \subseteq Keys

VARIABLES
    epoch,    \* Cache.epoch of this generation
    flights,  \* Generation.flights: the epoch and the weak groups of the shared registry
    works,    \* shared work: its key and epoch, its flags, its hold counter
    caller,   \* each request: where it is and what it captured
    refresh   \* refresh::State

vars == <<epoch, flights, works, caller, refresh>>

WorkSlots == 1..(Cardinality(Callers) + MaxInflight)

NoGroups == [k \in Keys |-> 0]
NoWork == [key |-> NoKey, epoch |-> 0, sent |-> FALSE, done |-> FALSE, admitted |-> FALSE,
           holds |-> 0]
IdleCaller == [pc |-> "idle", key |-> NoKey, epoch |-> 0, work |-> 0, prefetch |-> FALSE]

Init ==
    /\ epoch = 0
    /\ flights = [epoch |-> 0, groups |-> NoGroups]
    /\ works = [w \in WorkSlots |-> NoWork]
    /\ caller = [c \in Callers |-> IdleCaller]
    /\ refresh = [closed |-> FALSE, tasks |-> {}, active |-> {}, cooldown |-> <<>>, starts |-> 0]

(***************************************************************************)
(* References                                                              *)
(***************************************************************************)
Holding == {"counting", "waiting", "dropping", "leaving", "last"}
CallersOf(w) == {c \in Callers : caller[c].pc \in Holding /\ caller[c].work = w}
TasksOf(w) == {t \in refresh.tasks : t.work = w}
Alive(w) == CallersOf(w) # {} \/ TasksOf(w) # {}
Polled(w) == (\E c \in CallersOf(w) : caller[c].pc = "waiting") \/ TasksOf(w) # {}

\* Held locks: a hold of work in the shared registry is being counted, or a
\* prefetch is being scheduled.
Registered(w) == \E k \in Keys : flights.groups[k] = w
FlightsLocked == \E c \in Callers : caller[c].pc = "counting" /\ Registered(caller[c].work)
RefreshLocked == \E c \in Callers : caller[c].pc = "counting" /\ caller[c].prefetch

Goto(c, pc) == caller' = [caller EXCEPT ![c].pc = pc]
Reset(c) == caller' = [caller EXCEPT ![c] = IdleCaller]

\* A hold goes: it is uncounted, and the work ends unless others refer to it.
DropHold(w, others) ==
    /\ works' = [works EXCEPT ![w] = IF others THEN [@ EXCEPT !.holds = @ - 1] ELSE NoWork]
    /\ flights' = IF others THEN flights
                  ELSE [flights EXCEPT !.groups = [k \in Keys |-> IF @[k] = w THEN 0 ELSE @[k]]]

CallerDrops(c) ==
    DropHold(caller[c].work, CallersOf(caller[c].work) # {c} \/ TasksOf(caller[c].work) # {})
TaskDrops(t) == DropHold(t.work, CallersOf(t.work) # {} \/ TasksOf(t.work) # {t})

(***************************************************************************)
(* A request captures the cache epoch, and misses, or hits an entry that   *)
(* is due for a prefetch.                                                  *)
(***************************************************************************)
Capture(c, k, hit) ==
    /\ caller[c].pc = "idle"
    /\ hit => k \notin Bypassing
    /\ caller' = [caller EXCEPT ![c] = [IdleCaller EXCEPT
                    !.pc = "captured", !.key = k, !.epoch = epoch, !.prefetch = hit]]
    /\ UNCHANGED <<epoch, flights, works, refresh>>

\* Mutant: a request older than the shared registry replaces it.
ChosenBackwards(e) ==
    [shared |-> TRUE,
     found |-> IF e = flights.epoch THEN flights ELSE [epoch |-> e, groups |-> NoGroups]]

\* Generation::flights: the registry a request of epoch e gets, and whether it
\* is the shared one from now on.  A newer epoch replaces the shared registry;
\* an older request gets a registry of its own.
Chosen(e) ==
    [shared |-> e >= flights.epoch,
     found |-> IF e = flights.epoch THEN flights ELSE [epoch |-> e, groups |-> NoGroups]]

Share(chosen, groups) ==
    flights' = IF chosen.shared THEN [chosen.found EXCEPT !.groups = groups] ELSE flights

(***************************************************************************)
(* Flights::join.  Completed and dead groups are reaped first.             *)
(***************************************************************************)
Reaped(reg) == [k \in Keys |->
    IF reg.groups[k] # 0 /\ ~works[reg.groups[k]].done THEN reg.groups[k] ELSE 0]

\* Mutant: one waiter too many is let in.
JoinFullLate(groups, k) ==
    IF groups[k] # 0 THEN works[groups[k]].holds > MaxWaiters
                     ELSE Cardinality({g \in Keys : groups[g] # 0}) >= MaxGroups

JoinFull(groups, k) ==
    IF groups[k] # 0 THEN works[groups[k]].holds >= MaxWaiters
                     ELSE Cardinality({g \in Keys : groups[g] # 0}) >= MaxGroups

\* The group of the caller's key, found or made; the hold is not counted yet.
EnterGroup(c, chosen) ==
    LET k == caller[c].key
        groups == Reaped(chosen.found)
        w == IF groups[k] # 0 THEN groups[k] ELSE CHOOSE v \in WorkSlots : ~Alive(v)
    IN  /\ Share(chosen, [groups EXCEPT ![k] = w])
        /\ works' = IF groups[k] # 0 THEN works
                    ELSE [works EXCEPT ![w] = [NoWork EXCEPT !.key = k, !.epoch = caller[c].epoch]]
        /\ caller' = [caller EXCEPT ![c].pc = "counting", ![c].work = w]

Rejected(c, chosen) ==
    /\ Share(chosen, Reaped(chosen.found))
    /\ Reset(c)
    /\ UNCHANGED works

Full(c, chosen) == JoinFull(Reaped(chosen.found), caller[c].key)
FreeToJoin(chosen) == chosen.found = flights => ~FlightsLocked

JoinStart(c) ==
    LET chosen == Chosen(caller[c].epoch)
    IN  /\ caller[c].pc = "captured"
        /\ ~caller[c].prefetch
        /\ FreeToJoin(chosen)
        /\ IF Full(c, chosen) THEN Rejected(c, chosen) ELSE EnterGroup(c, chosen)
        /\ UNCHANGED <<epoch, refresh>>

\* Hold::new; the caller waits, or its prefetch task is spawned.
Task(c, w) == [key |-> caller[c].key, epoch |-> caller[c].epoch, work |-> w]

JoinCount(c) ==
    LET w == caller[c].work
    IN  /\ caller[c].pc = "counting"
        /\ works' = [works EXCEPT ![w].holds = @ + 1]
        /\ IF caller[c].prefetch
             THEN /\ Reset(c)
                  /\ refresh' = [refresh EXCEPT !.tasks = @ \cup {Task(c, w)}]
             ELSE /\ Goto(c, "waiting")
                  /\ UNCHANGED refresh
        /\ UNCHANGED <<epoch, flights>>

(***************************************************************************)
(* The work: sent once its query reached a source, done with its result,   *)
(* which a cached answer or a failure gives before anything is sent.       *)
(* Admission to the cache is fenced by the epoch.                          *)
(***************************************************************************)
WorkSend(w) ==
    /\ Polled(w) /\ ~works[w].done /\ ~works[w].sent
    /\ works' = [works EXCEPT ![w].sent = TRUE]
    /\ UNCHANGED <<epoch, flights, caller, refresh>>

WorkDone(w, admitted) ==
    /\ Polled(w) /\ ~works[w].done
    /\ admitted => works[w].sent /\ works[w].epoch = epoch /\ works[w].key \notin Bypassing
    /\ works' = [works EXCEPT ![w].done = TRUE, ![w].admitted = admitted]
    /\ UNCHANGED <<epoch, flights, caller, refresh>>

\* Waiting::result returns and gives up its hold.
Return(c) ==
    /\ caller[c].pc = "waiting"
    /\ works[caller[c].work].done
    /\ CallerDrops(c)
    /\ Reset(c)
    /\ UNCHANGED <<epoch, refresh>>

(***************************************************************************)
(* Drop for Waiting: the flag is read, then the hold is left or dropped.   *)
(* A caller with no cache entry to fill drops its hold, sent or not.       *)
(***************************************************************************)
ReadSent(c) ==
    /\ caller[c].pc = "waiting"
    /\ Goto(c, IF works[caller[c].work].sent /\ caller[c].key \notin Bypassing
               THEN "leaving" ELSE "dropping")
    /\ UNCHANGED <<epoch, flights, works, refresh>>

\* Hold::drop
Abandon(c) ==
    /\ caller[c].pc = "dropping"
    /\ CallerDrops(c)
    /\ Reset(c)
    /\ UNCHANGED <<epoch, refresh>>

\* Mutant: the last hold is uncounted and dropped like any other.
LeaveUncounted(c) ==
    /\ caller[c].pc = "leaving"
    /\ CallerDrops(c)
    /\ Reset(c)
    /\ UNCHANGED <<epoch, refresh>>

\* Hold::leave: one atomic update; the last hold stays counted.
Leave(c) ==
    /\ caller[c].pc = "leaving"
    /\ IF works[caller[c].work].holds > 1
         THEN CallerDrops(c) /\ Reset(c)
         ELSE Goto(c, "last") /\ UNCHANGED <<flights, works>>
    /\ UNCHANGED <<epoch, refresh>>

(***************************************************************************)
(* Refresh::schedule                                                       *)
(***************************************************************************)
Name(c) == <<caller[c].key, caller[c].epoch>>

\* Mutant: one task over max_inflight is let in.
RefusedLate(name) ==
    \/ name \in refresh.active
    \/ \E i \in DOMAIN refresh.cooldown : refresh.cooldown[i] = name
    \/ Cardinality(refresh.active) > MaxInflight
    \/ refresh.starts >= RatePerSec

\* Duplicate, cooling down, or over the budget.
Refused(name) ==
    \/ name \in refresh.active
    \/ \E i \in DOMAIN refresh.cooldown : refresh.cooldown[i] = name
    \/ Cardinality(refresh.active) >= MaxInflight
    \/ refresh.starts >= RatePerSec

Started(name) == [refresh EXCEPT !.active = @ \cup {name}, !.starts = @ + 1]

\* Mutant: the last caller waits for the budget instead of giving up.
HandoverWaits(c) ==
    /\ caller[c].pc = "last"
    /\ ~RefreshLocked
    /\ refresh.closed \/ ~Refused(Name(c))
    /\ IF refresh.closed
         THEN CallerDrops(c) /\ UNCHANGED refresh
         ELSE /\ refresh' = [Started(Name(c)) EXCEPT !.tasks = @ \cup {Task(c, caller[c].work)}]
              /\ UNCHANGED <<flights, works>>
    /\ Reset(c)
    /\ UNCHANGED epoch

\* The last caller's sent work fills the cache under the owner's budget.
Handover(c) ==
    /\ caller[c].pc = "last"
    /\ ~RefreshLocked
    /\ IF refresh.closed \/ Refused(Name(c))
         THEN CallerDrops(c) /\ UNCHANGED refresh
         ELSE /\ refresh' = [Started(Name(c)) EXCEPT !.tasks = @ \cup {Task(c, caller[c].work)}]
              /\ UNCHANGED <<flights, works>>
    /\ Reset(c)
    /\ UNCHANGED epoch

\* A prefetch chooses its registry, whatever follows, and joins the flight
\* under the owner's lock; a full registry makes a task that fails at once.
SchedulePrefetch(c) ==
    LET chosen == Chosen(caller[c].epoch)
    IN  /\ caller[c].pc = "captured"
        /\ caller[c].prefetch
        /\ ~RefreshLocked
        /\ IF refresh.closed \/ Refused(Name(c))
             THEN /\ Share(chosen, chosen.found.groups)
                  /\ Reset(c)
                  /\ UNCHANGED <<works, refresh>>
             ELSE /\ FreeToJoin(chosen)
                  /\ IF Full(c, chosen)
                       THEN /\ Rejected(c, chosen)
                            /\ refresh' = [Started(Name(c)) EXCEPT !.tasks = @ \cup {Task(c, 0)}]
                       ELSE /\ EnterGroup(c, chosen)
                            /\ refresh' = Started(Name(c))
        /\ UNCHANGED epoch

(***************************************************************************)
(* A refresh task ends: Completion::drop.  A failure cools its key down.   *)
(***************************************************************************)
TaskDropsHold(t) == IF t.work = 0 THEN UNCHANGED <<flights, works>> ELSE TaskDrops(t)
Ended(t) == [refresh EXCEPT !.tasks = @ \ {t}, !.active = @ \ {<<t.key, t.epoch>>}]

Cooled(t) ==
    Append(IF Len(refresh.cooldown) >= CooldownCapacity THEN Tail(refresh.cooldown)
                                                        ELSE refresh.cooldown,
           <<t.key, t.epoch>>)

TaskEnds(t) ==
    /\ ~RefreshLocked
    /\ t.work # 0 => works[t.work].done
    /\ TaskDropsHold(t)
    /\ refresh' = IF (t.work # 0 /\ works[t.work].admitted) \/ refresh.closed THEN Ended(t)
                  ELSE [Ended(t) EXCEPT !.cooldown = Cooled(t)]
    /\ UNCHANGED <<epoch, caller>>

AbortTask(t) ==
    /\ refresh.closed
    /\ ~RefreshLocked
    /\ TaskDropsHold(t)
    /\ refresh' = Ended(t)
    /\ UNCHANGED <<epoch, caller>>

\* Refresh::cancel and Refresh::shutdown: the generation stops refreshing.
Cancel ==
    /\ ~refresh.closed
    /\ ~RefreshLocked
    /\ refresh' = [refresh EXCEPT !.closed = TRUE]
    /\ UNCHANGED <<epoch, flights, works, caller>>

\* The oldest cooldown ends; the oldest start leaves the one-second window.
CooldownEnds ==
    /\ refresh.cooldown # <<>>
    /\ refresh' = [refresh EXCEPT !.cooldown = Tail(@)]
    /\ UNCHANGED <<epoch, flights, works, caller>>

SecondPasses ==
    /\ refresh.starts > 0
    /\ refresh' = [refresh EXCEPT !.starts = @ - 1]
    /\ UNCHANGED <<epoch, flights, works, caller>>

Invalidate ==
    /\ epoch < MaxEpoch
    /\ epoch' = epoch + 1
    /\ UNCHANGED <<flights, works, caller, refresh>>

(***************************************************************************)
Request(c) ==
    \/ \E k \in Keys, hit \in Hits : Capture(c, k, hit)
    \/ JoinStart(c)
    \/ SchedulePrefetch(c)
    \/ JoinCount(c)
    \/ Return(c)
    \/ ReadSent(c)
    \/ Abandon(c)
    \/ Leave(c)
    \/ Handover(c)

Next ==
    \/ \E c \in Callers : Request(c)
    \/ \E w \in WorkSlots : WorkSend(w) \/ \E admitted \in BOOLEAN : WorkDone(w, admitted)
    \/ \E t \in refresh.tasks : TaskEnds(t) \/ AbortTask(t)
    \/ Cancel
    \/ CooldownEnds
    \/ SecondPasses
    \/ Invalidate

Spec == Init /\ [][Next]_vars

(***************************************************************************)
(* Fairness.  A request whose code can run, or that waits for a lock the   *)
(* others keep releasing, takes its next step; an exchange ends by its     *)
(* deadline.  Nothing says that a client leaves, that a query is sent or   *)
(* that time passes.                                                       *)
(***************************************************************************)
Advance(c) ==
    \/ JoinStart(c) \/ SchedulePrefetch(c) \/ JoinCount(c)
    \/ Return(c) \/ Abandon(c) \/ Leave(c) \/ Handover(c)

Fairness ==
    /\ \A c \in Callers : SF_vars(Advance(c))
    /\ \A w \in WorkSlots : WF_vars(WorkDone(w, FALSE))
    /\ SF_vars(\E t \in refresh.tasks : TaskEnds(t))

FairSpec == Spec /\ Fairness

(***************************************************************************)
(* Properties                                                              *)
(***************************************************************************)
\* The hold counter is the number of holders, through joins that overlap with
\* leaving, handovers and aborts; it never passes max_waiters, nor a registry
\* max_groups; and of the holders that leave at once at most one takes the
\* work over.
HoldsExact ==
    /\ \A w \in WorkSlots :
         /\ works[w].holds = Cardinality({c \in CallersOf(w) : caller[c].pc # "counting"})
                               + Cardinality(TasksOf(w))
         /\ works[w].holds <= MaxWaiters
         /\ Cardinality({c \in CallersOf(w) : caller[c].pc = "last"}) <= 1
    /\ Cardinality({k \in Keys : Reaped(flights)[k] # 0}) <= MaxGroups

\* One key of the newest registry's epoch has at most one unfinished work, a
\* group refers to live work of its own key, and requests that captured
\* different epochs never share work: nobody is given an answer fetched before
\* an invalidation that preceded the request.
OneFlight ==
    /\ \A v, w \in WorkSlots :
         (/\ Alive(v) /\ Alive(w) /\ ~works[v].done /\ ~works[w].done
          /\ works[v].key = works[w].key
          /\ works[v].epoch = works[w].epoch /\ works[v].epoch = flights.epoch)
           => v = w
    /\ \A k \in Keys :
         LET w == flights.groups[k]
         IN  w # 0 => w \in WorkSlots /\ Alive(w) /\ works[w].key = k
    /\ \A c \in Callers :
         caller[c].pc \in Holding => works[caller[c].work].epoch = caller[c].epoch

\* The refresh owner's slots are those of its tasks, one a key and epoch, within
\* max_inflight, also when tasks are aborted or the registry is full.
SlotsMatchTasks ==
    LET starting == {Name(c) : c \in {d \in Callers : caller[d].pc = "counting" /\ caller[d].prefetch}}
    IN  /\ refresh.active = {<<t.key, t.epoch>> : t \in refresh.tasks} \cup starting
        /\ Cardinality(refresh.active) = Cardinality(refresh.tasks) + Cardinality(starting)
        /\ Cardinality(refresh.active) <= MaxInflight

\* The work w is cancelled by this step although its query was sent and its
\* answer could fill the cache.
CancelsSent(w) ==
    works[w].sent /\ ~works[w].done /\ works[w].key \notin Bypassing /\ works'[w] = NoWork

\* A caller that found the query unsent drops w.
UnsentReader(w) == \E c \in CallersOf(w) : caller[c].pc = "dropping" /\ caller'[c].pc = "idle"

\* Sent work that can fill the cache ends unfinished only when the refresh
\* owner refused its last caller or was closed, or when that caller had found
\* it unsent and another sent it and left in between.
SentWorkAccounted ==
    [][\A w \in WorkSlots :
         CancelsSent(w) => \/ refresh.closed
                           \/ \E c \in CallersOf(w) : caller[c].pc = "last" /\ Refused(Name(c))
                           \/ UnsentReader(w)]_vars

\* What the comment on Waiting says: a caller that leaves last, after the query
\* was sent, hands the work to the refresh owner, within its budget.
SentWorkHandedOver ==
    [][\A w \in WorkSlots :
         CancelsSent(w) => \/ refresh.closed
                           \/ \E c \in CallersOf(w) : caller[c].pc = "last" /\ Refused(Name(c))]_vars

\* Every request ends: joiners keep the work going after the caller that
\* started it left, and no lock is waited for in a circle.
RequestsEnd == \A c \in Callers : caller[c].pc # "idle" ~> caller[c].pc = "idle"

\* Every refresh slot is given back.
SlotsFreed ==
    \A k \in Keys, e \in 0..MaxEpoch : <<k, e>> \in refresh.active ~> <<k, e>> \notin refresh.active

\* All work ends: the requests with an answer or an error, the refreshes with
\* their slot free.
WorkEnds == RequestsEnd /\ SlotsFreed
=============================================================================
