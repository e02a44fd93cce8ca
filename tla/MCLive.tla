------------------------------- MODULE MCLive -------------------------------
(***************************************************************************)
(* What must come about: invalidations return (EpochFence), and requests   *)
(* and refreshes end (Flights).  A behaviour picks one of the two at its   *)
(* start and moves only that one; they share no variable.  No symmetry is  *)
(* declared, for the properties are about what eventually happens.         *)
(*                                                                         *)
(* EpochFence has two shards, two keys in different shards, and the        *)
(* filters that select the key of the second shard, or everything.         *)
(***************************************************************************)
EXTENDS EpochFence, Flights, TLC

CONSTANTS k1, k2

VARIABLE part    \* the part that moves

MCKeys == {k1, k2}
MCShardOf == (k1 :> 1) @@ (k2 :> 2)
MCSelectors == {{k2}, {k1, k2}}

MCInit == part \in {"fence", "flights"} /\ EfInit /\ Init

MCNext ==
    /\ UNCHANGED part
    /\ \/ part = "fence" /\ EfNext /\ UNCHANGED vars
       \/ part = "flights" /\ Next /\ UNCHANGED efVars

MCSpec == MCInit /\ [][MCNext]_<<part, efVars, vars>> /\ EfFairness /\ Fairness
=============================================================================
