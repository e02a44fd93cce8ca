------------------------------ MODULE MCStores ------------------------------
(***************************************************************************)
(* The parts that keep state on disk or for the console, on small          *)
(* instances side by side: the clean snapshot and what it does to an age,  *)
(* filter lists, sessions and configuration, statistics, query logs and    *)
(* update checks.                                                          *)
(*                                                                         *)
(* As in MCTraffic a behaviour picks one part at its start and moves only  *)
(* that part; the parts share no variable, and nothing compares the model  *)
(* values of two parts.                                                    *)
(***************************************************************************)
EXTENDS CleanSnapshot, Filters, Console, Statistics, LogStore, UpdateCheck, SnapshotAge

CONSTANTS one, two

VARIABLE part    \* the part that moves

MCSymmetry == Permutations({one, two})

MCInit ==
    /\ part \in {"snapshot", "filters", "console", "statistics", "logs", "check", "age"}
    /\ Init /\ FlInit /\ CnInit /\ SxInit /\ LgInit /\ UcInit /\ AgInit

PartNext ==
    \/ part = "snapshot" /\ Next /\ UNCHANGED <<flVars, cnVars, sxVars, lgVars, ucVars, agVars>>
    \/ part = "filters" /\ FlNext /\ UNCHANGED <<vars, cnVars, sxVars, lgVars, ucVars, agVars>>
    \/ part = "console" /\ CnNext /\ UNCHANGED <<vars, flVars, sxVars, lgVars, ucVars, agVars>>
    \/ part = "statistics" /\ SxNext /\ UNCHANGED <<vars, flVars, cnVars, lgVars, ucVars, agVars>>
    \/ part = "logs" /\ LgNext /\ UNCHANGED <<vars, flVars, cnVars, sxVars, ucVars, agVars>>
    \/ part = "check" /\ UcNext /\ UNCHANGED <<vars, flVars, cnVars, sxVars, lgVars, agVars>>
    \/ part = "age" /\ AgNext /\ UNCHANGED <<vars, flVars, cnVars, sxVars, lgVars, ucVars>>

MCNext == UNCHANGED part /\ PartNext

MCSpec == MCInit /\ [][MCNext]_<<part, vars, flVars, cnVars, sxVars, lgVars, ucVars, agVars>>
=============================================================================
