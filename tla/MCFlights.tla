----------------------------- MODULE MCFlights -----------------------------
(* Small instances of module Flights. *)
EXTENDS Flights, TLC

Symmetry == Permutations(Callers)
=============================================================================
