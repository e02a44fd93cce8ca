------------------------------ MODULE MCUpdate ------------------------------
(* The update transaction on a small instance. *)
EXTENDS UpdateSystem
=============================================================================
