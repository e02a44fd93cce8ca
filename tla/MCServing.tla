----------------------------- MODULE MCServing -----------------------------
(* A small instance of module Serving on its own. *)
EXTENDS Serving
=============================================================================
