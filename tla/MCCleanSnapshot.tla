-------------------------- MODULE MCCleanSnapshot --------------------------
(* Small instances of module CleanSnapshot. *)
EXTENDS CleanSnapshot
=============================================================================
