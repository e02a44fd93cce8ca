------------------------------ MODULE MCPolicy ------------------------------
(* Module Policy alone: three rules on four names of three labels. *)
EXTENDS Policy

MCKeys == {<<1>>, <<1, 1>>, <<1, 2>>, <<1, 1, 1>>}
MCNames == MCKeys \cup {<<>>, <<2>>}
MCLinks == {<<<<1, 1>>, <<2>>>>}
MCQuestion == <<1, 1>>

MCSpec == PoInit /\ [][PoNext]_poVars
=============================================================================
