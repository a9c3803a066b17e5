---------------------------- MODULE MCSaSession -----------------------------
(***************************************************************************)
(* SaSession with two outbound lcores that share two SAs of different      *)
(* algorithms and an inbound one, on every configuration of three devices. *)
(* The hash maps and the contexts' tables run full in some behaviours.     *)
(***************************************************************************)
EXTENDS SaSession

MCContext == {<<"l1", "out">>, <<"l2", "out">>, <<"l1", "in">>}
MCSaAlgo  == [s \in Sa |-> IF s = "s1" THEN "x" ELSE "y"]
=============================================================================
