-------------------------------- MODULE MCFull --------------------------------
(***************************************************************************)
(* FullRunner for TLC: two slots, the second one agy may take.             *)
(***************************************************************************)
EXTENDS FullProperties, TLC

Second == {2}
OwnOnly == {TRUE}

(* Of the four statuses the two slots' CLIs have two each: one that ends   *)
(* well or is killed, one that hits its timeout or fails.                  *)
TwoEach == <<{"0", "137"}, {"124", "other"}>>
=============================================================================
