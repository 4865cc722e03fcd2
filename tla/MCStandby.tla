------------------------------ MODULE MCStandby ------------------------------
(* Standby for TLC; the constants are given in the configurations. *)
EXTENDS Standby
=============================================================================
