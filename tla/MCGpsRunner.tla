----------------------------- MODULE MCGpsRunner -----------------------------
(* GpsRunner for TLC; the constants are given in the configurations. *)
EXTENDS GpsRunner
=============================================================================
