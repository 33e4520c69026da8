------------------------------ MODULE MCKeeper -----------------------------
(* Bounds for TLC: see the configuration files. *)
EXTENDS Keeper
=============================================================================
