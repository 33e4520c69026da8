------------------------------ MODULE MCConn -------------------------------
(* Bounds for TLC: see the configuration file. *)
EXTENDS Conn, MCFlood
=============================================================================
