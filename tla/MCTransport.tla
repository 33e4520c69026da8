---------------------------- MODULE MCTransport ----------------------------
(* Bounds for TLC: see the configuration files. *)
EXTENDS Transport

CONSTANTS c1, c2

MCChannels == {c1, c2}
MCSeed == <<c1>>
=============================================================================
