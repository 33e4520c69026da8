------------------------------ MODULE MCReport ------------------------------
(* A day of four hours, and the clock goes back in the night after the first. *)
EXTENDS Report

MCTimes == {NoTime, 2, 3}
=============================================================================
