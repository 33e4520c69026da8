------------------------------ MODULE MCFlood -------------------------------
(* Bounds for TLC.  MaxAge has room for the longest window there can be,   *)
(* so that capping the ages changes no answer of Next.                     *)
EXTENDS Flood, FiniteSetsExt

ASSUME MCFloodAges ==
    MaxAge >= (Cardinality(Buckets) + 1) * MaxLines * (1 + Max(Extras)) * Second
=============================================================================
