------------------------------ MODULE MCSaver ------------------------------
(* Two entries of one namespace that one handler changes together (the     *)
(* games and the hiscores of rvf), and one entry of another.               *)
EXTENDS Saver

CONSTANTS a, b, c, n1, n2

MCKeys == {a, b, c}
MCNamespaces == {n1, n2}
MCNsOf == [k \in {a, b, c} |-> IF k = c THEN n2 ELSE n1]
MCGroups == {{a, b}, {c}}
MCUnmarshalable == {<<c, 2>>}
NothingUnmarshalable == {}
=============================================================================
