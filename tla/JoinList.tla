------------------------------ MODULE JoinList ------------------------------
(* c.channels, the autojoin list the owner's join and part and an invite    *)
(* change and the store keeps (internal/core/builtins.go).                  *)
EXTENDS Lists, Functions

addChannel(chs, ch) == IF ch \in Range(chs) THEN chs ELSE Append(chs, ch)
removeChannel(chs, ch) == Retained(chs, Range(chs) \ {ch})
=============================================================================
