-------------------------------- MODULE Lists --------------------------------
(* slices.DeleteFunc: what is left of a list, in its order.                 *)
EXTENDS Naturals, Sequences

\* The members of S among the first i of the list, for each i.
RetainedOf(list, S) ==
    LET kept[i \in 0..Len(list)] ==
            IF i = 0 THEN <<>>
            ELSE IF list[i] \in S THEN Append(kept[i - 1], list[i]) ELSE kept[i - 1]
    IN  kept
Retained(list, S) == RetainedOf(list, S)[Len(list)]
=============================================================================
