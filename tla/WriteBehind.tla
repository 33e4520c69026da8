---------------------------- MODULE WriteBehind ----------------------------
(***************************************************************************)
(* What a module that marks its data dirty is promised by the saver, seen  *)
(* from outside: a memory that runs ahead of a store.  The store catches   *)
(* up one namespace at a time, never with a value the memory did not hold, *)
(* never back to an older one, and entries a handler changes together land *)
(* together.  A restart loads the memory from the store.                   *)
(***************************************************************************)
EXTENDS Naturals

CONSTANTS Keys, Namespaces, NsOf, Groups

VARIABLES data, store

vars == <<data, store>>

Init ==
    /\ data = [k \in Keys |-> 0]
    /\ store = [k \in Keys |-> 0]

(* One handler changes every entry of a group. *)
Change(g) ==
    /\ data' = [k \in Keys |-> IF k \in g THEN data[k] + 1 ELSE data[k]]
    /\ UNCHANGED store

Together(s) == \A g \in Groups : \A a, b \in g : s[a] = s[b]

(* The store moves towards the memory, in one namespace. *)
CatchUp(ns) ==
    /\ \A k \in Keys : store[k] <= store'[k] /\ store'[k] <= data[k]
    /\ \A k \in Keys : NsOf[k] # ns => store'[k] = store[k]
    /\ Together(store')
    /\ UNCHANGED data

Restart ==
    /\ data' = store
    /\ UNCHANGED store

Next ==
    \/ \E g \in Groups : Change(g)
    \/ \E ns \in Namespaces : CatchUp(ns)
    \/ Restart

Spec == Init /\ [][Next]_vars
=============================================================================
