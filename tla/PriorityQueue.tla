---------------------------- MODULE PriorityQueue ---------------------------
(***************************************************************************)
(* What class PriorityQueue of fheap.hpp promises: a bag of keys that      *)
(* gives back one of its smallest.                                         *)
(***************************************************************************)
EXTENDS Integers

CONSTANTS Keys, None

VARIABLES count,       \* how often the queue holds each key
          returned     \* the last operation and what it returned
vars == <<count, returned>>

Init == count = [k \in Keys |-> 0] /\ returned = None

Least(k) == count[k] > 0 /\ \A j \in Keys : count[j] > 0 => k <= j

insert(k) == count' = [count EXCEPT ![k] = @ + 1] /\ returned' = <<"insert", None>>

extract_min == \E k \in Keys : /\ Least(k)
                               /\ count' = [count EXCEPT ![k] = @ - 1]
                               /\ returned' = <<"extract_min", k>>
get_min == \E k \in Keys : Least(k) /\ returned' = <<"get_min", k>> /\ UNCHANGED count

ask_empty == /\ \A k \in Keys : count[k] = 0
             /\ \E op \in {"extract_min", "get_min"} : returned' = <<op, None>>
             /\ UNCHANGED count

Next == \/ \E k \in Keys : insert(k)
        \/ extract_min \/ get_min \/ ask_empty

Spec == Init /\ [][Next]_vars
=============================================================================
