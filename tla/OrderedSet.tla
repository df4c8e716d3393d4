----------------------------- MODULE OrderedSet -----------------------------
(***************************************************************************)
(* What the three search trees promise: a set of keys, listed in order.    *)
(* An insertion or removal may report FALSE only when it had nothing to do.*)
(***************************************************************************)
EXTENDS Integers, FiniteSets

CONSTANTS Keys, None

VARIABLES keys,        \* the keys in the set
          returned     \* the last operation, its argument and what it returned
vars == <<keys, returned>>

\* The set may have been filled before.
Init == keys \in SUBSET Keys /\ returned = None

insert(k) == /\ keys' = keys \cup {k}
             /\ \E new \in {TRUE, (k \notin keys)} : returned' = <<"insert", k, new>>

remove(k) == /\ keys' = keys \ {k}
             /\ \E found \in {None, TRUE, (k \in keys)} : returned' = <<"remove", k, found>>

remove_min == /\ \E m \in keys : (\A k \in keys : m <= k) /\ keys' = keys \ {m}
              /\ returned' = <<"remove_min">>
remove_max == /\ \E m \in keys : (\A k \in keys : m >= k) /\ keys' = keys \ {m}
              /\ returned' = <<"remove_max">>

contains(k) == returned' = <<"contains", k, k \in keys>> /\ UNCHANGED keys

Sorted == [i \in 1..Cardinality(keys) |->
             CHOOSE k \in keys : Cardinality({j \in keys : j < k}) = i - 1]
in_order == returned' = <<"in_order", Sorted>> /\ UNCHANGED keys

Next == \/ \E k \in Keys : insert(k) \/ remove(k) \/ contains(k)
        \/ remove_min \/ remove_max \/ in_order

Spec == Init /\ [][Next]_vars
=============================================================================
