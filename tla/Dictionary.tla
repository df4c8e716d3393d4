----------------------------- MODULE Dictionary -----------------------------
(***************************************************************************)
(* What the hash table of hash_table.hpp promises: a partial map.  An      *)
(* operation reports only whether it succeeded; the number of probes that  *)
(* the code returns for success is not promised.                           *)
(***************************************************************************)
EXTENDS Integers

CONSTANTS Keys, Values, None

VARIABLES map,         \* the stored keys and their values
          returned     \* the last operation, its argument and what it returned
vars == <<map, returned>>

Init == map = [k \in {} |-> None] /\ returned = None

put(k, v) ==
  \/ /\ k \notin DOMAIN map
     /\ map' = [j \in DOMAIN map \cup {k} |-> IF j = k THEN v ELSE map[j]]
     /\ returned' = <<"put", k, TRUE>>
  \/ k \in DOMAIN map /\ returned' = <<"put", k, FALSE>> /\ UNCHANGED map

remove(k) ==
  \/ /\ k \in DOMAIN map
     /\ map' = [j \in DOMAIN map \ {k} |-> map[j]]
     /\ returned' = <<"remove", k, TRUE>>
  \/ k \notin DOMAIN map /\ returned' = <<"remove", k, FALSE>> /\ UNCHANGED map

get(k) == /\ returned' = <<"get", k, IF k \in DOMAIN map THEN map[k] ELSE None>>
          /\ UNCHANGED map

Next == \E k \in Keys : \/ \E v \in Values : put(k, v)
                        \/ remove(k) \/ get(k)

Spec == Init /\ [][Next]_vars
=============================================================================
