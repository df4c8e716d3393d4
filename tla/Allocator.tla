----------------------------- MODULE Allocator -----------------------------
(***************************************************************************)
(* What malloc, free and realloc promise: the areas that are handed out do *)
(* not overlap, and nobody but its owner changes what is in an area.       *)
(***************************************************************************)
EXTENDS Integers

CONSTANTS
  Users,       \* who may own an area, one each
  Places       \* where an area may begin; lengths are positive

VARIABLES
  area,        \* area[u]: the first place and the length, 0 for no area
  contents     \* contents[u]: what is in the area, from 0 to its length - 1

vars == <<area, contents>>

NoArea == [first |-> 0, length |-> 0]
Owns(u) == area[u].length > 0
Covers(a) == a.first .. (a.first + a.length - 1)
Separate(a, u) == \A v \in Users \ {u} : Covers(a) \cap Covers(area[v]) = {}
OthersKeep(u) == \A v \in Users \ {u} : contents'[v] = contents[v]

Init ==
  /\ area = [u \in Users |-> NoArea]
  /\ contents = [u \in Users |-> <<>>]

\* A new or a moved area; what fits of the old contents stays.
Obtain(u) ==
  /\ area'[u].first \in Places /\ area'[u].length > 0
  /\ Separate(area'[u], u)
  /\ area' = [area EXCEPT ![u] = area'[u]]
  /\ OthersKeep(u)
  /\ \A i \in 0..(area[u].length - 1) :
       i < area'[u].length => contents'[u][i] = contents[u][i]

Release(u) ==
  /\ Owns(u)
  /\ area' = [area EXCEPT ![u] = NoArea]
  /\ OthersKeep(u)

Next == \E u \in Users : Obtain(u) \/ Release(u)
Spec == Init /\ [][Next]_vars
=============================================================================
