----------------------------- MODULE ListDeque ------------------------------
(***************************************************************************)
(* ListDeque of deque.hpp: nodes in a circle around a sentinel.  The code  *)
(* tests for a null link, which no node of the circle has: removing from   *)
(* an empty deque would delete the sentinel, so callers must not, and this *)
(* model does not.                                                         *)
(***************************************************************************)
EXTENDS Naturals, Sequences

CONSTANTS Items, None,
          MaxItems              \* bounds the model, not the deque

sentinel == 0
Addresses == 0..MaxItems

VARIABLES value, prev, next,    \* the fields of the nodes, by address
          live,                 \* the nodes that new returned and delete has not freed
          size, returned
vars == <<value, prev, next, live, size, returned>>

Init == /\ value = [n \in Addresses |-> None]
        /\ prev = [n \in Addresses |-> sentinel]
        /\ next = [n \in Addresses |-> sentinel]
        /\ live = {sentinel}
        /\ size = 0
        /\ returned = None

NewNode == CHOOSE n \in Addresses \ live : TRUE

Link(op, n, x) == /\ value' = [value EXCEPT ![n] = x]
                  /\ live' = live \cup {n}
                  /\ size' = size + 1
                  /\ returned' = <<op, x, None>>

push_front(x) ==
  LET n == NewNode
      frt == next[sentinel]
  IN  /\ size < MaxItems
      /\ Link("push_front", n, x)
      /\ next' = [next EXCEPT ![n] = frt, ![sentinel] = n]
      /\ prev' = [prev EXCEPT ![frt] = n, ![n] = sentinel]

push_back(x) ==
  LET n == NewNode
      bck == prev[sentinel]
  IN  /\ size < MaxItems
      /\ Link("push_back", n, x)
      /\ prev' = [prev EXCEPT ![n] = bck, ![sentinel] = n]
      /\ next' = [next EXCEPT ![bck] = n, ![n] = sentinel]

\* Nothing reads a freed node: its fields go back to their initial values.
Delete(op, n) == /\ returned' = <<op, None, value[n]>>
                 /\ live' = live \ {n}
                 /\ size' = size - 1
                 /\ value' = [value EXCEPT ![n] = None]

remove_front ==
  LET frt == next[sentinel]
  IN  /\ size # 0
      /\ Delete("remove_front", frt)
      /\ next' = [next EXCEPT ![sentinel] = next[frt], ![frt] = sentinel]
      /\ prev' = [prev EXCEPT ![next[frt]] = sentinel, ![frt] = sentinel]

remove_back ==
  LET bck == prev[sentinel]
  IN  /\ size # 0
      /\ Delete("remove_back", bck)
      /\ prev' = [prev EXCEPT ![sentinel] = prev[bck], ![bck] = sentinel]
      /\ next' = [next EXCEPT ![prev[bck]] = sentinel, ![bck] = sentinel]

\* The node idx steps behind the first
Node(idx) == LET step[k \in 0..idx] == next[IF k = 0 THEN sentinel ELSE step[k - 1]]
             IN  step[idx]

at(idx) == /\ idx < size
           /\ returned' = <<"at", idx, value[Node(idx)]>>
           /\ UNCHANGED <<value, prev, next, live, size>>

Next == \/ \E x \in Items : push_front(x) \/ push_back(x)
        \/ remove_front \/ remove_back
        \/ \E idx \in 0..size - 1 : at(idx)

Spec == Init /\ [][Next]_vars
-----------------------------------------------------------------------------
\* The circle implements a sequence: what the links in one direction say, the
\* removals at the other end, which follow the other links, give back.
Contents == [i \in 1..size |-> value[Node(i - 1)]]
D == INSTANCE Deque WITH items <- Contents
ListIsSequence == D!Spec
=============================================================================
