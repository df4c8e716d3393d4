------------------------------- MODULE Deque --------------------------------
(***************************************************************************)
(* What class Deque of deque.hpp promises: a sequence whose both ends take *)
(* and give items.  Removing from an empty deque gives nothing.            *)
(***************************************************************************)
EXTENDS Integers, Sequences

CONSTANTS Items,       \* the items of type T
          None         \* std::nullopt

VARIABLES items,       \* the deque
          returned     \* the last operation, its argument and what it returned
vars == <<items, returned>>

Init == items = <<>> /\ returned = None

push_front(x) == items' = <<x>> \o items /\ returned' = <<"push_front", x, None>>
push_back(x)  == items' = Append(items, x) /\ returned' = <<"push_back", x, None>>

remove_front == \/ /\ items # <<>>
                  /\ returned' = <<"remove_front", None, items[1]>>
                  /\ items' = Tail(items)
               \/ /\ items = <<>>
                  /\ returned' = <<"remove_front", None, None>>
                  /\ UNCHANGED items

remove_back == \/ /\ items # <<>>
                 /\ returned' = <<"remove_back", None, items[Len(items)]>>
                 /\ items' = SubSeq(items, 1, Len(items) - 1)
              \/ /\ items = <<>>
                 /\ returned' = <<"remove_back", None, None>>
                 /\ UNCHANGED items

\* operator[], which counts from 0
at(i) == /\ i < Len(items)
         /\ returned' = <<"at", i, items[i + 1]>>
         /\ UNCHANGED items

Next == \/ \E x \in Items : push_front(x) \/ push_back(x)
        \/ remove_front \/ remove_back
        \/ \E i \in 0..Len(items) - 1 : at(i)

Spec == Init /\ [][Next]_vars
=============================================================================
