----------------------------- MODULE ArrayDeque -----------------------------
(***************************************************************************)
(* ArrayDeque of deque.hpp: a ring of capacity cells in which front and    *)
(* back are the two cells that the next push at either end fills.  A ring  *)
(* with one free cell (front = back) doubles before the next push.         *)
(***************************************************************************)
EXTENDS Integers, Sequences

CONSTANTS Items, None,
          InitialCapacity,      \* 64 in the code
          MaxItems              \* bounds the model, not the deque

VARIABLES arr,          \* the cells; None is T() in a cell never filled or cleared
          front, back, size, capacity, returned
vars == <<arr, front, back, size, capacity, returned>>

Init == /\ arr = [i \in 0..InitialCapacity - 1 |-> None]
        /\ front = InitialCapacity - 1
        /\ back = 0
        /\ size = 0
        /\ capacity = InitialCapacity
        /\ returned = None

\* i++ and i-- around a ring of n cells
Up(i, n)   == IF i + 1 = n THEN 0 ELSE i + 1
Down(i, n) == IF i = 0 THEN n - 1 ELSE i - 1

\* Mutant: every cell keeps its index, the items at and after front included
resizeInPlace(f, n) ==
  [i \in 0..2 * n - 1 |-> IF i < n THEN f[i] ELSE None]

\* The cells after resize(): those from front on move to the end of the new ring.
resize(f, n) ==
  [i \in 0..2 * n - 1 |-> IF i < front THEN f[i]
                          ELSE IF i >= front + n THEN f[i - n] ELSE None]

\* A push stores x in the cell `end` of a ring that has room for it, where
\* grown says that the ring had to double.
Store(op, x, end, grown) ==
  /\ capacity' = IF grown THEN 2 * capacity ELSE capacity
  /\ arr' = [(IF grown THEN resize(arr, capacity) ELSE arr) EXCEPT ![end] = x]
  /\ size' = size + 1
  /\ returned' = <<op, x, None>>

push_front(x) ==
  LET grown == front = back
      end   == IF grown THEN front + capacity ELSE front
  IN  /\ size < MaxItems
      /\ Store("push_front", x, end, grown)
      /\ front' = Down(end, capacity')
      /\ UNCHANGED back

push_back(x) ==
  LET grown == front = back
  IN  /\ size < MaxItems
      /\ Store("push_back", x, back, grown)
      /\ back' = Up(back, capacity')
      /\ front' = IF grown THEN front + capacity ELSE front

Take(op, end) == /\ returned' = <<op, None, arr[end]>>
                 /\ arr' = [arr EXCEPT ![end] = None]
                 /\ size' = size - 1
                 /\ UNCHANGED capacity

remove_front ==
  /\ size # 0
  /\ front' = Up(front, capacity)
  /\ Take("remove_front", front')
  /\ UNCHANGED back

remove_back ==
  /\ size # 0
  /\ back' = Down(back, capacity)
  /\ Take("remove_back", back')
  /\ UNCHANGED front

remove_from_empty ==
  /\ size = 0
  /\ \E op \in {"remove_front", "remove_back"} : returned' = <<op, None, None>>
  /\ UNCHANGED <<arr, front, back, size, capacity>>

\* operator[](idx) within the size; beyond it the code throws
at(idx) == /\ idx < size
           /\ returned' = <<"at", idx, arr[(idx + front + 1) % capacity]>>
           /\ UNCHANGED <<arr, front, back, size, capacity>>

Next == \/ \E x \in Items : push_front(x) \/ push_back(x)
        \/ remove_front \/ remove_back \/ remove_from_empty
        \/ \E idx \in 0..size - 1 : at(idx)

Spec == Init /\ [][Next]_vars
-----------------------------------------------------------------------------
\* The ring implements a sequence: through every wrap of either index and every
\* doubling, the items come out in order and reads by index find them.
Contents == [i \in 1..size |-> arr[(i + front) % capacity]]
D == INSTANCE Deque WITH items <- Contents
ArrayIsSequence == D!Spec
=============================================================================
