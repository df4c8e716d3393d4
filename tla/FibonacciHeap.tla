---------------------------- MODULE FibonacciHeap ---------------------------
(***************************************************************************)
(* fheap.hpp: a circle of heap-ordered trees, written from the one whose   *)
(* root is min_node; insertion only adds a tree, extraction consolidates.  *)
(***************************************************************************)
EXTENDS Integers, SequencesExt

CONSTANTS Keys, None,
          MaxItems           \* bounds the model, not the heap

VARIABLES roots,             \* the trees, min_node's first
          size, returned
vars == <<roots, size, returned>>

Init == roots = <<>> /\ size = 0 /\ returned = None

\* A node and, from node->child on, its children; node->degree is their number.
Tree(k) == [key |-> k, children |-> <<>>]
degree(t) == Len(t.children)

\* The circle of s, from its place i on
From(s, i) == SubSeq(s, i, Len(s)) \o SubSeq(s, 1, i - 1)

\* merge(x, y): y leaves the circle of roots and becomes x's last child.
Merged(x, y) == [x EXCEPT !.children = Append(@, y)]

\* (int)log2(p / q)
Log2(p, q) == Max({0} \cup {d \in 0..MaxItems : q * 2 ^ d <= p})

\* Mutant: the size is multiplied by log2(phi).
array_sizeByProduct(n) == Log2(694242 * n, 1000000) + 1

\* The length of consolidate()'s array of roots by degree in a heap of n nodes:
\* log2(1.61803399), which divides the size, is 0.694242.
array_size(n) == Log2(1000000 * n, 694242) + 1

\* The heap while consolidate() goes over the roots is a record: tree[i] is what
\* the i-th root has become, None once it is a child; array[d] is the root of
\* degree d met so far, 0 if there is none; min is min_node.  array is as long as
\* any degree asks for here: DegreesFitArray says that array_size does.
RECURSIVE Linked(_, _)

\* Mutant: the later root becomes the child of the earlier one whatever their keys
LinkedByAge(h, i) ==
  LET d == degree(h.tree[i])
      j == h.array[d]
  IN  IF j = 0 THEN [h EXCEPT !.array[d] = i]
      ELSE Linked([tree |-> [h.tree EXCEPT ![j] = Merged(@, h.tree[i]), ![i] = None],
                   array |-> [h.array EXCEPT ![d] = 0],
                   min |-> IF h.min = i THEN j ELSE h.min], j)

Linked(h, i) ==
  LET d == degree(h.tree[i])
      j == h.array[d]
      parent == IF h.tree[i].key <= h.tree[j].key THEN i ELSE j
      child == IF parent = i THEN j ELSE i
  IN  IF j = 0 THEN [h EXCEPT !.array[d] = i]
      ELSE Linked([tree |-> [h.tree EXCEPT ![parent] = Merged(@, h.tree[child]),
                                           ![child] = None],
                   array |-> [h.array EXCEPT ![d] = 0],
                   min |-> IF h.min = child THEN parent ELSE h.min], parent)

\* consolidate(), over root_list s: the first smallest root is the new min_node,
\* and roots of the same degree are merged until all degrees differ.
consolidate(s) ==
  LET first == CHOOSE i \in DOMAIN s : /\ \A j \in DOMAIN s : s[i].key <= s[j].key
                                       /\ \A j \in 1..i - 1 : s[i].key < s[j].key
      h == FoldLeft(Linked, [tree |-> s, array |-> [d \in 0..MaxItems |-> 0], min |-> first],
                    [i \in DOMAIN s |-> i])
      Remains(t) == t # None
  IN  IF s = <<>> THEN <<>> ELSE SelectSeq(From(h.tree, h.min), Remains)

insert(k) ==
  /\ size < MaxItems
  /\ roots' = LET s == Append(roots, Tree(k))
              IN  IF roots # <<>> /\ k < roots[1].key THEN From(s, Len(s)) ELSE s
  /\ size' = size + 1
  /\ returned' = <<"insert", None>>

extract_min ==
  /\ roots # <<>>
  /\ returned' = <<"extract_min", roots[1].key>>
  /\ roots' = consolidate(Tail(roots) \o roots[1].children)
  /\ size' = size - 1

get_min == /\ size # 0
           /\ returned' = <<"get_min", roots[1].key>>
           /\ UNCHANGED <<roots, size>>

\* extract_min and get_min of an empty heap
ask_empty == /\ roots = <<>>
             /\ \E op \in {"extract_min", "get_min"} : returned' = <<op, None>>
             /\ UNCHANGED <<roots, size>>

Next == \/ \E k \in Keys : insert(k)
        \/ extract_min \/ get_min \/ ask_empty

Spec == Init /\ [][Next]_vars
-----------------------------------------------------------------------------
\* The heap implements a priority queue: in whatever order trees are linked and
\* equal keys lie, extraction gives a smallest key and loses no other.
RECURSIVE Count(_, _)
Count(s, k) == FoldLeft(LAMBDA n, t : n + (IF t.key = k THEN 1 ELSE 0) + Count(t.children, k), 0, s)
Q == INSTANCE PriorityQueue WITH count <- [k \in Keys |-> Count(roots, k)]
HeapIsPriorityQueue == Q!Spec

\* No root is too wide for the array that consolidate() indexes by degree.  It is
\* as long as the heap's size says, and degrees grow by linking alone.
DegreesFitArray == \A i \in DOMAIN roots : degree(roots[i]) < array_size(size)
=============================================================================
