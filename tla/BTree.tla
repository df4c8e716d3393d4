------------------------------- MODULE BTree --------------------------------
(***************************************************************************)
(* btree.hpp: a node has up to 2 * B - 1 keys and is split on the way down *)
(* an insertion when full; on the way down a removal, a child with B - 1   *)
(* keys borrows from a sibling or is merged with one.  Slots of the arrays *)
(* beyond the n in use keep old keys, and a leaf is asked for the slot at  *)
(* the index of a key even when that is slot n.                            *)
(*                                                                         *)
(* An old key that is back at slot n makes insert refuse it: with Again    *)
(* FALSE, callers never insert a key that they have removed.  A key that   *)
(* an inner node holds is inserted again in a leaf below it: callers       *)
(* insert only absent keys.  Removing an absent key can read past the      *)
(* array of a full leaf: callers remove only keys that are there.          *)
(***************************************************************************)
EXTENDS Integers, SequencesExt

CONSTANTS Keys,            \* T is int; T() is 0, and not a key here
          Starts,          \* sequences of keys, one of which was inserted before the start
          Fresh,           \* the keys that may be inserted after it
          Again,           \* may a removed key be inserted again
          B,
          None             \* the null pointer

VARIABLES root, returned,
          removed          \* of the callers: the keys not to be inserted again
vars == <<root, returned, removed>>

Slots == 0..2 * B - 2
BTreeNode(leaf) == [leaf |-> leaf, n |-> 0,
                    keys |-> [i \in Slots |-> 0], edges |-> [i \in 0..2 * B - 1 |-> None]]
Full(node) == node.n >= 2 * B - 1

\* std::move of f[first..last - 1] to to[d..]: as by memmove, which it is for ints
MoveTo(f, first, last, to, d) ==
  [i \in DOMAIN to |-> IF d <= i /\ i < d + (last - first) THEN f[first + (i - d)] ELSE to[i]]
Move(f, first, last, d) == MoveTo(f, first, last, f, d)

\* lower_bound: the first slot in use whose key is not below t, or n
get_index(node, t) ==
  CHOOSE i \in 0..node.n : /\ \A j \in 0..i - 1 : node.keys[j] < t
                           /\ i < node.n => node.keys[i] >= t

\* split_child: the upper B - 1 keys of the full child go to a new node, the
\* one in the middle to the parent.  Only B - 1 of the B slots are cleared.
split_child(parent, idx) ==
  LET full  == parent.edges[idx]
      fresh == BTreeNode(full.leaf)
      left  == [full EXCEPT !.keys = [i \in Slots |-> IF B - 1 <= i /\ i < 2 * B - 2 THEN 0 ELSE @[i]],
                            !.edges = [i \in DOMAIN @ |-> IF i >= B THEN None ELSE @[i]],
                            !.n = B - 1]
      right == [fresh EXCEPT !.keys = MoveTo(full.keys, B, 2 * B - 1, @, 0),
                             !.edges = MoveTo(full.edges, B, 2 * B, @, 0),
                             !.n = B - 1]
  IN  [parent EXCEPT
         !.keys = [Move(@, idx, parent.n, idx + 1) EXCEPT ![idx] = full.keys[B - 1]],
         !.edges = [Move(@, idx + 1, parent.n + 1, idx + 2) EXCEPT ![idx] = left, ![idx + 1] = right],
         !.n = @ + 1]

RECURSIVE Inserted(_, _)
Inserted(node, t) ==
  LET idx   == get_index(node, t)
      ready == IF Full(node.edges[idx]) THEN split_child(node, idx) ELSE node
      below == get_index(ready, t)
  IN  IF ~node.leaf THEN [ready EXCEPT !.edges[below] = Inserted(@, t)]
      ELSE IF node.keys[idx] = t THEN node
      ELSE [node EXCEPT !.keys = [Move(@, idx, node.n, idx + 1) EXCEPT ![idx] = t],
                        !.n = @ + 1]

\* Mutant: the borrowing child gets the sibling's key instead of the parent's
borrow_past_parent(node, e) ==
  LET child == node.edges[e]
      sibling == node.edges[e + 1]
      n == child.n
      m == sibling.n
  IN  [node EXCEPT
         !.edges[e] = [child EXCEPT !.keys[n] = sibling.keys[0],
                                    !.edges[n + 1] = sibling.edges[0], !.n = n + 1],
         !.edges[e + 1] = [sibling EXCEPT !.keys = Move(@, 1, m, 0),
                                          !.edges = [Move(@, 1, m + 1, 0) EXCEPT ![m] = None],
                                          !.n = m - 1]]

borrow_from_right(node, e) ==
  LET child == node.edges[e]
      sibling == node.edges[e + 1]
      n == child.n
      m == sibling.n
  IN  [node EXCEPT
         !.keys[e] = sibling.keys[0],
         !.edges[e] = [child EXCEPT !.keys[n] = node.keys[e],
                                    !.edges[n + 1] = sibling.edges[0], !.n = n + 1],
         !.edges[e + 1] = [sibling EXCEPT !.keys = Move(@, 1, m, 0),
                                          !.edges = [Move(@, 1, m + 1, 0) EXCEPT ![m] = None],
                                          !.n = m - 1]]

borrow_from_left(node, e) ==
  LET child == node.edges[e]
      sibling == node.edges[e - 1]
      n == child.n
      m == sibling.n
  IN  [node EXCEPT
         !.keys[e - 1] = sibling.keys[m - 1],
         !.edges[e] = [child EXCEPT
                         !.keys = [Move(@, 0, n, 1) EXCEPT ![0] = node.keys[e - 1]],
                         !.edges = [Move(@, 0, n + 1, 1) EXCEPT ![0] = sibling.edges[m]],
                         !.n = n + 1],
         !.edges[e - 1] = [sibling EXCEPT !.edges[m] = None, !.n = m - 1]]

\* The child at e, or the one before the last, takes in the key and the child after it.
merge_children(node, e) ==
  LET idx == IF e = node.n THEN e - 1 ELSE e
      child == node.edges[idx]
      sibling == node.edges[idx + 1]
      n == child.n
      m == sibling.n
  IN  [node EXCEPT
         !.keys = [Move(@, idx + 1, node.n, idx) EXCEPT ![node.n - 1] = 0],
         !.edges = [Move(@, idx + 2, node.n + 1, idx + 1) EXCEPT
                      ![node.n] = None,
                      ![idx] = [child EXCEPT
                                  !.keys = MoveTo(sibling.keys, 0, m, [@ EXCEPT ![n] = node.keys[idx]], n + 1),
                                  !.edges = MoveTo(sibling.edges, 0, m + 1, @, n + 1),
                                  !.n = n + 1 + m]],
         !.n = @ - 1]

\* try_borrow_from_sibling and the merging when it fails
Refilled(node, e) ==
  IF e < node.n /\ node.edges[e + 1].n > B - 1 THEN borrow_from_right(node, e)
  ELSE IF e > 0 /\ node.edges[e - 1].n > B - 1 THEN borrow_from_left(node, e)
  ELSE merge_children(node, e)

RECURSIVE find_rightmost_key(_), Removed(_, _)
find_rightmost_key(node) ==
  IF node.leaf THEN node.keys[node.n - 1] ELSE find_rightmost_key(node.edges[node.n])

Removed(node, t) ==
  LET e     == get_index(node, t)
      ready == IF node.edges[e].n <= B - 1 THEN Refilled(node, e) ELSE node
      idx   == get_index(ready, t)
      rightmost == find_rightmost_key(ready.edges[idx])
  IN  IF node.leaf
      THEN IF node.keys[e] # t THEN node
           ELSE [node EXCEPT !.keys = [Move(@, e + 1, node.n, e) EXCEPT ![node.n - 1] = 0],
                             !.n = @ - 1]
      ELSE IF idx < ready.n /\ ready.keys[idx] = t
      THEN [ready EXCEPT !.keys[idx] = rightmost, !.edges[idx] = Removed(@, rightmost)]
      ELSE [ready EXCEPT !.edges[idx] = Removed(@, t)]

\* The keys that for_all visits, in its order
RECURSIVE Visited(_)
Visited(node) ==
  LET upTo[j \in 0..node.n] ==
        IF j = 0 THEN Visited(node.edges[0])
        ELSE upTo[j - 1] \o <<node.keys[j - 1]>> \o Visited(node.edges[j])
  IN  IF node = None THEN <<>>
      ELSE IF node.leaf THEN [j \in 1..node.n |-> node.keys[j - 1]]
      ELSE IF node.n < 1 THEN <<>>
      ELSE upTo[node.n]
KeySet(node) == {Visited(node)[i] : i \in DOMAIN Visited(node)}

\* BTree::insert: a full root becomes the child of a new one, and is split.
WithKey(tree, t) ==
  IF tree = None THEN [BTreeNode(TRUE) EXCEPT !.keys[0] = t, !.n = 1]
  ELSE Inserted(IF Full(tree)
                THEN split_child([BTreeNode(FALSE) EXCEPT !.edges[0] = tree], 0)
                ELSE tree, t)

NoKeys == {<<>>}           \* a value of Starts: the tree is new

Init == /\ root \in {FoldLeft(WithKey, None, s) : s \in Starts}
        /\ returned = None /\ removed = {}

insert(t) ==
  /\ t \notin KeySet(root) \cup removed
  /\ root' = WithKey(root, t)
  /\ returned' = <<"insert", t, Len(Visited(root')) > Len(Visited(root))>>
  /\ UNCHANGED removed

remove(t) ==
  /\ root # None /\ t \in KeySet(root)
  /\ LET left == Removed(root, t)
     IN  root' = IF left.n = 0 /\ ~left.leaf THEN left.edges[0] ELSE left
  /\ returned' = <<"remove", t, TRUE>>
  /\ removed' = IF Again THEN {} ELSE removed \cup {t}

remove_from_none(t) ==
  root = None /\ returned' = <<"remove", t, FALSE>> /\ UNCHANGED <<root, removed>>

for_all == returned' = <<"in_order", Visited(root)>> /\ UNCHANGED <<root, removed>>

Next == \/ \E t \in Fresh : insert(t)
        \/ \E t \in Keys : remove(t) \/ remove_from_none(t)
        \/ for_all

Spec == Init /\ [][Next]_vars
-----------------------------------------------------------------------------
\* The tree implements a set: no split, borrowing or merging loses a key.
O == INSTANCE OrderedSet WITH keys <- KeySet(root)
TreeIsSet == O!Spec

\* An absent key can be inserted, wherever its place in a leaf is.
AbsentKeysGoIn == [][\A t \in Fresh : insert(t) => t \in KeySet(root')]_vars

\* Every leaf is as deep as every other, and every node but the root has B - 1 to
\* 2 * B - 1 keys.
RECURSIVE Depths(_), Filled(_)
Depths(node) == IF node.leaf THEN {0}
                ELSE UNION {{d + 1 : d \in Depths(node.edges[j])} : j \in 0..node.n}
Filled(node) == \/ node.leaf
                \/ \A j \in 0..node.n : /\ node.edges[j].n \in B - 1..2 * B - 1
                                        /\ Filled(node.edges[j])
Even == root # None => (\A c, d \in Depths(root) : c = d) /\ Filled(root)
=============================================================================
