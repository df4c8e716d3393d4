------------------------------- MODULE RBTree -------------------------------
(***************************************************************************)
(* rbtree.hpp: a left-leaning red-black tree.  Removing follows null       *)
(* pointers when the tree is empty or the key is absent: callers remove    *)
(* only keys that the tree contains.                                       *)
(***************************************************************************)
EXTENDS Integers, Sequences

CONSTANTS Keys, None       \* None is the null pointer

VARIABLES root, returned
vars == <<root, returned>>

Init == root = None /\ returned = None

RBNode(k) == [key |-> k, color |-> "red", left |-> None, right |-> None]
is_red(n) == n # None /\ n.color = "red"
Flip(c) == IF c = "red" THEN "black" ELSE "red"
Recolored(n) == IF n = None THEN None ELSE [n EXCEPT !.color = Flip(@)]

flip_color(n) == [n EXCEPT !.color = Flip(@), !.left = Recolored(@), !.right = Recolored(@)]

rotate_right(n) ==
  LET x == n.left
  IN  [x EXCEPT !.right = [n EXCEPT !.left = x.right, !.color = "red"],
                !.color = n.color]

rotate_left(n) ==
  LET x == n.right
  IN  [x EXCEPT !.left = [n EXCEPT !.right = x.left, !.color = "red"],
                !.color = n.color]

\* The last two lines of insert and of fix_up
LeanAndSplit(n) ==
  LET m == IF is_red(n.left) /\ is_red(n.left.left) THEN rotate_right(n) ELSE n
  IN  IF is_red(m.left) /\ is_red(m.right) THEN flip_color(m) ELSE m

RECURSIVE Inserted(_, _)
Inserted(n, k) ==
  LET below == CASE n.key = k -> n
                 [] n.key > k -> [n EXCEPT !.left = Inserted(@, k)]
                 [] OTHER     -> [n EXCEPT !.right = Inserted(@, k)]
      leaned == IF is_red(below.right) /\ ~is_red(below.left)
                THEN rotate_left(below) ELSE below
  IN  IF n = None THEN RBNode(k) ELSE LeanAndSplit(leaned)

\* Mutant: a red right child stays where it is
fix_up_without_rotation(n) == LeanAndSplit(n)

fix_up(n) == LeanAndSplit(IF is_red(n.right) THEN rotate_left(n) ELSE n)

move_red_right(n) ==
  LET flipped == flip_color(n)
  IN  IF is_red(flipped.left.left) THEN flip_color(rotate_right(flipped)) ELSE flipped

move_red_left(n) ==
  LET flipped == flip_color(n)
  IN  IF is_red(flipped.right.left)
      THEN flip_color(rotate_left([flipped EXCEPT !.right = rotate_right(@)]))
      ELSE flipped

\* What remove_max, remove_min and remove do on the way down, so that the node
\* they go on to is not a black one with a black left child.
Leaned(n) == IF is_red(n.left) THEN rotate_right(n) ELSE n
ReadyRight(n) == IF ~is_red(n.right) /\ ~is_red(n.right.left) THEN move_red_right(n) ELSE n
ReadyLeft(n) == IF ~is_red(n.left) /\ ~is_red(n.left.left) THEN move_red_left(n) ELSE n

RECURSIVE WithoutMax(_), WithoutMin(_), Without(_, _), leftmost_key(_)
WithoutMax(n) ==
  LET m == Leaned(n)
  IN  IF m.right = None THEN None
      ELSE fix_up([ReadyRight(m) EXCEPT !.right = WithoutMax(@)])

WithoutMin(n) ==
  IF n.left = None THEN None
  ELSE fix_up([ReadyLeft(n) EXCEPT !.left = WithoutMin(@)])

leftmost_key(n) == IF n.left = None THEN n.key ELSE leftmost_key(n.left)

Without(n, k) ==
  IF k < n.key
  THEN fix_up([ReadyLeft(n) EXCEPT !.left = Without(@, k)])
  ELSE LET m == Leaned(n)
           r == ReadyRight(m)
       IN  IF k = m.key /\ m.right = None THEN None
           ELSE IF k = m.key /\ k = r.key
           THEN fix_up([r EXCEPT !.key = leftmost_key(r.right), !.right = WithoutMin(@)])
           ELSE fix_up([r EXCEPT !.right = Without(@, k)])

RECURSIVE Contains(_, _), InOrder(_)
Contains(n, k) == /\ n # None
                  /\ \/ k = n.key
                     \/ k < n.key /\ Contains(n.left, k)
                     \/ k > n.key /\ Contains(n.right, k)

\* The keys that traverse_inorder visits
InOrder(n) == IF n = None THEN <<>>
              ELSE InOrder(n.left) \o <<n.key>> \o InOrder(n.right)
KeySet(n) == {InOrder(n)[i] : i \in DOMAIN InOrder(n)}

\* Every operation leaves the root black.
Black(n) == IF n = None THEN None ELSE [n EXCEPT !.color = "black"]

insert(k) == root' = Black(Inserted(root, k)) /\ returned' = <<"insert", k, TRUE>>

remove(k) == /\ k \in KeySet(root)
             /\ root' = Black(Without(root, k))
             /\ returned' = <<"remove", k, None>>
remove_min == root # None /\ root' = Black(WithoutMin(root)) /\ returned' = <<"remove_min">>
remove_max == root # None /\ root' = Black(WithoutMax(root)) /\ returned' = <<"remove_max">>

contains(k) == returned' = <<"contains", k, Contains(root, k)>> /\ UNCHANGED root
traverse_inorder == returned' = <<"in_order", InOrder(root)>> /\ UNCHANGED root

Next == \/ \E k \in Keys : insert(k) \/ remove(k) \/ contains(k)
        \/ remove_min \/ remove_max \/ traverse_inorder

Spec == Init /\ [][Next]_vars
-----------------------------------------------------------------------------
\* The tree implements a set: no rotation on the way down or up loses a key or
\* breaks the order.
O == INSTANCE OrderedSet WITH keys <- KeySet(root)
TreeIsSet == O!Spec

\* After every operation the tree is balanced as its depth bound needs: red
\* nodes lean left, no red node has a red child, and every way down from the
\* root passes equally many black nodes.
RECURSIVE BlackHeights(_), Leaning(_)
BlackHeights(n) ==
  IF n = None THEN {0}
  ELSE {h + (IF n.color = "black" THEN 1 ELSE 0)
          : h \in BlackHeights(n.left) \cup BlackHeights(n.right)}
Leaning(n) == n = None \/ /\ ~is_red(n.right)
                          /\ is_red(n) => ~is_red(n.left)
                          /\ Leaning(n.left) /\ Leaning(n.right)
BalancedAndLeaning == /\ \A g, h \in BlackHeights(root) : g = h
                      /\ Leaning(root)
                      /\ ~is_red(root)
=============================================================================
