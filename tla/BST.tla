-------------------------------- MODULE BST ---------------------------------
(***************************************************************************)
(* BST.hpp: an unbalanced binary search tree.  An inner node's key is      *)
(* removed by taking over the largest key on its left.                     *)
(***************************************************************************)
EXTENDS Integers, Sequences

CONSTANTS Keys, None       \* None is the null pointer

VARIABLES root, returned
vars == <<root, returned>>

Init == root = None /\ returned = None

TreeNode(k) == [element |-> k, left |-> None, right |-> None]

RECURSIVE Elements(_), Found(_, _), Inserted(_, _), find_rightmost_key(_), Removed(_, _)
Elements(t) == IF t = None THEN {}
               ELSE Elements(t.left) \cup {t.element} \cup Elements(t.right)

\* search(t, k)
Found(t, k) == /\ t # None
               /\ \/ t.element = k
                  \/ t.element > k /\ Found(t.left, k)
                  \/ t.element < k /\ Found(t.right, k)

\* The tree after insert(t, k)
Inserted(t, k) ==
  IF t = None THEN TreeNode(k)
  ELSE CASE t.element = k -> t
         [] t.element > k -> [t EXCEPT !.left = Inserted(@, k)]
         [] t.element < k -> [t EXCEPT !.right = Inserted(@, k)]

find_rightmost_key(t) ==
  IF t.right # None THEN find_rightmost_key(t.right) ELSE t.element

\* The tree after remove(t, k)
Removed(t, k) ==
  IF t = None THEN None
  ELSE IF t.element > k THEN [t EXCEPT !.left = Removed(@, k)]
  ELSE IF t.element < k THEN [t EXCEPT !.right = Removed(@, k)]
  ELSE IF t.left = None THEN t.right
  ELSE IF t.right = None THEN t.left
  ELSE LET rightmost_key == find_rightmost_key(t.left)
       IN  [t EXCEPT !.element = rightmost_key, !.left = Removed(@, rightmost_key)]

insert(k) == root' = Inserted(root, k) /\ returned' = <<"insert", k, ~Found(root, k)>>
remove(k) == root' = Removed(root, k) /\ returned' = <<"remove", k, Found(root, k)>>
search(k) == returned' = <<"contains", k, Found(root, k)>> /\ UNCHANGED root

Next == \E k \in Keys : insert(k) \/ remove(k) \/ search(k)

Spec == Init /\ [][Next]_vars
-----------------------------------------------------------------------------
\* The tree implements a set: its order survives removals in the middle, so that
\* every search finds exactly the keys inserted and not removed since.
O == INSTANCE OrderedSet WITH keys <- Elements(root)
TreeIsSet == O!Spec
=============================================================================
