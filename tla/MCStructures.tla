---------------------------- MODULE MCStructures ----------------------------
(***************************************************************************)
(* The sequential data structures side by side: each behaviour uses the    *)
(* one that which names, through every sequence of its operations.         *)
(***************************************************************************)
EXTENDS Containers, Integers, SequencesExt

CONSTANTS HeapKeys, HeapItems, BSTKeys, RBKeys, BKeys, BStarts, BFresh, B

ASSUME StructuresAssumption ==
  /\ Universe \subseteq 0..63
  /\ None \notin Items /\ {MaxItems, HeapItems, MaxSize} \subseteq Nat
  /\ InitialCapacity \in Nat \ {0, 1} /\ InitialSize \in Nat \ {0}
  /\ Probings \subseteq {"linear", "quadratic"} /\ HashKeys \subseteq Nat
  /\ Careful = {"put", "remove"}
  /\ B \in Nat \ {0, 1} /\ BKeys \subseteq Nat \ {0}
  /\ num_vertices \in Nat \ {0} /\ Sources \subseteq 0..num_vertices - 1 /\ inf \in Nat \ {0}
  /\ \A g \in Inputs : g.edges \in Seq((0..num_vertices - 1) \X (0..num_vertices - 1) \X (0..inf - 1))
  /\ BFresh \subseteq BKeys /\ BStarts \subseteq Seq(BKeys)

VARIABLES which,
          roots, heapSize, heapReturned,
          bstRoot, bstReturned, rbRoot, rbReturned, bRoot, bReturned, bRemoved

FH == INSTANCE FibonacciHeap WITH Keys <- HeapKeys, MaxItems <- HeapItems, size <- heapSize, returned <- heapReturned
BS == INSTANCE BST WITH Keys <- BSTKeys, root <- bstRoot, returned <- bstReturned
RB == INSTANCE RBTree WITH Keys <- RBKeys, root <- rbRoot, returned <- rbReturned
BT == INSTANCE BTree WITH Keys <- BKeys, Starts <- BStarts, Fresh <- BFresh, Again <- FALSE,
                           root <- bRoot, returned <- bReturned, removed <- bRemoved

bytesVars == <<ready_group, ready_table, highest>>
arrayVars == <<arr, front, back, capacity, arraySize, arrayReturned>>
listVars  == <<value, prev, next, live, listSize, listReturned>>
hashVars  == <<probing, table, hashSize, hashReturned>>
heapVars  == <<roots, heapSize, heapReturned>>
bstVars   == <<bstRoot, bstReturned>>
rbVars    == <<rbRoot, rbReturned>>
bVars     == <<bRoot, bReturned, bRemoved>>
graphVars == <<adj_list, directed, call, q, distance, visited, indegree, answer, graphReturned>>

Init == /\ which \in {"bytes", "array", "list", "hash", "heap", "bst", "rbtree", "btree", "graph"}
        /\ which # "hash" => probing = CHOOSE p \in Probings : TRUE
        /\ BM!Init /\ AD!Init /\ LD!Init /\ HT!Init /\ FH!Init /\ BS!Init /\ RB!Init /\ BT!Init
        /\ GA!Init
        /\ which # "btree" => bRoot = None
        /\ which # "graph" => directed /\ \A v \in DOMAIN adj_list : adj_list[v] = <<>>

Next == /\ UNCHANGED which
        /\ \/ /\ which = "bytes" /\ BM!Next
              /\ UNCHANGED <<arrayVars, listVars, hashVars, heapVars, bstVars, rbVars, bVars, graphVars>>
           \/ /\ which = "array" /\ AD!Next
              /\ UNCHANGED <<bytesVars, listVars, hashVars, heapVars, bstVars, rbVars, bVars, graphVars>>
           \/ /\ which = "list" /\ LD!Next
              /\ UNCHANGED <<bytesVars, arrayVars, hashVars, heapVars, bstVars, rbVars, bVars, graphVars>>
           \/ /\ which = "hash" /\ HT!Next
              /\ UNCHANGED <<bytesVars, arrayVars, listVars, heapVars, bstVars, rbVars, bVars, graphVars>>
           \/ /\ which = "heap" /\ FH!Next
              /\ UNCHANGED <<bytesVars, arrayVars, listVars, hashVars, bstVars, rbVars, bVars, graphVars>>
           \/ /\ which = "bst" /\ BS!Next
              /\ UNCHANGED <<bytesVars, arrayVars, listVars, hashVars, heapVars, rbVars, bVars, graphVars>>
           \/ /\ which = "rbtree" /\ RB!Next
              /\ UNCHANGED <<bytesVars, arrayVars, listVars, hashVars, heapVars, bstVars, bVars, graphVars>>
           \/ /\ which = "btree" /\ BT!Next
              /\ UNCHANGED <<bytesVars, arrayVars, listVars, hashVars, heapVars, bstVars, rbVars, graphVars>>
           \/ /\ which = "graph" /\ GA!Next
              /\ UNCHANGED <<bytesVars, arrayVars, listVars, hashVars, heapVars, bstVars, rbVars, bVars>>

vars == <<which, bytesVars, arrayVars, listVars, hashVars, heapVars, bstVars, rbVars, bVars, graphVars>>
Spec == Init /\ [][Next]_vars
-----------------------------------------------------------------------------
\* The Fibonacci heap implements a priority queue.
HeapIsPriorityQueue == FH!HeapIsPriorityQueue

\* Consolidating stays within its array of roots by degree.
DegreesFitArray == FH!DegreesFitArray

\* The three search trees implement sets of keys.
TreesAreSets == BS!TreeIsSet /\ RB!TreeIsSet /\ BT!TreeIsSet

\* The two balanced trees are balanced after every operation.
TreesAreBalanced == RB!BalancedAndLeaning /\ BT!Even

MCUniverse == {0, 1, 2, 3, 4, 7, 20, 63}
\* The empty B-tree, and one of three levels
MCStarts == {<<>>, <<1, 2, 3, 4, 6, 7, 8, 9, 10>>}
\* The graphs whose parallel edges between each of the pairs have one of the lists
\* of weights
WeightedGraphs(oneWay, pairs, weights) ==
  {[directed |-> oneWay,
    edges |-> FlattenSeq([k \in DOMAIN pairs |-> [j \in DOMAIN f[k] |-> pairs[k] \o <<f[k][j]>>]])] :
     f \in [DOMAIN pairs -> weights]}
MCInputs ==
  WeightedGraphs(FALSE, << <<0, 1>>, <<0, 2>>, <<3, 0>>, <<1, 2>>, <<1, 3>>, <<2, 3>> >>, {<<>>, <<1>>, <<2>>})
  \cup
  WeightedGraphs(TRUE, << <<0, 1>>, <<0, 2>>, <<1, 2>>, <<2, 1>>, <<1, 3>>, <<3, 2>> >>, {<<>>, <<0>>, <<3, 1>>})
=============================================================================
