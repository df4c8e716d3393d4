----------------------------- MODULE Containers -----------------------------
(***************************************************************************)
(* The ready bitmap of eOS in bytes, three containers and the graph        *)
(* algorithms of data-structure, each with its own variables and what it   *)
(* promises.                                                               *)
(***************************************************************************)
CONSTANTS Universe,
          Items, None, InitialCapacity, MaxItems,
          HashKeys, Values, Probings, InitialSize, MaxSize, Careful,
          num_vertices, Inputs, Sources, inf

VARIABLES ready_group, ready_table, highest,
          arr, front, back, capacity, arraySize, arrayReturned,
          value, prev, next, live, listSize, listReturned,
          probing, table, hashSize, hashReturned,
          adj_list, directed, call, q, distance, visited, indegree, answer, graphReturned

BM == INSTANCE ReadyBytes
AD == INSTANCE ArrayDeque WITH size <- arraySize, returned <- arrayReturned
LD == INSTANCE ListDeque WITH size <- listSize, returned <- listReturned
HT == INSTANCE HashTable WITH Keys <- HashKeys, size <- hashSize, returned <- hashReturned
GA == INSTANCE GraphAlgorithms WITH n <- num_vertices, returned <- graphReturned

\* The bytes and lookup tables of scheduler.c implement the bitmap over sets.
BytesAreBitmap == BM!BytesAreBitmap

\* The ring and the circle of deque.hpp implement sequences.
DequesAreSequences == AD!ArrayIsSequence /\ LD!ListIsSequence

\* Open addressing implements a partial map, for careful callers.
TableIsMap == HT!TableIsMap

\* Shortest paths, spanning trees and orders are what their definitions say.
GraphAnswersRight == GA!AnswersRight
=============================================================================
