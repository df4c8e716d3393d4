-------------------------- MODULE GraphAlgorithms --------------------------
(***************************************************************************)
(* The three algorithms on graphs (data-structure/07-graph), called one    *)
(* after the other on a graph: dijkstra_shortest_path, on a graph of       *)
(* either type, prim_minimum_spanning_tree, on an undirected one, and      *)
(* topological_sort, on a directed one.  A step is a turn of the while     *)
(* loop, which takes an element out of the queue.  Weights are integers.   *)
(***************************************************************************)
EXTENDS Integers, FiniteSets, SequencesExt, FiniteSetsExt

CONSTANTS n,           \* num_vertices: the vertices are 0..n-1
          Inputs,      \* the graphs: their edges <<from, to, weight>> and whether directed
          Sources,     \* the sources the two searches are called with
          inf,         \* more than any path weighs
          None

VARIABLES adj_list, directed,
          call,        \* the call under way, or None
          q, distance, visited, indegree, answer,   \* its variables
          returned     \* the last call and what it returned
locals == <<q, distance, visited, indegree, answer>>
vars == <<adj_list, directed, call, locals, returned>>

Vertices == 0..n - 1

\* The constructor of Graph: an undirected edge is in the lists of both its ends.
AdjList(edges, oneWay) ==
  [v \in Vertices |->
     FlattenSeq([k \in DOMAIN edges |->
       (IF edges[k][1] = v THEN <<[to |-> edges[k][2], weight |-> edges[k][3]]>> ELSE <<>>) \o
       (IF ~oneWay /\ edges[k][2] = v
        THEN <<[to |-> edges[k][1], weight |-> edges[k][3]]>> ELSE <<>>)])]

Init == /\ \E g \in Inputs : adj_list = AdjList(g.edges, g.directed) /\ directed = g.directed
        /\ q = {} /\ distance = <<>> /\ visited = {} /\ indegree = <<>> /\ answer = <<>>
        /\ call = None /\ returned = None
-----------------------------------------------------------------------------
(* The two searches take the greatest tuple out of a priority queue that   *)
(* holds negated distances: of the nearest, the last vertex, and its last  *)
(* neighbour.  The edge that prim queues is the neighbour's.  No entry is  *)
(* queued twice, because each lowers the distance of its vertex: q is a    *)
(* set.                                                                    *)

Above(e, f) == \/ e.dist < f.dist
               \/ e.dist = f.dist /\ (e.v > f.v \/ (e.v = f.v /\ e.from >= f.from))
top == CHOOSE e \in q : \A f \in q : Above(e, f)

CallSearch(f, src) ==
  /\ call = None
  /\ call' = [f |-> f, src |-> src] /\ returned' = None
  /\ distance' = [[v \in Vertices |-> inf] EXCEPT ![src] = 0]
  /\ visited' = {}
  /\ answer' = IF f = "dijkstra" THEN [v \in Vertices |-> None] ELSE <<>>
  /\ q' = {[dist |-> 0, v |-> src, from |-> IF f = "dijkstra" THEN n ELSE 0]}
  /\ UNCHANGED <<adj_list, directed, indegree>>

\* The loop over the neighbours of e.v: those that are nearer than before are queued.
\* after[i] is what it leaves of the distances and the queue in i turns.
Relaxed(e) ==
  LET neighbours == adj_list[e.v]
      Length(i) == neighbours[i].weight + (IF call.f = "dijkstra" THEN e.dist ELSE 0)
      Turn(s, to, d) ==
        IF d < s.distance[to]
        THEN [distance |-> [s.distance EXCEPT ![to] = d],
              q |-> s.q \cup {[dist |-> d, v |-> to, from |-> e.v]}]
        ELSE s
      after[i \in 0..Len(neighbours)] ==
        IF i = 0 THEN [distance |-> distance, q |-> q \ {e}]
        ELSE Turn(after[i - 1], neighbours[i].to, Length(i))
  IN  after[Len(neighbours)]

\* Mutant: a vertex that was queued again is settled again.
StaleNever(e) == FALSE
Stale(e) == e.v \in visited

Search ==
  /\ call # None /\ call.f # "sort" /\ q # {}
  /\ IF Stale(top)
     THEN /\ q' = q \ {top}
          /\ UNCHANGED <<distance, visited, answer>>
     ELSE /\ q' = Relaxed(top).q /\ distance' = Relaxed(top).distance
          /\ visited' = visited \cup {top.v}
          /\ answer' = IF call.f = "dijkstra" THEN [answer EXCEPT ![top.v] = <<top.from, top.dist>>]
                       ELSE IF top.v = call.src THEN answer
                       ELSE Append(answer, <<top.from, top.v, top.dist>>)
  /\ UNCHANGED <<adj_list, directed, call, indegree, returned>>

Return(value) ==
  /\ returned' = [f |-> call.f, src |-> call.src, value |-> value]
  /\ call' = None
  /\ q' = {} /\ distance' = <<>> /\ visited' = {} /\ indegree' = <<>> /\ answer' = <<>>
  /\ UNCHANGED <<adj_list, directed>>

\* Prim's tree is no tree unless it has n - 1 edges.
SearchEnds == /\ call # None /\ call.f # "sort" /\ q = {}
              /\ Return(IF call.f = "prim" /\ Len(answer) # n - 1 THEN None ELSE answer)
-----------------------------------------------------------------------------
(* topological_sort queues the vertices that no remaining edge leads to.   *)

CallSort ==
  LET arrows == UNION {{v} \X DOMAIN adj_list[v] : v \in Vertices}
      degree == [v \in Vertices |-> Cardinality({a \in arrows : adj_list[a[1]][a[2]].to = v})]
      queued[v \in 0..n] ==       \* the queue after the turns for the vertices before v
        IF v = 0 THEN <<>>
        ELSE IF degree[v - 1] = 0 THEN Append(queued[v - 1], v - 1) ELSE queued[v - 1]
  IN  /\ call = None /\ directed
      /\ call' = [f |-> "sort", src |-> None] /\ returned' = None
      /\ indegree' = degree
      /\ q' = queued[n]
      /\ answer' = <<>>
      /\ UNCHANGED <<adj_list, directed, distance, visited>>

\* What the loop over the neighbours of v leaves of the indegrees and the queue
Dropped(v) ==
  LET neighbours == adj_list[v]
      Turn(s, to) == [indegree |-> [s.indegree EXCEPT ![to] = @ - 1],
                      q |-> IF s.indegree[to] = 1 THEN Append(s.q, to) ELSE s.q]
      after[i \in 0..Len(neighbours)] ==
        IF i = 0 THEN [indegree |-> indegree, q |-> Tail(q)]
        ELSE Turn(after[i - 1], neighbours[i].to)
  IN  after[Len(neighbours)]

Sort == /\ call # None /\ call.f = "sort" /\ q # <<>>
        /\ answer' = Append(answer, Head(q))
        /\ q' = Dropped(Head(q)).q /\ indegree' = Dropped(Head(q)).indegree
        /\ UNCHANGED <<adj_list, directed, call, distance, visited, returned>>

SortEnds == call # None /\ call.f = "sort" /\ q = <<>> /\ Return(answer)

Next == \/ \E src \in Sources : CallSearch("dijkstra", src) \/ (~directed /\ CallSearch("prim", src))
        \/ CallSort \/ Search \/ SearchEnds \/ Sort \/ SortEnds

Spec == Init /\ [][Next]_vars
-----------------------------------------------------------------------------
(* What the algorithms are to compute, by definition *)

Edges == UNION {{<<v, adj_list[v][k].to, adj_list[v][k].weight>> : k \in DOMAIN adj_list[v]} :
                v \in Vertices}

\* The weight of the lightest walk from src to each vertex with at most h edges
Lightest(src) ==
  LET walk[h \in 0..n - 1] ==
        IF h = 0 THEN [[v \in Vertices |-> inf] EXCEPT ![src] = 0]
        ELSE [v \in Vertices |->
                Min({walk[h - 1][v]} \cup {walk[h - 1][e[1]] + e[3] : e \in {x \in Edges : x[2] = v}})]
  IN  walk[n - 1]

\* Following the parents from v leads to the source, along edges that are as
\* long as the distances say.
ParentsLeadBack(src, paths, v) ==
  LET at[h \in 0..n] == IF h = 0 THEN v
                        ELSE IF at[h - 1] = src THEN src ELSE paths[at[h - 1]][1]
  IN  /\ at[n] = src
      /\ v # src => <<paths[v][1], v, paths[v][2] - paths[paths[v][1]][2]>> \in Edges

ShortestPaths(src, paths) ==
  \A v \in Vertices :
    IF Lightest(src)[v] >= inf THEN paths[v] = None
    ELSE /\ paths[v] # None /\ paths[v][2] = Lightest(src)[v]
         /\ ParentsLeadBack(src, paths, v)

Weight(tree) == MapThenSumSet(LAMBDA e : e[3], tree)

\* The sets of n - 1 edges (in one of their directions) that connect all vertices
Joined(tree) ==
  LET near[h \in 0..n - 1] ==
        IF h = 0 THEN {0}
        ELSE near[h - 1] \cup {e[1] : e \in {x \in tree : x[2] \in near[h - 1]}}
                         \cup {e[2] : e \in {x \in tree : x[1] \in near[h - 1]}}
  IN  near[n - 1] = Vertices
SpanningTrees == {t \in kSubset(n - 1, {e \in Edges : e[1] < e[2]}) : Joined(t)}

LightestTree(tree) ==
  IF SpanningTrees = {} THEN tree = None
  ELSE /\ tree # None /\ ToSet(tree) \subseteq Edges /\ Len(tree) = n - 1
       /\ Joined(ToSet(tree))
       /\ \A t \in SpanningTrees : Weight(ToSet(tree)) <= Weight(t)

\* The vertices that a walk from v ends in, of one edge or more
Behind(v) ==
  LET Successors(S) == {e[2] : e \in {x \in Edges : x[1] \in S}}
      within[h \in 1..n] == IF h = 1 THEN Successors({v})
                            ELSE within[h - 1] \cup Successors(within[h - 1])
  IN  within[n]
Cyclic == {v \in Vertices : v \in Behind(v)}

\* Every vertex that is on no cycle, nor behind one, once and behind all before it
TopologicalOrder(order) ==
  /\ IsInjective(order)
  /\ ToSet(order) = Vertices \ (Cyclic \cup UNION {Behind(v) : v \in Cyclic})
  /\ \A i, j \in DOMAIN order : i < j => \A e \in Edges : ~(e[1] = order[j] /\ e[2] = order[i])

\* Every call returns what it is to compute: the distances and the parents of the
\* vertices that can be reached, a lightest spanning tree if there is any, and the
\* vertices in an order that the edges allow.
AnswersRight ==
  returned # None =>
    CASE returned.f = "dijkstra" -> ShortestPaths(returned.src, returned.value)
      [] returned.f = "prim"     -> LightestTree(returned.value)
      [] returned.f = "sort"     -> TopologicalOrder(returned.value)
=============================================================================
