------------------------------- MODULE Dijkstra -------------------------------
(***************************************************************************)
(* BinaryHeap (etox/model/BHeap.cc) and Dijkstra (etox/model/Dijkstra.cc), *)
(* with which a LinkStateRouting computes its NF table. Nodes are the      *)
(* indexes 0, 1, ... of an adjacency list; node 0 is the source.           *)
(*                                                                         *)
(* The state of a calculation is a record s:                               *)
(*   dist, prehop : m_graph[v].distance and m_prehop[v] of every node      *)
(*   handler      : m_graph[v].handler, the slot of the heap that is       *)
(*                  written when the distance of v gets smaller            *)
(*   slot         : m_handlers, an array of [node, distance] records       *)
(*   size         : m_heapSize                                             *)
(* A slot's own handler always leads to m_graph[node] and is left out.     *)
(* Distances are 64 bits wide; Far and every path cost stay far below.     *)
(***************************************************************************)
EXTENDS Naturals, Sequences, FiniteSets, SequencesExt

CONSTANT Far        \* INFINITE/3, the distance of a node not reached yet

ASSUME FarAssumption == Far \in Nat \ {0}

Parent(i) == (i - 1) \div 2
Left(i) == 2 * i + 1
Right(i) == 2 * (i + 1)

\* Swaps two slots and points the handlers of their nodes at the new places.
Swap(s, i, j) ==
    [s EXCEPT !.slot = [@ EXCEPT ![i] = s.slot[j], ![j] = s.slot[i]],
              !.handler = [@ EXCEPT ![s.slot[i].node] = j, ![s.slot[j].node] = i]]

Less(s, i, j) == i < s.size /\ s.slot[i].distance < s.slot[j].distance

\* The slot with the least distance among i and its children.
Least(s, i) ==
    LET least == IF Less(s, Left(i), i) THEN Left(i) ELSE i
    IN  IF Less(s, Right(i), least) THEN Right(i) ELSE least

SiftDown(acc) ==
    LET least == Least(acc.s, acc.at)
    IN  IF least = acc.at THEN acc
        ELSE [s |-> Swap(acc.s, acc.at, least), at |-> least]

\* The recursion goes down one level at a time, so size steps are enough.
Heapify(s, i) ==
    FoldLeft(LAMBDA acc, level : SiftDown(acc), [s |-> s, at |-> i],
             [level \in 1..s.size |-> level]).s

\* Faulty: only the root is restored, as the commented-out call does.
RebuildRoot(s) == Heapify(s, 0)

\* Rebuild heapifies from the middle to the root; Build does the same.
Rebuild(s) ==
    FoldLeft(Heapify, s, [k \in 1..(s.size \div 2) + 1 |-> (s.size \div 2) + 1 - k])

\* The constructor of the heap, Initialize and Build.
Start(nodes) ==
    LET init == [v \in nodes |-> IF v = 0 THEN 0 ELSE Far]
    IN  Rebuild([dist |-> init, prehop |-> [v \in nodes |-> Cardinality(nodes)],
                 handler |-> [v \in nodes |-> v],
                 slot |-> [v \in nodes |-> [node |-> v, distance |-> init[v]]],
                 size |-> Cardinality(nodes)])

\* Faulty: the size shrinks twice.
ExtractMinTwice(s) ==
    Heapify([s EXCEPT !.slot[0] = s.slot[s.size - 1], !.size = @ - 2], 0)

\* Faulty: the last slot is still counted.
ExtractMinKept(s) ==
    Heapify([s EXCEPT !.slot[0] = s.slot[s.size - 1]], 0)

Minimum(s) == s.slot[0].node

\* The last slot moves to the root. The handler of its node is not moved.
ExtractMin(s) ==
    Heapify([s EXCEPT !.slot[0] = s.slot[s.size - 1], !.size = @ - 1], 0)

\* Faulty: nodes at the same distance take each other for their prehop.
RelaxEqual(s, u, e) ==
    LET d == s.dist[u] + e.weight
    IN  IF s.dist[e.node] < d THEN s
        ELSE [s EXCEPT !.dist[e.node] = d,
                       !.slot[s.handler[e.node]].distance = d,
                       !.prehop[e.node] = u]

\* The edge e leaves u.
Relax(s, u, e) ==
    LET d == s.dist[u] + e.weight
    IN  IF s.dist[e.node] <= d THEN s
        ELSE [s EXCEPT !.dist[e.node] = d,
                       !.slot[s.handler[e.node]].distance = d,
                       !.prehop[e.node] = u]

\* One turn of the loop of Calculate: the minimum leaves the heap and all its
\* edges are relaxed, the heap being rebuilt after each.
Visit(adj, s) ==
    LET u == Minimum(s)
    IN  FoldLeft(LAMBDA t, e : Rebuild(Relax(t, u, e)), ExtractMin(s), adj[u])

\* Every turn takes one node out of the heap.
Calculate(adj) ==
    FoldLeft(LAMBDA s, k : Visit(adj, s), Start(DOMAIN adj),
             SetToSeq(DOMAIN adj))

=============================================================================
