----------------------------- MODULE ShortestPath -----------------------------
(***************************************************************************)
(* The loop of Dijkstra::Calculate, one relaxed edge or one extracted node *)
(* at a time.                                                              *)
(***************************************************************************)
EXTENDS Dijkstra, FiniteSets

CONSTANTS
    Size,       \* the number of nodes
    AdjLists    \* the adjacency lists to calculate with

Nodes == 0..Size - 1

\* m_self is always there, and lists name nodes that are.
ASSUME ShortestPathAssumption ==
    /\ Size \in Nat \ {0}
    /\ AdjLists \subseteq [Nodes -> Seq([node : Nodes, weight : Nat])]

VARIABLES
    adj,        \* m_adjList: the sequence of [node, weight] edges of each node
    run,        \* the state of the calculation, a record of module Dijkstra
    current,    \* currentMin
    todo        \* what is left of currentList

vars == <<adj, run, current, todo>>

Init ==
    /\ adj \in AdjLists
    /\ run = Start(Nodes)
    /\ current = 0
    /\ todo = <<>>

Extract ==
    /\ todo = <<>> /\ run.size > 0
    /\ current' = Minimum(run)
    /\ todo' = adj[Minimum(run)]
    /\ run' = ExtractMin(run)
    /\ UNCHANGED adj

RelaxNext ==
    /\ todo # <<>>
    /\ run' = Rebuild(Relax(run, current, Head(todo)))
    /\ todo' = Tail(todo)
    /\ UNCHANGED <<adj, current>>

Next == Extract \/ RelaxNext

Spec == Init /\ [][Next]_vars

-----------------------------------------------------------------------------

TypeOK ==
    /\ run.size \in 0..Size
    /\ run.dist \in [Nodes -> 0..Far]
    /\ run.prehop \in [Nodes -> Nodes \cup {Size}]
    /\ run.handler \in [Nodes -> Nodes]
    /\ run.slot \in [Nodes -> [node : Nodes, distance : 0..Far]]
    /\ current \in Nodes

InHeap == {run.slot[i].node : i \in 0..run.size - 1}

\* Every node is in one slot until it is extracted, so each one is visited
\* once (BHeap.cc:114-135). A visited node never comes back.
EachNodeOnce ==
    /\ Cardinality(InHeap) = run.size
    /\ todo # <<>> => current \notin InHeap

\* Among themselves the slots are a heap after every rebuild, also when a stale
\* handler wrote a distance into the slot of another node.
SlotsFormHeap ==
    \A i \in 1..run.size - 1 : run.slot[Parent(i)].distance <= run.slot[i].distance

\* Following prehops from a node that was reached leads to the source in fewer
\* hops than there are nodes, at every moment, with weights of zero too: that
\* is the loop of FindSendEntry (link-state-routing-protocol.cc:468-484).
PrehopsLeadToSource ==
    \A v \in Nodes : run.prehop[v] # Size =>
        LET hop[k \in 0..Size] ==
                IF k = 0 THEN v
                ELSE IF hop[k - 1] \in {0, Size} THEN hop[k - 1]
                ELSE run.prehop[hop[k - 1]]
        IN  hop[Size] = 0

\* "This is a Min-Heap" (BHeap.h:31): the node extracted next is one of the
\* nearest in the heap.
MinimumIsNearest ==
    todo = <<>> /\ run.size > 0 =>
        \A v \in InHeap : run.dist[Minimum(run)] <= run.dist[v]

-----------------------------------------------------------------------------

Edges(a) ==
    UNION {{[from |-> u, to |-> a[u][i].node, weight |-> a[u][i].weight] :
                i \in DOMAIN a[u]} : u \in Nodes}

Abstract == INSTANCE Relaxation WITH
    Node     <- Nodes,
    Source   <- 0,
    NoPrehop <- Size,
    Graphs   <- SUBSET [from : Nodes, to : Nodes, weight : Nat],
    edges    <- Edges(adj),
    dist     <- run.dist,
    prehop   <- run.prehop

\* Every step relaxes one edge, or none.
ImplementsRelaxation == Abstract!Spec

=============================================================================
