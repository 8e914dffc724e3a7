------------------------------ MODULE Relaxation ------------------------------
(***************************************************************************)
(* What is left of Dijkstra's algorithm when the order in which the edges  *)
(* are relaxed is given up: whatever the order, the prehops form a tree    *)
(* that leads back to the source. That is what a LinkStateRouting needs to *)
(* follow prehops to the first hop of a route (FindSendEntry). ShortestPath *)
(* implements this.                                                        *)
(***************************************************************************)
EXTENDS Naturals

CONSTANTS
    Node,
    Source,     \* node 0
    NoPrehop,   \* the prehop of a node that was not reached
    Far,        \* the distance of a node that was not reached
    Graphs      \* the graphs considered, sets of [from, to, weight] edges

ASSUME RelaxationAssumption ==
    /\ Source \in Node
    /\ NoPrehop \notin Node
    /\ Far \in Nat \ {0}
    /\ Graphs \subseteq SUBSET [from : Node, to : Node, weight : Nat]

VARIABLES edges, dist, prehop

vars == <<edges, dist, prehop>>

Init ==
    /\ edges \in Graphs
    /\ dist = [v \in Node |-> IF v = Source THEN 0 ELSE Far]
    /\ prehop = [v \in Node |-> NoPrehop]

\* Faulty: an edge that costs as much as the path so far replaces it.
RelaxEqual(e) ==
    /\ dist[e.from] + e.weight <= dist[e.to]
    /\ dist' = [dist EXCEPT ![e.to] = dist[e.from] + e.weight]
    /\ prehop' = [prehop EXCEPT ![e.to] = e.from]
    /\ UNCHANGED edges

\* Faulty: the distance of the node behind the edge is not compared.
RelaxAlways(e) ==
    /\ dist[e.from] < Far
    /\ dist' = [dist EXCEPT ![e.to] = dist[e.from] + e.weight]
    /\ prehop' = [prehop EXCEPT ![e.to] = e.from]
    /\ UNCHANGED edges

\* The path over e costs less than the distance so far.
Relax(e) ==
    /\ dist[e.from] + e.weight < dist[e.to]
    /\ dist' = [dist EXCEPT ![e.to] = dist[e.from] + e.weight]
    /\ prehop' = [prehop EXCEPT ![e.to] = e.from]
    /\ UNCHANGED edges

Next == \E e \in edges : Relax(e)

Spec == Init /\ [][Next]_vars

-----------------------------------------------------------------------------

TypeOK ==
    /\ edges \subseteq [from : Node, to : Node, weight : Nat]
    /\ dist \in [Node -> 0..Far]
    /\ prehop \in [Node -> Node \cup {NoPrehop}]

Reached(v) == v = Source \/ prehop[v] # NoPrehop

\* The source stays at distance 0 and has no prehop; the nodes reached are the
\* ones nearer than Far (Dijkstra.cc:41-56).
SourceIsRoot ==
    /\ dist[Source] = 0 /\ prehop[Source] = NoPrehop
    /\ \A v \in Node : IF Reached(v) THEN dist[v] < Far ELSE dist[v] = Far

\* The prehop of a node was reached itself, and the graph has an edge from it
\* that accounts for the distance (Dijkstra.cc:58-75).
PrehopIsNearer ==
    \A v \in Node : prehop[v] # NoPrehop =>
        /\ Reached(prehop[v])
        /\ \E e \in edges : /\ e.from = prehop[v] /\ e.to = v
                            /\ dist[e.from] + e.weight <= dist[v]

\* No set of nodes besides the source contains the prehops of all its members:
\* following prehops never runs in a circle, with weights of zero too, so the
\* loop of FindSendEntry ends (link-state-routing-protocol.cc:468-484).
NoPrehopCycle ==
    \A S \in SUBSET (Node \ {Source}) : S # {} => \E v \in S : prehop[v] \notin S

=============================================================================
