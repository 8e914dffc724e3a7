---------------------------- MODULE MCShortestPath ----------------------------
(* Every graph of a few links over the nodes 0, 1, ... with the same weight  *)
(* in both directions, each node's edges in ascending or descending order.   *)
EXTENDS ShortestPath, FiniteSetsExt

CONSTANTS Weights, MaxLinks

Pair == kSubset(2, Nodes)

EdgeList(w, u, down) ==
    LET order == [k \in 1..Size |-> IF down THEN Size - k ELSE k - 1]
        peers == SelectSeq(order, LAMBDA v : {u, v} \in DOMAIN w)
    IN  [i \in DOMAIN peers |-> [node |-> peers[i], weight |-> w[{u, peers[i]}]]]

MCAdjLists ==
    {[u \in Nodes |-> EdgeList(w, u, down)] :
        w \in UNION {[links -> Weights] : links \in UNION {kSubset(n, Pair) : n \in 0..MaxLinks}},
        down \in BOOLEAN}
=============================================================================
