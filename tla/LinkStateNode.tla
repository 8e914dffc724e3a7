----------------------------- MODULE LinkStateNode -----------------------------
(***************************************************************************)
(* The database and the tables of one LinkStateRouting (etox/model):       *)
(* LinkStateNode and LinkStateNetwork (link-state-node.cc) and the         *)
(* functions of link-state-routing-protocol.cc that turn them into routes. *)
(*                                                                         *)
(*   a record    [address, time, pairs]: a LinkStateNode; pairs is m_pairs,*)
(*               a sequence of [address, nf_etox]                          *)
(*   net         m_network.m_nodes, a sequence of records, m_self first.   *)
(*               m_self is never updated by a hello, so its time stays 0   *)
(*   codeNum     CodeNum::m_codeNum of the node's MyncProtocol, a sequence *)
(*               of [address, sample]; sample is time/packetSize/codeNum   *)
(*   pathInfo    CodeNum::m_pathInfo: last hops by source address          *)
(*   nftable     m_nftable: prehops by destination                         *)
(*                                                                         *)
(* m_neighbor and its timer, which only the unused GetNeighbors reads, the *)
(* p_etox, interface and expired fields of the tables (interface is always *)
(* 1, expired always false) and m_txRatio, which no MyncProtocol has, are  *)
(* left out. No metric is 0: a sample is in nanoseconds per byte.          *)
(***************************************************************************)
EXTENDS Dijkstra

NewNode(address, time, pairs) == [address |-> address, time |-> time, pairs |-> pairs]

\* The position of an address in a sequence of records or pairs, 0 if it is not there.
Search(seq, address) == SelectInSeq(seq, LAMBDA r : r.address = address)

GetMetric(pairs, address) ==
    LET i == Search(pairs, address)
    IN  IF i = 0 THEN 0 ELSE pairs[i].nf_etox

AddMetric(pairs, address, metric) ==
    LET i == Search(pairs, address)
        pair == [address |-> address, nf_etox |-> metric]
    IN  IF i = 0 THEN Append(pairs, pair) ELSE [pairs EXCEPT ![i] = pair]

\* What a hello changes of the record of a node that is known.
UpdateNode(node, hello) == [node EXCEPT !.pairs = hello.pairs, !.time = hello.time]

\* A node that says something for the first time.
AddNode(net, hello) == Append(net, NewNode(hello.address, hello.time, hello.pairs))

\* Faulty: what arrives last replaces what is known.
UpdateAlways(net, hello) ==
    LET i == Search(net, hello.address)
    IN  IF i = 0 THEN AddNode(net, hello) ELSE [net EXCEPT ![i] = UpdateNode(@, hello)]

\* Faulty: the pairs are kept and only the time is taken from the hello.
UpdateTime(net, hello) ==
    LET i == Search(net, hello.address)
    IN  IF i = 0 THEN AddNode(net, hello)
        ELSE IF hello.time > net[i].time THEN [net EXCEPT ![i].time = hello.time]
        ELSE net

\* LinkStateNetwork::Update: an unknown node is added, a known one takes over
\* what it said later.
Update(net, hello) ==
    LET i == Search(net, hello.address)
    IN  IF i = 0 THEN AddNode(net, hello)
        ELSE IF hello.time > net[i].time THEN [net EXCEPT ![i] = UpdateNode(@, hello)]
        ELSE net

\* A table with these entries inserted, those of the same destination erased.
Overwrite(table, entries) ==
    [d \in DOMAIN table \cup DOMAIN entries |->
        IF d \in DOMAIN entries THEN entries[d] ELSE table[d]]

\* AddCodeNum and AddPathInfo change a copy of what they find: the first
\* sample and the first last hop stay for good.
AddCodeNum(codeNum, address, sample) ==
    IF Search(codeNum, address) # 0 THEN codeNum
    ELSE Append(codeNum, [address |-> address, sample |-> sample])

AddPathInfo(pathInfo, source, lastHop) ==
    IF source \in DOMAIN pathInfo THEN pathInfo
    ELSE Overwrite(pathInfo, [s \in {source} |-> lastHop])

\* Faulty: the old metric is added in full.
SmoothSum(sample, metric) == (8 * sample + 10 * metric) \div 10

\* The new metric is 4/5 sample and 1/5 old metric, cut to an integer.
Smooth(sample, metric) == (8 * sample + 2 * metric) \div 10

\* The metrics after one more sample of each link.
Measure(pairs, codeNum) ==
    LET measure(acc, info) ==
            AddMetric(acc, info.address, Smooth(info.sample, GetMetric(acc, info.address)))
    IN  FoldLeft(measure, pairs, codeNum)

\* The part of UpdateCodeNum that changes m_self. Its other part copies
\* pathInfo to m_ptable.
UpdateMetrics(net, codeNum) == [net EXCEPT ![1].pairs = Measure(@, codeNum)]

\* The weight that node net[i] gives for a link, or the one
\* of the other end if that is known and more recent.
Weight(net, i, pair) ==
    LET j == Search(net, pair.address)
        other == IF j = 0 THEN 0 ELSE GetMetric(net[j].pairs, net[i].address)
    IN  IF other # 0 /\ net[i].time < net[j].time THEN other ELSE pair.nf_etox

\* The edges of node net[i], with one more for this pair if its node is known.
AddEdge(net, i, edges, pair) ==
    LET j == Search(net, pair.address)
    IN  IF j = 0 THEN edges
        ELSE Append(edges, [node |-> j - 1, weight |-> Weight(net, i, pair)])

AdjListGenerator(net) ==
    [u \in 0..Len(net) - 1 |->
        FoldLeft(LAMBDA edges, pair : AddEdge(net, u + 1, edges, pair), <<>>,
                 net[u + 1].pairs)]

\* Faulty: the prehop of a neighbor is this node.
CalculateTableSelf(net, nftable) ==
    LET s == Calculate(AdjListGenerator(net))
        reached == {v \in DOMAIN s.prehop : s.prehop[v] < Len(net)}
        At(address) == Search(net, address) - 1
    IN  Overwrite(nftable, [d \in {net[v + 1].address : v \in reached} |->
                               net[s.prehop[At(d)] + 1].address])

\* The entry of every node reached is replaced; its prehop is the node itself
\* when that is next to this one. Other entries stay.
CalculateTable(net, nftable) ==
    LET s == Calculate(AdjListGenerator(net))
        reached == {v \in DOMAIN s.prehop : s.prehop[v] < Len(net)}
        At(address) == Search(net, address) - 1
    IN  Overwrite(nftable, [d \in {net[v + 1].address : v \in reached} |->
                               IF s.prehop[At(d)] = 0 THEN d
                               ELSE net[s.prehop[At(d)] + 1].address])

\* The loop of FindSendEntry, cut off after as many hops as there are entries.
\* An address without an entry ends it as well.
FindSendEntry(nftable, dest) ==
    LET step(d, k) == IF d \in DOMAIN nftable THEN nftable[d] ELSE d
    IN  FoldLeft(step, dest, [k \in 1..Cardinality(DOMAIN nftable) |-> k])

SendEntryFound(nftable, dest) ==
    LET d == FindSendEntry(nftable, dest)
    IN  d \in DOMAIN nftable /\ nftable[d] = d

NoGateway == "none"

\* The choice both RouteOutput and RouteInput make when both tables have an
\* entry: the cheaper first hop.
Cheaper(self, path, nf) ==
    IF GetMetric(self.pairs, path) < GetMetric(self.pairs, nf) THEN path ELSE nf

\* The gateway RouteInput hands the packet to.
RouteInputGateway(net, nftable, ptable, dest) ==
    LET nf == SendEntryFound(nftable, dest)
        path == dest \in DOMAIN ptable
    IN  CASE nf /\ path  -> Cheaper(net[1], ptable[dest], FindSendEntry(nftable, dest))
          [] nf /\ ~path -> FindSendEntry(nftable, dest)
          [] ~nf /\ path -> ptable[dest]
          [] OTHER -> NoGateway

\* RouteOutput makes a route only for a destination of the NF table.
RouteOutputGateway(net, nftable, ptable, dest) ==
    IF dest \in DOMAIN nftable THEN RouteInputGateway(net, nftable, ptable, dest)
    ELSE NoGateway

=============================================================================
