------------------------------- MODULE LinkState -------------------------------
(***************************************************************************)
(* The nodes of an ETOX network: each floods what it measures in hellos,   *)
(* learns from the hellos of others, computes its tables and routes data.  *)
(* Every frame comes up through the MyncProtocol of the node, which notes a*)
(* sample for the sender and the last hop for the source (mync-protocol.cc:*)
(* 524 and 636); that and the medium, which may lose, delay and reorder    *)
(* frames, are the environment. No frame is coded here; of a coded one the *)
(* code notes the last hop only when it was decoded (mync-protocol.cc:     *)
(* 581-594). Local delivery is the list routing's.                         *)
(***************************************************************************)
EXTENDS LinkStateNode

CONSTANTS
    Node,
    Hears,      \* the pairs <<m, n>> such that n receives what m sends
    MaxTTL,     \* m_maxTTL, the number of times a hello is forwarded
    Samples,    \* what the MyncProtocol may measure of a link
    MaxHellos,  \* bound on the hellos sent in all
    MaxLost,    \* bound on the frames lost
    MaxData     \* bound on the data packets sent

ASSUME LinkStateAssumption ==
    /\ NoGateway \notin Node
    /\ Hears \subseteq {l \in Node \X Node : l[1] # l[2]}
    /\ MaxTTL \in 0..255
    /\ Samples \subseteq Nat \ {0, 1}
    /\ {MaxHellos, MaxLost, MaxData} \subseteq Nat

VARIABLES
    net, nftable, ptable,   \* the LinkStateRouting of each node
    codeNum, pathInfo,      \* the CodeNum of the MyncProtocol of each node
    air,                    \* frames under way, each to one receiver
    sent,                   \* history: the hellos originated
    lost, data              \* history: frames lost, data packets originated

routing == <<net, nftable, ptable>>
vars == <<net, nftable, ptable, codeNum, pathInfo, air, sent, lost, data>>

Receivers(n) == {m \in Node : <<n, m>> \in Hears}

\* SendHelloHeader: one broadcast of a hello.
HelloFrames(n, hello, ttl) ==
    {[type |-> "hello", from |-> n, to |-> m, hello |-> hello, ttl |-> ttl] : m \in Receivers(n)}

\* A data packet that n sends to its gateway; all who hear n note it.
DataFrames(n, gateway, source, dest) ==
    {[type |-> "data", from |-> n, to |-> m, gateway |-> gateway, source |-> source,
      dest |-> dest] : m \in Receivers(n)}

Init ==
    /\ net = [n \in Node |-> <<NewNode(n, 0, <<>>)>>]
    /\ nftable = [n \in Node |-> <<>>]
    /\ ptable = [n \in Node |-> <<>>]
    /\ codeNum = [n \in Node |-> <<>>]
    /\ pathInfo = [n \in Node |-> <<>>]
    /\ air = {}
    /\ sent = {}
    /\ lost = 0
    /\ data = 0

\* A node says what it measured. No two hellos are of the same millisecond, so
\* their number stands for the time.
LinkStateBroadcast(n) ==
    LET hello == [address |-> n, time |-> Cardinality(sent) + 1, pairs |-> net[n][1].pairs]
    IN  /\ Cardinality(sent) < MaxHellos
        /\ air' = air \cup HelloFrames(n, hello, MaxTTL)
        /\ sent' = sent \cup {hello}
        /\ UNCHANGED <<net, nftable, ptable, codeNum, pathInfo, lost, data>>

\* MyncProtocol::Recv at the receiver of frame f, whose packet has this source.
Note(f, source) ==
    /\ \E s \in Samples :
           codeNum' = [codeNum EXCEPT ![f.to] = AddCodeNum(@, f.from, s)]
    /\ pathInfo' = [pathInfo EXCEPT ![f.to] =
                        IF source = f.to THEN @ ELSE AddPathInfo(@, source, f.from)]

\* Faulty: the paths are taken over without the metrics.
UpdatePaths(n, known) ==
    /\ net' = [net EXCEPT ![n] = known]
    /\ ptable' = [ptable EXCEPT ![n] = pathInfo'[n]]

\* UpdateCodeNum, with the database that the handler has so far.
UpdateCodeNum(n, known) ==
    /\ net' = [net EXCEPT ![n] = UpdateMetrics(known, codeNum'[n])]
    /\ ptable' = [ptable EXCEPT ![n] = pathInfo'[n]]

\* Faulty: the time to live is not decremented.
ForwardForever(f) ==
    IF f.ttl > 0 THEN HelloFrames(f.to, f.hello, f.ttl) ELSE {}

\* Faulty: a hello is forwarded once less.
ForwardShort(f) ==
    IF f.ttl > 1 THEN HelloFrames(f.to, f.hello, f.ttl - 1) ELSE {}

ForwardHello(f) ==
    IF f.ttl > 0 THEN HelloFrames(f.to, f.hello, f.ttl - 1) ELSE {}

\* Receive of a hello that comes from this node.
ReceiveOwn(f) ==
    /\ f.type = "hello" /\ f.hello.address = f.to
    /\ Note(f, f.from)
    /\ air' = air \ {f}
    /\ UNCHANGED <<net, nftable, ptable, sent, lost, data>>

Receive(f) ==
    /\ f.type = "hello" /\ f.hello.address # f.to
    /\ Note(f, f.from)
    /\ UpdateCodeNum(f.to, Update(net[f.to], f.hello))
    /\ nftable' = [nftable EXCEPT ![f.to] = CalculateTable(net'[f.to], @)]
    /\ air' = (air \ {f}) \cup ForwardHello(f)
    /\ UNCHANGED <<sent, lost, data>>

\* RouteOutput of a packet that starts at n.
RouteOutput(n, dest) ==
    LET gateway == RouteOutputGateway(net[n], nftable[n], ptable[n], dest)
    IN  /\ data < MaxData /\ n # dest /\ gateway # NoGateway
        /\ air' = air \cup DataFrames(n, gateway, n, dest)
        /\ data' = data + 1
        /\ UNCHANGED <<net, nftable, ptable, codeNum, pathInfo, sent, lost>>

\* A data frame for another node is only noted, and so is one that has arrived: the
\* list routing delivers it before it asks LinkStateRouting.
Overhear(f) ==
    /\ f.type = "data" /\ (f.gateway # f.to \/ f.dest = f.to)
    /\ Note(f, f.source)
    /\ air' = air \ {f}
    /\ UNCHANGED <<net, nftable, ptable, sent, lost, data>>

RouteInput(f) ==
    LET n == f.to
        gateway == RouteInputGateway(net'[n], nftable[n], ptable'[n], f.dest)
    IN  /\ f.type = "data" /\ f.gateway = n /\ f.dest # n
        /\ Note(f, f.source)
        /\ UpdateCodeNum(n, net[n])
        /\ air' = (air \ {f}) \cup
                  IF f.source = n \/ gateway = NoGateway THEN {}
                  ELSE DataFrames(n, gateway, f.source, f.dest)
        /\ UNCHANGED <<nftable, sent, lost, data>>

Lose(f) ==
    /\ lost < MaxLost
    /\ lost' = lost + 1
    /\ air' = air \ {f}
    /\ UNCHANGED <<net, nftable, ptable, codeNum, pathInfo, sent, data>>

Arrive == \E f \in air : Receive(f) \/ ReceiveOwn(f) \/ Overhear(f) \/ RouteInput(f)

Next ==
    \/ Arrive
    \/ \E n \in Node : LinkStateBroadcast(n)
    \/ \E n, dest \in Node : RouteOutput(n, dest)
    \/ \E f \in air : Lose(f)

Spec == Init /\ [][Next]_vars

Hellos == {f \in air : f.type = "hello"}

\* A hello that is not lost arrives: weak fairness of Receive and ReceiveOwn, one
\* of which is enabled for every hello in the air.
Fairness ==
    []<>(Hellos = {}) \/ []<><<\E f \in air : Receive(f) \/ ReceiveOwn(f)>>_vars

FairSpec == Spec /\ Fairness

-----------------------------------------------------------------------------

Knows(n, m) == Search(net[n], m) # 0
Record(n, m) == net[n][Search(net[n], m)]

TypeOK ==
    /\ \A n \in Node : \A i \in DOMAIN net[n] :
           /\ net[n][i].address \in Node /\ net[n][i].time \in 0..Cardinality(sent)
           /\ \A k \in DOMAIN net[n][i].pairs :
                  /\ net[n][i].pairs[k].address \in Node
                  /\ \E s \in Samples : net[n][i].pairs[k].nf_etox \in 1..s
    /\ \A n \in Node : DOMAIN nftable[n] \cup Range(nftable[n]) \subseteq Node
    /\ \A n \in Node : DOMAIN ptable[n] \cup Range(ptable[n]) \subseteq Node
    /\ \A f \in air : <<f.from, f.to>> \in Hears

\* A node has one record of each other node, and it is what that node said at
\* that time, whatever was lost, late or forwarded in between
\* (link-state-node.cc:261-283). Of itself it keeps what it measured.
DatabaseTruthful ==
    \A n \in Node :
        /\ net[n][1].address = n /\ net[n][1].time = 0
        /\ \A i \in 2..Len(net[n]) : net[n][i] \in sent
        /\ \A i, j \in DOMAIN net[n] : net[n][i].address = net[n][j].address => i = j

\* A hello that comes late never takes a database back (link-state-node.cc:277).
NeverOlder ==
    [][\A n, m \in Node : Knows(n, m) => Knows(n, m)' /\ Record(n, m)'.time >= Record(n, m).time]_vars

\* From every entry of the NF table, also from one that an earlier calculation
\* left behind, prehops lead to a neighbor: FindSendEntry ends and finds it, and
\* RouteOutput never gets to its fatal error
\* (link-state-routing-protocol.cc:369-376 and 468-484).
SendEntriesFound ==
    \A n \in Node : \A d \in DOMAIN nftable[n] : SendEntryFound(nftable[n], d)

\* The first hops that either table gives were heard and have a metric, as the
\* assertions of RouteOutput and RouteInput say
\* (link-state-routing-protocol.cc:396-397 and 531-532).
FirstHopsHaveMetric ==
    \A n, d \in Node :
        LET measured(g) == <<g, n>> \in Hears /\ GetMetric(net[n][1].pairs, g) # 0
        IN  /\ d \in DOMAIN nftable[n] => measured(FindSendEntry(nftable[n], d))
            /\ d \in DOMAIN ptable[n] => measured(ptable[n][d])

\* The nodes that a hello of m can reach, being forwarded up to MaxTTL times.
Reach(m) ==
    LET within[k \in 0..MaxTTL + 1] ==
            IF k = 0 THEN {m}
            ELSE within[k - 1] \cup UNION {Receivers(n) : n \in within[k - 1]}
    IN  within[MaxTTL + 1]

\* Once every hello has arrived and none was lost, every node within reach has
\* the latest record of each other (link-state-routing-protocol.cc:305-311).
FloodReachesAll ==
    Hellos = {} /\ lost = 0 =>
        \A h \in sent : \A n \in Reach(h.address) \ {h.address} :
            Knows(n, h.address) /\ Record(n, h.address).time >= h.time

\* A flood comes to its end.
FloodEnds == <>[](Hellos = {})

\* Each calculation of a node's NF table is one of module NFTable: this is
\* \A n \in Node : Table(n)!Spec, in the form that TLC checks.
Table(n) == INSTANCE NFTable WITH Address <- Node, entry <- nftable[n]

ImplementsNFTable ==
    /\ \A n \in Node : Table(n)!Init
    /\ [][\A n \in Node : Table(n)!Next \/ UNCHANGED nftable[n]]_nftable

\* The chains of prehops end in every table (see NFTable).
ChainsEnd == \A n \in Node : Table(n)!ChainsEnd

=============================================================================
