------------------------------ MODULE MyncNetwork ------------------------------
(***************************************************************************)
(* Nodes that run MyncProtocol and share a wireless medium. Each step is   *)
(* one simulator event at one node: IP hands over a packet of its own, the *)
(* try timer m_try or the retransmission timer m_timer expires, hellos are *)
(* due, or the medium delivers or drops a frame.                           *)
(*                                                                         *)
(* The medium is external (ns-3 Wi-Fi). A device sends the frames of its   *)
(* MAC queue in order; every device in range on the channel hears the      *)
(* frame at the head at most once, at its own moment, or not at all. That  *)
(* covers losses, collisions, overhearing and the MAC's retransmissions.   *)
(***************************************************************************)
EXTENDS MyncProtocol

CONSTANTS
    InRange(_, _),  \* whether the second node hears the first
    Traffic,        \* the requests of the applications: [node, req] records
    HelloRounds,    \* how often the hello timer of each node may expire
    HelloIds        \* the values a hello's uninitialised packet id may have

\* IP forwards a packet as it came, and forwards no broadcast.
ASSUME TrafficAssumption ==
    /\ \A t \in Traffic : t.node \in Node /\ t.req \in Request(t.node)
    /\ \A t \in Traffic : \A n \in Node : IpForward(n, t.req.pid) # <<>> =>
          LET req == Head(IpForward(n, t.req.pid))
          IN  /\ req \in Request(n) /\ req.pid = t.req.pid
              /\ req.dest # Broadcast /\ t.req.dest # Broadcast
    /\ HelloIds \subseteq SUBSET STRING
    /\ HelloRounds \in Nat

VARIABLES
    state,      \* the state of every node
    heard,      \* for every device, the nodes that heard the head of its queue
    offered,    \* the requests already made
    hellos      \* hello rounds left for each node

vars == <<state, heard, offered, hellos>>

Init ==
    /\ state = [n \in Node |-> EmptyNode(n)]
    /\ heard = [n \in Node |-> [i \in DOMAIN Devices(n) |-> {}]]
    /\ offered = {}
    /\ hellos = [n \in Node |-> HelloRounds]

\* An assertion that fails ends the whole simulation.
Alive == \A n \in Node : Running(state[n])

Update(n, s) == state' = [state EXCEPT ![n] = s]

\* An application's packet comes down from IP through MyncDevice::Send.
Offer(t) ==
    /\ t \notin offered
    /\ offered' = offered \cup {t}
    /\ Update(t.node, EnqueueData(t.node, state[t.node], t.req))
    /\ UNCHANGED <<heard, hellos>>

TryTimer(n) ==
    /\ Update(n, TrySend(n, state[n]))
    /\ UNCHANGED <<heard, offered, hellos>>

RetransmitTimer(n) ==
    /\ state[n].timer
    /\ Update(n, Retransmit(n, state[n]))
    /\ UNCHANGED <<heard, offered, hellos>>

HelloTimer(n) ==
    /\ hellos[n] > 0
    /\ hellos' = [hellos EXCEPT ![n] = @ - 1]
    /\ \E garbage \in [DOMAIN Devices(n) -> HelloIds] :
          Update(n, SendHello(n, state[n], garbage))
    /\ UNCHANGED <<heard, offered>>

\* Device j of node m hears the frame device i of node n is sending.
Deliver(n, i, m, j) ==
    /\ state[n].mac[i] # <<>>
    /\ m # n /\ InRange(n, m) /\ m \notin heard[n][i]
    /\ Devices(n)[i].ch = Devices(m)[j].ch
    /\ Update(m, Recv(m, state[m], j, Head(state[n].mac[i])))
    /\ heard' = [heard EXCEPT ![n][i] = @ \cup {m}]
    /\ UNCHANGED <<offered, hellos>>

\* The device is done with the frame, whoever heard it.
MacDone(n, i) ==
    /\ state[n].mac[i] # <<>>
    /\ Update(n, [state[n] EXCEPT !.mac[i] = Tail(@)])
    /\ heard' = [heard EXCEPT ![n][i] = {}]
    /\ UNCHANGED <<offered, hellos>>

Next ==
    /\ Alive
    /\ \/ \E t \in Traffic : Offer(t)
       \/ \E n \in Node : TryTimer(n) \/ RetransmitTimer(n) \/ HelloTimer(n)
       \/ \E n, m \in Node : \E i \in DOMAIN Devices(n), j \in DOMAIN Devices(m) :
             Deliver(n, i, m, j)
       \/ \E n \in Node : \E i \in DOMAIN Devices(n) : MacDone(n, i)

Spec == Init /\ [][Next]_vars

\* The simulator runs timers as long as one has something to do, whichever it
\* is. This is WF_vars(\E n \in Node : TryTimer(n) \/ RetransmitTimer(n)) with
\* ENABLED spelled out, which TLC takes very long to evaluate for handlers of
\* this size: a Retransmit always changes something. What both leave unchanged
\* comes first because it is quick to see.
TimersFair ==
    \/ []<>(\A n \in Node : TrySend(n, state[n]) = state[n] /\ ~ state[n].timer)
    \/ []<><<UNCHANGED <<heard, offered, hellos>>
             /\ \E n \in Node : TryTimer(n) \/ RetransmitTimer(n)>>_vars

\* The MAC finishes with frames. Nothing makes the medium deliver.
MacFair == WF_vars(\E n \in Node : \E i \in DOMAIN Devices(n) : MacDone(n, i))

Fairness == <>~Alive \/ (TimersFair /\ MacFair)

FairSpec == Spec /\ Fairness

-----------------------------------------------------------------------------
(* The types, and what the rest is about: frames, entries and owners.        *)

Entry == [type : {"data", "hello"}, pid : SUBSET STRING, dest : Int,
          iface : Nat, retry : 0..MaxRetry, proto : {"udp", "etox", "other"}]

FramesOf(n) == UNION {ToSet(state[n].mac[i]) : i \in DOMAIN Devices(n)}

DataFramesOf(n) == {f \in FramesOf(n) : f.type = "data"}

Owner == [mac \in UNION {Macs(n) : n \in Node} |-> CHOOSE n \in Node : mac \in Macs(n)]

\* What IP handed to node n and no next hop is known to have yet.
Waiting(n) ==
    {e \in ToSet(state[n].queue) \cup ToSet(state[n].rtq) :
        e.type = "data" /\ e.dest # Broadcast}

\* Queues hold at most QueueMax entries, each id once; no entry was
\* retransmitted more than MaxRetry times; nothing is known, reported or acked
\* but ids that exist. (The two lists of a MyncProtocol, mync-queue.cc.)
TypeOK ==
    \A n \in Node :
        /\ \A q \in {state[n].queue, state[n].rtq} :
              /\ Len(q) <= QueueMax
              /\ \A i \in DOMAIN q : q[i] \in Entry /\ q[i].iface \in DOMAIN Devices(n)
              /\ IsInjective([i \in DOMAIN q |-> q[i].pid])
        /\ state[n].pool \subseteq {t.req.pid : t \in Traffic}
        /\ ToSet(state[n].recps) \subseteq state[n].pool
        /\ \A i \in DOMAIN Devices(n) : heard[n][i] \subseteq Node \ {n}
        /\ offered \subseteq Traffic /\ hellos[n] \in 0..HelloRounds

-----------------------------------------------------------------------------
(* Safety                                                                    *)

\* The ids of the unicast entries that go to an address of the neighbor at k.
WaitingFor(s, k) ==
    {s.queue[i].pid : i \in {j \in DOMAIN s.queue :
        /\ s.queue[j].type = "data" /\ s.queue[j].dest # Broadcast
        /\ SearchMac(s.nbrs, s.queue[j].dest) = k}}

\* The virtual queue of a neighbor lists exactly the unicast entries of the
\* output queue that go to one of its addresses, each once, through sends,
\* coding, retransmissions, entries put back and merged neighbors. A pointer
\* left behind is the dangling pointer that Encode follows
\* (mync-neighbor.cc:107-174, mync-protocol.cc:341-352, 858-875).
VirtualQueueMirrorsQueue ==
    Alive => \A n \in Node : \A k \in DOMAIN state[n].nbrs :
        /\ IsInjective(state[n].nbrs[k].vq)
        /\ ToSet(state[n].nbrs[k].vq) = WaitingFor(state[n], k)

\* The same ids in the order of the output queue.
EntriesFor(s, k) ==
    LET mine == SelectSeq(s.queue, LAMBDA e :
                    /\ e.type = "data" /\ e.dest # Broadcast
                    /\ SearchMac(s.nbrs, e.dest) = k)
    IN  [i \in DOMAIN mine |-> mine[i].pid]

\* With one radio per node neighbors never merge, and the virtual queue is in
\* the order of the output queue: a coded frame takes the oldest packet of
\* each neighbor.
VirtualQueueInOrder ==
    Alive => \A n \in Node : \A k \in DOMAIN state[n].nbrs :
        state[n].nbrs[k].vq = EntriesFor(state[n], k)

\* No address is filed under two neighbors: SearchMac and SearchIp take the
\* first one, and what waits in the virtual queue of the other is never found.
NeighborsDisjoint ==
    \A n \in Node : \A k, l \in DOMAIN state[n].nbrs :
        k # l => ~ ShareAddress(state[n].nbrs[k], state[n].nbrs[l])

\* What a node believes another one to have, that one has: beliefs come from
\* acks, reception reports and overheard frames that are lost, delayed and
\* overtaken (mync-protocol.cc:535-571, 626-628).
KnowledgeTruthful ==
    \A n \in Node : \A known \in state[n].info : known[1] \in state[Owner[known[2]]].pool

\* Every next hop of a coded frame can decode it when it arrives, however old
\* the beliefs it was coded on: it has every other native (Encode's tests at
\* mync-protocol.cc:794-824 against Decode at 668-713).
CodedFrameDecodable ==
    \A n \in Node : \A f \in DataFramesOf(n) : \A mine, other \in f.ids :
        other # mine => other.pid \in state[Owner[mine.mac]].pool

\* What IP may ask node n to send: a packet of its applications, or one that it
\* forwards.
Asking(n) ==
    {t.req : t \in {u \in Traffic : u.node = n}}
    \cup {Head(IpForward(n, t.req.pid)) : t \in {u \in Traffic : IpForward(n, u.req.pid) # <<>>}}

\* A native of a UDP application leads a frame to the address of its own next
\* hop, one of an ETOX message to that of the first neighbor, whatever the next
\* hops of the other natives are (mync-protocol.cc:325-331).
Led(n, ids, dst) ==
    \E req \in Asking(n) :
        /\ req.pid \in {id.pid : id \in ids}
        /\ req.proto = "etox" \/ (req.proto = "udp" /\ dst = req.dest)

\* The natives that the device with the address mac does not hand up because the
\* frame f of node m was led to another address (mync-device.cc:417-425).
LedAway(m, f, mac) == IF f.dst # mac /\ Led(m, f.ids, f.dst) THEN Natives(f) ELSE {}

Acks(n) == ToSet(state[n].acks) \cup UNION {f.acks : f \in DataFramesOf(n)}

\* What node n acks from now on it hands to IP in this event, or it came in a
\* frame that was led away from the device that heard it.
AcksDelivered(n) ==
    \A ack \in Acks(n)' \ Acks(n) :
        \/ ack.pid \in state'[n].up
        \/ \E m \in Node : \E i \in DOMAIN Devices(m), j \in DOMAIN Devices(n) :
              /\ Deliver(m, i, n, j)
              /\ ack.pid \in LedAway(m, Head(state[m].mac[i]), Devices(n)[j].mac)

\* When a node acks a native, now or with a later frame, it hands it to IP in the
\* same event (mync-protocol.cc:610-614), with one exception: a native that
\* came in a frame led to another address by a UDP packet or an ETOX message
\* is acked, its sender forgets it, and IP never gets it (mync-protocol.cc:325-331).
AckMeansDelivered == [][\A n \in Node : AcksDelivered(n)]_vars

\* As long as a coded native waits for its ack the retransmission timer runs,
\* so the native is either acked or sent again (mync-protocol.cc:472-478, 715-733).
UnackedIsTimed ==
    Alive => \A n \in Node : state[n].rtq # <<>> => state[n].timer

\* A unicast packet leaves the queues of a node for five reasons only: it is
\* transmitted on its own, where the MAC retransmits it; it is coded for the
\* last time; it is coded while the retransmission queue is full, which Encode
\* does not notice; its next hop has it; or it came back from the
\* retransmission queue to a full output queue (mync-protocol.cc:344-350,
\* 535-548, 715-733, 858-882).
NothingVanishes ==
    [][Alive' => \A n \in Node : \A e \in Waiting(n) :
           \/ e.pid \in {later.pid : later \in Waiting(n)'}
           \/ \E f \in DataFramesOf(n)' \ DataFramesOf(n) :
                 /\ e.pid \in Natives(f)
                 /\ \/ Cardinality(f.ids) = 1
                    \/ e.retry = MaxRetry
                    \/ e.retry + 1 = MaxRetry /\ e \in ToSet(state[n].rtq)
                    \/ Len(state'[n].rtq) = QueueMax
           \/ e.pid \in state'[Owner[e.dest]].pool
           \/ e \in ToSet(state[n].rtq) /\ Len(state[n].queue) = QueueMax]_vars

-----------------------------------------------------------------------------
(* What the code says of itself                                              *)

\* The comment on Decode (mync-protocol.cc:669) says that it returns 0 when
\* the node has every packet of a coded frame.
DecodeIsZeroWhenComplete ==
    \A n, m \in Node : \A i \in DOMAIN Devices(n) :
        /\ state[n].mac[i] # <<>> /\ Head(state[n].mac[i]).type = "data"
        /\ m # n /\ InRange(n, m) /\ m \notin heard[n][i]
        /\ Cardinality(Head(state[n].mac[i]).ids) > 1
        /\ MissingNatives(state[m], Head(state[n].mac[i])) = {}
        => Decode(state[m], Head(state[n].mac[i])) = 0

\* Recv asserts pid == Hash(packet) of what a next hop decodes (line 608): the
\* frame without all the other natives is the native of that next hop.
DecodedIsNative ==
    \A n \in Node : \A f \in DataFramesOf(n) : ~ IsBroadcast(f) =>
        \A id \in f.ids : FoldSet(XOR, f.pkt, Natives(f) \ {id.pid}) = id.pid

\* MyncNeighbor::Index ends the program with "I think we should be able to
\* index" (mync-neighbor.cc:628): a neighbor is only asked for a channel it has.
NeighborIsIndexable ==
    \A n \in Node : state[n].abort # "I think we should be able to index"

-----------------------------------------------------------------------------
(* Liveness                                                                  *)

Drained(n) == state[n].queue = <<>> /\ state[n].rtq = <<>> /\ FramesOf(n) = {}

\* Once the applications stop, every queue drains even if the medium loses
\* every frame: retransmissions end (mync-queue.cc:401-413).
EventuallyDrained == <>[](\A n \in Node : Drained(n))

=============================================================================
