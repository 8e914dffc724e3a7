# A TLA+ verification of ns3-ETOX

ETOX is a coding-aware routing protocol for wireless multi-hop networks, written
as four directories for ns-3.17. The simulator runs one event at a time, so a
node has no threads; what is hard here is the order of events at different
nodes, the medium that loses and delays frames, timers that race with answers,
and handlers that call each other from the inside.

## The system

| part | source | state | operations | talks to |
|---|---|---|---|---|
| coding protocol | `mync/model/mync-protocol.cc` | queue, retransmission queue, pool, acks, reports, three timers | `Enqueue`, `TrySend`, `DoSend`, `Encode`, `Recv`, `Decode`, `Retransmit`, `SendHello` | IP above (through the virtual device, which may call back into `Enqueue`), Wi-Fi devices below |
| queues | `mync/model/mync-queue.cc` | entries in order, at most 800, each id once | two enqueues, `Dequeue`, `Erase`, `HitMax`, `Retry` | the protocol |
| neighbor table | `mync/model/mync-neighbor.cc` | neighbors with (IP, MAC, channel) trinities and a virtual queue of pointers into the output queue | `NeighborLearn`, `SMNeighbors`, `SearchMac`, virtual queue operations | the protocol |
| knowledge | `mync-packet-info.cc`, `mync-packet-pool.cc` | which neighbor has which packet; packets this node has | `GetItem`, `SetItem`, pool | `Encode`, `Decode` |
| headers, hash | `mync-header.cc`, `mync-hash.cc` | none | what a frame says; id of a packet | the protocol |
| virtual device | `mync/model/mync-device.cc` | addresses, interface | `Send`, `ForwardUp`, `ForwardDown`, `ReceiveFromDevice` | IP, protocol, Wi-Fi |
| code numbers | `mync/model/mync-codenum.cc` | samples per neighbor, last hop per source | `AddCodeNum`, `AddPathInfo` | written by `Recv`, read by the routing |
| routing | `etox/model/link-state-routing-protocol.cc` | NF table, path table, own record | `LinkStateBroadcast`, `Receive`, `ForwardHello`, `RouteInput`, `RouteOutput`, `UpdateCodeNum`, `CalculateTable` | UDP, IP, `CodeNum` of the node's protocol |
| database | `etox/model/link-state-node.cc` | a record per node: time and metrics | `Update`, `Search`, `AddMetric` | the routing |
| shortest paths | `etox/model/Dijkstra.cc`, `BHeap.cc` | distances, prehops, heap | `Calculate`, `Relax`, `ExtractMin`, `Rebuild` | `CalculateTable` |
| ratio counters | `TxRatio/model/txratio.cc` | sends and acks per address | `AddSendTo`, `AddAckFrom` | MAC and protocol |
| MAC, frames | `wifi/model/mac-low.cc` | packet in transmission, its header and parameters, six events, NAV | `StartTransmission`, `ReceiveOk`, `CtsTimeout`, `NormalAckTimeout`, `CancelAllEvents` | PHY below, `DcaTxop` above, TxRatio |
| MAC, packets | `wifi/model/dca-txop.cc` | queue, current packet, fragment number, retry bit, request | `Queue`, `NotifyAccessGranted`, `GotAck`, `MissedAck`, `MissedCts`, `StartNext` | `MacLow`, the DcfManager |

What makes each part correct, and what a test would hardly reach:

- **Coding protocol.** Every next hop of a coded frame can decode it although the
  frame was built on old, partly lost knowledge. No packet is lost between the
  two queues. Acks are true. Whatever waits for an ack is timed, and
  retransmissions end. None of the assertions fails.
- **Neighbor table.** The virtual queues mirror the output queue (a pointer left
  behind dangles), and an address belongs to one neighbor, whatever order data
  frames and hellos of several radios come in.
- **Routing.** Databases hold what was said and never go back, floods reach
  everybody and end without duplicate suppression, following prehops ends (the
  loop has no other exit), and first hops have a metric.
- **MAC.** Whatever frame is lost, late or cut off by a channel switch: no timer is
  left that calls into nothing, a fragment goes out again only with its retry
  bit set, what is reported as transmitted has arrived, every ack counted for
  the ratio was paid for by a send, and every packet leaves in the end.
- **Shortest paths.** Prehops form a tree at every moment, also with weights of
  zero and although the heap has a defect.

`PROJECT.json` lists the components and the hazards with their lines.

## The modules

```
MyncQueue  MyncNeighbor
      \      /
    MyncProtocol          one node: an operator per handler
         |
    MyncNetwork           nodes, timers and the medium; safety, liveness
         |
    MyncRefinement  ---implements--->  Coding  <--- CodingProofs
         |
    MyncInvariant         what is proved of it
         |
     MyncProofs

    Dijkstra              heap and algorithm, as operators
      |      \
      |    LinkStateNode
      |      |       \
      |      |     LinkState        ---implements--->  NFTable
      |      |             \
      |  LinkStateNodeProofs \
      |     |          \      \
      |     |         LinkStateProofs
      |     |
 ShortestPath             ---implements--->  Relaxation  <--- RelaxationProofs
      |     |                                                       |
 ShortestPathProofs  -----------------------------------------------+

    TxRatio               the counters
       |
     MacLow               sending frames
       |
    DcaTxop               packets, fragments, retries
       |
   MacStation             receiving and timeouts, which call the DcaTxop
       |
   MacNetwork  ---implements--->  Link  <--- LinkProofs
       |                                         |
   MacProofs  -----------------------------------+
```

**MyncQueue, MyncNeighbor, MyncProtocol.** The state of a node is a record, a
handler is an operator from record to record, and a handler that calls another
applies its operator. So `Recv` contains the `ForwardUp`, the packet that IP
forwards from inside it, and the `TrySend` at its end. A failed `NS_ASSERT` or
`NS_FATAL_ERROR` sets `abort`.

**MyncNetwork.** One action per simulator event: `Offer` (an application's packet
comes down from IP), `TryTimer`, `RetransmitTimer`, `HelloTimer`, `Deliver`,
`MacDone`.

**Coding.** What the layer promises: nodes hold natives, believe others to hold
some, and send only frames that their beliefs justify. `MyncRefinement` maps the
pool to `holds`, `m_packetInfo` to `knows` and the device queues to `air`; TLC
checks each event against one step of Coding, and `MyncProofs` proves that it is
one.

**Dijkstra, ShortestPath, Relaxation.** The heap and the relaxation as the code has
them; the loop one edge at a time; and the algorithm without an order of the
edges, which is all the prehop tree needs.

**LinkStateNode, LinkState, NFTable.** Database and tables of one node; the
network of nodes; and the NF table as what a calculation does to it. It is
never cleared, so entries of older calculations stay.

**TxRatio, MacLow, DcaTxop, MacStation.** One station of the MAC is a record with the
fields of `MacLow` and of its `DcaTxop`. `MacLow` has what a station sends
(`StartTransmission` with `CancelAllEvents` and the count for the ratio, RTS, data,
and the answers a SIFS later), `DcaTxop` the handlers of the listener, and `MacStation`
what calls them: an operator for each branch of `ReceiveOk`, the two timeouts,
the end of a transmission and the channel switch. A call to a listener that is
not there, or about a packet that is gone, sets `abort`, as a failed `NS_ASSERT`
does (among them those of `txratio.cc` and `NS_ASSERT (m_phy->IsStateTx ())`).

**MacNetwork.** One action per event of the simulator: `Offer` (a packet is queued),
`Grant` (the DcfManager gives access), `TxEnd` (a frame ends, and with it its
reception by some of those who hear it), the events a SIFS after a frame
(`SendCts`, `SendAck`, `SendData`, `NextFragment`), the timeouts, the end of the
NAV, and `SwitchChannel`. `MayEnd` says what the medium guarantees: a frame takes
longer than a SIFS, so an answer that is due a SIFS after an earlier frame has
gone out before the frame of its addressee, or of whoever is heard, ends.

**Link.** What the MAC promises: packets leave in order, a packet is tried fragment
by fragment, is reported as transmitted when all of them arrived, and an ack is
counted only for an attempt that is under way. `MacNetwork` maps the current
packet and the queue to `todo`, the fragment number to `next`, and the three
ways in which an attempt is open (RTS sent, CTS received, data sent) to
`waiting`; TLC checks each event against one step of Link, and `MacProofs`
proves that it is one.

### What the models leave out

- A packet's id stands for its contents: `Hash` is taken to be injective. It
  covers everything but the IP header. The contents are the set of native packets
  that were XORed, so `XOR` is the symmetric difference; that it cuts trailing
  zeros is not modelled. `Decode` returns -1, -2 or "a positive missing id",
  which 1 stands for.
- A hello's packet id is never initialised in the code; `HelloIds` gives the
  values it may have, the ids of data packets among them.
- In `MyncProtocol`: time stamps, `m_codeNum`, `m_originalTimes` and `m_txRatio`,
  which feed the routing metric only; `m_isSending`, always false when `TrySend`
  starts; `m_maxReports`, which nothing reads.
- In the mync networks the medium is external. A device sends its queue in order,
  and each device in range hears the head at most once, when it likes, or never.
  That is coarser than `MacNetwork`: the upper layers see a repeat only when an ack
  was lost, and `MacRxMiddle`, which is not in the repository, drops it.
  The queue limit of the device counts the frame in transmission. `IpForward` is
  what IP does with a packet that is not for its node.
- In `LinkState`: the neighbor flag and its timer, which only the unused
  `GetNeighbors` reads; the columns of the tables that are constant; `TxRatio`,
  which no program installs (`RTX` is then 0 and drops out). The number of a
  hello stands for its millisecond, so no two are of the same one. Equal frames
  in the air are one. A node has one interface. `scratch/etox-mync.cc` uses an
  `Ipv4ListRouting`, which delivers locally before it asks `LinkStateRouting`, so
  `RouteInput` is for data that goes on, and a data frame that has arrived is only
  noted (`Overhear`). No frame is coded there: of a coded one the code notes the last
  hop when it was decoded, not with every frame. The TTL of data is not modelled.
- In the MAC: QoS and block acks (a `DcaTxop` has neither), fast and super fast acks
  (it does not ask for them), promiscuous mode, signal strengths and the station
  manager except for its two retry counts, durations, the contention window and
  the backoff. The NAV may end at any time, which covers what
  `NavCounterResetCtsMissed` and `DoNavResetNow` make of it. The repository's MAC
  is a few files of ns-3.17; PHY, DcfManager and WifiMac are external. A station
  hears a frame if it neither sends nor hears another one when it starts. The
  timeouts, which WifiMac sets, are taken to be long enough for a SIFS and the
  answer, so nobody times out while an answer is on its way. The PHY puts a
  channel switch off until its frame has ended.
  The pid of a packet stands for its contents, source and sequence number; that
  the number has 12 bits and comes round is left out.
- `MyncProtocol` counts on the `TxRatio` as well, if it has one; only the MAC's calls
  are modelled.
- Samples are in nanoseconds per byte, so a metric is never 0; the confidence is
  0.8, so the new metric is (8 sample + 2 old) / 10 cut to an integer.
- 64-bit overflow of path costs, and the heap's `Insert`, `Decrease`, `Minimum`,
  which nobody calls.

Definitions marked `Faulty` are not part of the models: each is an operator with
one plausible mistake, kept next to the one it spoils, and the `mutants` of
`PROJECT.json` say which property notices it.

## The runs

`tlc -config <cfg> <module>`.

| run | config | distinct states | shows |
|---|---|---|---|
| relay | MCRelay.cfg | 219,954 | two end nodes and a relay that codes UDP and other packets: no assertion fails, knowledge is true, coded frames decodable, what is acked is delivered (with one exception), retransmissions timed, packets vanish for five reasons only, implements Coding; every queue drains although the medium may lose everything |
| mac | MCMac.cfg | 341,179 | three stations: no assertion of MAC or TxRatio fails, repeats are marked, ratios stay below one, implements Link; every packet leaves although the medium may lose everything |
| radios | MCRadios.cfg | 306,371 | two radios per node, hellos and data in every order: virtual queues mirror the output queue, neighbors are disjoint |
| coding | MCCoding.cfg | 587,397 | the abstract layer, three nodes and two packets |
| shortest_path | MCShortestPath.cfg | 378,334 | every graph of up to five links on five nodes |
| relaxation | MCRelaxation.cfg | 247,617 | every directed graph on four nodes, any order of edges |
| link_state | MCLinkState.cfg | 143,551 | three nodes in a line, three hellos or two and a data packet, one loss: databases true and never older, floods arrive and end, first hops have a metric |
| link_table | MCLinkTable.cfg | 196,380 | five nodes, a hello of each but the first: every table entry leads to a neighbor, no circles, calculations are those of NFTable |
| relay_decode | MCRelayDecode.cfg | violation | `Decode` returns -2, not the 0 of its comment |
| two_channels | MCTwoChannels.cfg | violation | `Encode` asks for a channel the neighbor lacks |
| three_natives | MCStar.cfg | violation | a frame of three natives contains two |
| min_heap | MCMinHeap.cfg | violation | the heap hands out a node that is not the nearest |

**Bounds.** `MCRelay` has two schedules. In `AnyOrder` there is one native in each
direction and one of the relay itself, offered, lost, delayed and overtaken in any
order: enough for a coded frame, a plain frame that waits, a lost ack, a
retransmission and its end. In `QueuesFill` a broadcast and three natives come in
a fixed order: four packets at a node whose queues hold two. Frames of the end nodes
reach the relay at once; what the relay sends before the last packet is lost, and
what it sends after that may be. In any order four packets are too many states. `TimersOfEndsLast` leaves out the expiry of a
retransmission timer at an end node, which has nothing to send again, except at
the end. Packets of both kinds cross: those of UDP lead a frame to their own next
hop. `QueueMax` is 2 (800), so that the output queue refuses entries that come back
from the retransmission queue, and the retransmission queue those that were
coded; without either of these two reasons TLC refutes `NothingVanishes`. `MaxRetry` is
2 (the code has 3), so that there is a retransmission that is not the last one.
`MacMax` is 1 (10), so that a device is busy with one frame and entries are put back. Two radios per
node are the least for which neighbors merge, and one hello round lets hellos
come before, between and after data. Five nodes are the least for which a stale
slot of the heap loses a node, and up to five links keep every tree, every
single cycle and every order in which it is found. In `link_state` one forward
(`MaxTTL` 1) crosses the line, three hellos let two of one node overtake each
other, and a loss leaves a gap. Three packets in all may also be two hellos and
then a data packet from one end to the other, which the node in the middle forwards:
the first hops of the NF table and of the path table are then not the destination.
In `link_table` each link goes one way. The first node hears n4 and n2 directly, n1
over n4, and n3 over n1 and n4, so chains have up to three hops. A calculation in
which the heap loses n3 (see `min_heap`) leaves the entry of an older one for it, in
front of a chain that the new one has written. `MaxTTL` 2 carries every hello to
the first node, and nothing is lost there, but hellos come in any order. In `mac` the stations are a line: the ends do not sense each other, so
a frame of one collides at the middle with an answer to the other. One packet
goes in two fragments behind an RTS, the least with a fragment that is not the
last; one without RTS goes the other way, so that acks and data for both
stations are on the air in one exchange; and one for the group waits behind the
first, so that a handler of the next packet runs after each way a packet can
end. `MaxSsrc` and `MaxSlrc` are 2 (7): the first attempt is repeated and the second
is the last. Two stations may switch the channel once, at any moment.

**Deadlock.** The mync networks never stop (the try timer always runs), so
deadlock is checked there. A calculation ends, and the LinkState networks run out of
hellos and packets, as do the stations of the MAC: there it is off.

**Fairness.** The simulator runs every event that is scheduled. The models
assume less: in MyncNetwork the timers of all nodes together and the MACs of all
nodes together are weakly fair (`TimersFair`, `MacFair`), and in MacNetwork the
simulator as a whole is: as long as an event of some station is due, one takes
place. No single event is fair, nor any delivery: nothing makes the medium
deliver. In LinkState a hello that is not lost arrives (`FairSpec`). Where a
handler of some size is fair, the formula has its guards in place of `ENABLED`,
which TLC takes very long to evaluate there.

### What holds only in part

`AckMeansDelivered` has an exception, which it states. A UDP packet is addressed to the
MAC of its own next hop *before* natives are coded into it, and an ETOX message to that
of the first neighbor (`mync-protocol.cc:305-333`). The other next hop then acks its
native, and `MyncDevice::ForwardUp` drops it as a frame for another host
(`mync-device.cc:417-425`): the sender forgets a packet that IP never gets. The
property says that this is the only way: when a node acks a native it hands it to IP
in the same event, or the native came in a frame that was led away from the device
that heard it. The traffic of `scratch/etox-mync.cc` is UDP, and the case occurs in
`relay`: without the exception TLC refutes the property. No comment, assertion or test
speaks of it, so it is listed as a hazard and not as a finding.

`NothingVanishes` names five reasons for which a unicast packet leaves the queues of a
node. Two of them may lose it without anybody noticing: `Encode` ignores that the
retransmission queue is full (`mync-protocol.cc:866` and `881`), so what it coded is
sent once and never again, and `Retransmit` drops what the output queue does not take.

Distances of `ShortestPath` are not always shortest (see `min_heap`), and a
connected node may get no route: with links 0-4, 0-1, 4-2 and 2-3 node 3 stays
unreached when node 0 lists 4 before 1. The prehop tree survives, because it
needs no order of extraction; that is what `Relaxation` isolates.

`VirtualQueueInOrder` is only claimed for one radio per node; merged neighbors
append one virtual queue to the other. `Alive` and `VirtualQueueMirrorsQueue` hold of
networks whose radios and routes are as `QueuesMirrored` and `NeverAborts` say (below).

## The proofs

`tlapm` on `CodingProofs.tla`, `RelaxationProofs.tla`, `LinkStateNodeProofs.tla` (two
minutes), `ShortestPathProofs.tla`, `LinkStateProofs.tla` (two), `LinkProofs.tla`,
`MacProofs.tla` (six) and `MyncProofs.tla` (sixteen; the others one or less). All hold for every
value of the constants, under the `ASSUME`s of the modules they extend.

- **CodingProofs.** `FramesDecodable` is not inductive: a frame stays decodable because it
  was legal by what its sender believes *now*, and because beliefs are true.
  The invariant is `TypeOK`, `KnowledgeTruthful` and `FramesLegal`; holdings and
  beliefs only grow (`EventGrows`), so a legal frame stays legal (`LegalStable`), a
  report in a legal frame is true (`LegalReports`), and a legal frame whose
  beliefs are true is decodable (`LegalDecodable`). Theorems: `TypeCorrect`,
  `Truthful`, `StaysLegal`, `EveryNextHopDecodes`.
- **RelaxationProofs.** The invariant is `TypeOK`, `SourceIsRoot`, `PrehopIsNearer` and
  `NoPrehopCycle`. A step lowers one distance; the node that gets the new prehop
  was farther than that prehop. With weights of zero distances alone do not
  exclude circles, so the last part speaks of sets: a set that contained the
  prehops of all its members would, without the node just relaxed, have been one
  before. Theorems: `TypeCorrect`, `RootStays`, `PrehopsNearer`, `PrehopsEnd`.
- **LinkStateNodeProofs.** Lemmas about the operators of Dijkstra and LinkStateNode, which
  both modules below use. A handler that `ExtractMin` left stale makes `Relax` write a
  distance into the slot of another node, so neither the order of the slots nor what
  they hold follows from the handlers. What does hold: `SwapOk`, the nodes of the heap are
  only reordered, each in one slot; `SiftDownOk`, a level of `Heapify` moves the one place
  out of order downwards, and after as many levels as there are slots it is past the
  leaves (`Sifted`); `RebuildOk`, from the middle to the root this makes a heap of *any*
  slots, so `Rebuild` repairs what a stale handler wrote. `CalculateOk` carries the tree of
  prehops through the whole of `Calculate`, and `CalculateTableOk` turns it into table
  entries: those written are of the nodes reached, lead only to such nodes, and end
  at addresses among the node's own pairs. `ForestGrows` is why a table that is never
  cleared keeps that: a set of entries that meets the new tree leads out of itself
  or to its end inside the tree, and any other set is as before. `FindSendEntryOk` says
  that the loop of `FindSendEntry`, in as many turns as there are entries, comes to such
  an end: a chain that did not would visit more nodes than there are (`ChainEnds`).
- **ShortestPathProofs.** The algorithm of the code, one edge at a time. The nodes of the
  heap are those not visited, each in one slot, and each step is one of Relaxation or
  changes neither distance nor prehop. `PrehopsLead` carries `PrehopsEnd` over, and turns it
  into a bound with the pigeonhole principle: a path of more hops than nodes would
  contain a circle. That the minimum is nearest is not provable, being false
  (`min_heap`). Assumption: `ShortestPathAssumption`, node 0 is always there (`m_self`) and
  lists name nodes that are. Theorems: `Invariance`, `TypeCorrect`, `NodesOnce`,
  `HeapFormed`, `CalculateImplementsRelaxation`, `PrehopsLead`.
- **LinkStateProofs.** The network, for any topology, samples, loss and delay, in three parts.
  - `Inv`: `NeverOlder` is only true because a database holds no node twice, so `Search`
    finds the record that `Update` changed (`SearchFinds`, `NewerKeeps`). The invariant
    says this of every database, that its records are hellos which were sent, and
    that so are the hellos in the air, from which databases are filled. Here neither
    metrics nor tables are expanded: whatever they do, they touch only what a node
    holds of itself. Theorems: `Truthful`, `NeverBack`.
  - `TableInv`: that a route of either table starts at a neighbor with a metric relates
    five variables. A last hop is noted together with a sample of its sender
    (`Noted`), every sample becomes a metric (`MeasureOk`) and metrics are never
    dropped, so the path table, a copy of the last hops, names measured neighbors
    (`Paths`); the NF table is a forest whose ends were neighbors when they were
    written, and neighbors stay (`Routes`). That metrics are never 0, which
    `GetMetric` returns for "none", is arithmetic: `SmoothOk` needs samples of at
    least 2, since 8 * 1 \div 10 = 0 (`LinkStateAssumption`; samples are nanoseconds per
    byte). Theorems: `Invariance`, `TypeCorrect`, `SendEntries`, `ChainsAlwaysEnd`,
    `FirstHops`, and `ImplementsTable`, the refinement of NFTable. `TableChainsEnd` is
    about NFTable alone: its steps suffice for `ChainsEnd`, however they are made.
  - `FloodInv`: while no frame is lost, on each way from the origin of a hello that its time to
    live allows and that does not come back to the origin, either the end of the way
    has the hello (or a later one) or a copy of it is in the air somewhere on the
    way, with the time to live that is left there (`WayFrame`). A step that takes the copy
    from the air is its reception, which leaves it in the database (`UpdateTells`,
    `ReceiveTells`) and sends it one hop on, although the receiver knew it already:
    `ForwardHello` forwards every hello, and a version that dropped known ones would
    break the invariant. Theorem: `FloodReaches`.
- **MacProofs.** `RatioNeverAboveOne` is not inductive: an ack that comes while nothing
  was paid would break it. The invariant `Sane` says of every station that an
  attempt is open in at most one of three ways (CTS awaited, data due, ack
  awaited), and that acks *and* the open attempt are no more than the sends. It is
  proved of the detailed model itself: one lemma for each handler that touches
  the counters or the attempt, one for all that touch neither. Theorems:
  `AttemptsPaid`, `RatioBounded`. The second part of the module has no theorem of its
  own: it says what each handler makes of a station (`Keeps`), and that each
  preserves `Local`, what holds of a station between two events.

  The third part is about all stations. For any topology, traffic, loss and retry
  limits the assertions of the MAC hold (`AssertionsHold`), a fragment that arrived
  is repeated only with the retry bit (`DuplicatesMarked`), and each step is one of
  Link (`MacImplementsLink`), so that what is proved of Link is true of it: a packet
  reported as transmitted has arrived as a whole (`OkIsTrue`).
  None of this is inductive. An ack names neither packet nor fragment: whoever
  waits takes it for its own. `Answers` says why that is right. An ack that is
  due or on the air, and that its receiver can still hear, is from the
  destination of the fragment that waits, which has it; an ack for an earlier
  attempt was either in time or is no longer heard, because who begins to send
  stops hearing. `Fresh` says that nothing arrived of what was not sent to its
  end: it needs that a pid belongs to one packet and that a packet is at one
  place (`OnePlace`). `Local` says of each station that the exchange is about the
  fragment it has, that at most one answer is due, and then nothing is on the
  air (`OneDue`), and which timer runs with which frame (`Frame`). TLC checked the
  conjunction on the instance of `mac` before it was proved. The proof needs two
  things of the environment that the instance alone did not show: the second
  half of `MayEnd`, without which a station could hear the ack of a frame whose
  end is still to come, and `PidAssumption`. Theorems: `LinkInvariant`,
  `AssertionsHold`, `TypeCorrect`, `DuplicatesMarked`, `MacImplementsLink`, `OkIsTrue`.
- **LinkProofs.** That a packet reported as transmitted has arrived needs to know that
  the fragments counted so far have arrived (`CountedArrived`), and that a station
  without packets has counted nothing (`IdleIsClean`), or the count of one packet
  would be taken for the next. Steps that end an attempt share two lemmas
  (`EndKeepsCount`, `EndPays`). Theorems: `OkIsTrue`, `AttemptsSuffice`.
- **MyncProofs.** The coding protocol itself, for any nodes, devices, traffic and
  medium; its predicates are those of `MyncInvariant`. Nothing that the runs check of it is inductive: a frame can be decoded
  because of beliefs, beliefs come from frames, both go through the neighbor
  table, and the table is only right because virtual queues, output queue and
  retransmission queue agree. `Inv` says of every node that it is `Sound`: queues
  hold each id once, ids of the pool, with devices and addresses that exist; each
  row of the table is of one node, no address is in two rows, no id in two virtual
  queues, and each virtual queue points to entries for that node (`Table`); and
  what waits in a device could be sent on the beliefs that the node has
  (`Sendable`), which are never taken back. `Sound` is stated for a set `V` that
  includes the pool: in `Recv` the packet goes up, IP forwards it, it is enqueued
  and `TrySend` may send it, all before `NoteReception` pools what was received.
  A lemma for each operator says that it is `Fine` (it ends in a failed assertion
  or in a sound state) and what it `Moves` (pool, beliefs and frames only grow);
  `NextIs` says so of each step, and everything else is proved from `NextIs`.
  - `Invariance`, `UnackedTimed`, `AddressesApart` and `PointersLive` need nothing more.
    `PointersLive` is the half of `VirtualQueueMirrorsQueue` without which `Encode`
    would follow a dangling pointer; it holds for any radios and routes.
  - `AcksTrue` is `AckMeansDelivered` with no condition on traffic or run. It is an action
    property: what a node acks, in `m_ackBlockList` or in a frame in its devices, is new
    only when it was just received (`Gained`; `AckGained` says so of each handler on the
    way), since all other handlers move acks and add none. `RecvEncoded` queues the
    ack before the packet goes up, and `ForwardUp` drops what is addressed to another
    host; that such a frame was led away follows from what is `Sendable`: a frame of
    several natives goes to the group address, or to the next hop of a UDP packet in
    it, or holds an ETOX message (`AddrOk`), where packets and next hops are what IP
    asked for (`Requested`), also when entries are put back or sent again.
  - `BeliefsTrue` and `NextHopsDecode` are proved for runs in which no frame holds
    more than two natives (`CodedInPairs`) until an assertion fails. The condition is
    not for the proof's sake: the third native makes `Encode` send the XOR of the
    first and the last (`three_natives`), so a next hop pools a packet under an id it
    never had. `PairsOnly` turns it into one on the network: a frame has at most one
    native for each next hop (`AddIdNexthop`), so it holds where no node sends to more
    than two (`TwoNextHops`), as at a relay with two ends or in a chain.
    `AssertionSuffices` has the weaker condition `DecodedIsNative` instead, the
    assertion of `Recv`: as long as it holds, frames may hold any number of natives.
  - `TypeCorrect` has that condition as well, since the ids a node pools are those
    it decodes; and `ProtocolImplementsCoding` also assumes that no assertion fails
    (`Alive`), since a node that failed has stopped in the middle of a handler and
    Coding has no such step.
  - `QueuesMirrored` and `TablesNeverFail` are the other half of the virtual queues:
    that *every* unicast entry is in the virtual queue of its next hop, and that the
    next hop of every coded native is still a neighbor. Such an entry is found again by
    its MAC address only, so no address may be lost while it waits. `AddTrinity`
    replaces the trinity of a channel (`mync-neighbor.cc:424`), so the theorems assume
    `RadiosApart` (no node has two radios on one channel) and `RoutesOnLink` (IP sends by a
    device on the channel of its next hop). Then every trinity in the table, from
    hellos, data frames or routes, names the one radio its owner has on that channel
    (`Trinity`), what replaces a trinity has the same MAC, and no address goes. `Filed` says so of
    one node; each handler `Goes`, it keeps `Filed` or ends in an assertion that may fail.
    Those are `MayFail`: the two of `Recv` on what it decodes, and `"I think we should be
    able to index"`. The conditions hold of `relay` and of `radios`.
  - `NeverAborts` is `Alive`. What is left of `MayFail` is excluded by `OneChannel` (the
    channel lost in `two_channels`) and by `CodedInPairs` (`three_natives`), so both
    conditions are those the two findings show to be needed. With `OneChannel` routes
    are on their link (`OneChannelRoutes`). Decoding and the invariant lean on each
    other: as long as beliefs are true, frames can be decoded (`NextHopsDecode`), hence
    `Recv` does not abort, hence what waits stays filed.
  - `RelayNeverAborts`, `RelaySafe` and `RelayImplementsCoding` put this together: where
    nodes have one radio each on one channel and send to at most two next hops, no
    assertion fails, types are kept, beliefs are true, frames can be decoded and every
    event is a step of Coding, with no condition on the run. `MCRelay` is such a network.
  - Assumptions on the environment: `DevicesAssumption` (every node has a device, and
    no two devices share a MAC or an IP address; IP addresses come from one
    `Ipv4AddressHelper`, scratch/etox-mync.cc:167-169, MAC addresses from the devices) and
    `TrafficAssumption` (IP asks for an interface the node has, forwards under the
    same id, and forwards no broadcast).

**Loops.** The handlers fold over sequences. The library states induction with an
operator as parameter, which the provers cannot instantiate, so `MyncProofs` and
`LinkStateNodeProofs` do it with sets: a set of naturals that is not empty has a least element
(`LeastElement`, from `NatLessThanWellFounded`), hence one that has 0 and with `k`
also `k + 1` has all up to `N` (`Upto`), hence the intermediate values of a fold exist
as a sequence (`Iterates`, `Iteration`). Each loop of the code (the devices of
`TrySend`, the neighbors of `Encode`, the pairs of a hello, the natives of `Decode`,
the levels of `Heapify`, the slots of `Rebuild`, the edges of `Visit`, the samples of
`UpdateCodeNum`, the hops of `FindSendEntry`) is then one lemma about one turn. The other modules avoid loops by their invariants.

**Only model-checked.** Of MyncNetwork: `VirtualQueueInOrder`, the *order* in the
virtual queues, which is defined with `SelectSeq`, a recursive operator that the provers
do not unfold; and `NothingVanishes`, which needs to know of each handler what it takes
out of the two queues and why. `Alive` is not proved of nodes with several channels:
`two_channels` shows that it fails there, and on `radios`, where the channels are the
same at all nodes, TLC checks it. Liveness (`EveryPacketLeaves`,
`EventuallyDrained`, `FloodEnds`) and `ENABLED` are out of the provers' reach and stay
with TLC.

## Plan

Done: the coding layer with its refinement and proofs, those of the protocol
included; shortest paths; the link state network and the NF table, with proofs of
both; the MAC with the ratio counters, its refinement and the proofs of both.

Next, in this order:

1. **Codec**: `XOR` and `Hash` on byte sequences, trailing zeros included, and the
   field widths of the headers. `Recv` asserts `pid == Hash(packet)` of what it
   decodes (`mync-protocol.cc:608`), but `XOR` cuts trailing zeros
   (`mync-protocol.cc:938-941`) and `Hash` depends on the length.
2. Two devices of a node on one channel in `NeighborLearn`.
3. Proofs of `NothingVanishes`, for which `NextIs` would have to say of each handler what
   it takes out of the two queues and why.
4. Routing over converged databases: when tables of different nodes agree.
5. `MyncProtocol` over `Link` in place of its own medium, with both of them counting
   on one `TxRatio`.

Not planned: the helpers and the example program, which only build objects; the
generated examples, tests and docs, which are templates without content.
