----------------------------- MODULE MyncProtocol -----------------------------
(***************************************************************************)
(* MyncProtocol (mync/model/mync-protocol.cc), the network-coding layer    *)
(* between IP and the Wi-Fi devices of a node. The simulator runs one      *)
(* event at a time, so each event handler is an operator from the state    *)
(* of the node to its next state; a handler that calls another one applies *)
(* the other's operator, also when the call comes back in through the IP   *)
(* layer (Recv -> ForwardUp -> IP forwarding -> Enqueue -> TrySend).       *)
(*                                                                         *)
(* The state of a node is a record s:                                      *)
(*   queue, rtq   : m_queue and m_rtqueue                                  *)
(*   nbrs         : m_neighbors                                            *)
(*   pool         : the ids in m_pool                                      *)
(*   info         : m_packetInfo, the pairs <<id, MAC that has it>>        *)
(*   acks, recps  : m_ackBlockList and m_recps                             *)
(*   mac          : the transmit queue of each device, the frame in        *)
(*                  transmission included                                  *)
(*   timer        : whether m_timer, the retransmission timer, is running  *)
(*   up           : the ids handed to IP as a next hop (a history)         *)
(*   abort        : the NS_ASSERT or NS_FATAL_ERROR that ended the program *)
(*                                                                         *)
(* m_isSending is false whenever TrySend starts, since no call DoSend      *)
(* makes comes back to TrySend; it is left out. So are m_codeNum,          *)
(* m_originalTimes, the time stamps and m_txRatio, which only feed the     *)
(* routing metric. m_try is always scheduled.                              *)
(***************************************************************************)
EXTENDS Integers, MyncQueue, MyncNeighbor

CONSTANTS
    Node,
    Devices(_),     \* the devices of a node, a sequence of [mac, ip, ch]
    MacMax,         \* frames a device holds when its MAC queue is full
    IpForward(_, _) \* external: what IP sends when the node is handed a
                    \* packet, a sequence of at most one request

Broadcast == 0      \* Mac48Address::GetBroadcast
Group == -1         \* 11:22:33:44:55:66, the default of realSendAddr

None == "none"

EmptyNode(n) ==
    [queue |-> <<>>, rtq |-> <<>>, nbrs |-> <<>>, pool |-> {}, info |-> {},
     acks |-> <<>>, recps |-> <<>>, mac |-> [i \in DOMAIN Devices(n) |-> <<>>],
     timer |-> FALSE, up |-> {}, abort |-> None]

Abort(s, why) == IF s.abort = None THEN [s EXCEPT !.abort = why] ELSE s

Running(s) == s.abort = None

\* A change of the neighbor table, and the fatal error it may end in.
WithNeighbors(s, nbrs) ==
    IF DuplicateVirtualEntry(nbrs) THEN Abort(s, "duplicate virtual queue entry")
    ELSE [s EXCEPT !.nbrs = nbrs]

-----------------------------------------------------------------------------

Macs(n) == {Devices(n)[i].mac : i \in DOMAIN Devices(n)}

Address == UNION {Macs(n) : n \in Node}

\* Nodes have devices, and no two devices have an address in common.
ASSUME DevicesAssumption ==
    /\ \A n \in Node :
          /\ Devices(n) \in Seq([mac : Nat \ {0}, ip : Nat \ {0}, ch : Nat])
          /\ Devices(n) # <<>>
    /\ \A n, m \in Node : \A i \in DOMAIN Devices(n), j \in DOMAIN Devices(m) :
          \/ Devices(n)[i].mac = Devices(m)[j].mac
          \/ Devices(n)[i].ip = Devices(m)[j].ip
          => n = m /\ i = j

\* What IP may ask node n to send.
Request(n) ==
    [pid : SUBSET STRING, dest : Address \cup {Broadcast}, iface : DOMAIN Devices(n),
     proto : {"udp", "etox", "other"}]

\* The smallest IP of the node identifies it in every header.
GetIP(n) ==
    LET ips == {Devices(n)[i].ip : i \in DOMAIN Devices(n)}
    IN  CHOOSE ip \in ips : \A x \in ips : ip <= x

\* Index(channel): the first device on the channel, 0 for none.
Index(n, ch) == SelectInSeq(Devices(n), LAMBDA d : d.ch = ch)

IsQueueFull(s, i) == Len(s.mac[i]) >= MacMax

\* m_devicesIf, recomputed by every TrySend.
ActiveDevices(n, s) == {i \in DOMAIN Devices(n) : ~ IsQueueFull(s, i)}

ForwardDown(s, i, frame) == [s EXCEPT !.mac[i] = Append(@, frame)]

\* Faulty: the timer is started only while something is left to send.
DoSendEndIdle(s) == [s EXCEPT !.timer = @ \/ s.queue # <<>>]

\* DoSendEnd starts the retransmission timer unless it is running already. It also
\* starts one anew that runs with no time left (line 476): that one runs before
\* and after, and how long it runs is not modelled.
DoSendEnd(s) == [s EXCEPT !.timer = TRUE]

Known(s, pid, mac) == <<pid, mac>> \in s.info

\* XOR of two packets; contents are sets of native packets.
XOR(p, q) == (p \ q) \cup (q \ p)

QueueEntry(s, pid) == s.queue[SelectInSeq(s.queue, LAMBDA e : e.pid = pid)]

AddIdNexthop(ids, mac, pid) == ids \cup {[mac |-> mac, pid |-> pid]}

-----------------------------------------------------------------------------
(* Encode: one turn of the loop over the neighbors for each position i.    *)

\* Faulty: nobody asks whether the neighbor has the natives so far.
CodableUnchecked(acc, nbr) ==
    LET pid == Head(nbr.vq)
    IN  /\ ~ Known(acc.s, pid, GetMac(nbr))
        /\ \A holder \in acc.nexthops : Known(acc.s, pid, holder)

\* The neighbor lacks the packet at the front of its virtual queue, every
\* next hop so far has it, and the neighbor has every native so far.
Codable(acc, nbr) ==
    LET pid == Head(nbr.vq)
    IN  /\ ~ Known(acc.s, pid, GetMac(nbr))
        /\ \A holder \in acc.nexthops : Known(acc.s, pid, holder)
        /\ \A native \in acc.natives : Known(acc.s, native, GetMac(nbr))

\* The native of the neighbor at i leaves the queue and its virtual queue, and
\* waits in the retransmission queue for its ack.
LeaveQueues(s, i, native) ==
    LET vq == Tail(s.nbrs[i].vq)
    IN  [s EXCEPT !.rtq   = IF HitMax(native) THEN @ ELSE EnqueueBack(@, native),
                  !.queue = Erase(@, native.pid),
                  !.nbrs[i].vq = vq]

\* The native joins the frame, whose contents are the XOR of the first native
\* and this one.
TakeNative(n, acc, i, usable) ==
    LET nbr    == acc.s.nbrs[i]
        native == QueueEntry(acc.s, Head(nbr.vq))
        last   == CHOOSE c \in usable : \A d \in usable : d <= c
    IN  IF \E id \in acc.ids : id.mac = native.dest
        THEN [acc EXCEPT !.s = Abort(@, "IdNexthop not added")]
        ELSE [acc EXCEPT
          !.s        = LeaveQueues(@, i, native),
          !.nexthops = @ \cup {GetMac(nbr)},
          !.natives  = @ \cup {native.pid},
          !.ids      = AddIdNexthop(@, native.dest, native.pid),
          !.iface    = Index(n, last),
          !.pkt      = XOR(acc.first.pid, native.pid),
          !.encoded  = TRUE]

EncodeNeighbor(n, active, acc, i) ==
    LET nbr    == acc.s.nbrs[i]
        common == acc.channels \cap GetChannels(nbr)
        \* without a common channel the loop runs over the old channels
        usable == {c \in IF common = {} THEN acc.channels ELSE common :
                      Index(n, c) \in active}
    IN  IF \/ ~ Running(acc.s)
           \/ GetMac(nbr) \in acc.nexthops
           \/ nbr.vq = <<>>
           \/ ~ Codable(acc, nbr)
        THEN acc
        ELSE IF \E c \in usable : ~ Indexable(nbr, c)
        THEN [acc EXCEPT !.s = Abort(@, "I think we should be able to index")]
        ELSE IF usable = {}
        THEN IF common = {} THEN acc ELSE [acc EXCEPT !.channels = common]
        ELSE TakeNative(n, [acc EXCEPT !.channels = common], i, usable)

\* s is the state after the entry left the queue and its virtual queue. The
\* tests at the start of the code's Encode repeat those DoSend just made.
Encode(n, s, active, entry) ==
    LET nbr   == s.nbrs[SearchMac(s.nbrs, entry.dest)]
        start == [s |-> s, first |-> entry, nexthops |-> {GetMac(nbr)},
                  natives |-> {entry.pid}, channels |-> GetChannels(nbr),
                  iface |-> entry.iface, pkt |-> entry.pid, encoded |-> FALSE,
                  ids |-> AddIdNexthop({}, entry.dest, entry.pid)]
        done  == FoldLeft(LAMBDA acc, i : EncodeNeighbor(n, active, acc, i),
                          start, [i \in DOMAIN s.nbrs |-> i])
    IN  IF done.encoded /\ ~ HitMax(entry)
        THEN [done EXCEPT !.s.rtq = EnqueueBack(@, entry)]
        ELSE done

\* A broadcast, or a queue with nothing else in it, is never encoded.
PlainSend(s, entry) ==
    [s |-> s, iface |-> entry.iface, pkt |-> entry.pid, encoded |-> FALSE,
     ids |-> AddIdNexthop({}, entry.dest, entry.pid)]

-----------------------------------------------------------------------------
(* DoSend and TrySend                                                      *)

\* Faulty for a coded frame: it comes to one of its next hops only.
RealSendAddrNexthop(s, entry) == entry.dest

\* The MAC address a data frame is sent to. It is chosen before encoding: for
\* UDP the entry's own next hop, for an ETOX message the first neighbor, and
\* a group address for everything else.
RealSendAddr(s, entry) ==
    CASE entry.proto = "udp"                    -> entry.dest
      [] entry.proto = "etox" /\ s.nbrs # <<>> -> GetMac(Head(s.nbrs))
      [] OTHER                                  -> Group

\* Reports go out oldest first, acks newest first, each at most as many as
\* there are neighbors.
Attached(list, s) == IF Len(list) > Len(s.nbrs) THEN Len(s.nbrs) ELSE Len(list)

DataFrame(n, s, addr, out) ==
    LET acked == Len(s.acks) - Attached(s.acks, s)
    IN  [type |-> "data", src |-> Devices(n)[out.iface].mac, dst |-> addr,
         ip |-> GetIP(n), ids |-> out.ids, pkt |-> out.pkt,
         recps |-> {s.recps[i] : i \in 1..Attached(s.recps, s)},
         acks  |-> {s.acks[i] : i \in acked + 1 .. Len(s.acks)}]

Transmit(n, s, addr, out) ==
    LET sent == [s EXCEPT
          !.recps = SubSeq(@, Attached(@, s) + 1, Len(@)),
          !.acks  = SubSeq(@, 1, Len(@) - Attached(@, s))]
    IN  DoSendEnd(ForwardDown(sent, out.iface, DataFrame(n, s, addr, out)))

\* The entry's device is full and nothing was encoded: the entry goes back to
\* the front of the queue and of its virtual queue.
PutBack(s, entry) ==
    LET back == [s EXCEPT !.queue = EnqueueFront(@, entry)]
    IN  DoSendEnd(IF entry.dest = Broadcast THEN back
                  ELSE WithNeighbors(back, AddVirtualQueueEntryFront(s.nbrs,
                           SearchMac(s.nbrs, entry.dest), entry.pid)))

\* s is the state after the entry left the queue.
SendEntry(n, s, active, entry) ==
    LET out == IF s.queue # <<>> /\ entry.dest # Broadcast
               THEN Encode(n, s, active, entry)
               ELSE PlainSend(s, entry)
    IN  IF ~ Running(out.s) THEN out.s
        ELSE IF ~ out.encoded /\ entry.iface \notin active
        THEN PutBack(out.s, entry)
        ELSE Transmit(n, out.s, RealSendAddr(s, entry), out)

\* A unicast entry leaves its neighbor's virtual queue; it is dropped when
\* the neighbor is known to have the packet.
SendUnicast(n, s, active, entry) ==
    LET k    == SearchMac(s.nbrs, entry.dest)
        left == [s EXCEPT !.queue = Tail(@),
                          !.nbrs = RemoveVirtualQueueEntry(@, k, entry.pid)]
    IN  IF k = 0
        THEN Abort(s, "neighborPos > -1")
        ELSE IF ~ Contains(s.nbrs[k].vq, entry.pid)
        THEN Abort(s, "Removed failed")
        ELSE IF Known(s, entry.pid, GetMac(s.nbrs[k]))
        THEN DoSendEnd(left)
        ELSE SendEntry(n, left, active, entry)

\* A hello waits at the front of the queue until its device is free.
SendHelloEntry(n, s, active, entry) ==
    IF entry.iface \notin active THEN DoSendEnd(s)
    ELSE DoSendEnd(ForwardDown([s EXCEPT !.queue = Tail(@)], entry.iface,
             [type |-> "hello", src |-> Devices(n)[entry.iface].mac,
              dst |-> Broadcast, pairs |-> Devices(n)]))

DoSend(n, s, active) ==
    LET entry == Head(s.queue)
    IN  CASE entry.type = "hello" -> SendHelloEntry(n, s, active, entry)
          [] entry.type = "data" /\ entry.dest # Broadcast ->
                SendUnicast(n, s, active, entry)
          [] OTHER ->
                SendEntry(n, [s EXCEPT !.queue = Tail(@)], active, entry)

TrySend(n, s) ==
    IF Running(s) /\ ActiveDevices(n, s) # {} /\ s.queue # <<>>
    THEN DoSend(n, s, ActiveDevices(n, s))
    ELSE s

-----------------------------------------------------------------------------
(* Enqueue, SendHello and Retransmit                                       *)

\* A request from IP is [pid, dest, iface, proto]. Only a packet the queue
\* accepts joins the virtual queue of its neighbor and the pool; a next hop
\* nobody was heard from becomes a neighbor without an IP.
StoreData(n, s, req) ==
    LET entry  == [type |-> "data", pid |-> req.pid, dest |-> req.dest,
                   iface |-> req.iface, proto |-> req.proto, retry |-> 0]
        k      == SearchMac(s.nbrs, req.dest)
        stored == [s EXCEPT !.queue = EnqueueBack(@, entry), !.pool = @ \cup {req.pid}]
        stranger == [tri |-> <<[mac |-> req.dest, ip |-> ZeroIp,
                                ch |-> Devices(n)[req.iface].ch]>>,
                     vq |-> <<req.pid>>]
    IN  IF ~ Accepts(s.queue, entry) THEN s
        ELSE IF req.dest = Broadcast THEN stored
        ELSE IF k = 0 THEN WithNeighbors(stored, AddNeighbor(s.nbrs, stranger))
        ELSE WithNeighbors(stored, AddVirtualQueueEntry(s.nbrs, k, req.pid))

EnqueueData(n, s, req) == IF Running(s) THEN TrySend(n, StoreData(n, s, req)) ELSE s

\* A hello's packet id is read uninitialised by the queue's duplicate test.
EnqueueHello(n, s, i, garbage) ==
    LET entry == [type |-> "hello", pid |-> garbage, dest |-> Broadcast,
                  iface |-> i, proto |-> "other", retry |-> 0]
    IN  TrySend(n, [s EXCEPT !.queue = EnqueueFront(@, entry)])

\* One hello for each device, garbage[i] being the id of the i-th.
SendHello(n, s, garbage) ==
    FoldLeft(LAMBDA t, i : EnqueueHello(n, t, i, garbage[i]), s,
             [i \in DOMAIN Devices(n) |-> i])

\* m_timer expired. An entry the output queue does not accept is lost.
Retransmit(n, s) ==
    LET entry == Retry(Head(s.rtq))
        rest  == [s EXCEPT !.rtq = Tail(@)]
        k     == SearchMac(s.nbrs, entry.dest)
        again == IF ~ Accepts(s.queue, entry) THEN rest
                 ELSE IF k = 0 THEN Abort(rest, "neighborPos >= 0")
                 ELSE WithNeighbors([rest EXCEPT !.queue = EnqueueFront(@, entry)],
                          AddVirtualQueueEntryFront(s.nbrs, k, entry.pid))
    IN  IF s.rtq = <<>> THEN [s EXCEPT !.timer = FALSE]
        ELSE TrySend(n, [again EXCEPT !.timer = TRUE])

-----------------------------------------------------------------------------
(* Recv: device i of node n hears the frame f.                             *)

\* AmINext: the native whose next hop is one of the node's addresses, taken
\* in the order the devices were added.
MyDevices(n, f) == {i \in DOMAIN Devices(n) : \E id \in f.ids : id.mac = Devices(n)[i].mac}

AmINext(n, f) == MyDevices(n, f) # {}

MyNative(n, f) ==
    LET first == CHOOSE i \in MyDevices(n, f) : \A j \in MyDevices(n, f) : i <= j
    IN  (CHOOSE id \in f.ids : id.mac = Devices(n)[first].mac).pid

Natives(f) == {id.pid : id \in f.ids}

IsBroadcast(f) == \E id \in f.ids : id.mac = Broadcast

\* A native for another device of this node is ignored altogether.
ForOtherDevice(n, i, f) ==
    /\ Cardinality(f.ids) = 1
    /\ AmINext(n, f)
    /\ \A id \in f.ids : id.mac # Devices(n)[i].mac

\* Decode: -1 when more than one native is missing, -2 when none is, and
\* otherwise the missing id, a positive number, which DecodedId names and 1
\* stands for. DecodedPacket is what is left of the frame after the XOR with
\* every native in the pool.
MissingNatives(s, f) == Natives(f) \ s.pool

Decode(s, f) ==
    CASE Cardinality(MissingNatives(s, f)) > 1 -> -1
      [] MissingNatives(s, f) = {}             -> -2
      [] OTHER                                 -> 1

DecodedId(s, f) == CHOOSE pid \in MissingNatives(s, f) : TRUE

DecodedPacket(s, f) == FoldSet(XOR, f.pkt, Natives(f) \cap s.pool)

\* The MAC address a frame came to decides whether IP gets it: its own, a
\* group or the broadcast address. IP may answer with a packet of its own.
ForwardUp(n, s, i, pid, dst) ==
    LET answer == IpForward(n, pid)
        handed == [s EXCEPT !.up = @ \cup {pid}]
    IN  IF dst \notin {Devices(n)[i].mac, Broadcast, Group} THEN s
        ELSE IF answer = <<>> THEN handed
        ELSE EnqueueData(n, handed, Head(answer))

\* Faulty: every neighbor is taken to have heard what this node heard.
NoteReceptionByAll(s, pid, mac) ==
    [s EXCEPT !.recps = Append(@, pid), !.pool = @ \cup {pid},
              !.info = @ \cup ({pid} \X {GetMac(s.nbrs[k]) : k \in DOMAIN s.nbrs})]

\* After the packet went up, or was overheard: report it, pool it, and
\* remember that the sender has it.
NoteReception(s, pid, mac) ==
    IF Running(s)
    THEN [s EXCEPT !.recps = Append(@, pid), !.pool = @ \cup {pid},
                   !.info = @ \cup {<<pid, mac>>}]
    ELSE s

RecvPlain(n, s, i, f, mac) ==
    LET pid == MyNative(n, f)
    IN  IF IsBroadcast(f)
        THEN ForwardUp(n, s, i, f.pkt, Broadcast)
        ELSE IF ~ AmINext(n, f)
        THEN NoteReception(s, f.pkt, mac)
        ELSE IF pid # f.pkt
        THEN Abort(s, "pid == Hash(packet)")
        ELSE NoteReception(ForwardUp(n, s, i, pid, f.dst), pid, mac)

AddAck(s, ip, pid) == [s EXCEPT !.acks = Append(@, [ip |-> ip, pid |-> pid])]

\* No broadcast is ever coded (line 357), so the branch for one at lines 598-602 has
\* no counterpart.
RecvEncoded(n, s, i, f, mac) ==
    LET pid    == MyNative(n, f)
        packet == DecodedPacket(s, f)
    IN  IF Decode(s, f) < 0
        THEN s
        ELSE IF ~ AmINext(n, f)
        THEN NoteReception(s, packet, mac)
        ELSE IF DecodedId(s, f) # pid
        THEN Abort(s, "isDecodable == pid")
        ELSE IF pid # packet
        THEN Abort(s, "pid == Hash(packet)")
        ELSE NoteReception(ForwardUp(n, AddAck(s, f.ip, pid), i, pid, f.dst), pid, mac)

\* The acks for this node empty the retransmission queue; every ack and every
\* report tells that the sender has the packet.
HeedReports(n, s, f, mac) ==
    LET mine == {a.pid : a \in {b \in f.acks : b.ip = GetIP(n)}}
        has  == f.recps \cup {a.pid : a \in f.acks}
    IN  [s EXCEPT !.rtq  = EraseAll(@, mine),
                  !.info = @ \cup (has \X {mac})]

RecvData(n, s, i, f) ==
    LET met   == WithNeighbors(s, SMNeighbors(s.nbrs,
                     [ip |-> f.ip, mac |-> f.src, ch |-> Devices(n)[i].ch]))
        mac   == GetMac(met.nbrs[SearchIp(met.nbrs, f.ip)])
        heard == HeedReports(n, met, f, mac)
    IN  IF ~ Running(met) THEN met
        ELSE TrySend(n, IF Cardinality(f.ids) > 1
                        THEN RecvEncoded(n, heard, i, f, mac)
                        ELSE RecvPlain(n, heard, i, f, mac))

Recv(n, s, i, f) ==
    IF f.src \in Macs(n) THEN s
    ELSE IF f.type = "hello"
    THEN TrySend(n, WithNeighbors(s, NeighborLearn(s.nbrs, f.pairs)))
    ELSE IF ForOtherDevice(n, i, f) THEN s
    ELSE RecvData(n, s, i, f)

=============================================================================
