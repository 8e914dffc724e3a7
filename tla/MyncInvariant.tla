---------------------------- MODULE MyncInvariant ----------------------------
(***************************************************************************)
(* What MyncProofs proves of the coding protocol is said with these.       *)
(*                                                                         *)
(* The inductive invariant Inv says that every node is Sound: whatever it  *)
(* holds (entries, rows of the table, frames in its devices) is about      *)
(* packets in its pool and nodes that exist, no virtual queue points to an *)
(* entry that is gone, no address is in two rows, and each next hop of a   *)
(* coded frame was believed to have the natives of the other ones.         *)
(* Soundness is stated for any set V that has the pool, since within a     *)
(* handler (Recv -> ForwardUp -> Enqueue -> TrySend) things are sent       *)
(* before NoteReception pools them.                                        *)
(*                                                                         *)
(* The last part is the converse: nothing that waits is left out of the    *)
(* tables (Filed), unless the program ended in one of the assertions that  *)
(* may fail where nodes have radios on several channels or frames hold     *)
(* three natives (Goes, Kept).                                             *)
(***************************************************************************)
EXTENDS MyncRefinement

-----------------------------------------------------------------------------
(* The loops of the handlers *)

\* One turn of each of the loops of the model: c is what the loop does not
\* change, acc what it does, e the element whose turn it is.
Turn(loop, c, acc, e) ==
    CASE loop = "Encode"        -> EncodeNeighbor(c[1], c[2], acc, e)
      [] loop = "SendHello"     -> EnqueueHello(c[1], acc, e, c[2][e])
      [] loop = "NeighborLearn" -> LearnPair(acc, e)
      [] loop = "AddTrinity"    -> IF Replaces(c, e) THEN acc ELSE Append(acc, e)
      [] loop = "EraseAll"      -> IF e.pid \in c THEN acc ELSE Append(acc, e)

\* The recursive function that FoldLeft takes: it[s] is the value after the
\* elements of seq at the positions s.
IsLoop(it, loop, c, base, seq, N) ==
    it = [s \in SUBSET (1..N) |-> IF s = {} THEN base
                                  ELSE Turn(loop, c, it[s \ {Max(s)}], seq[Max(s)])]

\* The same loop as the sequence of its values: v[k] is the value after k turns.
IsRun(v, loop, c, base, seq, N, out) ==
    /\ v[0] = base
    /\ \A k \in 0..N - 1 : v[k + 1] = Turn(loop, c, v[k], seq[k + 1])
    /\ v[N] = out

\* The loop of Encode over the neighbors.
Coded(n, active, start, N) ==
    FoldLeft(LAMBDA acc, i : EncodeNeighbor(n, active, acc, i), start, [i \in 1..N |-> i])

-----------------------------------------------------------------------------
(* What a node may hold, and when it is sound. *)

\* IP forwards the packet nowhere, as a broadcast.
Unforwarded(pid) == \A m \in Node : IpForward(m, pid) = <<>>

\* The IP addresses of a node.
Ips(m) == {Devices(m)[i].ip : i \in DOMAIN Devices(m)}

\* The entry is what IP asked for.
Requested(n, e) ==
    \E req \in Asking(n) :
        e.pid = req.pid /\ e.dest = req.dest /\ e.iface = req.iface /\ e.proto = req.proto

\* The addresses that node n sends packets to.
NextHops(n) == {req.dest : req \in Asking(n)}

\* The device with the address is on the channel.
OnChannel(mac, ch) ==
    \E m \in Node : \E i \in DOMAIN Devices(m) : Devices(m)[i].mac = mac /\ Devices(m)[i].ch = ch

\* IP sends a packet by a device on the channel of its next hop.
RoutesOnLink ==
    \A n \in Node : \A req \in Asking(n) :
        req.dest # Broadcast => OnChannel(req.dest, Devices(n)[req.iface].ch)

\* What the table files of a device: its MAC address, its IP or none, its channel,
\* which is the right one if nobody routes a packet over another link.
Trinity ==
    {t \in [mac : Address, ip : Nat, ch : Nat] : RoutesOnLink => OnChannel(t.mac, t.ch)}

\* A row of the table.
Neighbor == [tri : Seq(Trinity), vq : Seq(Packet)]

\* All addresses of the row are of the one node m.
Belongs(nbr, m) ==
    /\ nbr.tri # <<>>
    /\ \A i \in DOMAIN nbr.tri :
          /\ nbr.tri[i].mac \in Macs(m)
          /\ nbr.tri[i].ip \in Ips(m) \cup {ZeroIp}

\* The row is of one node, for which everything in its virtual queue waits.
Row(nbr, waits) ==
    \E m \in Node : Belongs(nbr, m) /\ \A p \in ToSet(nbr.vq) : <<p, m>> \in waits

\* The rows at D are of one node each, no id is in two virtual queues, and no
\* address is in two rows.
RowsOn(nbrs, D, waits) ==
    /\ \A k \in D : Row(nbrs[k], waits)
    /\ \A k, l \in D : k # l => ToSet(nbrs[k].vq) \cap ToSet(nbrs[l].vq) = {}
    /\ \A k, l \in D : k # l => ~ ShareAddress(nbrs[k], nbrs[l])

\* The whole table is.
Rows(nbrs, waits) == nbrs \in Seq(Neighbor) /\ RowsOn(nbrs, DOMAIN nbrs, waits)

\* And no virtual queue lists an id twice.
Table(nbrs, waits) ==
    Rows(nbrs, waits) /\ \A k \in DOMAIN nbrs : IsInjective(nbrs[k].vq)

\* The entry goes to one next hop.
Unicast(e) == e.type = "data" /\ e.dest # Broadcast

\* The ids of the unicast entries of a queue, each with the node it is for.
Awaited(q) ==
    {<<q[i].pid, Owner[q[i].dest]>> : i \in {j \in DOMAIN q : Unicast(q[j])}}

\* What an entry of node n is about: one of the ids K, a device of n, and an
\* address of some node or a broadcast that is forwarded nowhere, as IP asked.
EntryOk(n, K, e) ==
    /\ e.iface \in DOMAIN Devices(n)
    /\ e.type = "data" => /\ e.pid \in K
                          /\ e.dest # Broadcast => e.dest \in Address
                          /\ e.dest = Broadcast => Unforwarded(e.pid)
                          /\ Requested(n, e)

\* Each id once.
Distinct(q) == \A i, j \in DOMAIN q : q[i].pid = q[j].pid => i = j

\* A queue of node n, as MyncQueue keeps it.
QueueOk(n, q, K) ==
    /\ q \in Seq(Entry) /\ Len(q) <= QueueMax /\ Distinct(q)
    /\ \A i \in DOMAIN q : EntryOk(n, K, q[i])

\* A retransmission queue: unicast entries that may be sent again.
RtqOk(n, q, K) ==
    /\ QueueOk(n, q, K)
    /\ \A i \in DOMAIN q : Unicast(q[i]) /\ q[i].retry < MaxRetry

-----------------------------------------------------------------------------
(* Addresses *)

\* A device, as the constants give it.
Device == [mac : Nat \ {0}, ip : Nat \ {0}, ch : Nat]

\* k is where the table has the address, or 0 when it has not.
MacAt(nbrs, mac, k) ==
    \/ k = 0 /\ \A l \in DOMAIN nbrs : ~ HasMac(nbrs[l], mac)
    \/ k \in DOMAIN nbrs /\ k # 0 /\ HasMac(nbrs[k], mac)

\* The same for an IP.
IpAt(nbrs, ip, k) ==
    \/ k = 0 /\ \A l \in DOMAIN nbrs : ~ HasIP(nbrs[l], ip)
    \/ k \in DOMAIN nbrs /\ k # 0 /\ HasIP(nbrs[k], ip)

-----------------------------------------------------------------------------
(* Queues *)

\* r is q without some of its entries.
Thinned(q, r) ==
    /\ r \in Seq(Entry) /\ Len(r) <= Len(q) /\ Distinct(r)
    /\ \A i \in DOMAIN r : \E j \in DOMAIN q : r[i] = q[j]

\* r is q with e at one of its ends.
Joins(q, e, r) == r = Append(q, e) \/ r = <<e>> \o q

-----------------------------------------------------------------------------
(* The neighbor table *)

\* The row has none of the addresses of t.
Clear(nbr, t) == ~ HasIP(nbr, t.ip) /\ ~ HasMac(nbr, t.mac)

\* The row u has trinities of x and of y, and t.
Merges(u, x, y, t) ==
    \A i \in DOMAIN u.tri :
        \/ u.tri[i] = t
        \/ \E j \in DOMAIN x.tri : u.tri[i] = x.tri[j]
        \/ \E l \in DOMAIN y.tri : u.tri[i] = y.tri[l]

\* The neighbor a hello is building, taken from the node m.
LearnOk(acc, m, w) ==
    /\ acc = [nbrs |-> acc.nbrs, new |-> acc.new]
    /\ Rows(acc.nbrs, w) /\ acc.new \in Neighbor
    /\ \A i \in DOMAIN acc.new.tri :
          acc.new.tri[i].mac \in Macs(m) /\ acc.new.tri[i].ip \in Ips(m)
    /\ \A p \in ToSet(acc.new.vq) : <<p, m>> \in w
    /\ \A k \in DOMAIN acc.nbrs : ToSet(acc.nbrs[k].vq) \cap ToSet(acc.new.vq) = {}

\* The table with other trinities at k.
Retri(nbrs, k, tri) == [nbrs EXCEPT ![k].tri = tri]

\* The trinities old, some replaced, and t.
GrownTri(tri, old, t) ==
    /\ tri \in Seq(Trinity) /\ tri # <<>>
    /\ \A i \in DOMAIN tri : tri[i] = t \/ \E j \in DOMAIN old : tri[i] = old[j]
    /\ \E i \in DOMAIN tri : tri[i] = t

-----------------------------------------------------------------------------
(* Sound states of a node *)

\* I says that m has pid, under some of its addresses.
Believes(I, pid, m) == \E mac \in Macs(m) : <<pid, mac>> \in I

\* What a frame with the contents pkt may ask of its next hops, when its sender
\* believes I: a broadcast stands alone, each next hop is believed to have the
\* natives of the other ones, and one or two natives are what the contents are
\* the XOR of.
IdsOk(ids, pkt, I) ==
    /\ IsFiniteSet(ids) /\ ids # {}
    /\ \A id \in ids : ids = {id} => pkt = id.pid
    /\ \A id \in ids : id.mac = Broadcast => ids = {id} /\ Unforwarded(id.pid)
    /\ \A x, y \in ids : x # y => x.pid # y.pid /\ Believes(I, x.pid, Owner[y.mac])
    /\ \A x, y \in ids : x # y /\ ids = {x, y} => pkt = XOR(x.pid, y.pid)

\* Next hops and natives among K.
Ids(K) == [mac : Address \cup {Broadcast}, pid : K \cap Packet]

\* A frame goes to the group address if it is not led elsewhere.
AddrOk(n, ids, dst) == dst = Group \/ Led(n, ids, dst)

\* A frame names a next hop of its sender once.
HopsOk(n, ids) ==
    /\ \A id \in ids : id.mac \in NextHops(n)
    /\ \A x, y \in ids : x # y => x.mac # y.mac

\* The data frames that node n can send when it has K and believes I.
DataSendable(n, K, I) ==
    {f \in [type : {"data"}, src : Macs(n), dst : Int, ip : {GetIP(n)}, ids : SUBSET Ids(K),
            pkt : SUBSET STRING, recps : SUBSET K, acks : SUBSET [ip : Nat, pid : K]] :
        IdsOk(f.ids, f.pkt, I) /\ HopsOk(n, f.ids) /\ AddrOk(n, f.ids, f.dst)}

\* And the hellos.
Sendable(n, K, I) ==
    DataSendable(n, K, I)
    \cup [type : {"hello"}, src : Macs(n), dst : {Broadcast}, pairs : {Devices(n)}]

\* A node is a record of these fields.
Shape(s) ==
    s = [queue |-> s.queue, rtq |-> s.rtq, nbrs |-> s.nbrs, pool |-> s.pool, info |-> s.info,
         acks |-> s.acks, recps |-> s.recps, mac |-> s.mac, timer |-> s.timer, up |-> s.up,
         abort |-> s.abort]

\* The retransmission timer runs while a coded native waits for its ack.
Timed(s) == s.rtq # <<>> => s.timer

\* Data frames name the device that sends them.
FromDevice(n, i, line) == \A f \in ToSet(line) : f.type = "data" => f.src = Devices(n)[i].mac

\* The inductive invariant of a node that has at most V in its pool: queues
\* hold existing packets once each, rows are about one node each and virtual
\* queues point into the output queue, and the devices hold frames that were
\* legal when they were sent, and so still are.
Sound(n, V, s) ==
    /\ Shape(s) /\ Running(s) /\ s.pool \subseteq V
    /\ QueueOk(n, s.queue, V \cap Packet)
    /\ RtqOk(n, s.rtq, V \cap Packet)
    /\ Table(s.nbrs, Awaited(s.queue))
    /\ s.acks \in Seq([ip : Nat, pid : V]) /\ s.recps \in Seq(V)
    /\ s.mac \in [DOMAIN Devices(n) -> Seq(Sendable(n, V, s.info))]
    /\ \A i \in DOMAIN Devices(n) : FromDevice(n, i, s.mac[i])

\* What a handler may do to the pool, the beliefs, the frames and the timer.
Moves(n, s, t, got, news) ==
    /\ t.pool = s.pool \cup got /\ t.info = s.info \cup news
    /\ \A i \in DOMAIN Devices(n) : ToSet(s.mac[i]) \subseteq ToSet(t.mac[i])
    /\ Timed(s) => Timed(t)

\* From s a handler ends in t, soundly, or in a failed assertion.
Fine(n, V, s, t, got, news) == Running(t) => Sound(n, V, t) /\ Moves(n, s, t, got, news)

-----------------------------------------------------------------------------
(* Encode *)

\* The first native of a frame, as AddIdNexthop notes it.
First(entry) == [mac |-> entry.dest, pid |-> entry.pid]

\* The accumulator of Encode is a record of these fields.
AccShape(acc) ==
    acc = [s |-> acc.s, first |-> acc.first, nexthops |-> acc.nexthops, natives |-> acc.natives,
           channels |-> acc.channels, iface |-> acc.iface, pkt |-> acc.pkt,
           encoded |-> acc.encoded, ids |-> acc.ids]

\* The frame that Encode is building.
Built(n, V, s, entry, acc) ==
    /\ acc.first = entry /\ acc.nexthops \subseteq Address /\ acc.pkt \in SUBSET STRING
    /\ IsFiniteSet(acc.ids) /\ acc.ids \subseteq [mac : Address, pid : V \cap Packet]
    /\ First(entry) \in acc.ids /\ acc.natives = Natives(acc) /\ HopsOk(n, acc.ids)
    /\ \A id \in acc.ids : \E h \in acc.nexthops : Owner[h] = Owner[id.mac]
    /\ \A x, y \in acc.ids : x # y => x.pid # y.pid /\ Believes(s.info, x.pid, Owner[y.mac])
    /\ acc.ids = {First(entry)} => acc.pkt = entry.pid
    /\ \A y \in acc.ids : y # First(entry) /\ acc.ids = {First(entry), y} =>
          acc.pkt = XOR(entry.pid, y.pid)

\* The invariant of the loop of Encode, which starts in s with the entry.
Encoding(n, V, s, entry, acc) ==
    /\ Sound(n, V, acc.s) /\ acc.s.pool = s.pool /\ acc.s.info = s.info /\ acc.s.mac = s.mac
    /\ acc.iface \in DOMAIN Devices(n) /\ DOMAIN acc.s.nbrs = DOMAIN s.nbrs
    /\ \A i \in DOMAIN acc.s.queue : acc.s.queue[i].pid \notin acc.natives
    /\ Built(n, V, s, entry, acc)
    /\ acc.encoded \/ (acc.s = s /\ acc.ids = {First(entry)})

\* The loop holds it, or an assertion failed.
EncodeOk(n, V, s, entry, acc) ==
    AccShape(acc) /\ (Running(acc.s) => Encoding(n, V, s, entry, acc))

\* The front of the virtual queue of a neighbor is an entry of the output queue that goes to it.
FrontIs(s, nbr, m, j) ==
    /\ Belongs(nbr, m) /\ j \in DOMAIN s.queue /\ Unicast(s.queue[j])
    /\ s.queue[j].pid = Head(nbr.vq) /\ Owner[s.queue[j].dest] = m
    /\ QueueEntry(s, Head(nbr.vq)) = s.queue[j]

\* The state after the entry at j was taken for the neighbor at i.
Taken(s, i, j, R) ==
    [s EXCEPT !.rtq = R, !.queue = Erase(s.queue, s.queue[j].pid),
              !.nbrs = [s.nbrs EXCEPT ![i].vq = Tail(s.nbrs[i].vq)]]

\* What an attempt to encode, or a plain send, hands to the sender.
OutOk(n, V, s, out) ==
    /\ Sound(n, V, out.s) /\ out.s.pool = s.pool /\ out.s.info = s.info /\ out.s.mac = s.mac
    /\ out.iface \in DOMAIN Devices(n)
    /\ out.ids \in SUBSET Ids(V) /\ IdsOk(out.ids, out.pkt, s.info) /\ HopsOk(n, out.ids)
    /\ out.pkt \in SUBSET STRING
    /\ out.encoded \/ out.s = s

\* An entry that left the queue for a neighbor of its next hop.
Leaves(n, V, s, entry) ==
    /\ entry \in Entry /\ EntryOk(n, V \cap Packet, entry) /\ entry.type = "data"
    /\ Accepts(s.queue, entry)

-----------------------------------------------------------------------------
(* DoSend and TrySend *)

\* A state in which nothing but reports and acks differs.
Reported(n, V, s, t) ==
    /\ Shape(t) /\ t.queue = s.queue /\ t.rtq = s.rtq /\ t.nbrs = s.nbrs
    /\ t.pool = s.pool /\ t.info = s.info /\ t.mac = s.mac /\ t.abort = s.abort /\ t.timer = s.timer
    /\ t.acks \in Seq([ip : Nat, pid : V]) /\ t.recps \in Seq(V)

\* The states after an entry joined the output queue, and a virtual queue.
Grown(s, q, got) == [s EXCEPT !.queue = q, !.pool = s.pool \cup got]

\* The table with another virtual queue at k.
Queued(nbrs, k, vq) == [nbrs EXCEPT ![k].vq = vq]

\* The state after the head of the output queue is gone.
Left(s, nbrs) == [s EXCEPT !.queue = Tail(s.queue), !.nbrs = nbrs]

-----------------------------------------------------------------------------
(* Enqueue, SendHello and Retransmit *)

\* What IP asks of node n.
Asked(n, req) ==
    /\ req \in Asking(n) /\ req \in Request(n) /\ req.pid \in Packet
    /\ req.dest = Broadcast => Unforwarded(req.pid)

\* The entry of a request.
NewEntry(req) ==
    [type |-> "data", pid |-> req.pid, dest |-> req.dest, iface |-> req.iface,
     proto |-> req.proto, retry |-> 0]

\* Nothing was sent, acked or handed up.
Still(s, t) == t.acks = s.acks /\ t.mac = s.mac /\ t.up = s.up

\* The entry to be sent again leaves the retransmission queue, and joins the output
\* queue if that accepts it and its next hop is a neighbor.
Requeued(s, again) ==
    LET e    == Retry(Head(s.rtq))
        rest == [s EXCEPT !.rtq = Tail(s.rtq)]
        k    == SearchMac(s.nbrs, e.dest)
    IN  \/ again = rest
        \/ k = 0 /\ again = Abort(rest, "neighborPos >= 0")
        \/ /\ Accepts(s.queue, e) /\ k # 0
           /\ again = WithNeighbors([rest EXCEPT !.queue = EnqueueFront(s.queue, e)],
                          AddVirtualQueueEntryFront(s.nbrs, k, e.pid))

-----------------------------------------------------------------------------
(* Recv *)

\* Of what a frame carries node n keeps, if the checks of Recv pass.
Got(n, s, f) ==
    IF Cardinality(f.ids) > 1
    THEN IF Decode(s, f) < 0 THEN {}
         ELSE IF AmINext(n, f) THEN {DecodedId(s, f)} ELSE {DecodedPacket(s, f)}
    ELSE IF IsBroadcast(f) THEN {} ELSE {f.pkt}

\* States that differ in the histories of what was handed over and acked.
Handed(s, up, acks) == [s EXCEPT !.up = up, !.acks = acks]

\* What node n learns from the frame f of node m: nothing, or what it keeps of a
\* data frame, and that its sender has that and everything it reports.
Learns(n, m, s, f, got, news) ==
    \/ got = {} /\ news = {}
    \/ /\ f.type = "data" /\ got = Got(n, s, f)
       /\ \E mac \in Macs(m) : news = (Reports(f) \cup got) \X {mac}

-----------------------------------------------------------------------------
(* The invariant *)

\* While the program runs every node is sound, and vouches for nothing but what
\* is in its pool; and its timer runs when a coded native waits for an ack.
Inv ==
    /\ state = [n \in Node |-> state[n]]
    /\ Alive => \A n \in Node : Sound(n, state[n].pool, state[n]) /\ Timed(state[n])

\* A step of node n that adds got to the pool and news to the beliefs.
Stepped(n, got, news) ==
    /\ Update(n, state'[n])
    /\ Fine(n, state[n].pool \cup got, state[n], state'[n], got, news)

\* Node n hears a data frame.
Hears(n, got, news) ==
    \E m \in Node \ {n} : \E f \in DataFramesOf(m) : Learns(n, m, state[n], f, got, news)

\* A step is one of these.
Sent == \E n \in Node : \E i \in DOMAIN Devices(n) : MacDone(n, i)

\* A timer of node n expired.
Ticked == \E n \in Node : Stepped(n, {}, {})

\* IP handed over a packet.
Offered == \E n \in Node : \E p \in Packet : Stepped(n, {p}, {})

\* A frame was heard.
Delivered == \E n \in Node : \E got, news : Stepped(n, got, news) /\ Hears(n, got, news)

\* The state after a device finished with the frame at the head of its queue.
FrameDone(s, i) == [s EXCEPT !.mac[i] = Tail(@)]

\* The devices hold no new frames.
Emptier(n, s, t) ==
    /\ t.pool = s.pool /\ t.info = s.info
    /\ \A j \in DOMAIN Devices(n) : ToSet(t.mac[j]) \subseteq ToSet(s.mac[j])

\* The ids in the virtual queue are of unicast entries of q, for the node the row
\* is of.
PointsInto(nbr, q) ==
    \E m \in Node :
        /\ Belongs(nbr, m)
        /\ \A p \in ToSet(nbr.vq) : \E i \in DOMAIN q :
              Unicast(q[i]) /\ q[i].pid = p /\ Owner[q[i].dest] = m

\* The virtual queue of a neighbor lists entries of the output queue that go to
\* that neighbor, each once, and no entry is in two virtual queues: Encode
\* never follows a pointer to an entry that is gone (mync-protocol.cc:765-875).
NoDanglingPointer ==
    \A n \in Node :
        /\ \A k \in DOMAIN state[n].nbrs :
              IsInjective(state[n].nbrs[k].vq) /\ PointsInto(state[n].nbrs[k], state[n].queue)
        /\ \A k, l \in DOMAIN state[n].nbrs :
              k # l => ToSet(state[n].nbrs[k].vq) \cap ToSet(state[n].nbrs[l].vq) = {}

-----------------------------------------------------------------------------
(* What a coded frame holds when it can be decoded *)

\* FoldSet with its operator fixed.
Without(pkt, pids) == FoldSet(XOR, pkt, pids)

\* The frame without the other natives is the native (DecodedIsNative).
Decodes(f) ==
    ~ IsBroadcast(f) => \A id \in f.ids : Without(f.pkt, Natives(f) \ {id.pid}) = id.pid

\* Nothing is kept of f, or the one native that was missing.
Keeps(s, f, got) ==
    \/ got = {}
    \/ ~ IsBroadcast(f) /\ \E p \in Natives(f) : got = {p} /\ Natives(f) \ {p} \subseteq s.pool

-----------------------------------------------------------------------------
(* Truth of beliefs *)

\* The belief is about an id that exists, and its address belongs to a node
\* that has it.
Backed(known) ==
    \E m \in Node : \E mac \in Macs(m) : \E p \in Packet :
        known = <<p, mac>> /\ p \in state[m].pool

\* Pools hold packets of the applications, and beliefs are true.
Truth ==
    Alive => \A n \in Node :
        /\ state[n].pool \subseteq Packet
        /\ \A known \in state[n].info : Backed(known)

\* As long as the program runs, coded frames hold what Recv asserts of them.
Decoding == Alive => DecodedIsNative

\* No frame holds more than two natives.
CodedInPairs == \A n \in Node : \A f \in DataFramesOf(n) : ~ (Cardinality(f.ids) > 2)

\* No node sends to more than two next hops.
TwoNextHops ==
    \A n \in Node : IsFiniteSet(NextHops(n)) /\ ~ (Cardinality(NextHops(n) \ {Broadcast}) > 2)

-----------------------------------------------------------------------------
(* Types *)

\* Other nodes hear what a device sends.
HeardOk ==
    /\ heard = [n \in Node |-> [i \in DOMAIN Devices(n) |-> heard[n][i]]]
    /\ \A n \in Node : \A i \in DOMAIN Devices(n) : heard[n][i] \subseteq Node \ {n}

\* What the steps keep of the medium, the requests and the hello rounds.
Outside ==
    /\ HeardOk
    /\ offered \subseteq Traffic
    /\ hellos \in [Node -> 0..HelloRounds]

\* What TypeOK says of a queue.
QueueTyped(n, q) ==
    /\ Len(q) <= QueueMax
    /\ \A i \in DOMAIN q : q[i] \in Entry /\ q[i].iface \in DOMAIN Devices(n)
    /\ IsInjective([i \in DOMAIN q |-> q[i].pid])

-----------------------------------------------------------------------------
(* Refinement *)

\* The frame of Coding that a frame f of node m is.
Seen(m, f) == [src |-> m, ids |-> Hops(f), recps |-> Reports(f)]

\* Everything on its way is a legal frame of Coding.
AirLegal == \A a \in Air : a \in Abstract!Frame /\ Abstract!LegalFor(a, Pools, Beliefs)

\* The beliefs of Coding that news of node n are.
Pairs(news) == {<<known[1], Owner[known[2]]>> : known \in news}

-----------------------------------------------------------------------------
(* What a node acks, it handed to IP. *)

\* A frame acks only what is in U.
FrameIn(f, U) == f.type = "data" => f.acks \subseteq U

\* All acks of the node, sent or not, are in U.
AcksIn(n, s, U) ==
    /\ \A i \in DOMAIN s.acks : s.acks[i] \in U
    /\ \A i \in DOMAIN Devices(n) : \A f \in ToSet(s.mac[i]) : FrameIn(f, U)

\* A handler that acks nothing and takes back nothing it handed up.
AckKept(n, s, t) == s.up \subseteq t.up /\ \A U : AcksIn(n, s, U) => AcksIn(n, t, U)

\* The accumulator of Encode with what it has acked and sent.
AccStill(s, acc) == AccShape(acc) /\ Still(s, acc.s)

\* The acks that a handler adds are for what was handed up by t or is among P.
Gained(n, s, t, P) ==
    \E A : /\ \A U : AcksIn(n, s, U) => AcksIn(n, t, U \cup A)
           /\ \A ack \in A : ack.pid \in t.up \/ ack.pid \in P

\* And it takes back nothing it handed up.
AckGained(n, s, t, P) == s.up \subseteq t.up /\ Gained(n, s, t, P)

-----------------------------------------------------------------------------
(* The neighbor table loses no address                                       *)

\* No node has two radios on one channel.
RadiosApart ==
    \A n \in Node : \A i, j \in DOMAIN Devices(n) : Devices(n)[i].ch = Devices(n)[j].ch => i = j

\* The trinities name the address.
Names(tri, mac) == \E i \in DOMAIN tri : tri[i].mac = mac

\* The row b has the addresses and the virtual queue of a.
RowCovered(a, b) ==
    (\A mac : HasMac(a, mac) => HasMac(b, mac)) /\ ToSet(a.vq) \subseteq ToSet(b.vq)

\* Every row of old lives on in new.
Covers(old, new) == \A k \in DOMAIN old : \E l \in DOMAIN new : RowCovered(old[k], new[l])

\* No virtual queue of the table lists an id twice.
NoneTwice(nbrs) == \A k \in DOMAIN nbrs : IsInjective(nbrs[k].vq)

\* A hello of m leaves the rows of old alone or takes what waits in them.
Gathers(acc, old, m) ==
    /\ NoneTwice(acc.nbrs) /\ IsInjective(acc.new.vq)
    /\ \A k \in DOMAIN old :
          \/ \E l \in DOMAIN acc.nbrs : acc.nbrs[l] = old[k]
          \/ Belongs(old[k], m) /\ ToSet(old[k].vq) \subseteq ToSet(acc.new.vq)

\* The rows of a are rows of b.
RowsOf(a, b) == \A l \in DOMAIN a : \E k \in DOMAIN b : a[l] = b[k]

\* After k pairs of a hello of m, the row that is being built has their addresses and no
\* other row has one of them.
Met(acc, m, k) ==
    /\ \A j \in 1..k : /\ Names(acc.new.tri, Devices(m)[j].mac)
                       /\ \A l \in DOMAIN acc.nbrs : Clear(acc.nbrs[l], Devices(m)[j])
    /\ \A i \in DOMAIN acc.new.tri : \E j \in 1..k : acc.new.tri[i] = Devices(m)[j]

-----------------------------------------------------------------------------
(* Everything that waits is filed under its next hop.                      *)

\* All radios are on one channel.
OneChannel ==
    \A n, m \in Node : \A i \in DOMAIN Devices(n), j \in DOMAIN Devices(m) :
        Devices(n)[i].ch = Devices(m)[j].ch

\* Each unicast entry of the output queue is in the virtual queue of its next hop.
Listed(nbrs, q) ==
    \A i \in DOMAIN q : Unicast(q[i]) =>
        \E k \in DOMAIN nbrs : HasMac(nbrs[k], q[i].dest) /\ q[i].pid \in ToSet(nbrs[k].vq)

\* The next hop of each entry of the retransmission queue is a neighbor.
Reachable(nbrs, q) == \A i \in DOMAIN q : \E k \in DOMAIN nbrs : HasMac(nbrs[k], q[i].dest)

\* Both hold of a node.
Filed(s) == Listed(s.nbrs, s.queue) /\ Reachable(s.nbrs, s.rtq)

\* A handler ends in such a state, or in a failed assertion of H.
Goes(H, t) == (Running(t) => Filed(t)) /\ (~ Running(t) => t.abort \in H)

\* With several channels the channel of a neighbor may be lost.
MayLose(H) == OneChannel \/ "I think we should be able to index" \in H

\* The states have the same queues and neighbors.
Alike(s, t) == t.queue = s.queue /\ t.rtq = s.rtq /\ t.nbrs = s.nbrs /\ t.abort = s.abort

\* The tables have the same rows but for the virtual queues.
SameRows(a, b) == DOMAIN b = DOMAIN a /\ \A k \in DOMAIN a : b[k].tri = a[k].tri

\* A queue without the id, and a virtual queue without it.
Dropped(q, pid, r) == \A i \in DOMAIN r : \E j \in DOMAIN q : r[i] = q[j] /\ q[j].pid # pid

Minus(old, pid, vq) == ToSet(vq) = ToSet(old) \ {pid}

\* A queue with one more entry, and a virtual queue with its id.
Added(q, e, r) == \A i \in DOMAIN r : r[i] = e \/ \E j \in DOMAIN q : r[i] = q[j]

Plus(old, pid, vq) == ToSet(vq) = {pid} \cup ToSet(old)

\* The natives of the frame that Encode is building go to neighbors it counts
\* among the next hops.
Homed(acc) ==
    /\ Filed(acc.s)
    /\ \A id \in acc.ids : \E k \in DOMAIN acc.s.nbrs :
          HasMac(acc.s.nbrs[k], id.mac) /\ GetMac(acc.s.nbrs[k]) \in acc.nexthops

\* Or an assertion of H failed.
EncodeGoes(H, acc) ==
    (Running(acc.s) => Homed(acc)) /\ (~ Running(acc.s) => acc.s.abort \in H)

\* The assertions of Recv about a native that was decoded.
Misread == {"isDecodable == pid", "pid == Hash(packet)"}

\* They hold of f at node n: the other natives of the frame are in its pool, and what
\* is left without them is its own.
Legible(n, s, f) ==
    Decodes(f) /\ (AmINext(n, f) => Natives(f) \ {MyNative(n, f)} \subseteq s.pool)

-----------------------------------------------------------------------------
(* What waits is filed in every reachable state.                            *)

\* Every node has what waits filed, or ended in a failed assertion of H.
Kept(H) == \A n \in Node : Goes(H, state[n])

\* The assertions that may fail at nodes with a radio for each of several channels:
\* that a neighbor has the channel a coded frame is sent on, and those of Recv.
MayFail == Misread \cup {"I think we should be able to index"}

\* The program does not end because of what the tables of neighbors hold: DoSend and
\* Retransmit find the next hop of an entry and the entry in its virtual queue, no
\* virtual queue gets an id twice, and a coded frame no next hop twice
\* (mync-protocol.cc:341-352, 715-733, 869, mync-neighbor.cc:107-131).
TablesHold ==
    \A n \in Node : state[n].abort \notin {"neighborPos > -1", "Removed failed", "neighborPos >= 0",
                                           "duplicate virtual queue entry", "IdNexthop not added"}

=============================================================================
