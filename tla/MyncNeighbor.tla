----------------------------- MODULE MyncNeighbor -----------------------------
(***************************************************************************)
(* MyncNeighbor and MyncNeighbors (mync/model/mync-neighbor.cc): the       *)
(* neighbor table m_neighbors, a deque of neighbors. A neighbor is         *)
(*   tri : its trinities, a sequence of [ip, mac, ch] records              *)
(*   vq  : its virtual queue. The code keeps pointers to entries of the    *)
(*         output queue; ids are unique in that queue, so a pointer is the *)
(*         id of the entry it points to.                                   *)
(* Addresses are numbers, ordered as the code orders them; ZeroIp is       *)
(* 0.0.0.0. A position is an index of the table, 0 stands for -1.          *)
(***************************************************************************)
EXTENDS Naturals, Sequences, SequencesExt

ZeroIp == 0

NewNeighbor == [tri |-> <<>>, vq |-> <<>>]

HasMac(nbr, mac) == \E i \in DOMAIN nbr.tri : nbr.tri[i].mac = mac

HasIP(nbr, ip) == \E i \in DOMAIN nbr.tri : nbr.tri[i].ip = ip

\* The smallest MAC stands for the neighbor in m_packetInfo.
GetMac(nbr) ==
    LET macs == {nbr.tri[i].mac : i \in DOMAIN nbr.tri}
    IN  CHOOSE m \in macs : \A x \in macs : m <= x

GetChannels(nbr) == {nbr.tri[i].ch : i \in DOMAIN nbr.tri}

\* Index ends the program when the neighbor has no MAC on the channel.
Indexable(nbr, ch) == \E i \in DOMAIN nbr.tri : nbr.tri[i].ch = ch

\* The trinity u shares an address or the channel with t.
Replaces(t, u) == u.ip = t.ip \/ u.mac = t.mac \/ u.ch = t.ch

\* Replaces whatever shares an address or the channel with the trinity.
AddTrinity(tri, t) ==
    Append(FoldLeft(LAMBDA kept, u : IF Replaces(t, u) THEN kept ELSE Append(kept, u),
                    <<>>, tri), t)

AddSoftTrinity(tri, t) == Append(tri, t)

-----------------------------------------------------------------------------

\* The first neighbor with the address.
SearchMac(nbrs, mac) == SelectInSeq(nbrs, LAMBDA nbr : HasMac(nbr, mac))

SearchIp(nbrs, ip) == SelectInSeq(nbrs, LAMBDA nbr : HasIP(nbr, ip))

ShareAddress(a, b) ==
    \E i \in DOMAIN a.tri :
        \/ a.tri[i].ip # ZeroIp /\ HasIP(b, a.tri[i].ip)
        \/ HasMac(b, a.tri[i].mac)

\* Returns the table unchanged (false in the code) when an address is taken.
AddNeighbor(nbrs, nbr) ==
    IF \E i \in DOMAIN nbrs : ShareAddress(nbr, nbrs[i]) THEN nbrs
    ELSE Append(nbrs, nbr)

\* Faulty: the virtual queue of the neighbor that is replaced is lost.
AbsorbForgetful(acc, k) ==
    IF k = 0 THEN acc ELSE [acc EXCEPT !.nbrs = RemoveAt(@, k)]

\* Moves the virtual queue of neighbor k to the neighbor being built and
\* removes neighbor k.
Absorb(acc, k) ==
    IF k = 0 THEN acc
    ELSE [nbrs |-> RemoveAt(acc.nbrs, k),
          new  |-> [acc.new EXCEPT !.vq = @ \o acc.nbrs[k].vq]]

LearnPair(acc, pair) ==
    LET byMac == Absorb(acc, SearchMac(acc.nbrs, pair.mac))
        byIp  == Absorb(byMac, SearchIp(byMac.nbrs, pair.ip))
    IN  [byIp EXCEPT !.new.tri = AddTrinity(@, pair)]

\* A hello replaces every neighbor it shares an address with by one neighbor
\* that has the hello's trinities.
NeighborLearn(nbrs, pairs) ==
    LET learnt == FoldLeft(LearnPair, [nbrs |-> nbrs, new |-> NewNeighbor], pairs)
    IN  IF pairs = <<>> THEN nbrs ELSE AddNeighbor(learnt.nbrs, learnt.new)

\* Faulty: the neighbor that was merged stays in the table.
MergeNeighborsTwice(nbrs, a, b, t) ==
    LET tri == AddTrinity(nbrs[b].tri, t)
    IN  [nbrs EXCEPT ![a] = [tri |-> @.tri \o tri, vq |-> @.vq \o nbrs[b].vq]]

\* The merge of SMNeighbors: what is known under the MAC joins the neighbor
\* known under the IP.
MergeNeighbors(nbrs, a, b, t) ==
    LET tri == AddTrinity(nbrs[b].tri, t)
    IN  RemoveAt([nbrs EXCEPT ![a] = [tri |-> @.tri \o tri, vq |-> @.vq \o nbrs[b].vq]], b)

\* The table after a data frame from t.ip, t.mac on channel t.ch; the frame's
\* neighbor is then SearchIp(_, t.ip).
SMNeighbors(nbrs, t) ==
    LET a == SearchIp(nbrs, t.ip)
        b == SearchMac(nbrs, t.mac)
    IN  CASE a # 0 /\ b = 0 -> [nbrs EXCEPT ![a].tri = AddSoftTrinity(@, t)]
          [] a = 0 /\ b # 0 -> [nbrs EXCEPT ![b].tri = AddTrinity(@, t)]
          [] a # 0 /\ b # 0 -> IF a = b THEN nbrs ELSE MergeNeighbors(nbrs, a, b, t)
          [] OTHER          -> AddNeighbor(nbrs, [NewNeighbor EXCEPT !.tri = AddTrinity(@, t)])

-----------------------------------------------------------------------------

\* Faulty: a new packet overtakes the older ones.
AddVirtualQueueEntryFirst(nbrs, k, pid) == [nbrs EXCEPT ![k].vq = <<pid>> \o @]

AddVirtualQueueEntry(nbrs, k, pid) == [nbrs EXCEPT ![k].vq = Append(@, pid)]

AddVirtualQueueEntryFront(nbrs, k, pid) == [nbrs EXCEPT ![k].vq = <<pid>> \o @]

RemoveVirtualQueueEntry(nbrs, k, pid) == [nbrs EXCEPT ![k].vq = RemoveFirst(@, pid)]

\* NS_FATAL_ERROR "Duplicate packet with id": the code refuses a second
\* pointer with an id the virtual queue already has.
DuplicateVirtualEntry(nbrs) ==
    \E k \in DOMAIN nbrs : ~ IsInjective(nbrs[k].vq)

=============================================================================
