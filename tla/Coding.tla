-------------------------------- MODULE Coding --------------------------------
(***************************************************************************)
(* What the coding layer of mync promises, for any number of nodes and     *)
(* packets: a node that sends several natives in one frame only goes by    *)
(* what it believes its next hops to have, those beliefs may be old and    *)
(* the frame may arrive at any time or never, and still every next hop can *)
(* take its native out of the frame.                                       *)
(*                                                                         *)
(* Left out are the queues, the neighbor table, retransmissions and which  *)
(* of the legal frames a node picks; MyncRefinement shows that             *)
(* MyncNetwork implements this.                                            *)
(***************************************************************************)

CONSTANTS
    Node,
    Native      \* the packets, identified by what Hash makes of them

VARIABLES
    holds,      \* the natives each node has (m_pool)
    knows,      \* the pairs <<native, node that has it>> each node believes
    air         \* the frames somebody may still hear

vars == <<holds, knows, air>>

\* A frame asks each x in ids to deliver the native x.pid to the node x.to; it
\* reports the natives recps, acked ones included. ids is empty in a broadcast.
Frame == [src : Node, ids : SUBSET [to : Node, pid : Native], recps : SUBSET Native]

Natives(f) == {x.pid : x \in f.ids}

\* Faulty: a next hop need not have the natives of the other ones.
LegalForAnyone(f, h, k) ==
    /\ Natives(f) \subseteq h[f.src]
    /\ f.recps \subseteq h[f.src]

\* What f's sender may put into it when it has h and knows k.
LegalFor(f, h, k) ==
    /\ Natives(f) \subseteq h[f.src]
    /\ f.recps \subseteq h[f.src]
    /\ \A x, y \in f.ids : x # y => <<x.pid, y.to>> \in k[f.src]

Legal(f) == LegalFor(f, holds, knows)

\* The natives node n can take out of f: it has all the others.
Decodable(n, f) == {p \in Natives(f) : Natives(f) \ {p} \subseteq holds[n]}

-----------------------------------------------------------------------------

Init ==
    /\ holds = [n \in Node |-> {}]
    /\ knows = [n \in Node |-> {}]
    /\ air = {}

\* A packet comes down from IP.
Originate(n, p) ==
    /\ holds' = [holds EXCEPT ![n] = @ \cup {p}]
    /\ UNCHANGED knows

\* Faulty: next hops are taken to have received what was sent to them.
ReceiveOptimistic(n, f) ==
    /\ n # f.src
    /\ \E got \in {{}} \cup {{p} : p \in Decodable(n, f)} :
          /\ holds' = [holds EXCEPT ![n] = @ \cup got]
          /\ knows' = [knows EXCEPT ![n] = @ \cup {<<x.pid, x.to>> : x \in f.ids}]

\* Faulty: a pool with room for what was heard last only.
ReceiveForgetful(n, f) ==
    /\ n # f.src
    /\ \E got \in {{}} \cup {{p} : p \in Decodable(n, f)} :
          /\ holds' = [holds EXCEPT ![n] = got]
          /\ knows' = [knows EXCEPT ![n] = @ \cup ((f.recps \cup got) \X {f.src})]

\* Node n hears f, and keeps at most one native it can take out of it.
Receive(n, f) ==
    /\ n # f.src
    /\ \E got \in {{}} \cup {{p} : p \in Decodable(n, f)} :
          /\ holds' = [holds EXCEPT ![n] = @ \cup got]
          /\ knows' = [knows EXCEPT ![n] = @ \cup ((f.recps \cup got) \X {f.src})]

\* Whatever node n does, a timer that does nothing else included, it may end
\* with sending frames.
Event(n) ==
    \/ UNCHANGED <<holds, knows>>
    \/ \E p \in Native : Originate(n, p)
    \/ \E f \in air : Receive(n, f)

Sends(n) ==
    /\ air' \subseteq Frame
    /\ air \subseteq air'
    /\ \A f \in air' \ air : f.src = n /\ LegalFor(f, holds', knows')

\* The medium is done with some frames.
Expire ==
    /\ air' \in SUBSET air
    /\ UNCHANGED <<holds, knows>>

Next ==
    \/ Expire
    \/ \E n \in Node : Event(n) /\ Sends(n)

Spec == Init /\ [][Next]_vars

-----------------------------------------------------------------------------

TypeOK ==
    /\ holds \in [Node -> SUBSET Native]
    /\ knows \in [Node -> SUBSET (Native \X Node)]
    /\ air \subseteq Frame

\* What a node believes another one to have, that one has (m_packetInfo).
KnowledgeTruthful ==
    \A n \in Node : \A known \in knows[n] : known[1] \in holds[known[2]]

\* A frame that was legal when it was sent is legal as long as it is on its way.
FramesLegal == \A f \in air : Legal(f)

\* Every next hop can take its native out of the frame, whenever it arrives
\* (Decode returns its id in Recv, mync-protocol.cc:576-608).
FramesDecodable ==
    \A f \in air : \A x \in f.ids : x.pid \in Decodable(x.to, f)

=============================================================================
