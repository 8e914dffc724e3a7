----------------------------- MODULE CodingProofs -----------------------------
(***************************************************************************)
(* Coding is safe for any set of nodes and any set of packets. The         *)
(* argument is that nothing a frame rests on is ever taken back: nodes     *)
(* only gain packets and beliefs, so a frame that was legal when it was    *)
(* sent is legal when it arrives; and beliefs are true, so a legal frame   *)
(* can be decoded.                                                         *)
(***************************************************************************)
EXTENDS Coding, TLAPS

\* Beliefs are only true as long as frames are legal, and frames stay legal
\* only because packets and beliefs are kept.
Inv == TypeOK /\ KnowledgeTruthful /\ FramesLegal

-----------------------------------------------------------------------------

\* A legal frame stays legal when its sender gains packets and beliefs.
LEMMA LegalStable ==
    ASSUME NEW f, NEW h, NEW k, NEW h2, NEW k2,
           LegalFor(f, h, k),
           h[f.src] \subseteq h2[f.src],
           k[f.src] \subseteq k2[f.src]
    PROVE  LegalFor(f, h2, k2)
BY DEF LegalFor

\* The receiver of a legal frame learns only what its sender has.
LEMMA LegalReports ==
    ASSUME NEW n \in Node, NEW f, Legal(f), NEW p,
           p \in f.recps \/ p \in Decodable(n, f)
    PROVE  p \in holds[f.src]
BY DEF Legal, LegalFor, Decodable

\* What an event of a node does to the packets and beliefs: both stay sets of
\* the right kind, grow, and the beliefs stay true.
LEMMA EventGrows ==
    ASSUME Inv, NEW n \in Node, Event(n)
    PROVE  /\ holds' \in [Node -> SUBSET Native]
           /\ knows' \in [Node -> SUBSET (Native \X Node)]
           /\ \A m \in Node : holds[m] \subseteq holds'[m] /\ knows[m] \subseteq knows'[m]
           /\ KnowledgeTruthful'
<1> USE DEF Inv
<1>1. CASE UNCHANGED <<holds, knows>>
  BY <1>1 DEF TypeOK, KnowledgeTruthful
<1>2. ASSUME NEW p \in Native, Originate(n, p)
      PROVE  /\ holds' \in [Node -> SUBSET Native]
             /\ knows' \in [Node -> SUBSET (Native \X Node)]
             /\ \A m \in Node : holds[m] \subseteq holds'[m] /\ knows[m] \subseteq knows'[m]
             /\ KnowledgeTruthful'
  BY <1>2 DEF Originate, TypeOK, KnowledgeTruthful
<1>3. ASSUME NEW f \in air, Receive(n, f)
      PROVE  /\ holds' \in [Node -> SUBSET Native]
             /\ knows' \in [Node -> SUBSET (Native \X Node)]
             /\ \A m \in Node : holds[m] \subseteq holds'[m] /\ knows[m] \subseteq knows'[m]
             /\ KnowledgeTruthful'
  <2>1. PICK got \in {{}} \cup {{p} : p \in Decodable(n, f)} :
            /\ holds' = [holds EXCEPT ![n] = @ \cup got]
            /\ knows' = [knows EXCEPT ![n] = @ \cup ((f.recps \cup got) \X {f.src})]
    BY <1>3 DEF Receive
  <2>2. f \in Frame /\ f.src \in Node /\ f.recps \subseteq Native /\ Legal(f)
    BY DEF TypeOK, FramesLegal, Frame
  <2>3. \A p \in f.recps \cup got : p \in holds[f.src]
    BY <2>1, <2>2, LegalReports
  <2>4. got \subseteq Native
    BY <2>2, <2>3 DEF TypeOK
  <2>5. holds' \in [Node -> SUBSET Native]
    BY <2>1, <2>4 DEF TypeOK
  <2>6. (f.recps \cup got) \X {f.src} \subseteq Native \X Node
    BY <2>2, <2>4
  <2>7. knows' \in [Node -> SUBSET (Native \X Node)]
    BY <2>1, <2>6 DEF TypeOK
  <2>8. \A m \in Node : holds[m] \subseteq holds'[m] /\ knows[m] \subseteq knows'[m]
    BY <2>1 DEF TypeOK
  <2>9. KnowledgeTruthful'
    <3>1. SUFFICES ASSUME NEW m \in Node, NEW known \in knows'[m]
                   PROVE  known[1] \in holds'[known[2]]
      BY DEF KnowledgeTruthful
    <3>2. CASE known \in knows[m]
      <4>1. known[1] \in holds[known[2]] /\ known[2] \in Node
        BY <3>2 DEF KnowledgeTruthful, TypeOK
      <4> QED  BY <4>1, <2>8
    <3>3. CASE known \in (f.recps \cup got) \X {f.src}
      BY <3>3, <2>2, <2>3, <2>8
    <3> QED  BY <3>1, <3>2, <3>3, <2>1 DEF TypeOK
  <2> QED  BY <2>5, <2>7, <2>8, <2>9
<1> QED  BY <1>1, <1>2, <1>3 DEF Event

\* Sending keeps every frame legal: the ones on their way because their
\* senders only gained, the new ones because they were legal when sent.
LEMMA SendsKeepsLegal ==
    ASSUME Inv, NEW n \in Node, Event(n), Sends(n)
    PROVE  FramesLegal'
<1>1. \A m \in Node : holds[m] \subseteq holds'[m] /\ knows[m] \subseteq knows'[m]
  BY EventGrows
<1>2. SUFFICES ASSUME NEW f \in air' PROVE LegalFor(f, holds', knows')
  BY DEF FramesLegal, Legal
<1>3. CASE f \in air
  <2>1. f.src \in Node /\ LegalFor(f, holds, knows)
    BY <1>3 DEF Inv, TypeOK, Frame, FramesLegal, Legal
  <2> QED  BY <1>1, <2>1, LegalStable
<1>4. CASE f \notin air
  BY <1>4 DEF Sends
<1> QED  BY <1>3, <1>4

-----------------------------------------------------------------------------

\* Nobody has, knows or sends anything at the start.
LEMMA InitInv == Init => Inv
BY DEF Init, Inv, TypeOK, KnowledgeTruthful, FramesLegal

\* Every step of a node or of the medium keeps the invariant.
LEMMA NextInv == Inv /\ [Next]_vars => Inv'
<1> SUFFICES ASSUME Inv, [Next]_vars PROVE Inv'
  OBVIOUS
<1>1. CASE Expire
  BY <1>1 DEF Expire, Inv, TypeOK, KnowledgeTruthful, FramesLegal, Legal
<1>2. ASSUME NEW n \in Node, Event(n), Sends(n) PROVE Inv'
  <2>1. TypeOK'
    BY <1>2, EventGrows DEF TypeOK, Sends
  <2>2. KnowledgeTruthful'
    BY <1>2, EventGrows
  <2>3. FramesLegal'
    BY <1>2, SendsKeepsLegal
  <2> QED  BY <2>1, <2>2, <2>3 DEF Inv
<1>3. CASE UNCHANGED vars
  BY <1>3 DEF vars, Inv, TypeOK, KnowledgeTruthful, FramesLegal, Legal
<1> QED  BY <1>1, <1>2, <1>3 DEF Next

\* The inductive invariant holds in every reachable state.
THEOREM Invariance == Spec => []Inv
BY InitInv, NextInv, PTL DEF Spec

\* Nodes hold packets, believe things of nodes, and send frames, only.
THEOREM TypeCorrect == Spec => []TypeOK
<1>1. Inv => TypeOK
  BY DEF Inv
<1> QED  BY <1>1, Invariance, PTL

\* What a node believes another node to have, that node has: m_packetInfo is
\* never wrong, whatever is lost, delayed or overtaken.
THEOREM Truthful == Spec => []KnowledgeTruthful
<1>1. Inv => KnowledgeTruthful
  BY DEF Inv
<1> QED  BY <1>1, Invariance, PTL

\* A frame that was legal when it was sent is legal until it expires.
THEOREM StaysLegal == Spec => []FramesLegal
<1>1. Inv => FramesLegal
  BY DEF Inv
<1> QED  BY <1>1, Invariance, PTL

\* A next hop has every native of a legal frame but its own.
LEMMA LegalDecodable ==
    ASSUME Inv PROVE FramesDecodable
<1> SUFFICES ASSUME NEW f \in air, NEW x \in f.ids, NEW p \in Natives(f) \ {x.pid}
             PROVE  p \in holds[x.to]
  BY DEF FramesDecodable, Decodable, Natives
<1>1. PICK y \in f.ids : p = y.pid
  BY DEF Natives
<1>2. y # x
  BY <1>1
<1>3. f.src \in Node /\ x.to \in Node
  BY DEF Inv, TypeOK, Frame
<1>4. <<p, x.to>> \in knows[f.src]
  BY <1>1, <1>2 DEF Inv, FramesLegal, Legal, LegalFor
<1> QED  BY <1>3, <1>4 DEF Inv, KnowledgeTruthful

\* Whenever a coded frame arrives at one of its next hops, the next hop can
\* take its native out of it: Decode never comes out short of more than the
\* native itself there.
THEOREM EveryNextHopDecodes == Spec => []FramesDecodable
BY Invariance, LegalDecodable, PTL

=============================================================================
