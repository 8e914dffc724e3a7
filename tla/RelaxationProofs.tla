--------------------------- MODULE RelaxationProofs ---------------------------
(***************************************************************************)
(* Relaxing edges in any order keeps the prehops free of cycles, for every *)
(* graph with natural weights, however large.                              *)
(***************************************************************************)
EXTENDS Relaxation, TLAPS

\* What every reachable state satisfies.
Inv == TypeOK /\ SourceIsRoot /\ PrehopIsNearer /\ NoPrehopCycle

\* No node is reached at first.
LEMMA InitInv == Init => Inv
<1> SUFFICES ASSUME Init PROVE Inv
  OBVIOUS
<1>1. TypeOK
  BY RelaxationAssumption DEF Init, TypeOK
<1>2. SourceIsRoot
  BY RelaxationAssumption DEF Init, SourceIsRoot, Reached
<1>3. PrehopIsNearer
  BY DEF Init, PrehopIsNearer
<1>4. NoPrehopCycle
  BY RelaxationAssumption DEF Init, NoPrehopCycle
<1> QED
  BY <1>1, <1>2, <1>3, <1>4 DEF Inv

\* A step leaves everything but the distance and the prehop of one node alone.
LEMMA RelaxStep ==
    ASSUME TypeOK, NEW e \in edges, Relax(e)
    PROVE  /\ e.from \in Node /\ e.to \in Node /\ e.weight \in Nat
           /\ dist[e.from] + e.weight < dist[e.to]
           /\ dist'[e.to] = dist[e.from] + e.weight
           /\ prehop'[e.to] = e.from
           /\ \A v \in Node \ {e.to} : dist'[v] = dist[v] /\ prehop'[v] = prehop[v]
           /\ edges' = edges
  BY DEF Relax, TypeOK

\* The node an edge leaves is nearer than the node it leads to was: it was
\* reached, and it is not the same node.
LEMMA FromIsReached ==
    ASSUME Inv, NEW e \in edges, Relax(e)
    PROVE  /\ e.from # e.to /\ e.to # Source
           /\ dist[e.from] < Far /\ dist[e.from] + e.weight < Far
           /\ Reached(e.from)
<1>1. /\ e.from \in Node /\ e.to \in Node /\ e.weight \in Nat
      /\ dist[e.from] + e.weight < dist[e.to]
  BY RelaxStep DEF Inv
<1>2. dist[e.from] \in Nat /\ dist[e.to] \in Nat /\ Far \in Nat
  BY <1>1, RelaxationAssumption DEF Inv, TypeOK
<1>3. dist[e.to] <= Far
  BY <1>1, <1>2 DEF Inv, SourceIsRoot
<1>4. dist[e.from] < dist[e.to] /\ dist[e.from] < Far /\ dist[e.from] + e.weight < Far
  BY <1>1, <1>2, <1>3
<1>5. e.from # e.to
  BY <1>2, <1>4
<1>6. e.to # Source
  BY <1>1, <1>2 DEF Inv, SourceIsRoot
<1>7. Reached(e.from)
  BY <1>1, <1>2, <1>4 DEF Inv, SourceIsRoot
<1> QED
  BY <1>4, <1>5, <1>6, <1>7

\* Distances only get smaller.
LEMMA DistancesShrink ==
    ASSUME TypeOK, NEW e \in edges, Relax(e), NEW v \in Node
    PROVE  dist'[v] \in Nat /\ dist'[v] <= dist[v]
<1>1. dist[v] \in Nat /\ dist[e.from] \in Nat
  BY RelaxStep DEF TypeOK
<1>2. CASE v = e.to
  BY <1>1, <1>2, RelaxStep
<1>3. CASE v # e.to
  BY <1>1, <1>3, RelaxStep
<1> QED
  BY <1>2, <1>3

LEMMA RelaxTypeOK == ASSUME TypeOK, NEW e \in edges, Relax(e) PROVE TypeOK'
<1>1. /\ e.from \in Node /\ e.to \in Node /\ e.weight \in Nat
      /\ dist[e.from] + e.weight < dist[e.to]
  BY RelaxStep
<1>2. /\ Far \in Nat /\ dist[e.from] \in 0..Far /\ dist[e.to] \in 0..Far
  BY <1>1, RelaxationAssumption DEF TypeOK
<1>3. dist[e.from] + e.weight \in 0..Far
  BY <1>1, <1>2
<1>4. dist' \in [Node -> 0..Far]
  BY <1>3 DEF TypeOK, Relax
<1>5. prehop' \in [Node -> Node \cup {NoPrehop}] /\ edges' = edges
  BY <1>1 DEF TypeOK, Relax
<1> QED
  BY <1>4, <1>5 DEF TypeOK

LEMMA RelaxSourceIsRoot == ASSUME Inv, NEW e \in edges, Relax(e) PROVE SourceIsRoot'
<1>1. TypeOK /\ SourceIsRoot
  BY DEF Inv
<1>2. dist'[Source] = 0 /\ prehop'[Source] = NoPrehop
  BY <1>1, RelaxStep, FromIsReached, RelaxationAssumption DEF SourceIsRoot
<1>3. ASSUME NEW v \in Node
      PROVE  IF Reached(v)' THEN dist'[v] < Far ELSE dist'[v] = Far
  <2>1. CASE v = e.to
    BY <1>1, <2>1, RelaxStep, FromIsReached, RelaxationAssumption DEF Reached
  <2>2. CASE v # e.to
    BY <1>1, <2>2, RelaxStep DEF SourceIsRoot, Reached
  <2> QED
    BY <2>1, <2>2
<1> QED
  BY <1>2, <1>3 DEF SourceIsRoot

LEMMA RelaxPrehopIsNearer == ASSUME Inv, NEW e \in edges, Relax(e) PROVE PrehopIsNearer'
<1>1. TypeOK /\ PrehopIsNearer
  BY DEF Inv
<1>2. ASSUME NEW u \in Node, Reached(u) PROVE Reached(u)'
  BY <1>1, <1>2, RelaxStep, RelaxationAssumption DEF Reached
<1>3. ASSUME NEW v \in Node, prehop'[v] # NoPrehop
      PROVE  (/\ Reached(prehop[v])
              /\ \E d \in edges : /\ d.from = prehop[v] /\ d.to = v
                                 /\ dist[d.from] + d.weight <= dist[v])'
  <2>1. CASE v = e.to
    <3>1. prehop'[v] = e.from /\ edges' = edges /\ dist'[v] = dist[e.from] + e.weight
      BY <1>1, <2>1, RelaxStep
    <3>2. /\ e.from \in Node /\ dist'[e.from] = dist[e.from]
          /\ dist[e.from] \in Nat /\ e.weight \in Nat
      BY <1>1, RelaxStep, FromIsReached DEF TypeOK
    <3>3. Reached(e.from)'
      BY <1>2, <3>2, FromIsReached
    <3>4. Reached(prehop[v])'
      BY <3>1, <3>3 DEF Reached
    <3>5. dist'[e.from] + e.weight <= dist'[v]
      BY <3>1, <3>2
    <3> QED
      BY <2>1, <3>1, <3>4, <3>5
  <2>2. CASE v # e.to
    <3>1. prehop'[v] = prehop[v] /\ dist'[v] = dist[v] /\ edges' = edges
      BY <1>1, <2>2, RelaxStep
    <3>2. PICK d \in edges : /\ d.from = prehop[v] /\ d.to = v
                             /\ dist[d.from] + d.weight <= dist[v]
      BY <1>1, <1>3, <3>1 DEF PrehopIsNearer
    <3>3. d.from \in Node /\ d.weight \in Nat
      BY <1>1 DEF TypeOK
    <3>4. dist'[d.from] \in Nat /\ dist'[d.from] <= dist[d.from]
      BY <1>1, <3>3, DistancesShrink
    <3>5. dist[d.from] \in Nat /\ dist[v] \in Nat
      BY <1>1, <3>3 DEF TypeOK
    <3>6. dist'[d.from] + d.weight <= dist'[v]
      BY <3>1, <3>2, <3>3, <3>4, <3>5
    <3>7. Reached(d.from)
      BY <1>1, <1>3, <3>1, <3>2 DEF PrehopIsNearer
    <3>8. Reached(prehop[v])'
      BY <1>2, <3>1, <3>2, <3>3, <3>7 DEF Reached
    <3> QED
      BY <3>1, <3>2, <3>6, <3>8
  <2> QED
    BY <2>1, <2>2
<1> QED
  BY <1>3 DEF PrehopIsNearer

\* A cycle the step closed would go through e.to, whose prehop e.from is now. Of
\* its members take those that were at most as far as e.from: they contain
\* e.from but not e.to, and with each member its prehop. That was a cycle before.
LEMMA RelaxNoCycle == ASSUME Inv, NEW e \in edges, Relax(e) PROVE NoPrehopCycle'
<1> SUFFICES ASSUME NEW S \in SUBSET (Node \ {Source}), S # {},
                    \A v \in S : prehop'[v] \in S
             PROVE  FALSE
  BY DEF NoPrehopCycle
<1>1. TypeOK /\ PrehopIsNearer /\ NoPrehopCycle
  BY DEF Inv
<1>2. CASE e.to \notin S
  <2>1. \A v \in S : prehop[v] \in S
    BY <1>1, <1>2, RelaxStep
  <2> QED
    BY <1>1, <2>1 DEF NoPrehopCycle
<1>3. CASE e.to \in S
  <2> DEFINE Near == {v \in S : dist[v] <= dist[e.from]}
  <2>1. e.from \in S
    BY <1>1, <1>3, RelaxStep
  <2>2. dist[e.from] \in Nat /\ dist[e.from] < dist[e.to] /\ dist[e.to] \in Nat
    BY <1>1, RelaxStep DEF TypeOK
  <2>3. e.from \in Near /\ e.to \notin Near
    BY <2>1, <2>2
  <2>4. ASSUME NEW v \in Near PROVE prehop[v] \in Near
    <3>1. v \in S /\ v \in Node /\ v # e.to /\ dist[v] <= dist[e.from]
      BY <2>3
    <3>2. prehop[v] \in S
      BY <1>1, <3>1, RelaxStep
    <3>3. prehop[v] # NoPrehop
      BY <3>2, RelaxationAssumption
    <3>4. PICK d \in edges : d.from = prehop[v] /\ dist[d.from] + d.weight <= dist[v]
      BY <1>1, <3>1, <3>3 DEF PrehopIsNearer
    <3>5. dist[prehop[v]] \in Nat /\ d.weight \in Nat /\ dist[v] \in Nat
      BY <1>1, <3>1, <3>2 DEF TypeOK
    <3>6. dist[prehop[v]] <= dist[e.from]
      BY <2>2, <3>1, <3>4, <3>5
    <3> QED
      BY <3>2, <3>6
  <2> QED
    BY <1>1, <2>3, <2>4 DEF NoPrehopCycle
<1> QED
  BY <1>2, <1>3

LEMMA NextInv == Inv /\ [Next]_vars => Inv'
<1> SUFFICES ASSUME Inv, [Next]_vars PROVE Inv'
  OBVIOUS
<1>1. CASE Next
  <2>1. PICK e \in edges : Relax(e)
    BY <1>1 DEF Next
  <2>2. TypeOK'
    BY <2>1, RelaxTypeOK DEF Inv
  <2> QED
    BY <2>1, <2>2, RelaxSourceIsRoot, RelaxPrehopIsNearer, RelaxNoCycle DEF Inv
<1>2. CASE UNCHANGED vars
  BY <1>2 DEF Inv, vars, TypeOK, SourceIsRoot, Reached, PrehopIsNearer, NoPrehopCycle
<1> QED
  BY <1>1, <1>2

\* Every reachable state satisfies the invariant.
THEOREM Invariance == Spec => []Inv
  BY InitInv, NextInv, PTL DEF Spec

\* Distances and prehops have their types.
THEOREM TypeCorrect == Spec => []TypeOK
<1>1. Inv => TypeOK
  BY DEF Inv
<1> QED
  BY <1>1, Invariance, PTL

\* The source stays the root, at distance 0, and who is reached is nearer than
\* Far, so a distance never says Far of a node that has a route (Dijkstra.cc:41-56).
THEOREM RootStays == Spec => []SourceIsRoot
<1>1. Inv => SourceIsRoot
  BY DEF Inv
<1> QED
  BY <1>1, Invariance, PTL

\* The prehop of every node that has one was reached, over an edge that
\* accounts for the distance (Dijkstra::Relax).
THEOREM PrehopsNearer == Spec => []PrehopIsNearer
<1>1. Inv => PrehopIsNearer
  BY DEF Inv
<1> QED
  BY <1>1, Invariance, PTL

\* Following prehops never runs in a circle, in whatever order the edges are
\* relaxed, so FindSendEntry ends even though the heap of the code does not
\* always yield its minimum.
THEOREM PrehopsEnd == Spec => []NoPrehopCycle
<1>1. Inv => NoPrehopCycle
  BY DEF Inv
<1> QED
  BY <1>1, Invariance, PTL

=============================================================================
