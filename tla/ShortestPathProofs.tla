--------------------------- MODULE ShortestPathProofs ---------------------------
(***************************************************************************)
(* What Dijkstra::Calculate keeps true after every step, for every number  *)
(* of nodes, every graph and every weight: the slots form a heap although  *)
(* handlers are stale, each node is in it once, and the calculation        *)
(* implements Relaxation, so that its prehops lead to the source.          *)
(***************************************************************************)
EXTENDS ShortestPath, LinkStateNodeProofs, FunctionTheorems

\* The nodes are the indexes of the adjacency lists.
LEMMA NodesAre == Size \in Nat \ {0} /\ Nodes = Indexes(Size) /\ 0 \in Nodes /\ Size \notin Nodes
BY ShortestPathAssumption DEF Nodes, Indexes

-----------------------------------------------------------------------------
(* The calculation *)

\* The edges that are left to relax lead from a node that left the heap.
Remaining(a, s, u, list) ==
    /\ list \in Seq(EdgeOf(Size))
    /\ \A i \in DOMAIN list : \E j \in DOMAIN a[u] : list[i] = a[u][j]
    /\ list # <<>> => u \notin Held(s)

\* What every reachable state satisfies.
Inv ==
    /\ adj \in [Nodes -> Seq(EdgeOf(Size))]
    /\ Fit(run, Size) /\ Once(run) /\ Ordered(run, 0)
    /\ current \in Nodes
    /\ Remaining(adj, run, current, todo)

\* A calculation starts with every node in the heap.
LEMMA InitInv == Init => Inv
<1> SUFFICES ASSUME Init PROVE Inv
  OBVIOUS
<1>1. Begun(run, Size)
  BY NodesAre, StartOk DEF Init
<1>2. 0 \in Nodes /\ adj \in [Nodes -> Seq(EdgeOf(Size))]
  <2>1. adj \in AdjLists
    BY DEF Init
  <2>2. EdgeOf(Size) = [node : Nodes, weight : Nat]
    BY NodesAre DEF EdgeOf
  <2>3. adj \in [Nodes -> Seq(EdgeOf(Size))]
    BY <2>1, <2>2, ShortestPathAssumption
  <2> QED  BY <2>3, NodesAre
<1>3. todo = <<>> /\ current = 0
  BY DEF Init
<1>4. Remaining(adj, run, current, todo)
  BY <1>3 DEF Remaining
<1> QED  BY <1>1, <1>2, <1>3, <1>4 DEF Inv, Begun

\* The next edge is one of the graph's.
LEMMA HeadIs ==
    ASSUME Inv, todo # <<>>
    PROVE  /\ Head(todo) \in EdgeOf(Size)
           /\ \E j \in DOMAIN adj[current] : Head(todo) = adj[current][j]
<1>1. todo \in Seq(EdgeOf(Size)) /\ 1 \in DOMAIN todo /\ Head(todo) = todo[1]
  BY DEF Inv, Remaining
<1> QED  BY <1>1 DEF Inv, Remaining

\* The minimum leaves, and its edges are relaxed next.
LEMMA ExtractInv == Inv /\ Extract => Inv'
<1> SUFFICES ASSUME Inv, Extract PROVE Inv'
  OBVIOUS
<1>1. /\ Extracted(run, ExtractMin(run), Size) /\ Minimum(run) \in Nodes
      /\ Shrunk(run, ExtractMin(run))
  BY NodesAre, ExtractMinOk DEF Inv, Extract
<1>2. run' = ExtractMin(run) /\ current' = Minimum(run) /\ todo' = adj[Minimum(run)] /\ adj' = adj
  BY DEF Extract
<1>3. adj \in [Nodes -> Seq(EdgeOf(Size))]
  BY DEF Inv
<1>4. Remaining(adj', run', current', todo')
  BY <1>1, <1>2, <1>3 DEF Remaining, Shrunk
<1> QED  BY <1>1, <1>2, <1>3, <1>4 DEF Inv, Extracted, Shrunk

\* An edge is relaxed and the heap rebuilt.
LEMMA RelaxInv == Inv /\ RelaxNext => Inv'
<1> SUFFICES ASSUME Inv, RelaxNext PROVE Inv'
  OBVIOUS
<1> DEFINE e == Head(todo)
           t == Relax(run, current, e)
<1>1. todo # <<>> /\ run' = Rebuild(t) /\ todo' = Tail(todo) /\ adj' = adj /\ current' = current
  BY DEF RelaxNext
<1>2. Relaxed(run, current, e, t, Size)
  BY <1>1, HeadIs, NodesAre, RelaxOk DEF Inv
<1> HIDE DEF e, t
<1>3. Rebuilt(t, Rebuild(t), Size)
  BY <1>2, NodesAre, RebuildOk DEF Relaxed
<1>4. Fit(run', Size) /\ Once(run') /\ Ordered(run', 0) /\ Held(run') = Held(run)
  BY <1>1, <1>2, <1>3 DEF Relaxed, Rebuilt, Reorders, Inv
<1>5. /\ Tail(todo) \in Seq(EdgeOf(Size))
      /\ \A i \in DOMAIN Tail(todo) : i + 1 \in DOMAIN todo /\ Tail(todo)[i] = todo[i + 1]
  BY <1>1 DEF Inv, Remaining
<1>6. Remaining(adj, run, current, todo)
  BY DEF Inv
<1>7. Remaining(adj', run', current', todo')
  BY <1>1, <1>4, <1>5, <1>6 DEF Remaining
<1> QED  BY <1>1, <1>4, <1>7 DEF Inv

\* Inv is inductive.
THEOREM Invariance == Spec => []Inv
<1>1. Init => Inv
  BY InitInv
<1>2. Inv /\ [Next]_vars => Inv'
  <2>1. Inv /\ UNCHANGED vars => Inv'
    BY DEF Inv, Remaining, vars, Fit, Once, Ordered, Held
  <2> QED  BY <2>1, ExtractInv, RelaxInv DEF Next
<1> QED  BY <1>1, <1>2, PTL DEF Spec

\* The state has its type: no handler leaves the heap's array, and no distance
\* grows beyond Far (Dijkstra.h:30-49, BHeap.h:40-52).
THEOREM TypeCorrect == Spec => []TypeOK
<1>1. Inv => TypeOK
  BY NodesAre DEF Inv, Fit, TypeOK, Slot
<1> QED  BY <1>1, Invariance, PTL

\* The heap holds as many nodes as its size says, each in one slot, and a
\* visited node never comes back, although ExtractMin leaves the handlers stale
\* (BHeap.cc:114-135).
THEOREM NodesOnce == Spec => []EachNodeOnce
<1>1. Inv => EachNodeOnce
  <2> SUFFICES ASSUME Inv PROVE EachNodeOnce
    OBVIOUS
  <2> DEFINE D == 0..run.size - 1
             f == [i \in D |-> run.slot[i].node]
  <2>1. run.size \in Nat
    BY ShortestPathAssumption DEF Inv, Fit
  <2>2. IsFiniteSet(D) /\ Cardinality(D) = run.size
    <3>1. 0 \in Int /\ run.size - 1 \in Int
      BY <2>1
    <3>2. /\ IsFiniteSet(D)
          /\ Cardinality(D) = IF 0 > run.size - 1 THEN 0 ELSE run.size - 1 - 0 + 1
      BY <3>1, FS_Interval
    <3> QED  BY <2>1, <3>2
  <2>3. InHeap = Held(run)
    BY DEF InHeap, Held
  <2>4. f \in [D -> InHeap] /\ \A v \in InHeap : \E i \in D : f[i] = v
    BY DEF InHeap
  <2>5. \A i, j \in D : f[i] = f[j] => i = j
    BY DEF Inv, Once
  <2> HIDE DEF D, f
  <2>6. f \in Bijection(D, InHeap)
    BY <2>4, <2>5, Fun_IsBij
  <2>7. ExistsBijection(D, InHeap)
    BY <2>6 DEF ExistsBijection
  <2>8. Cardinality(InHeap) = run.size
    BY <2>2, <2>7, FS_Bijection
  <2> QED  BY <2>3, <2>8 DEF EachNodeOnce, Inv, Remaining
<1> QED  BY <1>1, Invariance, PTL

\* After every step the slots are a heap, also when a stale handler wrote a
\* distance into the slot of another node (Dijkstra.cc:66-71, BHeap.cc:57-104).
THEOREM HeapFormed == Spec => []SlotsFormHeap
<1>1. Inv => SlotsFormHeap
  <2> SUFFICES ASSUME Inv, NEW i \in 1..run.size - 1
               PROVE  run.slot[Parent(i)].distance <= run.slot[i].distance
    BY DEF SlotsFormHeap
  <2>1. Parent(i) >= 0
    BY ShortestPathAssumption DEF Inv, Fit, Parent
  <2> QED  BY <2>1 DEF Inv, Ordered
<1> QED  BY <1>1, Invariance, PTL

-----------------------------------------------------------------------------
(* Relaxation *)

\* An edge of an adjacency list is an edge of the graph.
LEMMA EdgeIn ==
    ASSUME NEW a \in [Nodes -> Seq(EdgeOf(Size))], NEW u \in Nodes, NEW j \in DOMAIN a[u]
    PROVE  [from |-> u, to |-> a[u][j].node, weight |-> a[u][j].weight] \in Edges(a)
BY DEF Edges

\* The graph is one of nodes and weights.
LEMMA EdgesType ==
    ASSUME NEW a \in [Nodes -> Seq(EdgeOf(Size))]
    PROVE  Edges(a) \in SUBSET [from : Nodes, to : Nodes, weight : Nat]
<1> SUFFICES ASSUME NEW x \in Edges(a) PROVE x \in [from : Nodes, to : Nodes, weight : Nat]
  OBVIOUS
<1>1. PICK u \in Nodes : \E i \in DOMAIN a[u] :
          x = [from |-> u, to |-> a[u][i].node, weight |-> a[u][i].weight]
  BY DEF Edges
<1>2. PICK i \in DOMAIN a[u] :
          x = [from |-> u, to |-> a[u][i].node, weight |-> a[u][i].weight]
  BY <1>1
<1>3. a[u][i] \in EdgeOf(Size)
  BY <1>2
<1> QED  BY <1>2, <1>3, NodesAre DEF EdgeOf

\* Every step of the calculation relaxes an edge whose path is shorter, or
\* changes neither a distance nor a prehop: the heap, whichever order it gives
\* to the nodes, decides only which (Dijkstra.cc:41-75).
THEOREM CalculateImplementsRelaxation == Spec => ImplementsRelaxation
<1>1. Init => Abstract!Init
  <2> SUFFICES ASSUME Init PROVE Abstract!Init
    OBVIOUS
  <2>1. Begun(run, Size)
    BY NodesAre, StartOk DEF Init
  <2>2. Inv
    BY InitInv
  <2>3. Edges(adj) \in SUBSET [from : Nodes, to : Nodes, weight : Nat]
    BY <2>2, EdgesType DEF Inv
  <2> QED  BY <2>1, <2>3, NodesAre DEF Abstract!Init, Begun
<1>2. Inv /\ [Next]_vars => [Abstract!Next]_(Abstract!vars)
  <2> SUFFICES ASSUME Inv, [Next]_vars PROVE [Abstract!Next]_(Abstract!vars)
    OBVIOUS
  <2>1. CASE UNCHANGED vars
    BY <2>1 DEF vars, Abstract!vars, Edges
  <2>2. CASE Extract
    <3>1. Extracted(run, ExtractMin(run), Size) /\ run' = ExtractMin(run) /\ adj' = adj
      BY <2>2, NodesAre, ExtractMinOk DEF Inv, Extract
    <3>2. run'.dist = run.dist /\ run'.prehop = run.prehop /\ Edges(adj)' = Edges(adj)
      BY <3>1 DEF Extracted, Edges
    <3> QED  BY <3>2 DEF Abstract!vars
  <2>3. CASE RelaxNext
    <3> DEFINE e == Head(todo)
               t == Relax(run, current, e)
               edge == [from |-> current, to |-> e.node, weight |-> e.weight]
    <3>1. todo # <<>> /\ run' = Rebuild(t) /\ adj' = adj
      BY <2>3 DEF RelaxNext
    <3>2. e \in EdgeOf(Size) /\ \E j \in DOMAIN adj[current] : e = adj[current][j]
      BY <3>1, HeadIs
    <3>3. Relaxed(run, current, e, t, Size)
      BY <3>2, NodesAre, RelaxOk DEF Inv
    <3> HIDE DEF t
    <3>4. Rebuilt(t, Rebuild(t), Size)
      BY <3>3, NodesAre, RebuildOk DEF Relaxed
    <3>5. run'.dist = t.dist /\ run'.prehop = t.prehop /\ Edges(adj)' = Edges(adj)
      BY <3>1, <3>4 DEF Rebuilt, Reorders, Edges
    <3>6. edge \in Edges(adj)
      BY <3>2, EdgeIn DEF Inv
    <3> HIDE DEF e
    <3>7. edge.from = current /\ edge.to = e.node /\ edge.weight = e.weight
      OBVIOUS
    <3> HIDE DEF edge
    <3>8. CASE t.dist = run.dist /\ t.prehop = run.prehop
      BY <3>5, <3>8 DEF Abstract!vars
    <3>9. CASE /\ run.dist[current] + e.weight < run.dist[e.node]
               /\ t.dist = [run.dist EXCEPT ![e.node] = run.dist[current] + e.weight]
               /\ t.prehop = [run.prehop EXCEPT ![e.node] = current]
      <4>1. Abstract!Relax(edge)
        BY <3>5, <3>7, <3>9 DEF Abstract!Relax
      <4> QED  BY <3>6, <4>1 DEF Abstract!Next
    <3> QED  BY <3>3, <3>8, <3>9 DEF Relaxed
  <2> QED  BY <2>1, <2>2, <2>3 DEF Next
<1> QED  BY <1>1, <1>2, Invariance, PTL DEF Spec, ImplementsRelaxation, Abstract!Spec

\* What is known of Relaxation, about this calculation.
Tree == INSTANCE RelaxationProofs WITH
    Node     <- Nodes,
    Source   <- 0,
    NoPrehop <- Size,
    Graphs   <- SUBSET [from : Nodes, to : Nodes, weight : Nat],
    edges    <- Edges(adj),
    dist     <- run.dist,
    prehop   <- run.prehop

\* The constants are what Relaxation assumes of them.
LEMMA TreeAssumption ==
    /\ 0 \in Nodes /\ Size \notin Nodes /\ Far \in Nat \ {0}
    /\ SUBSET [from : Nodes, to : Nodes, weight : Nat]
         \subseteq SUBSET [from : Nodes, to : Nodes, weight : Nat]
BY NodesAre, FarAssumption

\* The function of PrehopsLeadToSource.
IsHops(p, h, v) ==
    h = [k \in 0..Size |-> IF k = 0 THEN v
                           ELSE IF h[k - 1] \in {0, Size} THEN h[k - 1] ELSE p[h[k - 1]]]

\* It exists.
LEMMA HopsExist ==
    ASSUME NEW p, NEW v
    PROVE  \E h : IsHops(p, h, v)
<1> DEFINE c == [prehop |-> p, size |-> Size]
           seq == [k \in 1..Size |-> k]
<1>1. Size \in Nat
  BY ShortestPathAssumption
<1>2. PICK it : IsLoop(it, "Hops", c, v, seq, Size)
  BY <1>1, Iterates
<1>3. PICK r : IsRun(r, "Hops", c, v, seq, Size, it[1..Size])
  BY <1>1, <1>2, Iteration
<1> DEFINE h == [k \in 0..Size |-> r[k]]
<1>4. /\ r[0] = v
      /\ \A k \in 0..Size - 1 : r[k + 1] = IF r[k] \in {0, Size} THEN r[k] ELSE p[r[k]]
  <2>1. \A acc, e : Turn("Hops", c, acc, e) = IF acc \in {0, Size} THEN acc ELSE p[acc]
    BY DEF Turn
  <2> HIDE DEF c
  <2> QED  BY <1>3, <2>1 DEF IsRun
<1>5. /\ h[0] = v
      /\ \A k \in 0..Size - 1 : h[k + 1] = IF h[k] \in {0, Size} THEN h[k] ELSE p[h[k]]
  BY <1>1, <1>4
<1>6. \A k \in 0..Size : h[k] = IF k = 0 THEN v
                          ELSE IF h[k - 1] \in {0, Size} THEN h[k - 1] ELSE p[h[k - 1]]
  <2> SUFFICES ASSUME NEW k \in 0..Size, k # 0
               PROVE  h[k] = IF h[k - 1] \in {0, Size} THEN h[k - 1] ELSE p[h[k - 1]]
    BY <1>5
  <2>1. k - 1 \in 0..Size - 1 /\ (k - 1) + 1 = k
    BY <1>1
  <2> HIDE DEF h
  <2> QED  BY <1>5, <2>1
<1>7. IsHops(p, h, v)
  BY <1>6 DEF IsHops
<1> HIDE DEF h
<1> QED  BY <1>7

\* The prehops of the nodes that were reached, as a forest whose end is the source.
LEMMA HopsEnd ==
    ASSUME NEW p \in [Nodes -> Nodes \cup {Size}], p[0] = Size,
           \A w \in Nodes : p[w] # Size => p[w] = 0 \/ p[p[w]] # Size,
           \A S \in SUBSET (Nodes \ {0}) : S # {} => \E w \in S : p[w] \notin S,
           NEW v \in Nodes, p[v] # Size, NEW h, IsHops(p, h, v)
    PROVE  h[Size] = 0
<1> DEFINE D == {w \in Nodes : w = 0 \/ p[w] # Size}
           f == [w \in D |-> IF w = 0 THEN 0 ELSE p[w]]
<1>1. Size \in Nat /\ 0 \in Nodes /\ Size \notin Nodes
  BY NodesAre
<1>2. f \in [D -> D]
  BY <1>1
<1>3. IsFiniteSet(D) /\ Cardinality(D) <= Size
  <2>1. 0 \in Int /\ Size - 1 \in Int
    BY <1>1
  <2>2. IsFiniteSet(Nodes) /\ Cardinality(Nodes) = IF 0 > Size - 1 THEN 0 ELSE Size - 1 - 0 + 1
    BY <2>1, FS_Interval DEF Nodes
  <2>3. Cardinality(Nodes) = Size
    BY <2>2, NodesAre
  <2>4. D \in SUBSET Nodes
    OBVIOUS
  <2> HIDE DEF D
  <2> QED  BY <2>2, <2>3, <2>4, FS_Subset
<1>4. ASSUME NEW T \in SUBSET D, T # {} PROVE \E d \in T : f[d] = d \/ f[d] \notin T
  <2>1. CASE 0 \in T
    BY <2>1
  <2>2. CASE 0 \notin T
    <3>1. T \in SUBSET (Nodes \ {0})
      BY <2>2
    <3>2. PICK w \in T : p[w] \notin T
      BY <1>4, <3>1
    <3>3. f[w] = p[w]
      BY <2>2, <3>2
    <3> QED  BY <3>2, <3>3
  <2> QED  BY <2>1, <2>2
<1>5. IsForest(f, D)
  BY <1>2, <1>3, <1>4 DEF IsForest
<1>6. \A w \in D : f[w] = w => w = 0
  <2> SUFFICES ASSUME NEW w \in Nodes, w # 0, p[w] = w PROVE FALSE
    OBVIOUS
  <2>1. {w} \in SUBSET (Nodes \ {0})
    OBVIOUS
  <2> QED  BY <2>1
<1>7. /\ h[0] = v
      /\ \A k \in 0..Size - 1 : h[k + 1] = IF h[k] \in {0, Size} THEN h[k] ELSE p[h[k]]
  <2>1. \A k \in 0..Size - 1 : k \in 0..Size /\ k + 1 \in 0..Size /\ k + 1 # 0 /\ (k + 1) - 1 = k
    BY <1>1
  <2>2. 0 \in 0..Size
    BY <1>1
  <2> QED  BY <2>1, <2>2 DEF IsHops
<1> DEFINE T == {k \in 0..Size : h[k] \in D}
<1>8. \A k \in 0..Size : h[k] \in D
  <2>1. 0 \in T
    BY <1>1, <1>7
  <2>2. ASSUME NEW k \in 0..Size - 1, k \in T PROVE k + 1 \in T
    <3>1. h[k] \in D /\ k + 1 \in 0..Size
      BY <1>1, <2>2
    <3>2. h[k + 1] = f[h[k]]
      BY <1>1, <1>7, <3>1
    <3>3. f[h[k]] \in D
      BY <1>2, <3>1
    <3> QED  BY <3>1, <3>2, <3>3
  <2> HIDE DEF T
  <2>3. \A k \in 0..Size : k \in T
    BY <1>1, <2>1, <2>2, Upto
  <2> QED  BY <2>3 DEF T
<1>9. Goes(h, f, Size)
  <2> SUFFICES ASSUME NEW k \in 0..Size - 1 PROVE h[k + 1] = f[h[k]]
    BY DEF Goes
  <2>1. h[k] \in D
    BY <1>1, <1>8
  <2> QED  BY <1>1, <1>7, <2>1
<1>10. h[0] \in D
  BY <1>1, <1>8
<1> HIDE DEF D, f
<1>11. h[Size] \in D /\ f[h[Size]] = h[Size]
  BY <1>1, <1>3, <1>5, <1>9, <1>10, ChainEnds
<1> QED  BY <1>6, <1>11

\* Following prehops leads to the source within as many hops as there are
\* nodes, at every moment of the calculation and for every graph, so the loop
\* of FindSendEntry ends (link-state-routing-protocol.cc:468-484).
THEOREM PrehopsLead == Spec => []PrehopsLeadToSource
<1>1. Tree!Spec => []Tree!Inv
  BY TreeAssumption, Tree!Invariance
<1>2. Abstract!Init => Tree!Init
  BY DEF Abstract!Init, Tree!Init
<1>3. [Abstract!Next]_(Abstract!vars) => [Tree!Next]_(Tree!vars)
  BY DEF Abstract!Next, Abstract!Relax, Abstract!vars, Tree!Next, Tree!Relax, Tree!vars
<1>4. Inv /\ Tree!Inv => PrehopsLeadToSource
  <2> SUFFICES ASSUME Inv, Tree!Inv PROVE PrehopsLeadToSource
    OBVIOUS
  <2> DEFINE p == run.prehop
  <2>1. p \in [Nodes -> Nodes \cup {Size}] /\ p[0] = Size
    BY NodesAre DEF Inv, Fit, Tree!Inv, Tree!SourceIsRoot
  <2>2. \A w \in Nodes : p[w] # Size => p[w] = 0 \/ p[p[w]] # Size
    BY DEF Tree!Inv, Tree!PrehopIsNearer, Tree!Reached
  <2>3. \A S \in SUBSET (Nodes \ {0}) : S # {} => \E w \in S : p[w] \notin S
    BY DEF Tree!Inv, Tree!NoPrehopCycle
  <2> HIDE DEF p
  <2>5. ASSUME NEW v \in Nodes, p[v] # Size, NEW h, IsHops(p, h, v)
        PROVE  h[Size] = 0
    BY <2>1, <2>2, <2>3, <2>5, HopsEnd
  <2>6. \A v : \E h : IsHops(p, h, v)
    BY HopsExist
  <2> QED  BY Zenon, <2>5, <2>6 DEF PrehopsLeadToSource, IsHops, p
<1> QED  BY <1>1, <1>2, <1>3, <1>4, Invariance, CalculateImplementsRelaxation, PTL
         DEF ImplementsRelaxation, Abstract!Spec, Tree!Spec

=============================================================================
