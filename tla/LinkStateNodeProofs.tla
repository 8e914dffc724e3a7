------------------------- MODULE LinkStateNodeProofs -------------------------
(***************************************************************************)
(* What the operators of Dijkstra and LinkStateNode do, for any number of  *)
(* nodes, any graph and any weights: the heap that Rebuild makes, the tree *)
(* of prehops that Calculate returns, and the tables made of it. The       *)
(* modules about the calculation and about the network build on it.        *)
(*                                                                         *)
(* Most operators are loops. Loops are folds, and a fold is a run: its     *)
(* values after 0, 1, ... N turns (Iteration); what each turn keeps holds  *)
(* of them all (Upto).                                                     *)
(***************************************************************************)
EXTENDS LinkStateNode, FiniteSetTheorems, WellFoundedInduction, TLAPS

-----------------------------------------------------------------------------
(* Loops *)

\* A nonempty set of naturals has a least element.
LEMMA LeastElement ==
    ASSUME NEW T, T \subseteq Nat, T # {}
    PROVE  \E x \in T : \A y \in T : x <= y
<1> DEFINE R == OpToRel(<, Nat)
<1>1. IsWellFoundedOn(R, Nat)
  BY Zenon, NatLessThanWellFounded
<1>2. \A x, y \in Nat : <<x, y>> \in R <=> x < y
  BY Zenon DEF OpToRel
<1> HIDE DEF R
<1>3. PICK x \in T : \A y \in T : ~ (<<y, x>> \in R)
  BY <1>1, WFMin
<1>4. \A y \in T : ~ (y < x)
  BY <1>2, <1>3
<1>5. \A y \in T : x <= y
  BY <1>4
<1> QED  BY <1>5

\* A set of naturals that has 0 and with each k below N also k + 1 has all of
\* 0..N: induction on N with a set where the library has a predicate.
LEMMA Upto ==
    ASSUME NEW N \in Nat, NEW T, 0 \in T, \A k \in 0..N - 1 : k \in T => k + 1 \in T
    PROVE  \A k \in 0..N : k \in T
<1> SUFFICES ASSUME NEW j \in 0..N, j \notin T PROVE FALSE
  OBVIOUS
<1> DEFINE U == {k \in 0..N : k \notin T}
<1>1. U \subseteq Nat /\ U # {}
  OBVIOUS
<1> HIDE DEF U
<1>2. PICK x \in U : \A y \in U : x <= y
  BY <1>1, LeastElement
<1>3. x \in 0..N /\ x \notin T /\ x # 0
  BY DEF U
<1>4. x - 1 \notin U
  BY <1>2, <1>3
<1>5. x - 1 \in T
  BY <1>3, <1>4 DEF U
<1> QED  BY <1>3, <1>5

\* One turn of each of the loops: c is what the loop does not change, acc what
\* it does, e the element whose turn it is.
Turn(loop, c, acc, e) ==
    CASE loop = "Heapify" -> SiftDown(acc)
      [] loop = "Rebuild" -> Heapify(acc, e)
      [] loop = "Visit"   -> Rebuild(Relax(acc, c, e))
      [] loop = "Calculate" -> Visit(c, acc)
      [] loop = "Hops"    -> IF acc \in {0, c.size} THEN acc ELSE c.prehop[acc]
      [] loop = "AdjList" -> AddEdge(c.net, c.i, acc, e)
      [] loop = "Measure" -> AddMetric(acc, e.address, Smooth(e.sample, GetMetric(acc, e.address)))
      [] loop = "Find"    -> IF acc \in DOMAIN c THEN c[acc] ELSE acc
      [] loop = "Within"  -> acc \cup {m \in c.nodes : \E n \in acc : <<n, m>> \in c.hears}

\* The recursive function that FoldLeft takes: it[s] is the value after the
\* elements of seq at the positions s.
IsLoop(it, loop, c, base, seq, N) ==
    it = [s \in SUBSET (1..N) |-> IF s = {} THEN base
                                  ELSE Turn(loop, c, it[s \ {Max(s)}], seq[Max(s)])]

\* The same loop as the sequence of its values: v[k] is the value after k turns.
IsRun(v, loop, c, base, seq, N, out) ==
    /\ v[0] = base
    /\ \A k \in 0..N - 1 : v[k + 1] = Turn(loop, c, v[k], seq[k + 1])
    /\ v[N] = out

\* The greatest position of a prefix is its length.
LEMMA MaxUpto ==
    ASSUME NEW k \in Nat, NEW s \in SUBSET (1..k + 1), k + 1 \in s
    PROVE  Max(s) = k + 1
<1>1. /\ k + 1 \in s
      /\ \A y \in s : k + 1 >= y
  OBVIOUS
<1>2. \A x \in s : (\A y \in s : x >= y) => x = k + 1
  <2> SUFFICES ASSUME NEW x \in s, \A y \in s : x >= y PROVE x = k + 1
    OBVIOUS
  <2>1. x >= k + 1 /\ k + 1 >= x /\ x \in Int
    OBVIOUS
  <2> QED  BY <2>1
<1> QED  BY <1>1, <1>2 DEF Max

\* A recursive function of IsLoop exists.
LEMMA Iterates ==
    ASSUME NEW loop, NEW c, NEW base, NEW seq, NEW N \in Nat
    PROVE  \E it : IsLoop(it, loop, c, base, seq, N)
<1> DEFINE Fixed(it, k) == IsLoop(it, loop, c, base, seq, k)
<1> DEFINE T == {k \in 0..N : \E it : Fixed(it, k)}
<1>1. 0 \in T
  <2> DEFINE it == [s \in SUBSET (1..0) |-> base]
  <2>1. \A s \in SUBSET (1..0) : s = {}
    OBVIOUS
  <2>2. it = [s \in SUBSET (1..0) |-> IF s = {} THEN base
                             ELSE Turn(loop, c, it[s \ {Max(s)}], seq[Max(s)])]
    BY <2>1
  <2>3. Fixed(it, 0)
    BY <2>2 DEF IsLoop
  <2> QED  BY <2>3
<1>2. ASSUME NEW k \in 0..N - 1, k \in T PROVE k + 1 \in T
  <2>1. PICK f : Fixed(f, k)
    BY <1>2
  <2> DEFINE it == [s \in SUBSET (1..k + 1) |->
                      IF k + 1 \in s THEN Turn(loop, c, f[s \ {k + 1}], seq[k + 1]) ELSE f[s]]
  <2> DEFINE r == [s \in SUBSET (1..k + 1) |-> IF s = {} THEN base
                             ELSE Turn(loop, c, it[s \ {Max(s)}], seq[Max(s)])]
  <2>2. ASSUME NEW s \in SUBSET (1..k + 1), k + 1 \in s
        PROVE  it[s] = Turn(loop, c, it[s \ {Max(s)}], seq[Max(s)])
    <3>1. Max(s) = k + 1
      BY <2>2, MaxUpto
    <3>2. s \ {k + 1} \in SUBSET (1..k + 1) /\ k + 1 \notin s \ {k + 1}
      OBVIOUS
    <3>3. it[s \ {k + 1}] = f[s \ {k + 1}]
      BY <3>2
    <3>4. it[s] = Turn(loop, c, f[s \ {k + 1}], seq[k + 1])
      BY <2>2
    <3> QED  BY <3>1, <3>3, <3>4
  <2>3. ASSUME NEW s \in SUBSET (1..k + 1), k + 1 \notin s
        PROVE  it[s] = IF s = {} THEN base ELSE Turn(loop, c, it[s \ {Max(s)}], seq[Max(s)])
    <3>1. s \in SUBSET (1..k)
      BY <2>3
    <3>2. f[s] = IF s = {} THEN base ELSE Turn(loop, c, f[s \ {Max(s)}], seq[Max(s)])
      BY <2>1, <3>1 DEF IsLoop
    <3>3. s \ {Max(s)} \in SUBSET (1..k + 1) /\ k + 1 \notin s \ {Max(s)}
      BY <2>3
    <3>4. it[s \ {Max(s)}] = f[s \ {Max(s)}]
      BY <3>3
    <3>5. it[s] = f[s]
      BY <2>3
    <3> QED  BY <3>2, <3>4, <3>5
  <2>4. \A s \in SUBSET (1..k + 1) : it[s] = r[s]
    BY <2>2, <2>3
  <2>5. it = r
    BY <2>4
  <2>6. Fixed(it, k + 1)
    BY <2>5 DEF IsLoop
  <2>7. k + 1 \in 0..N
    OBVIOUS
  <2> HIDE DEF it, Fixed
  <2> QED  BY <2>6, <2>7
<1> HIDE DEF T
<1>3. \A k \in 0..N : k \in T
  BY <1>1, <1>2, Upto
<1>4. N \in T
  BY <1>3
<1> QED  BY <1>4 DEF T

\* Its values at the prefixes are a run of the loop, so that what every turn
\* keeps the loop keeps.
LEMMA Iteration ==
    ASSUME NEW loop, NEW c, NEW base, NEW seq, NEW N \in Nat, NEW it,
           IsLoop(it, loop, c, base, seq, N)
    PROVE  \E v : IsRun(v, loop, c, base, seq, N, it[1..N])
<1> DEFINE v == [k \in 0..N |-> it[1..k]]
<1>1. 1..0 = {} /\ {} \in SUBSET (1..N)
  OBVIOUS
<1>2. v[0] = base
  BY <1>1 DEF IsLoop
<1>3. ASSUME NEW k \in 0..N - 1
      PROVE  v[k + 1] = Turn(loop, c, v[k], seq[k + 1])
  <2>1. 1..k + 1 \in SUBSET (1..N) /\ 1..k + 1 # {} /\ (1..k + 1) \ {k + 1} = 1..k
    OBVIOUS
  <2>2. Max(1..k + 1) = k + 1
    BY MaxUpto
  <2>3. it[1..k + 1] = Turn(loop, c, it[1..k], seq[k + 1])
    BY <2>1, <2>2 DEF IsLoop
  <2>4. k \in 0..N /\ k + 1 \in 0..N
    OBVIOUS
  <2> QED  BY <2>3, <2>4
<1>4. v[N] = it[1..N]
  <2>1. N \in 0..N
    OBVIOUS
  <2> QED  BY <2>1
<1> HIDE DEF v
<1>5. IsRun(v, loop, c, base, seq, N, it[1..N])
  BY <1>2, <1>3, <1>4 DEF IsRun
<1> QED  BY <1>5

-----------------------------------------------------------------------------
(* The state of a calculation with n nodes *)

Indexes(n) == 0..n - 1

Slot(n) == [node : Indexes(n), distance : 0..Far]

\* The state has its type. The size is that of the heap, the slots behind it
\* are what ExtractMin left.
Fit(s, n) ==
    /\ s = [dist |-> s.dist, prehop |-> s.prehop, handler |-> s.handler, slot |-> s.slot,
            size |-> s.size]
    /\ s.size \in 0..n
    /\ s.dist \in [Indexes(n) -> 0..Far]
    /\ s.prehop \in [Indexes(n) -> Indexes(n) \cup {n}]
    /\ s.handler \in [Indexes(n) -> Indexes(n)]
    /\ s.slot \in [Indexes(n) -> Slot(n)]

\* The nodes in the heap.
Held(s) == {s.slot[i].node : i \in 0..s.size - 1}

\* No node is in two slots of the heap.
Once(s) == \A i, j \in 0..s.size - 1 : s.slot[i].node = s.slot[j].node => i = j

\* Slots from lo on are no farther than their children.
Ordered(s, lo) ==
    \A i \in 1..s.size - 1 : Parent(i) >= lo => s.slot[Parent(i)].distance <= s.slot[i].distance

\* The heap of t has the nodes of s, in another order; the graph is the same.
Reorders(s, t, n) ==
    /\ Fit(t, n)
    /\ t.dist = s.dist /\ t.prehop = s.prehop /\ t.size = s.size
    /\ Held(t) = Held(s)
    /\ Once(s) => Once(t)

\* Nothing is reordered, or one thing after another.
LEMMA ReordersOn ==
    ASSUME NEW n \in Nat \ {0}, NEW s, Fit(s, n)
    PROVE  /\ Reorders(s, s, n)
           /\ \A t, u : Reorders(s, t, n) /\ Reorders(t, u, n) => Reorders(s, u, n)
BY DEF Reorders

\* Swapping two slots of the heap.
LEMMA SwapOk ==
    ASSUME NEW n \in Nat \ {0}, NEW s, Fit(s, n), NEW i \in 0..s.size - 1, NEW j \in 0..s.size - 1,
           NEW t, t = Swap(s, i, j)
    PROVE  /\ Reorders(s, t, n)
           /\ i # j => t.slot[i] = s.slot[j] /\ t.slot[j] = s.slot[i]
           /\ \A k \in Indexes(n) \ {i, j} : t.slot[k] = s.slot[k]
<1> DEFINE slot == [s.slot EXCEPT ![i] = s.slot[j], ![j] = s.slot[i]]
           handler == [s.handler EXCEPT ![s.slot[i].node] = j, ![s.slot[j].node] = i]
<1>1. i \in Indexes(n) /\ j \in Indexes(n) /\ 0..s.size - 1 \subseteq Indexes(n)
  BY DEF Fit, Indexes
<1>2. /\ t = [dist |-> s.dist, prehop |-> s.prehop, handler |-> handler, slot |-> slot,
              size |-> s.size]
  BY DEF Fit, Swap
<1>3. s.slot \in [Indexes(n) -> Slot(n)] /\ s.handler \in [Indexes(n) -> Indexes(n)]
  BY DEF Fit
<1>4. /\ slot \in [Indexes(n) -> Slot(n)]
      /\ slot[j] = s.slot[i] /\ (i # j => slot[i] = s.slot[j])
      /\ \A k \in Indexes(n) \ {i, j} : slot[k] = s.slot[k]
  BY <1>1, <1>3
<1>5. handler \in [Indexes(n) -> Indexes(n)]
  <2>1. s.slot[i].node \in Indexes(n) /\ s.slot[j].node \in Indexes(n)
    BY <1>1, <1>3 DEF Slot
  <2> QED  BY <1>1, <1>3, <2>1
<1> HIDE DEF slot, handler
<1>6. /\ t.dist = s.dist /\ t.prehop = s.prehop /\ t.size = s.size /\ t.slot = slot
      /\ t.handler = handler
      /\ t = [dist |-> t.dist, prehop |-> t.prehop, handler |-> t.handler, slot |-> t.slot,
              size |-> t.size]
  BY <1>2
<1>7. Fit(t, n)
  BY <1>4, <1>5, <1>6 DEF Fit
<1> DEFINE other(k) == IF k = i THEN j ELSE IF k = j THEN i ELSE k
<1>8. \A k \in 0..s.size - 1 : other(k) \in 0..s.size - 1 /\ slot[k] = s.slot[other(k)]
                               /\ other(other(k)) = k
  BY <1>1, <1>4
<1> HIDE DEF other
<1>9. Held(t) = Held(s)
  <2>1. \A x \in Held(t) : x \in Held(s)
    BY <1>6, <1>8 DEF Held
  <2>2. ASSUME NEW k \in 0..s.size - 1 PROVE s.slot[k].node \in Held(t)
    <3>1. slot[other(k)] = s.slot[k] /\ other(k) \in 0..s.size - 1
      BY <1>8
    <3> QED  BY <1>6, <3>1 DEF Held
  <2> QED  BY <2>1, <2>2 DEF Held
<1>10. Once(s) => Once(t)
  <2> SUFFICES ASSUME Once(s), NEW k \in 0..s.size - 1, NEW l \in 0..s.size - 1,
                      slot[k].node = slot[l].node
               PROVE  k = l
    BY <1>6 DEF Once
  <2>1. other(k) = other(l)
    BY <1>8 DEF Once
  <2> QED  BY <1>8, <2>1
<1> QED  BY <1>4, <1>6, <1>7, <1>9, <1>10 DEF Reorders

\* The slot that takes the place of the one at i, which is i itself when no
\* child is nearer.
LeastIs(s, i, least) ==
    /\ \A c \in 1..s.size - 1 : Parent(c) = i => s.slot[least].distance <= s.slot[c].distance
    /\ least # i => /\ i \in 0..s.size - 1 /\ least \in 1..s.size - 1
                    /\ least > i /\ Parent(least) = i
                    /\ s.slot[least].distance < s.slot[i].distance

\* That is what Least gives.
LEMMA LeastOk ==
    ASSUME NEW n \in Nat \ {0}, NEW s, Fit(s, n), NEW i \in Nat
    PROVE  LeastIs(s, i, Least(s, i))
<1> DEFINE l == Left(i)
           r == Right(i)
           d(k) == s.slot[k].distance
           first == IF Less(s, l, i) THEN l ELSE i
           least == IF Less(s, r, first) THEN r ELSE first
<1>1. s.size \in Nat /\ \A k \in 0..s.size - 1 : d(k) \in Nat
  <2>1. s.size \in 0..n /\ s.slot \in [Indexes(n) -> Slot(n)] /\ n \in Nat /\ Far \in Nat
    BY FarAssumption DEF Fit
  <2>2. \A k \in 0..s.size - 1 : k \in Indexes(n)
    BY <2>1 DEF Indexes
  <2> QED  BY <2>1, <2>2 DEF Slot
<1>2. l = 2 * i + 1 /\ r = 2 * i + 2 /\ l \in Nat /\ r \in Nat
  BY DEF Left, Right
<1>3. Parent(l) = i /\ Parent(r) = i /\ \A c \in 1..s.size - 1 : Parent(c) = i => c = l \/ c = r
  BY <1>1, <1>2 DEF Parent
<1>4. /\ Less(s, l, i) <=> l < s.size /\ d(l) < d(i)
      /\ Less(s, r, first) <=> r < s.size /\ d(r) < d(first)
  BY DEF Less
<1>5. Least(s, i) = least
  BY DEF Least
<1> HIDE DEF d, l, r
<1>6. LeastIs(s, i, least)
  <2>1. CASE l < s.size
    <3>1. i \in 0..s.size - 1 /\ l \in 1..s.size - 1 /\ l > i
      BY <1>1, <1>2, <2>1
    <3>2. d(i) \in Nat /\ d(l) \in Nat
      BY <1>1, <3>1
    <3>3. /\ first \in {i, l} /\ d(first) <= d(l) /\ d(first) <= d(i)
          /\ first # i => d(first) < d(i)
      BY <1>4, <2>1, <3>2
    <3> HIDE DEF first
    <3>4. CASE r < s.size
      <4>1. r \in 1..s.size - 1 /\ r > i /\ d(r) \in Nat
        BY <1>1, <1>2, <3>1, <3>4
      <4>2. /\ least \in {i, l, r} /\ d(least) <= d(l) /\ d(least) <= d(r)
            /\ least # i => d(least) < d(i)
        BY <1>2, <1>4, <3>1, <3>2, <3>3, <3>4, <4>1
      <4>3. \A c \in 1..s.size - 1 : Parent(c) = i => d(least) <= d(c)
        BY <1>3, <4>2
      <4> QED  BY <1>3, <3>1, <4>1, <4>2, <4>3 DEF LeastIs, d
    <3>5. CASE ~ (r < s.size)
      <4>1. least = first
        BY <1>4, <3>5
      <4>2. \A c \in 1..s.size - 1 : Parent(c) = i => c = l
        BY <1>1, <1>2, <1>3, <3>5
      <4>3. \A c \in 1..s.size - 1 : Parent(c) = i => d(least) <= d(c)
        BY <3>3, <4>1, <4>2
      <4> QED  BY <1>3, <3>1, <3>3, <4>1, <4>3 DEF LeastIs, d
    <3> QED  BY <3>4, <3>5
  <2>2. CASE ~ (l < s.size)
    <3>1. ~ (r < s.size) /\ \A c \in 1..s.size - 1 : Parent(c) # i
      BY <1>1, <1>2, <1>3, <2>2
    <3>2. least = i
      BY <1>4, <2>2, <3>1
    <3> QED  BY <3>1, <3>2 DEF LeastIs
  <2> QED  BY <2>1, <2>2
<1> QED  BY <1>5, <1>6

\* Slots from lo on are ordered but for at, whose children are in order with
\* its parent.
Sifting(s, lo, at) ==
    /\ at \in Nat /\ at >= lo
    /\ \A i \in 1..s.size - 1 : Parent(i) >= lo /\ Parent(i) # at =>
          s.slot[Parent(i)].distance <= s.slot[i].distance
    /\ at >= 1 /\ Parent(at) >= lo =>
          \A i \in 1..s.size - 1 : Parent(i) = at =>
              s.slot[Parent(at)].distance <= s.slot[i].distance

\* The slot at has found its place.
Settled(s, at) == Least(s, at) = at

\* A settled heap is ordered.
LEMMA SettledOrdered ==
    ASSUME NEW n \in Nat \ {0}, NEW s, Fit(s, n), NEW lo \in Nat, NEW at, Sifting(s, lo, at), Settled(s, at)
    PROVE  Ordered(s, lo)
<1>1. LeastIs(s, at, at)
  BY LeastOk DEF Sifting, Settled
<1> QED  BY <1>1 DEF Ordered, Sifting, LeastIs

\* What holds of Heapify after k levels: it started in s and at lo.
Sifted(s, lo, acc, k, n) ==
    /\ Reorders(s, acc.s, n) /\ acc.at \in Nat
    /\ Ordered(s, lo + 1) => Sifting(acc.s, lo, acc.at)
    /\ Settled(acc.s, acc.at) \/ acc.at >= k

\* One level.
LEMMA SiftDownOk ==
    ASSUME NEW n \in Nat \ {0}, NEW s, Fit(s, n), NEW lo \in Nat, NEW acc, NEW k \in Nat, Sifted(s, lo, acc, k, n)
    PROVE  Sifted(s, lo, SiftDown(acc), k + 1, n)
<1> DEFINE u == acc.s
           at == acc.at
           least == Least(u, at)
           t == Swap(u, at, least)
<1>1. Fit(u, n) /\ at \in Nat /\ Reorders(s, u, n) /\ u.size \in Nat
  BY DEF Sifted, Reorders, Fit
<1>2. LeastIs(u, at, least)
  BY <1>1, LeastOk
<1>3. CASE least = at
  <2>1. SiftDown(acc) = acc
    BY <1>3 DEF SiftDown
  <2> QED  BY <1>3, <2>1 DEF Sifted, Settled
<1>4. CASE least # at
  <2>1. SiftDown(acc) = [s |-> t, at |-> least]
    BY <1>4 DEF SiftDown
  <2>2. ~ Settled(u, at)
    BY <1>4 DEF Settled
  <2>3. at >= k
    BY <2>2 DEF Sifted
  <2> HIDE DEF least
  <2>4. /\ at \in 0..u.size - 1 /\ least \in 1..u.size - 1 /\ least > at /\ Parent(least) = at
        /\ u.slot[least].distance < u.slot[at].distance
        /\ \A c \in 1..u.size - 1 : Parent(c) = at => u.slot[least].distance <= u.slot[c].distance
    BY <1>2, <1>4 DEF LeastIs
  <2>5. least \in 0..u.size - 1 /\ least \in Nat /\ 0..u.size - 1 \subseteq Indexes(n)
    BY <1>1, <2>4 DEF Fit, Indexes
  <2>6. /\ Reorders(u, t, n) /\ t.slot[at] = u.slot[least] /\ t.slot[least] = u.slot[at]
        /\ \A i \in Indexes(n) \ {at, least} : t.slot[i] = u.slot[i]
    BY <1>1, <1>4, <2>4, <2>5, SwapOk
  <2> HIDE DEF t, u, at
  <2>7. Reorders(s, t, n) /\ t.size = u.size
    BY <1>1, <2>6, ReordersOn DEF Reorders
  <2>8. ASSUME Sifting(u, lo, at) PROVE Sifting(t, lo, least)
    <3> DEFINE d(i) == u.slot[i].distance
               e(i) == t.slot[i].distance
    <3>1. \A i \in 0..u.size - 1 : d(i) \in Nat
      BY <1>1, <2>5, FarAssumption DEF Fit, Slot
    <3>2. e(at) = d(least) /\ e(least) = d(at) /\ \A i \in 0..u.size - 1 : i # at /\ i # least => e(i) = d(i)
      BY <2>5, <2>6
    <3>3. \A i \in 1..u.size - 1 : Parent(i) \in 0..u.size - 1 /\ Parent(i) < i
      BY <1>1 DEF Parent
    <3>4. /\ at >= lo
          /\ \A i \in 1..u.size - 1 : Parent(i) >= lo /\ Parent(i) # at => d(Parent(i)) <= d(i)
          /\ at >= 1 /\ Parent(at) >= lo => \A i \in 1..u.size - 1 : Parent(i) = at => d(Parent(at)) <= d(i)
      BY <2>8 DEF Sifting
    <3>5. d(least) < d(at) /\ \A c \in 1..u.size - 1 : Parent(c) = at => d(least) <= d(c)
      BY <2>4
    <3> HIDE DEF d, e
    <3>6. ASSUME NEW i \in 1..u.size - 1, Parent(i) >= lo, Parent(i) # least PROVE e(Parent(i)) <= e(i)
      <4>1. CASE Parent(i) = at
        <5>1. i # at
          BY <3>3, <4>1
        <5>2. d(least) <= d(i) /\ d(least) <= d(at)
          BY <1>1, <2>4, <2>5, <3>1, <3>5, <4>1
        <5> QED  BY <1>1, <3>2, <4>1, <5>1, <5>2
      <4>2. CASE Parent(i) # at /\ i = at
        <5>1. d(Parent(at)) <= d(least)
          BY <2>4, <3>4, <3>6, <4>2
        <5> QED  BY <3>2, <3>3, <3>6, <4>2, <5>1
      <4>3. CASE Parent(i) # at /\ i # at
        <5>1. i # least
          BY <2>4, <4>3
        <5>2. d(Parent(i)) <= d(i)
          BY <3>4, <3>6, <4>3
        <5>3. e(Parent(i)) = d(Parent(i)) /\ e(i) = d(i)
          BY <1>1, <3>2, <3>3, <3>6, <4>3, <5>1
        <5> QED  BY <5>2, <5>3
      <4> QED  BY <4>1, <4>2, <4>3
    <3>7. ASSUME NEW i \in 1..u.size - 1, Parent(i) = least PROVE e(Parent(least)) <= e(i)
      <4>1. i # at /\ i # least /\ d(least) <= d(i)
        BY <2>4, <2>5, <3>3, <3>4, <3>7
      <4> QED  BY <1>1, <2>4, <3>2, <4>1
    <3>8. least >= lo
      BY <1>1, <2>4, <2>5, <3>4
    <3> QED  BY <2>5, <2>7, <3>6, <3>7, <3>8 DEF Sifting, e
  <2>9. least >= k + 1
    BY <1>1, <2>3, <2>4, <2>5
  <2>10. Ordered(s, lo + 1) => Sifting(u, lo, at)
    BY DEF Sifted, u, at
  <2>11. Sifted(s, lo, [s |-> t, at |-> least], k + 1, n)
    BY <2>5, <2>7, <2>8, <2>9, <2>10 DEF Sifted
  <2> QED  BY <2>1, <2>11
<1> QED  BY <1>3, <1>4

\* The levels of Heapify.
IsHeapify(v, s, i, N) ==
    /\ IsRun(v, "Heapify", 0, [s |-> s, at |-> i], [level \in 1..N |-> level], N, v[N])
    /\ Heapify(s, i) = v[N].s

\* Heapify is a run of SiftDown.
LEMMA HeapifyLoop ==
    ASSUME NEW s, NEW i, NEW N \in Nat, N = s.size
    PROVE  \E v : IsHeapify(v, s, i, N)
<1> DEFINE start == [s |-> s, at |-> i]
           seq == [level \in 1..N |-> level]
           F(it) == [p \in SUBSET (1..N) |-> IF p = {} THEN start
                       ELSE SiftDown(it[p \ {Max(p)}])]
<1>1. \A acc, e : Turn("Heapify", 0, acc, e) = SiftDown(acc)
  BY DEF Turn
<1>2. DOMAIN seq = 1..N /\ seq = [level \in 1..s.size |-> level]
  OBVIOUS
<1> HIDE DEF start, seq
<1>3. \A it : IsLoop(it, "Heapify", 0, start, seq, N) <=> it = F(it)
  BY <1>1 DEF IsLoop
<1>4. \E it : it = F(it)
  BY <1>3, Iterates
<1>5. PICK it : /\ it = F(it)
                /\ FoldLeft(LAMBDA acc, level : SiftDown(acc), start, seq) = it[1..N]
  BY Zenon, <1>4, <1>2 DEF FoldLeft, MapThenFoldSet
<1>6. PICK v : IsRun(v, "Heapify", 0, start, seq, N, it[1..N])
  <2>1. it = F(it)
    BY Zenon, <1>5
  <2>2. IsLoop(it, "Heapify", 0, start, seq, N)
    BY Zenon, <2>1, <1>3
  <2> QED  BY <2>2, Iteration
<1>7. v[N] = it[1..N]
  BY <1>6 DEF IsRun
<1>8. Heapify(s, i) = v[N].s
  BY Zenon, <1>2, <1>5, <1>7 DEF Heapify, start
<1>9. IsHeapify(v, s, i, N)
  BY Zenon, <1>6, <1>7, <1>8 DEF start, seq, IsHeapify
<1> QED  BY <1>9

\* Rebuild is a run of Heapify.
LEMMA RebuildLoop ==
    ASSUME NEW s, s.size \in Nat, NEW N \in Nat, N = (s.size \div 2) + 1
    PROVE  \E v : IsRun(v, "Rebuild", 0, s, [k \in 1..N |-> N - k], N, Rebuild(s))
<1> DEFINE seq == [k \in 1..N |-> N - k]
           F(it) == [p \in SUBSET (1..N) |-> IF p = {} THEN s
                       ELSE Heapify(it[p \ {Max(p)}], seq[Max(p)])]
<1>1. \A acc, e : Turn("Rebuild", 0, acc, e) = Heapify(acc, e)
  BY DEF Turn
<1>2. DOMAIN seq = 1..N
  OBVIOUS
<1>8. seq = [k \in 1..(s.size \div 2) + 1 |-> (s.size \div 2) + 1 - k]
  <2> DEFINE d == s.size \div 2
  <2>1. N = d + 1 /\ d \in Nat
    OBVIOUS
  <2> HIDE DEF d
  <2>2. seq = [k \in 1..d + 1 |-> d + 1 - k]
    BY <2>1
  <2> QED  BY Zenon, <2>2 DEF d
<1> HIDE DEF seq
<1>3. \A it : IsLoop(it, "Rebuild", 0, s, seq, N) <=> it = F(it)
  <2> SUFFICES ASSUME NEW it PROVE IsLoop(it, "Rebuild", 0, s, seq, N) <=> it = F(it)
    OBVIOUS
  <2>1. \A p : Turn("Rebuild", 0, it[p \ {Max(p)}], seq[Max(p)])
               = Heapify(it[p \ {Max(p)}], seq[Max(p)])
    BY Zenon, <1>1
  <2> QED  BY <2>1 DEF IsLoop
<1>4. \E it : it = F(it)
  BY <1>3, Iterates
<1>5. PICK it : /\ it = F(it)
                /\ FoldLeft(Heapify, s, seq) = it[1..N]
  BY Zenon, <1>4, <1>2 DEF FoldLeft, MapThenFoldSet
<1>6. PICK v : IsRun(v, "Rebuild", 0, s, seq, N, it[1..N])
  <2>1. it = F(it)
    BY Zenon, <1>5
  <2>2. IsLoop(it, "Rebuild", 0, s, seq, N)
    BY Zenon, <2>1, <1>3
  <2> QED  BY <2>2, Iteration
<1>7. Rebuild(s) = it[1..N]
  BY Zenon, <1>5, <1>8 DEF Rebuild
<1> QED  BY Zenon, <1>6, <1>7 DEF seq

\* Heapify keeps the nodes of the heap, and orders i with what is below it.
Heapified(s, i, t, n) ==
    /\ Reorders(s, t, n)
    /\ Ordered(s, i + 1) => Ordered(t, i)

LEMMA HeapifyOk ==
    ASSUME NEW n \in Nat \ {0}, NEW s, Fit(s, n), NEW i \in Nat
    PROVE  Heapified(s, i, Heapify(s, i), n)
<1> DEFINE N == s.size
           start == [s |-> s, at |-> i]
           seq == [level \in 1..N |-> level]
<1>1. N \in Nat
  BY DEF Fit
<1>10. PICK v : IsHeapify(v, s, i, N)
  BY <1>1, HeapifyLoop
<1>2. /\ IsRun(v, "Heapify", 0, start, seq, N, v[N])
      /\ Heapify(s, i) = v[N].s
  BY Zenon, <1>10 DEF IsHeapify
<1>3. /\ v[0] = start
      /\ \A k \in 0..N - 1 : v[k + 1] = SiftDown(v[k])
  <2>1. \A acc, e : Turn("Heapify", 0, acc, e) = SiftDown(acc)
    BY DEF Turn
  <2> HIDE DEF start, seq, N
  <2> QED  BY <1>2, <2>1 DEF IsRun
<1> DEFINE T == {k \in 0..N : Sifted(s, i, v[k], k, n)}
<1>4. 0 \in T
  <2>1. Reorders(s, s, n)
    BY ReordersOn
  <2>2. Ordered(s, i + 1) => Sifting(s, i, i)
    <3> SUFFICES ASSUME Ordered(s, i + 1) PROVE Sifting(s, i, i)
      OBVIOUS
    <3>1. \A c \in 1..N - 1 : Parent(c) \in Nat
      BY <1>1 DEF Parent
    <3>2. \A c \in 1..N - 1 : Parent(c) >= i /\ Parent(c) # i => Parent(c) >= i + 1
      BY <3>1
    <3>3. i >= 1 => ~ (Parent(i) >= i)
      BY DEF Parent
    <3> QED  BY <3>2, <3>3 DEF Sifting, Ordered
  <2>3. start.s = s /\ start.at = i /\ i >= 0
    OBVIOUS
  <2>4. Sifted(s, i, start, 0, n)
    BY <2>1, <2>2, <2>3 DEF Sifted
  <2> QED  BY <1>1, <1>3, <2>4
<1>5. ASSUME NEW k \in 0..N - 1, k \in T PROVE k + 1 \in T
  <2>1. Sifted(s, i, v[k], k, n) /\ k \in Nat /\ k + 1 \in 0..N
    BY <1>1, <1>5
  <2>2. Sifted(s, i, SiftDown(v[k]), k + 1, n)
    BY <2>1, SiftDownOk
  <2> QED  BY <1>3, <2>1, <2>2
<1> HIDE DEF T
<1>6. Sifted(s, i, v[N], N, n)
  <2>1. \A k \in 0..N : k \in T
    BY <1>1, <1>4, <1>5, Upto
  <2>2. N \in T
    BY <1>1, <2>1
  <2> QED  BY <2>2 DEF T
<1> DEFINE t == v[N].s
           at == v[N].at
<1>7. Reorders(s, t, n) /\ Fit(t, n) /\ t.size = N /\ at \in Nat
  BY <1>6 DEF Sifted, Reorders
<1>8. Settled(t, at)
  <2>1. CASE at >= N
    <3>1. LeastIs(t, at, Least(t, at))
      BY <1>7, LeastOk
    <3>2. Least(t, at) = at
      BY <1>1, <1>7, <2>1, <3>1 DEF LeastIs
    <3> QED  BY <3>2 DEF Settled
  <2> QED  BY <1>6, <2>1 DEF Sifted
<1> HIDE DEF N, start, seq
<1>9. Ordered(s, i + 1) => Ordered(t, i)
  <2>1. Ordered(s, i + 1) => Sifting(t, i, at)
    BY <1>6 DEF Sifted
  <2> HIDE DEF t, at
  <2> QED  BY <1>7, <1>8, <2>1, SettledOrdered
<1> QED  BY <1>2, <1>7, <1>9 DEF Heapified

\* Rebuild makes a heap of any slots.
Rebuilt(s, t, n) == Reorders(s, t, n) /\ Ordered(t, 0)

LEMMA RebuildOk ==
    ASSUME NEW n \in Nat \ {0}, NEW s, Fit(s, n)
    PROVE  Rebuilt(s, Rebuild(s), n)
<1> DEFINE N == (s.size \div 2) + 1
           seq == [k \in 1..N |-> N - k]
<1>1. N \in Nat /\ s.size \in Nat /\ s.size < 2 * N
  BY DEF Fit
<1>2. PICK v : IsRun(v, "Rebuild", 0, s, seq, N, Rebuild(s))
  BY <1>1, RebuildLoop
<1>3. /\ v[0] = s
      /\ \A k \in 0..N - 1 : v[k + 1] = Heapify(v[k], N - (k + 1))
      /\ Rebuild(s) = v[N]
  <2>1. \A acc, e : Turn("Rebuild", 0, acc, e) = Heapify(acc, e)
    BY DEF Turn
  <2>2. \A k \in 0..N - 1 : seq[k + 1] = N - (k + 1)
    BY <1>1
  <2> HIDE DEF seq, N
  <2> QED  BY <1>2, <2>1, <2>2 DEF IsRun
<1> HIDE DEF seq
<1> DEFINE Holds(t, k) == Reorders(s, t, n) /\ Ordered(t, N - k)
           T == {k \in 0..N : Holds(v[k], k)}
<1>4. 0 \in T
  <2>1. \A i \in 1..s.size - 1 : ~ (Parent(i) >= N)
    BY <1>1 DEF Parent
  <2>2. Reorders(s, s, n) /\ Ordered(s, N - 0)
    BY <1>1, <2>1, ReordersOn DEF Ordered
  <2> QED  BY <1>1, <1>3, <2>2
<1>5. ASSUME NEW k \in 0..N - 1, k \in T PROVE k + 1 \in T
  <2> DEFINE u == v[k]
             i == N - (k + 1)
  <2>1. Reorders(s, u, n) /\ Ordered(u, N - k) /\ Fit(u, n) /\ k + 1 \in 0..N
    BY <1>1, <1>5 DEF Reorders
  <2>2. i \in Nat /\ i + 1 = N - k
    BY <1>1
  <2> HIDE DEF i, u, N
  <2>3. Heapified(u, i, Heapify(u, i), n)
    BY <2>1, <2>2, HeapifyOk
  <2>4. Reorders(u, Heapify(u, i), n) /\ Ordered(Heapify(u, i), i)
    BY <2>1, <2>2, <2>3 DEF Heapified
  <2>5. Reorders(s, Heapify(u, i), n)
    BY <2>1, <2>4, ReordersOn
  <2>6. v[k + 1] = Heapify(u, i)
    BY <1>3 DEF u, i
  <2> QED  BY <2>1, <2>4, <2>5, <2>6 DEF i
<1> HIDE DEF T
<1>6. N \in T
  <2>1. \A k \in 0..N : k \in T
    BY <1>1, <1>4, <1>5, Upto
  <2> QED  BY <1>1, <2>1
<1>7. Reorders(s, v[N], n) /\ Ordered(v[N], 0)
  BY <1>1, <1>6 DEF T
<1> QED  BY <1>3, <1>7 DEF Rebuilt

-----------------------------------------------------------------------------
(* The operations of the heap *)

\* The fields of a state after some of them were assigned.
IsState(t, dist, prehop, handler, slot, size) ==
    t = [dist |-> dist, prehop |-> prehop, handler |-> handler, slot |-> slot, size |-> size]

\* Every node is in its slot at first, and nothing but the source is near.
Begun(t, n) ==
    /\ t.size = n /\ Fit(t, n) /\ Once(t) /\ Ordered(t, 0)
    /\ t.dist = [v \in Indexes(n) |-> IF v = 0 THEN 0 ELSE Far]
    /\ t.prehop = [v \in Indexes(n) |-> n]

LEMMA StartOk ==
    ASSUME NEW n \in Nat \ {0}
    PROVE  Begun(Start(Indexes(n)), n)
<1> DEFINE init == [v \in Indexes(n) |-> IF v = 0 THEN 0 ELSE Far]
           prehop == [v \in Indexes(n) |-> n]
           handler == [v \in Indexes(n) |-> v]
           slot == [v \in Indexes(n) |-> [node |-> v, distance |-> init[v]]]
           s == [dist |-> init, prehop |-> prehop, handler |-> handler, slot |-> slot, size |-> n]
<1>1. Cardinality(Indexes(n)) = n
  BY FS_Interval DEF Indexes
<1>2. Start(Indexes(n)) = Rebuild(s)
  BY <1>1 DEF Start
<1>3. /\ init \in [Indexes(n) -> 0..Far] /\ handler \in [Indexes(n) -> Indexes(n)]
      /\ prehop \in [Indexes(n) -> Indexes(n) \cup {n}]
  BY FarAssumption
<1>4. slot \in [Indexes(n) -> Slot(n)] /\ \A v \in Indexes(n) : slot[v].node = v
  BY <1>3 DEF Slot
<1> HIDE DEF init, prehop, handler, slot
<1>5. Fit(s, n)
  BY <1>3, <1>4 DEF Fit
<1>6. Once(s)
  BY <1>4 DEF Once, Indexes
<1>7. s.dist = init /\ s.prehop = prehop /\ s.size = n
  OBVIOUS
<1> HIDE DEF s
<1>8. Rebuilt(s, Rebuild(s), n)
  BY <1>5, RebuildOk
<1> QED  BY <1>2, <1>6, <1>7, <1>8 DEF Begun, Rebuilt, Reorders, init, prehop

\* The minimum leaves the heap; the graph is the same.
Extracted(s, t, n) ==
    /\ Fit(t, n)
    /\ t.dist = s.dist /\ t.prehop = s.prehop /\ t.size = s.size - 1

\* The rest stays a heap.
Shrunk(s, t) ==
    /\ Once(t) /\ Ordered(t, 0)
    /\ Held(t) = Held(s) \ {Minimum(s)}

LEMMA ExtractMinOk ==
    ASSUME NEW n \in Nat \ {0}, NEW s, Fit(s, n), s.size > 0
    PROVE  /\ Extracted(s, ExtractMin(s), n) /\ Minimum(s) \in Indexes(n)
           /\ Once(s) /\ Ordered(s, 0) => Shrunk(s, ExtractMin(s))
<1> DEFINE last == s.size - 1
           slot == [s.slot EXCEPT ![0] = s.slot[last]]
           u == [s EXCEPT !.slot[0] = s.slot[s.size - 1], !.size = @ - 1]
<1>1. /\ s.size \in Nat /\ last \in 0..n - 1 /\ last \in Indexes(n) /\ 0 \in Indexes(n) /\ last \in Nat
      /\ last \in 0..n /\ n \in Nat
  BY DEF Fit, Indexes
<1>2. IsState(u, s.dist, s.prehop, s.handler, slot, last)
  <2>1. u = [s EXCEPT !.slot = slot, !.size = last]
    BY Zenon DEF Fit
  <2> HIDE DEF slot, last, u
  <2> QED  BY <2>1 DEF Fit, IsState
<1>3. s.slot \in [Indexes(n) -> Slot(n)] /\ \A i \in 0..last : i \in Indexes(n)
  BY <1>1 DEF Fit, Indexes
<1>4. slot \in [Indexes(n) -> Slot(n)] /\ slot[0] = s.slot[last] /\ \A i \in Indexes(n) \ {0} : slot[i] = s.slot[i]
  BY <1>1, <1>3
<1> HIDE DEF slot, u
<1>5. /\ u.dist = s.dist /\ u.prehop = s.prehop /\ u.handler = s.handler /\ u.slot = slot
      /\ u.size = last
      /\ u = [dist |-> u.dist, prehop |-> u.prehop, handler |-> u.handler, slot |-> u.slot,
              size |-> u.size]
  BY <1>2 DEF IsState
<1>6. Fit(u, n)
  BY <1>1, <1>4, <1>5 DEF Fit
<1>7. Minimum(s) \in Indexes(n)
  BY <1>1, <1>3 DEF Minimum, Slot
<1> DEFINE from(i) == IF i = 0 THEN last ELSE i
<1>8. \A i \in 0..last - 1 : from(i) \in 1..last /\ slot[i] = s.slot[from(i)]
  BY <1>1, <1>3, <1>4
<1>9. \A i, j \in 0..last - 1 : from(i) = from(j) => i = j
  BY <1>1
<1>10. \A k \in 1..last : \E i \in 0..last - 1 : from(i) = k
  <2> SUFFICES ASSUME NEW k \in 1..last PROVE \E i \in 0..last - 1 : from(i) = k
    OBVIOUS
  <2>1. CASE k = last
    BY <1>1, <2>1
  <2>2. CASE k # last
    <3>1. k \in 0..last - 1 /\ from(k) = k
      BY <1>1, <2>2
    <3> QED  BY <3>1
  <2> QED  BY <2>1, <2>2
<1> HIDE DEF from
<1>11. Once(s) => Once(u)
  <2> SUFFICES ASSUME Once(s), NEW i \in 0..last - 1, NEW j \in 0..last - 1, slot[i].node = slot[j].node
               PROVE  i = j
    BY <1>5 DEF Once
  <2>1. from(i) \in 0..s.size - 1 /\ from(j) \in 0..s.size - 1
    BY <1>1, <1>8
  <2>2. s.slot[from(i)].node = s.slot[from(j)].node
    BY <1>8
  <2>3. from(i) = from(j)
    BY <2>1, <2>2 DEF Once
  <2> QED  BY <1>9, <2>3
<1>12. Once(s) => Held(u) = Held(s) \ {Minimum(s)}
  <2> SUFFICES ASSUME Once(s) PROVE Held(u) = Held(s) \ {Minimum(s)}
    OBVIOUS
  <2>1. ASSUME NEW i \in 0..last - 1
        PROVE  slot[i].node \in Held(s) /\ slot[i].node # Minimum(s)
    <3>1. from(i) \in 0..s.size - 1 /\ 0 \in 0..s.size - 1 /\ from(i) # 0 /\ slot[i] = s.slot[from(i)]
      BY <1>1, <1>8
    <3>2. s.slot[from(i)].node # s.slot[0].node
      BY <3>1 DEF Once
    <3> QED  BY <3>1, <3>2 DEF Held, Minimum
  <2>2. ASSUME NEW k \in 0..s.size - 1, s.slot[k].node # Minimum(s)
        PROVE  s.slot[k].node \in Held(u)
    <3>1. k \in 1..last
      BY <1>1, <2>2 DEF Minimum
    <3>2. PICK i \in 0..last - 1 : from(i) = k
      BY <1>10, <3>1
    <3>3. slot[i] = s.slot[k]
      BY <1>8, <3>2
    <3> QED  BY <1>5, <3>3 DEF Held
  <2>3. \A x \in Held(u) : x \in Held(s) \ {Minimum(s)}
    BY <1>5, <2>1 DEF Held
  <2>4. \A x \in Held(s) \ {Minimum(s)} : x \in Held(u)
    <3> SUFFICES ASSUME NEW x \in Held(s), x # Minimum(s) PROVE x \in Held(u)
      OBVIOUS
    <3>1. PICK k \in 0..s.size - 1 : x = s.slot[k].node
      BY DEF Held
    <3> QED  BY <2>2, <3>1
  <2> QED  BY <2>3, <2>4
<1>13. Ordered(s, 0) => Ordered(u, 0 + 1)
  <2> SUFFICES ASSUME Ordered(s, 0), NEW i \in 1..last - 1, Parent(i) >= 1
               PROVE  slot[Parent(i)].distance <= slot[i].distance
    BY <1>5 DEF Ordered
  <2>1. Parent(i) \in Indexes(n) \ {0} /\ i \in Indexes(n) \ {0} /\ i \in 1..s.size - 1
    BY <1>1, <1>3 DEF Parent
  <2>2. s.slot[Parent(i)].distance <= s.slot[i].distance
    BY <2>1 DEF Ordered, Indexes
  <2> QED  BY <1>4, <2>1, <2>2
<1>14. Heapified(u, 0, Heapify(u, 0), n)
  BY <1>6, HeapifyOk
<1>15. ExtractMin(s) = Heapify(u, 0)
  BY DEF ExtractMin, u
<1> QED  BY <1>5, <1>7, <1>11, <1>12, <1>13, <1>14, <1>15 DEF Heapified, Reorders, Extracted, Shrunk

\* The edges of the graphs considered.
EdgeOf(n) == [node : Indexes(n), weight : Nat]

\* Relaxing an edge leaves the nodes where they are in the heap.
Relaxed(s, u, e, t, n) ==
    /\ Fit(t, n) /\ t.size = s.size /\ Held(t) = Held(s)
    /\ Once(s) => Once(t)
    /\ \/ t.dist = s.dist /\ t.prehop = s.prehop
       \/ /\ s.dist[u] + e.weight < s.dist[e.node]
          /\ t.dist = [s.dist EXCEPT ![e.node] = s.dist[u] + e.weight]
          /\ t.prehop = [s.prehop EXCEPT ![e.node] = u]

LEMMA RelaxOk ==
    ASSUME NEW n \in Nat \ {0}, NEW s, Fit(s, n), NEW u \in Indexes(n), NEW e \in EdgeOf(n)
    PROVE  Relaxed(s, u, e, Relax(s, u, e), n)
<1> DEFINE v == e.node
           d == s.dist[u] + e.weight
           h == s.handler[v]
           dist == [s.dist EXCEPT ![v] = d]
           slot == [s.slot EXCEPT ![h].distance = d]
           prehop == [s.prehop EXCEPT ![v] = u]
           t == [s EXCEPT !.dist[v] = d, !.slot[h].distance = d, !.prehop[v] = u]
<1>1. /\ v \in Indexes(n) /\ e.weight \in Nat /\ h \in Indexes(n)
      /\ s.dist \in [Indexes(n) -> 0..Far] /\ s.slot \in [Indexes(n) -> Slot(n)]
      /\ s.prehop \in [Indexes(n) -> Indexes(n) \cup {n}]
  BY DEF EdgeOf, Fit
<1>2. s.dist[u] \in 0..Far /\ s.dist[v] \in 0..Far /\ Far \in Nat
  BY <1>1, FarAssumption
<1>3. d \in Nat
  BY <1>1, <1>2
<1>4. CASE s.dist[v] <= d
  <2>1. Relax(s, u, e) = s
    BY <1>4 DEF Relax
  <2> QED  BY <2>1 DEF Relaxed
<1>5. CASE ~ (s.dist[v] <= d)
  <2>1. Relax(s, u, e) = t
    BY <1>5 DEF Relax
  <2>2. IsState(t, dist, prehop, s.handler, slot, s.size)
    <3>1. t = [s EXCEPT !.dist = dist, !.slot = slot, !.prehop = prehop]
      BY Zenon DEF Fit
    <3> HIDE DEF slot, dist, prehop, t
    <3> QED  BY <3>1 DEF Fit, IsState
  <2>3. d \in 0..Far /\ d < s.dist[v]
    BY <1>2, <1>3, <1>5
  <2> HIDE DEF d, h, v
  <2>4. /\ dist \in [Indexes(n) -> 0..Far]
        /\ prehop \in [Indexes(n) -> Indexes(n) \cup {n}]
    BY <1>1, <2>3
  <2>5. slot \in [Indexes(n) -> Slot(n)] /\ \A i \in Indexes(n) : slot[i].node = s.slot[i].node
    <3>1. [s.slot[h] EXCEPT !.distance = d] \in Slot(n)
          /\ [s.slot[h] EXCEPT !.distance = d].node = s.slot[h].node
      BY <1>1, <2>3 DEF Slot
    <3>2. slot = [s.slot EXCEPT ![h] = [s.slot[h] EXCEPT !.distance = d]]
      BY <1>1
    <3> QED  BY <1>1, <3>1, <3>2
  <2> HIDE DEF dist, slot, prehop, t
  <2>6. /\ t.dist = dist /\ t.prehop = prehop /\ t.handler = s.handler /\ t.slot = slot
        /\ t.size = s.size
        /\ t = [dist |-> t.dist, prehop |-> t.prehop, handler |-> t.handler, slot |-> t.slot,
                size |-> t.size]
    BY <2>2 DEF IsState
  <2>7. Fit(t, n)
    BY <2>4, <2>5, <2>6 DEF Fit
  <2>8. \A i \in 0..s.size - 1 : i \in Indexes(n) /\ t.slot[i].node = s.slot[i].node
    BY <2>5, <2>6 DEF Fit, Indexes
  <2>9. Held(t) = Held(s)
    BY <2>6, <2>8 DEF Held
  <2>10. Once(s) => Once(t)
    BY <2>6, <2>8 DEF Once
  <2>11. /\ s.dist[u] + e.weight < s.dist[e.node]
         /\ t.dist = [s.dist EXCEPT ![e.node] = s.dist[u] + e.weight]
         /\ t.prehop = [s.prehop EXCEPT ![e.node] = u]
    BY <2>3, <2>6 DEF dist, prehop, d, v
  <2> QED  BY <2>1, <2>6, <2>7, <2>9, <2>10, <2>11 DEF Relaxed
<1> QED  BY <1>4, <1>5

-----------------------------------------------------------------------------
(* Chains *)

\* f leads from D to D, and no set leads round in a circle.
IsForest(f, D) ==
    /\ IsFiniteSet(D) /\ f \in [D -> D]
    /\ \A T \in SUBSET D : T # {} => \E d \in T : f[d] = d \/ f[d] \notin T

\* h goes along f for C steps.
Goes(h, f, C) == \A k \in 0..C - 1 : h[k + 1] = f[h[k]]

\* A forest has no way longer than it has members: after as many steps it is at
\* an end. Else two of the members on the way would be the same.
LEMMA ChainEnds ==
    ASSUME NEW D, NEW f, IsForest(f, D), NEW C \in Nat, Cardinality(D) <= C,
           NEW h, h[0] \in D, Goes(h, f, C)
    PROVE  h[C] \in D /\ f[h[C]] = h[C]
<1>1. /\ IsFiniteSet(D) /\ f \in [D -> D]
      /\ \A T \in SUBSET D : T # {} => \E d \in T : f[d] = d \/ f[d] \notin T
  BY DEF IsForest
<1> DEFINE T == {k \in 0..C : h[k] \in D}
<1>2. \A k \in 0..C : h[k] \in D
  <2>1. 0 \in T
    OBVIOUS
  <2>2. ASSUME NEW k \in 0..C - 1, k \in T PROVE k + 1 \in T
    BY <1>1, <2>2 DEF Goes
  <2> HIDE DEF T
  <2>3. \A k \in 0..C : k \in T
    BY <2>1, <2>2, Upto
  <2> QED  BY <2>3 DEF T
<1> HIDE DEF T
<1>3. h[C] \in D
  BY <1>2
<1> SUFFICES ASSUME f[h[C]] # h[C] PROVE FALSE
  BY <1>3
<1>4. \A k \in 0..C : f[h[k]] # h[k]
  <2> DEFINE U == {k \in 0..C : f[h[C - k]] # h[C - k]}
  <2>1. 0 \in U
    OBVIOUS
  <2>2. ASSUME NEW k \in 0..C - 1, k \in U PROVE k + 1 \in U
    <3> DEFINE j == C - (k + 1)
    <3>1. j \in 0..C - 1 /\ j + 1 = C - k /\ k + 1 \in 0..C
      OBVIOUS
    <3>2. f[h[j + 1]] # h[j + 1]
      BY <2>2, <3>1
    <3> HIDE DEF j
    <3>3. f[h[j]] # h[j]
      BY <3>1, <3>2 DEF Goes
    <3> QED  BY <3>1, <3>3 DEF j
  <2> HIDE DEF U
  <2>3. \A k \in 0..C : k \in U
    BY <2>1, <2>2, Upto
  <2> SUFFICES ASSUME NEW k \in 0..C PROVE f[h[k]] # h[k]
    OBVIOUS
  <2>4. C - k \in 0..C /\ C - (C - k) = k
    OBVIOUS
  <2>5. C - k \in U
    BY <2>3, <2>4
  <2> QED  BY <2>4, <2>5 DEF U
<1> DEFINE way == [k \in 0..C |-> h[k]]
           K == 0..C
<1>5. PICK i, j \in 0..C : i # j /\ h[i] = h[j]
  <2>1. way \in [K -> D]
    BY <1>2
  <2>2. IsFiniteSet(K) /\ Cardinality(K) = C + 1
    <3>1. 0 \in Int /\ C \in Int
      OBVIOUS
    <3>2. IsFiniteSet(K) /\ Cardinality(K) = IF 0 > C THEN 0 ELSE C - 0 + 1
      BY <3>1, FS_Interval
    <3> QED  BY <3>2
  <2>3. Cardinality(D) \in Nat
    BY <1>1, FS_CardinalityType
  <2> HIDE DEF way, K
  <2>4. Cardinality(D) < Cardinality(K)
    BY <2>2, <2>3
  <2>5. \E i, j \in K : i # j /\ way[i] = way[j]
    BY <1>1, <2>1, <2>2, <2>4, FS_PigeonHole
  <2> QED  BY <2>5 DEF way, K
<1>6. ASSUME NEW a \in 0..C, NEW b \in 0..C, a < b, h[a] = h[b] PROVE FALSE
  <2> DEFINE S == {h[k] : k \in a..b - 1}
  <2>1. \A k \in a..b - 1 : k \in 0..C - 1 /\ k \in 0..C
    BY <1>6
  <2>2. S \in SUBSET D
    BY <1>2, <2>1
  <2>3. h[a] \in S
    BY <1>6
  <2>4. \A w \in S : f[w] # w /\ f[w] \in S
    <3> SUFFICES ASSUME NEW k \in a..b - 1 PROVE f[h[k]] # h[k] /\ f[h[k]] \in S
      OBVIOUS
    <3>1. f[h[k]] = h[k + 1] /\ f[h[k]] # h[k]
      BY <1>4, <2>1 DEF Goes
    <3>2. CASE k = b - 1
      <4>1. k + 1 = b
        BY <3>2
      <4> QED  BY <1>6, <2>3, <3>1, <4>1
    <3>3. CASE k # b - 1
      <4>1. k + 1 \in a..b - 1
        BY <3>3
      <4> QED  BY <3>1, <4>1
    <3> QED  BY <3>2, <3>3
  <2> HIDE DEF S
  <2> QED  BY <1>1, <2>2, <2>3, <2>4
<1>7. i < j \/ j < i
  BY <1>5
<1> QED  BY <1>5, <1>6, <1>7

-----------------------------------------------------------------------------
(* The tree of prehops *)

\* The graphs of n nodes.
Graph(n) == [Indexes(n) -> Seq(EdgeOf(n))]

Reached(s, v, n) == v = 0 \/ s.prehop[v] # n

\* The source is the root and no other reached node is farther than Far.
IsRooted(s, n) ==
    /\ s.dist[0] = 0 /\ s.prehop[0] = n
    /\ \A v \in Indexes(n) : IF Reached(s, v, n) THEN s.dist[v] < Far ELSE s.dist[v] = Far

\* The graph has an edge from u to v that accounts for the distance of v.
Accounts(adj, s, u, v) ==
    \E i \in DOMAIN adj[u] : adj[u][i].node = v /\ s.dist[u] + adj[u][i].weight <= s.dist[v]

IsNearer(adj, s, n) ==
    \A v \in Indexes(n) : s.prehop[v] # n =>
        Reached(s, s.prehop[v], n) /\ Accounts(adj, s, s.prehop[v], v)

NoCycle(s, n) ==
    \A S \in SUBSET (Indexes(n) \ {0}) : S # {} => \E v \in S : s.prehop[v] \notin S

\* The prehops of s form a tree in the graph adj with the root 0.
IsTree(adj, s, n) == IsRooted(s, n) /\ IsNearer(adj, s, n) /\ NoCycle(s, n)

\* Nodes whose distances and prehops are the same form the same tree.
LEMMA TreeSame ==
    ASSUME NEW n, NEW adj, NEW s, IsTree(adj, s, n), NEW t,
           t.dist = s.dist, t.prehop = s.prehop
    PROVE  IsTree(adj, t, n)
BY DEF IsTree, IsRooted, IsNearer, Accounts, NoCycle, Reached

\* At first the tree is the source.
LEMMA TreeBegun ==
    ASSUME NEW n \in Nat \ {0}, NEW adj, NEW s, Begun(s, n)
    PROVE  IsTree(adj, s, n)
<1>1. /\ s.dist = [v \in Indexes(n) |-> IF v = 0 THEN 0 ELSE Far]
      /\ s.prehop = [v \in Indexes(n) |-> n]
      /\ 0 \in Indexes(n) /\ n \notin Indexes(n)
  BY DEF Begun, Indexes
<1>2. IsRooted(s, n)
  BY <1>1, FarAssumption DEF IsRooted, Reached
<1>3. IsNearer(adj, s, n)
  BY <1>1 DEF IsNearer
<1>4. NoCycle(s, n)
  BY <1>1 DEF NoCycle
<1> QED  BY <1>2, <1>3, <1>4 DEF IsTree

\* A new prehop w is at u, over an edge of weight c that makes it nearer.
Nearer(adj, s, t, u, w, c, n) ==
    /\ Fit(s, n) /\ Fit(t, n)
    /\ u \in Indexes(n) /\ w \in Indexes(n) /\ c \in Nat
    /\ \E i \in DOMAIN adj[u] : adj[u][i].node = w /\ adj[u][i].weight = c
    /\ s.dist[u] + c < s.dist[w]
    /\ t.dist = [s.dist EXCEPT ![w] = s.dist[u] + c]
    /\ t.prehop = [s.prehop EXCEPT ![w] = u]

\* Then w was not on the way to u: it is not the source, and u was reached.
LEMMA NearerIs ==
    ASSUME NEW n \in Nat \ {0}, NEW adj \in Graph(n), NEW s, NEW t, NEW u, NEW w, NEW c,
           Nearer(adj, s, t, u, w, c, n), IsTree(adj, s, n)
    PROVE  /\ u # w /\ w # 0 /\ Reached(s, u, n) /\ s.dist[u] + c < Far
           /\ \A v \in Indexes(n) : s.dist[v] \in Nat /\ t.dist[v] \in Nat /\ t.dist[v] <= s.dist[v]
           /\ t.dist[w] = s.dist[u] + c /\ t.prehop[w] = u /\ t.dist[u] = s.dist[u]
           /\ \A v \in Indexes(n) \ {w} : t.dist[v] = s.dist[v] /\ t.prehop[v] = s.prehop[v]
<1>1. \A v \in Indexes(n) : s.dist[v] \in Nat /\ s.dist[v] <= Far /\ t.dist[v] \in Nat
  BY FarAssumption DEF Nearer, Fit
<1>2. u \in Indexes(n) /\ w \in Indexes(n) /\ c \in Nat /\ s.dist[u] + c < s.dist[w]
  BY DEF Nearer
<1>3. s.dist[u] < s.dist[w] /\ s.dist[u] < Far /\ s.dist[u] + c < Far
  BY <1>1, <1>2, FarAssumption
<1>4. u # w
  BY <1>1, <1>2, <1>3
<1>5. w # 0
  BY <1>1, <1>2 DEF IsTree, IsRooted
<1>6. Reached(s, u, n)
  BY <1>1, <1>2, <1>3, FarAssumption DEF IsTree, IsRooted
<1>7. /\ t.dist[w] = s.dist[u] + c /\ t.prehop[w] = u /\ t.dist[u] = s.dist[u]
      /\ \A v \in Indexes(n) \ {w} : t.dist[v] = s.dist[v] /\ t.prehop[v] = s.prehop[v]
  BY <1>2, <1>4 DEF Nearer, Fit
<1>8. \A v \in Indexes(n) : t.dist[v] <= s.dist[v]
  BY <1>1, <1>2, <1>7
<1> QED  BY <1>1, <1>3, <1>4, <1>5, <1>6, <1>7, <1>8

\* A new prehop keeps the tree.
LEMMA TreeNearer ==
    ASSUME NEW n \in Nat \ {0}, NEW adj \in Graph(n), NEW s, NEW t, NEW u, NEW w, NEW c,
           Nearer(adj, s, t, u, w, c, n), IsTree(adj, s, n)
    PROVE  IsTree(adj, t, n)
<1>1. /\ u # w /\ w # 0 /\ Reached(s, u, n) /\ s.dist[u] + c < Far
      /\ \A v \in Indexes(n) : s.dist[v] \in Nat /\ t.dist[v] \in Nat /\ t.dist[v] <= s.dist[v]
      /\ t.dist[w] = s.dist[u] + c /\ t.prehop[w] = u /\ t.dist[u] = s.dist[u]
      /\ \A v \in Indexes(n) \ {w} : t.dist[v] = s.dist[v] /\ t.prehop[v] = s.prehop[v]
  BY NearerIs
<1>2. /\ u \in Indexes(n) /\ w \in Indexes(n) /\ 0 \in Indexes(n) /\ n \notin Indexes(n)
      /\ c \in Nat /\ s.dist[u] + c < s.dist[w]
  BY DEF Nearer, Indexes
<1>3. \A v \in Indexes(n) : Reached(s, v, n) => Reached(t, v, n)
  BY <1>1, <1>2 DEF Reached
<1>4. IsRooted(t, n)
  <2>1. t.dist[0] = 0 /\ t.prehop[0] = n
    BY <1>1, <1>2 DEF IsTree, IsRooted
  <2>2. ASSUME NEW v \in Indexes(n)
        PROVE  IF Reached(t, v, n) THEN t.dist[v] < Far ELSE t.dist[v] = Far
    <3>1. CASE v = w
      BY <1>1, <1>2, <3>1 DEF Reached
    <3>2. CASE v # w
      BY <1>1, <3>2 DEF IsTree, IsRooted, Reached
    <3> QED  BY <3>1, <3>2
  <2> QED  BY <2>1, <2>2 DEF IsRooted
<1>5. IsNearer(adj, t, n)
  <2> SUFFICES ASSUME NEW v \in Indexes(n), t.prehop[v] # n
               PROVE  Reached(t, t.prehop[v], n) /\ Accounts(adj, t, t.prehop[v], v)
    BY DEF IsNearer
  <2>1. CASE v = w
    <3>1. PICK i \in DOMAIN adj[u] : adj[u][i].node = w /\ adj[u][i].weight = c
      BY DEF Nearer
    <3>2. t.dist[u] + adj[u][i].weight <= t.dist[v]
      BY <1>1, <1>2, <2>1, <3>1
    <3> QED  BY <1>1, <1>2, <1>3, <2>1, <3>1, <3>2 DEF Accounts
  <2>2. CASE v # w
    <3> DEFINE p == s.prehop[v]
    <3>1. t.prehop[v] = p /\ t.dist[v] = s.dist[v]
      BY <1>1, <2>2
    <3>2. Reached(s, p, n) /\ Accounts(adj, s, p, v)
      BY <3>1 DEF IsTree, IsNearer
    <3>3. p \in Indexes(n)
      BY <3>1 DEF Nearer, Fit
    <3> HIDE DEF p
    <3>4. PICK i \in DOMAIN adj[p] : adj[p][i].node = v /\ s.dist[p] + adj[p][i].weight <= s.dist[v]
      BY <3>2 DEF Accounts
    <3>5. adj[p][i].weight \in Nat
      <4>1. adj[p][i] \in EdgeOf(n)
        BY <3>3 DEF Graph
      <4> QED  BY <4>1 DEF EdgeOf
    <3>6. t.dist[p] + adj[p][i].weight <= t.dist[v]
      BY <1>1, <3>1, <3>3, <3>4, <3>5
    <3> QED  BY <1>3, <3>1, <3>2, <3>3, <3>4, <3>6 DEF Accounts
  <2> QED  BY <2>1, <2>2
<1>6. NoCycle(t, n)
  <2> SUFFICES ASSUME NEW S \in SUBSET (Indexes(n) \ {0}), S # {}, \A v \in S : t.prehop[v] \in S
               PROVE  FALSE
    BY DEF NoCycle
  <2>1. CASE w \notin S
    <3>1. \A v \in S : s.prehop[v] \in S
      BY <1>1, <2>1
    <3> QED  BY <3>1 DEF IsTree, NoCycle
  <2>2. CASE w \in S
    <3> DEFINE Near == {v \in S : s.dist[v] <= s.dist[u]}
    <3>1. u \in Near /\ w \notin Near
      BY <1>1, <1>2, <2>2
    <3>2. ASSUME NEW v \in Near PROVE s.prehop[v] \in Near
      <4> DEFINE p == s.prehop[v]
      <4>1. v \in S /\ v \in Indexes(n) /\ v # w /\ s.dist[v] <= s.dist[u]
        BY <3>1
      <4>2. p \in S /\ p \in Indexes(n) /\ p # n
        BY <1>1, <1>2, <4>1
      <4>3. Accounts(adj, s, p, v)
        BY <4>1, <4>2 DEF IsTree, IsNearer
      <4> HIDE DEF p
      <4>4. PICK i \in DOMAIN adj[p] : s.dist[p] + adj[p][i].weight <= s.dist[v]
        BY <4>3 DEF Accounts
      <4>5. adj[p][i].weight \in Nat
        <5>1. adj[p][i] \in EdgeOf(n)
          BY <4>2 DEF Graph
        <5> QED  BY <5>1 DEF EdgeOf
      <4>6. s.dist[p] <= s.dist[u]
        BY <1>1, <1>2, <4>1, <4>2, <4>4, <4>5
      <4> QED  BY <4>2, <4>6 DEF p
    <3>3. Near \in SUBSET (Indexes(n) \ {0}) /\ Near # {}
      BY <3>1
    <3> HIDE DEF Near
    <3> QED  BY <3>2, <3>3 DEF IsTree, NoCycle
  <2> QED  BY <2>1, <2>2
<1> QED  BY <1>4, <1>5, <1>6 DEF IsTree

\* What a calculation has at any moment.
Calculates(adj, s, n) == Fit(s, n) /\ IsTree(adj, s, n)

\* One edge is relaxed and the heap rebuilt.
LEMMA RelaxCalculates ==
    ASSUME NEW n \in Nat \ {0}, NEW adj \in Graph(n), NEW s, Calculates(adj, s, n),
           NEW u \in Indexes(n), NEW e, \E j \in DOMAIN adj[u] : e = adj[u][j]
    PROVE  /\ Calculates(adj, Rebuild(Relax(s, u, e)), n)
           /\ Rebuild(Relax(s, u, e)).size = s.size
<1> DEFINE t == Relax(s, u, e)
<1>1. e \in EdgeOf(n)
  BY DEF Graph
<1>2. Relaxed(s, u, e, t, n)
  BY <1>1, RelaxOk DEF Calculates
<1> HIDE DEF t
<1>3. Rebuilt(t, Rebuild(t), n)
  BY <1>2, RebuildOk DEF Relaxed
<1>4. IsTree(adj, t, n)
  <2>1. CASE t.dist = s.dist /\ t.prehop = s.prehop
    BY <2>1, TreeSame DEF Calculates
  <2>2. CASE /\ s.dist[u] + e.weight < s.dist[e.node]
             /\ t.dist = [s.dist EXCEPT ![e.node] = s.dist[u] + e.weight]
             /\ t.prehop = [s.prehop EXCEPT ![e.node] = u]
    <3> DEFINE w == e.node
               c == e.weight
    <3>1. w \in Indexes(n) /\ c \in Nat
      BY <1>1 DEF EdgeOf
    <3>2. \E i \in DOMAIN adj[u] : adj[u][i].node = w /\ adj[u][i].weight = c
      OBVIOUS
    <3> HIDE DEF w, c
    <3>3. Nearer(adj, s, t, u, w, c, n)
      BY <1>2, <2>2, <3>1, <3>2 DEF Nearer, Relaxed, Calculates, w, c
    <3> QED  BY <3>3, TreeNearer DEF Calculates
  <2> QED  BY <1>2, <2>1, <2>2 DEF Relaxed
<1>5. IsTree(adj, Rebuild(t), n)
  BY <1>3, <1>4, TreeSame DEF Rebuilt, Reorders
<1> QED  BY <1>2, <1>3, <1>5 DEF Calculates, Rebuilt, Reorders, Relaxed, t

\* Visit is a run over the edges of the minimum.
LEMMA VisitLoop ==
    ASSUME NEW adj, NEW s, NEW N \in Nat, DOMAIN adj[Minimum(s)] = 1..N
    PROVE  \E v : IsRun(v, "Visit", Minimum(s), ExtractMin(s), adj[Minimum(s)], N, Visit(adj, s))
<1> DEFINE u == Minimum(s)
           start == ExtractMin(s)
           seq == adj[u]
           F(it) == [p \in SUBSET (1..N) |-> IF p = {} THEN start
                       ELSE Rebuild(Relax(it[p \ {Max(p)}], u, seq[Max(p)]))]
<1>1. \A acc, e : Turn("Visit", u, acc, e) = Rebuild(Relax(acc, u, e))
  BY DEF Turn
<1>2. DOMAIN seq = 1..N
  OBVIOUS
<1> HIDE DEF start, seq
<1>3. \A it : IsLoop(it, "Visit", u, start, seq, N) <=> it = F(it)
  <2> SUFFICES ASSUME NEW it PROVE IsLoop(it, "Visit", u, start, seq, N) <=> it = F(it)
    OBVIOUS
  <2>1. \A p : Turn("Visit", u, it[p \ {Max(p)}], seq[Max(p)])
               = Rebuild(Relax(it[p \ {Max(p)}], u, seq[Max(p)]))
    BY Zenon, <1>1
  <2> QED  BY <2>1 DEF IsLoop
<1>4. \E it : it = F(it)
  BY <1>3, Iterates
<1>5. PICK it : /\ it = F(it)
                /\ FoldLeft(LAMBDA t, e : Rebuild(Relax(t, u, e)), start, seq) = it[1..N]
  BY Zenon, <1>4, <1>2 DEF FoldLeft, MapThenFoldSet
<1>6. PICK v : IsRun(v, "Visit", u, start, seq, N, it[1..N])
  <2>1. it = F(it)
    BY Zenon, <1>5
  <2>2. IsLoop(it, "Visit", u, start, seq, N)
    BY Zenon, <2>1, <1>3
  <2> QED  BY <2>2, Iteration
<1>7. Visit(adj, s) = it[1..N]
  BY Zenon, <1>5 DEF Visit, start, seq
<1> QED  BY Zenon, <1>6, <1>7 DEF start, seq

\* A visit takes one node out of the heap and keeps the tree.
LEMMA VisitCalculates ==
    ASSUME NEW n \in Nat \ {0}, NEW adj \in Graph(n), NEW s, Calculates(adj, s, n), s.size > 0
    PROVE  Calculates(adj, Visit(adj, s), n) /\ Visit(adj, s).size = s.size - 1
<1> DEFINE u == Minimum(s)
           first == ExtractMin(s)
           N == Len(adj[u])
<1>1. Extracted(s, first, n) /\ u \in Indexes(n)
  BY ExtractMinOk DEF Calculates
<1> HIDE DEF u, first
<1>2. Calculates(adj, first, n) /\ first.size = s.size - 1
  BY <1>1, TreeSame DEF Calculates, Extracted
<1>3. adj[u] \in Seq(EdgeOf(n)) /\ N \in Nat /\ DOMAIN adj[u] = 1..N
  BY <1>1 DEF Graph
<1>4. PICK v : IsRun(v, "Visit", u, first, adj[u], N, Visit(adj, s))
  BY <1>3, VisitLoop DEF u, first
<1>5. /\ v[0] = first
      /\ \A k \in 0..N - 1 : v[k + 1] = Rebuild(Relax(v[k], u, adj[u][k + 1]))
      /\ v[N] = Visit(adj, s)
  <2>1. \A acc, e : Turn("Visit", u, acc, e) = Rebuild(Relax(acc, u, e))
    BY DEF Turn
  <2> HIDE DEF N
  <2> QED  BY <1>4, <2>1 DEF IsRun
<1> HIDE DEF N
<1> DEFINE T == {k \in 0..N : Calculates(adj, v[k], n) /\ v[k].size = first.size}
<1>6. 0 \in T
  BY <1>2, <1>3, <1>5
<1>7. ASSUME NEW k \in 0..N - 1, k \in T PROVE k + 1 \in T
  <2> DEFINE e == adj[u][k + 1]
  <2>1. Calculates(adj, v[k], n) /\ v[k].size = first.size /\ k + 1 \in 0..N /\ k + 1 \in DOMAIN adj[u]
    BY <1>3, <1>7
  <2>2. \E j \in DOMAIN adj[u] : e = adj[u][j]
    BY <2>1
  <2>3. v[k + 1] = Rebuild(Relax(v[k], u, e))
    BY <1>5
  <2> HIDE DEF e
  <2>4. /\ Calculates(adj, Rebuild(Relax(v[k], u, e)), n)
        /\ Rebuild(Relax(v[k], u, e)).size = v[k].size
    BY <1>1, <2>1, <2>2, RelaxCalculates
  <2> QED  BY <2>1, <2>3, <2>4
<1> HIDE DEF T
<1>8. N \in T
  <2>1. \A k \in 0..N : k \in T
    BY <1>3, <1>6, <1>7, Upto
  <2> QED  BY <1>3, <2>1
<1> QED  BY <1>2, <1>5, <1>8 DEF T

\* Calculate is a run of visits.
LEMMA CalculateLoop ==
    ASSUME NEW adj, NEW seq, seq = SetToSeq(DOMAIN adj), NEW N \in Nat, DOMAIN seq = 1..N
    PROVE  \E v : IsRun(v, "Calculate", adj, Start(DOMAIN adj), seq, N, Calculate(adj))
<1> DEFINE start == Start(DOMAIN adj)
           F(it) == [p \in SUBSET (1..N) |-> IF p = {} THEN start
                       ELSE Visit(adj, it[p \ {Max(p)}])]
<1>1. \A acc, e : Turn("Calculate", adj, acc, e) = Visit(adj, acc)
  BY DEF Turn
<1> HIDE DEF start
<1>3. \A it : IsLoop(it, "Calculate", adj, start, seq, N) <=> it = F(it)
  BY <1>1 DEF IsLoop
<1>4. \E it : it = F(it)
  BY <1>3, Iterates
<1>5. PICK it : /\ it = F(it)
                /\ FoldLeft(LAMBDA s, k : Visit(adj, s), start, seq) = it[1..N]
  BY Zenon, <1>4 DEF FoldLeft, MapThenFoldSet
<1>6. PICK v : IsRun(v, "Calculate", adj, start, seq, N, it[1..N])
  <2>1. it = F(it)
    BY Zenon, <1>5
  <2>2. IsLoop(it, "Calculate", adj, start, seq, N)
    BY Zenon, <2>1, <1>3
  <2> QED  BY <2>2, Iteration
<1>7. Calculate(adj) = it[1..N]
  BY Zenon, <1>5 DEF Calculate, start
<1> QED  BY Zenon, <1>6, <1>7 DEF start

\* The loop of Calculate makes as many turns as there are nodes.
LEMMA NodesInSeq ==
    ASSUME NEW n \in Nat \ {0}
    PROVE  DOMAIN SetToSeq(Indexes(n)) = 1..n
<1> DEFINE D == Indexes(n)
           f == [k \in 1..n |-> k - 1]
<1>1. Cardinality(D) = n
  <2>1. 0 \in Int /\ n - 1 \in Int
    OBVIOUS
  <2>2. Cardinality(0..n - 1) = IF 0 > n - 1 THEN 0 ELSE n - 1 - 0 + 1
    BY <2>1, FS_Interval
  <2> QED  BY <2>2 DEF Indexes
<1>2. f \in [1..n -> D] /\ IsInjective(f)
  BY DEF Indexes, IsInjective
<1> HIDE DEF D, f
<1>3. SetToSeq(D) = CHOOSE g \in [1..n -> D] : IsInjective(g)
  BY Zenon, <1>1 DEF SetToSeq
<1>4. SetToSeq(D) \in [1..n -> D]
  BY Zenon, <1>2, <1>3
<1> QED  BY <1>4 DEF D

\* The prehops that a calculation returns form a tree.
LEMMA CalculateOk ==
    ASSUME NEW n \in Nat \ {0}, NEW adj \in Graph(n)
    PROVE  Calculates(adj, Calculate(adj), n)
<1> DEFINE seq == SetToSeq(Indexes(n))
<1>1. DOMAIN adj = Indexes(n)
  BY DEF Graph
<1>2. DOMAIN seq = 1..n
  BY NodesInSeq
<1> HIDE DEF seq
<1>3. PICK v : IsRun(v, "Calculate", adj, Start(Indexes(n)), seq, n, Calculate(adj))
  <2>1. seq = SetToSeq(DOMAIN adj)
    BY <1>1 DEF seq
  <2>2. \E v : IsRun(v, "Calculate", adj, Start(DOMAIN adj), seq, n, Calculate(adj))
    BY <1>2, <2>1, CalculateLoop
  <2> QED  BY Zenon, <1>1, <2>2
<1>4. /\ v[0] = Start(Indexes(n))
      /\ \A k \in 0..n - 1 : v[k + 1] = Visit(adj, v[k])
      /\ v[n] = Calculate(adj)
  <2>1. \A acc, e : Turn("Calculate", adj, acc, e) = Visit(adj, acc)
    BY DEF Turn
  <2> QED  BY <1>3, <2>1 DEF IsRun
<1> DEFINE T == {k \in 0..n : Calculates(adj, v[k], n) /\ v[k].size = n - k}
<1>5. 0 \in T
  <2>1. Begun(v[0], n)
    BY <1>4, StartOk
  <2>2. Calculates(adj, v[0], n)
    BY <2>1, TreeBegun DEF Begun, Calculates
  <2> QED  BY <2>1, <2>2 DEF Begun
<1>6. ASSUME NEW k \in 0..n - 1, k \in T PROVE k + 1 \in T
  <2>1. Calculates(adj, v[k], n) /\ v[k].size = n - k /\ v[k].size > 0
    BY <1>6
  <2>2. Calculates(adj, Visit(adj, v[k]), n) /\ Visit(adj, v[k]).size = v[k].size - 1
    BY <2>1, VisitCalculates
  <2> QED  BY <1>4, <2>1, <2>2
<1> HIDE DEF T
<1>7. n \in T
  <2>1. \A k \in 0..n : k \in T
    BY <1>5, <1>6, Upto
  <2> QED  BY <2>1
<1> QED  BY <1>4, <1>7 DEF T

-----------------------------------------------------------------------------
(* Records and pairs *)

Addresses(seq) == {seq[i].address : i \in 1..Len(seq)}

\* No two records of a database are of the same node.
Unique(db) == \A i, j \in DOMAIN db : db[i].address = db[j].address => i = j

\* Search gives the place of an address, or 0 if it is not there.
Found(seq, a, i) ==
    \/ i \in 1..Len(seq) /\ seq[i].address = a
    \/ i = 0 /\ a \notin Addresses(seq)

LEMMA SearchIs ==
    ASSUME NEW S, NEW seq \in Seq(S), NEW a
    PROVE  Found(seq, a, Search(seq, a))
<1> DEFINE I == {k \in 1..Len(seq) : seq[k].address = a}
<1>1. Search(seq, a) = IF I # {} THEN Min(I) ELSE 0
  BY DEF Search, SelectInSeq
<1>2. CASE I = {}
  BY <1>1, <1>2 DEF Found, Addresses
<1>3. CASE I # {}
  <2>1. I \subseteq Nat
    OBVIOUS
  <2> HIDE DEF I
  <2>2. \E x \in I : \A y \in I : x <= y
    BY <1>3, <2>1, LeastElement
  <2>3. Min(I) \in I
    BY <2>2 DEF Min
  <2> QED  BY <1>1, <1>3, <2>3 DEF Found, I
<1> QED  BY <1>2, <1>3

\* In a database without duplicates, Search is the inverse of the addresses.
LEMMA SearchFinds ==
    ASSUME NEW S, NEW db \in Seq(S), Unique(db), NEW i \in 1..Len(db)
    PROVE  Search(db, db[i].address) = i
<1>1. Found(db, db[i].address, Search(db, db[i].address))
  BY SearchIs
<1> QED  BY <1>1 DEF Found, Unique, Addresses

\* Pairs with addresses in A and metrics in M.
PairOf(A, M) == [address : A, nf_etox : M]

\* The metric of a pair of this address, or 0 if there is none.
MetricIs(pairs, a, m) ==
    \/ \E i \in 1..Len(pairs) : pairs[i].address = a /\ m = pairs[i].nf_etox
    \/ m = 0 /\ a \notin Addresses(pairs)

LEMMA GetMetricIs ==
    ASSUME NEW S, NEW pairs \in Seq(S), NEW a
    PROVE  MetricIs(pairs, a, GetMetric(pairs, a))
<1> DEFINE i == Search(pairs, a)
<1>1. Found(pairs, a, i)
  BY SearchIs
<1>2. GetMetric(pairs, a) = IF i = 0 THEN 0 ELSE pairs[i].nf_etox
  BY DEF GetMetric
<1> HIDE DEF i
<1> QED  BY <1>1, <1>2 DEF Found, MetricIs

\* A pair is replaced or added; the others stay.
Extends(pairs, new, a) == a \in Addresses(new) /\ Addresses(pairs) \subseteq Addresses(new)

LEMMA AddMetricOk ==
    ASSUME NEW A, NEW M, NEW pairs \in Seq(PairOf(A, M)), NEW a \in A, NEW m \in M
    PROVE  /\ AddMetric(pairs, a, m) \in Seq(PairOf(A, M))
           /\ Extends(pairs, AddMetric(pairs, a, m), a)
<1> DEFINE i == Search(pairs, a)
           pair == [address |-> a, nf_etox |-> m]
<1>1. Found(pairs, a, i)
  BY SearchIs
<1>2. AddMetric(pairs, a, m) = IF i = 0 THEN Append(pairs, pair) ELSE [pairs EXCEPT ![i] = pair]
  BY DEF AddMetric
<1>3. pair \in PairOf(A, M) /\ pair.address = a
  BY DEF PairOf
<1> HIDE DEF i, pair
<1>4. CASE i = 0
  <2> DEFINE new == Append(pairs, pair)
  <2>1. /\ new \in Seq(PairOf(A, M)) /\ Len(new) = Len(pairs) + 1 /\ new[Len(pairs) + 1] = pair
        /\ \A k \in 1..Len(pairs) : new[k] = pairs[k]
    BY <1>3
  <2> HIDE DEF new
  <2>2. Len(pairs) + 1 \in 1..Len(new) /\ \A k \in 1..Len(pairs) : k \in 1..Len(new)
    BY <2>1
  <2>3. Extends(pairs, new, a)
    BY <1>3, <2>1, <2>2 DEF Extends, Addresses
  <2> QED  BY <1>2, <1>4, <2>1, <2>3 DEF new
<1>5. CASE i # 0
  <2> DEFINE new == [pairs EXCEPT ![i] = pair]
  <2>1. i \in 1..Len(pairs) /\ pairs[i].address = a
    BY <1>1, <1>5 DEF Found
  <2>2. /\ new \in Seq(PairOf(A, M)) /\ Len(new) = Len(pairs)
        /\ \A k \in 1..Len(pairs) : new[k] = IF k = i THEN pair ELSE pairs[k]
    BY <1>3, <2>1
  <2> HIDE DEF new
  <2>3. \A k \in 1..Len(pairs) : new[k].address = pairs[k].address
    BY <1>3, <2>1, <2>2
  <2>4. Extends(pairs, new, a)
    BY <2>1, <2>2, <2>3 DEF Extends, Addresses
  <2> QED  BY <1>2, <1>5, <2>2, <2>4 DEF new
<1> QED  BY <1>4, <1>5

\* The metrics that come from samples in S.
Metrics(S) == UNION {1..s : s \in S}

\* Smoothing never reaches 0, nor a metric beyond the samples.
LEMMA SmoothOk ==
    ASSUME NEW S \in SUBSET (Nat \ {0, 1}), NEW s \in S, NEW m, m \in Metrics(S) \/ m = 0
    PROVE  Smooth(s, m) \in Metrics(S)
<1>1. s \in Nat /\ s >= 2
  OBVIOUS
<1>2. PICK r \in S : m \in 0..r
  <2>1. CASE m = 0
    BY <1>1, <2>1
  <2>2. CASE m \in Metrics(S)
    BY <2>2 DEF Metrics
  <2> QED  BY <2>1, <2>2
<1>3. m \in Nat /\ r \in Nat
  BY <1>2
<1>4. CASE m <= s
  <2>1. Smooth(s, m) \in 1..s
    BY <1>1, <1>3, <1>4 DEF Smooth
  <2> QED  BY <2>1 DEF Metrics
<1>5. CASE ~ (m <= s)
  <2>1. Smooth(s, m) \in 1..r
    BY <1>1, <1>2, <1>3, <1>5 DEF Smooth
  <2> QED  BY <2>1 DEF Metrics
<1> QED  BY <1>4, <1>5

\* Measure is a run of AddMetric.
LEMMA MeasureLoop ==
    ASSUME NEW pairs, NEW codeNum, NEW N \in Nat, DOMAIN codeNum = 1..N
    PROVE  \E v : IsRun(v, "Measure", 0, pairs, codeNum, N, Measure(pairs, codeNum))
<1> DEFINE turn(acc, e) ==
               AddMetric(acc, e.address, Smooth(e.sample, GetMetric(acc, e.address)))
           F(it) == [p \in SUBSET (1..N) |-> IF p = {} THEN pairs
                       ELSE turn(it[p \ {Max(p)}], codeNum[Max(p)])]
<1>1. \A acc, e : Turn("Measure", 0, acc, e) = turn(acc, e)
  BY DEF Turn
<1>3. \A it : IsLoop(it, "Measure", 0, pairs, codeNum, N) <=> it = F(it)
  <2> SUFFICES ASSUME NEW it PROVE IsLoop(it, "Measure", 0, pairs, codeNum, N) <=> it = F(it)
    OBVIOUS
  <2>1. \A p : Turn("Measure", 0, it[p \ {Max(p)}], codeNum[Max(p)])
               = turn(it[p \ {Max(p)}], codeNum[Max(p)])
    BY Zenon, <1>1
  <2> HIDE DEF turn
  <2> QED  BY <2>1 DEF IsLoop
<1>4. \E it : it = F(it)
  BY <1>3, Iterates
<1>5. PICK it : /\ it = F(it)
                /\ Measure(pairs, codeNum) = it[1..N]
  BY Zenon, <1>4 DEF FoldLeft, MapThenFoldSet, Measure
<1>6. PICK v : IsRun(v, "Measure", 0, pairs, codeNum, N, it[1..N])
  <2>1. it = F(it)
    BY Zenon, <1>5
  <2>2. IsLoop(it, "Measure", 0, pairs, codeNum, N)
    BY Zenon, <2>1, <1>3
  <2> QED  BY <2>2, Iteration
<1> QED  BY Zenon, <1>5, <1>6

\* Samples in S of links to A.
InfoOf(A, S) == [address : A, sample : S]

\* Every link that was sampled has a metric, and every metric stays.
Measured(pairs, codeNum, new, A, S) ==
    /\ new \in Seq(PairOf(A, Metrics(S)))
    /\ Addresses(pairs) \subseteq Addresses(new)
    /\ Addresses(codeNum) \subseteq Addresses(new)

LEMMA MeasureOk ==
    ASSUME NEW A, NEW S \in SUBSET (Nat \ {0, 1}), NEW pairs \in Seq(PairOf(A, Metrics(S))),
           NEW codeNum \in Seq(InfoOf(A, S))
    PROVE  Measured(pairs, codeNum, Measure(pairs, codeNum), A, S)
<1> DEFINE N == Len(codeNum)
           M == Metrics(S)
<1>1. N \in Nat /\ DOMAIN codeNum = 1..N /\ \A k \in 1..N : codeNum[k] \in InfoOf(A, S)
  OBVIOUS
<1> HIDE DEF N
<1>2. PICK v : IsRun(v, "Measure", 0, pairs, codeNum, N, Measure(pairs, codeNum))
  BY <1>1, MeasureLoop
<1> DEFINE metric(k) == Smooth(codeNum[k + 1].sample, GetMetric(v[k], codeNum[k + 1].address))
<1>3. /\ v[0] = pairs
      /\ \A k \in 0..N - 1 : v[k + 1] = AddMetric(v[k], codeNum[k + 1].address, metric(k))
      /\ v[N] = Measure(pairs, codeNum)
  <2>1. \A acc, e : Turn("Measure", 0, acc, e)
                    = AddMetric(acc, e.address, Smooth(e.sample, GetMetric(acc, e.address)))
    BY DEF Turn
  <2> QED  BY <1>2, <2>1 DEF IsRun
<1> HIDE DEF metric
<1> DEFINE Holds(p, k) == /\ p \in Seq(PairOf(A, M))
                          /\ Addresses(pairs) \subseteq Addresses(p)
                          /\ \A i \in 1..k : codeNum[i].address \in Addresses(p)
           T == {k \in 0..N : Holds(v[k], k)}
<1>4. 0 \in T
  BY <1>1, <1>3
<1>5. ASSUME NEW k \in 0..N - 1, k \in T PROVE k + 1 \in T
  <2> DEFINE p == v[k]
             a == codeNum[k + 1].address
             m == metric(k)
  <2>1. Holds(p, k) /\ k + 1 \in 1..N /\ k + 1 \in 0..N
    BY <1>1, <1>5
  <2>2. a \in A /\ codeNum[k + 1].sample \in S
    BY <1>1, <2>1 DEF InfoOf
  <2>3. MetricIs(p, a, GetMetric(p, a))
    BY <2>1, GetMetricIs
  <2>4. GetMetric(p, a) \in Metrics(S) \/ GetMetric(p, a) = 0
    <3> HIDE DEF p, a
    <3>1. \A i \in 1..Len(p) : p[i] \in PairOf(A, Metrics(S))
      BY <2>1
    <3>2. \A i \in 1..Len(p) : p[i].nf_etox \in Metrics(S)
      BY <3>1 DEF PairOf
    <3> QED  BY <2>3, <3>2 DEF MetricIs
  <2>5. m \in M
    BY <2>2, <2>4, SmoothOk DEF metric
  <2> HIDE DEF p, a, m, M
  <2>6. AddMetric(p, a, m) \in Seq(PairOf(A, M)) /\ Extends(p, AddMetric(p, a, m), a)
    BY <2>1, <2>2, <2>5, AddMetricOk
  <2>7. v[k + 1] = AddMetric(p, a, m)
    BY <1>3 DEF p, a, m
  <2>8. \A i \in 1..k + 1 : i \in 1..k \/ i = k + 1
    OBVIOUS
  <2>9. Holds(v[k + 1], k + 1)
    BY <2>1, <2>6, <2>7, <2>8 DEF Extends, a
  <2> QED  BY <2>1, <2>9
<1> HIDE DEF T
<1>6. N \in T
  <2>1. \A k \in 0..N : k \in T
    BY <1>1, <1>4, <1>5, Upto
  <2> QED  BY <1>1, <2>1
<1>7. Holds(v[N], N)
  BY <1>6 DEF T
<1>8. \A x \in Addresses(codeNum) : x \in Addresses(v[N])
  <2>1. \A x \in Addresses(codeNum) : \E i \in 1..N : x = codeNum[i].address
    BY DEF Addresses, N
  <2> QED  BY <1>7, <2>1
<1> QED  BY <1>3, <1>7, <1>8 DEF Measured

-----------------------------------------------------------------------------
(* Tables *)

\* A database: no two records of a node, and pairs with metrics in M.
IsDatabase(db, A, M) ==
    /\ db \in Seq({db[i] : i \in 1..Len(db)}) /\ Len(db) >= 1
    /\ Unique(db)
    /\ \A i \in 1..Len(db) : db[i].pairs \in Seq(PairOf(A, M))

\* Search in a database.
LEMMA PlaceIs ==
    ASSUME NEW A, NEW M, NEW db, IsDatabase(db, A, M)
    PROVE  /\ \A a : Found(db, a, Search(db, a))
           /\ \A i \in 1..Len(db) : Search(db, db[i].address) = i
<1>1. db \in Seq({db[i] : i \in 1..Len(db)}) /\ Unique(db)
  BY DEF IsDatabase
<1> QED  BY <1>1, SearchIs, SearchFinds

\* No edge has a negative weight.
LEMMA WeightOk ==
    ASSUME NEW A, NEW M \in SUBSET Nat, NEW db, IsDatabase(db, A, M), NEW i \in 1..Len(db),
           NEW pair \in PairOf(A, M)
    PROVE  Weight(db, i, pair) \in Nat
<1> DEFINE j == Search(db, pair.address)
           other == IF j = 0 THEN 0 ELSE GetMetric(db[j].pairs, db[i].address)
<1>1. Found(db, pair.address, j)
  BY PlaceIs
<1> HIDE DEF j
<1>2. other \in Nat
  <2>1. CASE j # 0
    <3> DEFINE pairs == db[j].pairs
    <3>1. pairs \in Seq(PairOf(A, M))
      BY <1>1, <2>1 DEF Found, IsDatabase
    <3> HIDE DEF pairs
    <3>2. MetricIs(pairs, db[i].address, GetMetric(pairs, db[i].address))
      BY <3>1, GetMetricIs
    <3>3. \A k \in 1..Len(pairs) : pairs[k] \in PairOf(A, M)
      BY <3>1
    <3>4. \A k \in 1..Len(pairs) : pairs[k].nf_etox \in Nat
      BY <3>3 DEF PairOf
    <3> HIDE DEF MetricIs
    <3>5. GetMetric(pairs, db[i].address) \in Nat
      BY <3>2, <3>4 DEF MetricIs
    <3> QED  BY <2>1, <3>5 DEF pairs
  <2> QED  BY <2>1
<1>3. pair.nf_etox \in Nat
  BY DEF PairOf
<1> HIDE DEF other
<1>4. Weight(db, i, pair) \in {other, pair.nf_etox}
  BY Zenon DEF Weight, other, j
<1> QED  BY <1>2, <1>3, <1>4

\* The list of node u is a run of AddEdge.
LEMMA AdjListLoop ==
    ASSUME NEW db, NEW u \in 0..Len(db) - 1, NEW N \in Nat, DOMAIN db[u + 1].pairs = 1..N
    PROVE  \E v : IsRun(v, "AdjList", [net |-> db, i |-> u + 1], <<>>, db[u + 1].pairs, N,
                        AdjListGenerator(db)[u])
<1> DEFINE i == u + 1
           seq == db[i].pairs
           c == [net |-> db, i |-> i]
           F(it) == [p \in SUBSET (1..N) |-> IF p = {} THEN <<>>
                       ELSE AddEdge(db, i, it[p \ {Max(p)}], seq[Max(p)])]
<1>1. \A acc, e : Turn("AdjList", c, acc, e) = AddEdge(db, i, acc, e)
  BY DEF Turn
<1>2. DOMAIN seq = 1..N
  OBVIOUS
<1> HIDE DEF c, seq
<1>3. \A it : IsLoop(it, "AdjList", c, <<>>, seq, N) <=> it = F(it)
  <2> SUFFICES ASSUME NEW it PROVE IsLoop(it, "AdjList", c, <<>>, seq, N) <=> it = F(it)
    OBVIOUS
  <2>1. \A p : Turn("AdjList", c, it[p \ {Max(p)}], seq[Max(p)])
               = AddEdge(db, i, it[p \ {Max(p)}], seq[Max(p)])
    BY Zenon, <1>1
  <2> QED  BY <2>1 DEF IsLoop
<1>4. \E it : it = F(it)
  BY <1>3, Iterates
<1>5. PICK it : /\ it = F(it)
                /\ FoldLeft(LAMBDA edges, pair : AddEdge(db, i, edges, pair), <<>>, seq)
                   = it[1..N]
  BY Zenon, <1>4, <1>2 DEF FoldLeft, MapThenFoldSet
<1>6. PICK v : IsRun(v, "AdjList", c, <<>>, seq, N, it[1..N])
  <2>1. it = F(it)
    BY Zenon, <1>5
  <2>2. IsLoop(it, "AdjList", c, <<>>, seq, N)
    BY Zenon, <2>1, <1>3
  <2> QED  BY <2>2, Iteration
<1>7. AdjListGenerator(db)[u]
      = FoldLeft(LAMBDA edges, pair : AddEdge(db, u + 1, edges, pair), <<>>, db[u + 1].pairs)
  BY Zenon DEF AdjListGenerator
<1>8. AdjListGenerator(db)[u] = it[1..N]
  BY Zenon, <1>5, <1>7 DEF seq
<1> QED  BY Zenon, <1>6, <1>8 DEF seq, c

\* Every edge of node i comes from one of its pairs.
IsList(db, i, edges) ==
    /\ edges \in Seq(EdgeOf(Len(db)))
    /\ \A k \in 1..Len(edges) : \E j \in 1..Len(db[i].pairs) :
           Search(db, db[i].pairs[j].address) = edges[k].node + 1

LEMMA AddEdgeOk ==
    ASSUME NEW A, NEW M \in SUBSET Nat, NEW db, IsDatabase(db, A, M), NEW i \in 1..Len(db),
           NEW edges, IsList(db, i, edges), NEW j \in 1..Len(db[i].pairs)
    PROVE  IsList(db, i, AddEdge(db, i, edges, db[i].pairs[j]))
<1> DEFINE pair == db[i].pairs[j]
           p == Search(db, pair.address)
           edge == [node |-> p - 1, weight |-> Weight(db, i, pair)]
           new == Append(edges, edge)
<1>1. Found(db, pair.address, p)
  BY PlaceIs
<1>2. Len(db) \in Nat
  <2>1. db \in Seq({db[k] : k \in 1..Len(db)})
    BY DEF IsDatabase
  <2> QED  BY <2>1
<1>3. pair \in PairOf(A, M)
  <2>1. db[i].pairs \in Seq(PairOf(A, M))
    BY DEF IsDatabase
  <2> QED  BY <2>1
<1>4. AddEdge(db, i, edges, pair) = IF p = 0 THEN edges ELSE new
  BY DEF AddEdge
<1>5. CASE p = 0
  BY <1>4, <1>5
<1>6. CASE p # 0
  <2> HIDE DEF p
  <2>1. p \in 1..Len(db)
    BY <1>1, <1>6 DEF Found
  <2>2. Weight(db, i, pair) \in Nat
    BY <1>3, WeightOk
  <2>3. edge \in EdgeOf(Len(db)) /\ edge.node + 1 = p
    <3>1. p - 1 \in Indexes(Len(db)) /\ p - 1 + 1 = p
      BY <1>2, <2>1 DEF Indexes
    <3> QED  BY <2>2, <3>1 DEF EdgeOf
  <2> HIDE DEF edge
  <2>4. edges \in Seq(EdgeOf(Len(db)))
    BY DEF IsList
  <2>5. /\ new \in Seq(EdgeOf(Len(db))) /\ Len(new) = Len(edges) + 1
        /\ \A k \in 1..Len(new) : new[k] = IF k = Len(edges) + 1 THEN edge ELSE edges[k]
        /\ \A k \in 1..Len(new) : k \in 1..Len(edges) \/ k = Len(edges) + 1
    BY <2>3, <2>4
  <2> HIDE DEF new
  <2>6. ASSUME NEW k \in 1..Len(new)
        PROVE  \E l \in 1..Len(db[i].pairs) :
                   Search(db, db[i].pairs[l].address) = new[k].node + 1
    <3>1. CASE k = Len(edges) + 1
      <4>1. Search(db, db[i].pairs[j].address) = new[k].node + 1
        BY <2>3, <2>5, <3>1 DEF p
      <4> QED  BY <4>1
    <3>2. CASE k # Len(edges) + 1
      <4>1. k \in 1..Len(edges) /\ new[k] = edges[k]
        BY <2>5, <3>2
      <4> QED  BY <4>1 DEF IsList
    <3> QED  BY <3>1, <3>2
  <2>7. IsList(db, i, new)
    BY <2>5, <2>6 DEF IsList
  <2> QED  BY <1>4, <1>6, <2>7 DEF p
<1> QED  BY <1>5, <1>6

LEMMA AdjListOk ==
    ASSUME NEW A, NEW M \in SUBSET Nat, NEW db, IsDatabase(db, A, M)
    PROVE  /\ AdjListGenerator(db) \in Graph(Len(db))
           /\ \A u \in Indexes(Len(db)) : IsList(db, u + 1, AdjListGenerator(db)[u])
<1> DEFINE n == Len(db)
           adj == AdjListGenerator(db)
<1>1. ASSUME NEW u \in Indexes(n) PROVE IsList(db, u + 1, adj[u])
  <2> DEFINE i == u + 1
             seq == db[i].pairs
             N == Len(seq)
             c == [net |-> db, i |-> i]
  <2>1. i \in 1..n /\ u \in 0..n - 1
    BY DEF Indexes, IsDatabase
  <2>2. seq \in Seq(PairOf(A, M))
    BY <2>1 DEF IsDatabase
  <2>3. N \in Nat /\ DOMAIN seq = 1..N
    BY <2>2
  <2> HIDE DEF N
  <2>4. PICK v : IsRun(v, "AdjList", c, <<>>, seq, N, adj[u])
    BY <2>1, <2>3, AdjListLoop
  <2> HIDE DEF i, adj
  <2>5. /\ v[0] = <<>>
        /\ \A k \in 0..N - 1 : v[k + 1] = AddEdge(db, i, v[k], seq[k + 1])
        /\ v[N] = adj[u]
    <3>1. \A acc, e : Turn("AdjList", c, acc, e) = AddEdge(db, i, acc, e)
      BY DEF Turn
    <3> HIDE DEF c, seq
    <3> QED  BY <2>4, <3>1 DEF IsRun
  <2> DEFINE T == {k \in 0..N : IsList(db, i, v[k])}
  <2>6. 0 \in T
    <3>1. IsList(db, i, <<>>)
      BY DEF IsList
    <3> QED  BY <2>3, <2>5, <3>1
  <2>7. ASSUME NEW k \in 0..N - 1, k \in T PROVE k + 1 \in T
    <3>1. k + 1 \in 1..N /\ k + 1 \in 0..N /\ IsList(db, i, v[k])
      BY <2>3, <2>7
    <3>2. IsList(db, i, AddEdge(db, i, v[k], seq[k + 1]))
      BY <2>1, <3>1, AddEdgeOk DEF N
    <3> QED  BY <2>5, <3>1, <3>2
  <2> HIDE DEF T
  <2>8. N \in T
    <3>1. \A k \in 0..N : k \in T
      BY <2>3, <2>6, <2>7, Upto
    <3> QED  BY <2>3, <3>1
  <2> QED  BY <2>5, <2>8 DEF T, i
<1>2. adj = [u \in Indexes(n) |-> adj[u]]
  BY Zenon DEF AdjListGenerator, Indexes
<1>3. \A u \in Indexes(n) : adj[u] \in Seq(EdgeOf(n))
  BY <1>1 DEF IsList
<1> HIDE DEF adj, n
<1>4. adj \in Graph(n)
  BY <1>2, <1>3 DEF Graph
<1> QED  BY <1>1, <1>4 DEF adj, n

\* A table after a calculation that reached the addresses R: theirs are the
\* entries written, and they are a forest whose ends are neighbors.
Calculated(db, table, new, R) ==
    /\ R \subseteq Addresses(db) /\ IsFiniteSet(R)
    /\ new = [d \in DOMAIN table \cup R |-> new[d]]
    /\ \A d \in DOMAIN table \ R : new[d] = table[d]
    /\ \A d \in R : new[d] \in R
    /\ \A T \in SUBSET R : T # {} => \E d \in T : new[d] = d \/ new[d] \notin T
    /\ \A d \in R : new[d] = d => d \in Addresses(db[1].pairs)

\* What CalculateTable writes, for a state s of a calculation: the entries of
\* the nodes with these prehops.
IsTable(db, s, entries, V) ==
    /\ V = {v \in Indexes(Len(db)) : s.prehop[v] < Len(db)}
    /\ entries = [d \in {db[v + 1].address : v \in V} |->
                    IF s.prehop[Search(db, d) - 1] = 0 THEN d
                    ELSE db[s.prehop[Search(db, d) - 1] + 1].address]

LEMMA TableOk ==
    ASSUME NEW A, NEW M \in SUBSET Nat, NEW db, IsDatabase(db, A, M),
           NEW s, Calculates(AdjListGenerator(db), s, Len(db)),
           NEW V, NEW entries, IsTable(db, s, entries, V), NEW table,
           NEW new, new = Overwrite(table, entries)
    PROVE  Calculated(db, table, new, DOMAIN entries)
<1> DEFINE n == Len(db)
           adj == AdjListGenerator(db)
           addr(v) == db[v + 1].address
           R == {addr(v) : v \in V}
           p == s.prehop
<1>1. n \in Nat /\ n >= 1 /\ \A v \in Indexes(n) : v + 1 \in 1..n
  <2>1. db \in Seq({db[k] : k \in 1..Len(db)}) /\ Len(db) >= 1
    BY DEF IsDatabase
  <2> QED  BY <2>1 DEF Indexes
<1>2. p \in [Indexes(n) -> Indexes(n) \cup {n}] /\ IsTree(adj, s, n)
  BY DEF Calculates, Fit
<1>3. /\ 0 \in Indexes(n) /\ n \notin Indexes(n)
      /\ V = {v \in Indexes(n) : p[v] # n} /\ 0 \notin V
  <2>1. 0 \in Indexes(n) /\ n \notin Indexes(n) /\ \A v \in Indexes(n) : v < n
    BY <1>1 DEF Indexes
  <2>2. \A v \in Indexes(n) : p[v] < n <=> p[v] # n
    BY <1>1, <1>2, <2>1
  <2>3. p[0] = n
    BY <1>2 DEF IsTree, IsRooted
  <2> QED  BY <2>1, <2>2, <2>3 DEF IsTable
<1>4. \A v \in Indexes(n) : Search(db, addr(v)) - 1 = v
  <2> SUFFICES ASSUME NEW v \in Indexes(n) PROVE Search(db, addr(v)) - 1 = v
    OBVIOUS
  <2>1. Search(db, db[v + 1].address) = v + 1
    BY <1>1, PlaceIs
  <2> QED  BY <1>1, <2>1 DEF Indexes
<1>5. \A v, w \in Indexes(n) : addr(v) = addr(w) => v = w
  BY <1>4
<1> HIDE DEF n, addr, adj
<1>6. DOMAIN entries = R /\ \A v \in V : entries[addr(v)] = IF p[v] = 0 THEN addr(v) ELSE addr(p[v])
  <2>1. entries = [d \in R |-> IF p[Search(db, d) - 1] = 0 THEN d
                               ELSE addr(p[Search(db, d) - 1])]
    BY DEF IsTable, addr
  <2>2. \A v \in V : v \in Indexes(n)
    BY <1>3
  <2> QED  BY <1>4, <2>1, <2>2
<1>7. /\ new = [d \in DOMAIN table \cup R |-> new[d]]
      /\ \A d \in DOMAIN table \ R : new[d] = table[d]
      /\ \A d \in R : new[d] = entries[d]
  BY <1>6 DEF Overwrite
<1>8. \A v \in V : /\ v \in Indexes(n) /\ v # 0
                   /\ p[v] \in Indexes(n) /\ (p[v] = 0 \/ p[v] \in V)
                   /\ new[addr(v)] = IF p[v] = 0 THEN addr(v) ELSE addr(p[v])
  <2> SUFFICES ASSUME NEW v \in V
               PROVE  /\ v \in Indexes(n) /\ v # 0
                      /\ p[v] \in Indexes(n) /\ (p[v] = 0 \/ p[v] \in V)
                      /\ new[addr(v)] = IF p[v] = 0 THEN addr(v) ELSE addr(p[v])
    OBVIOUS
  <2>1. v \in Indexes(n) /\ v # 0 /\ p[v] # n /\ p[v] \in Indexes(n)
    BY <1>2, <1>3
  <2>2. p[v] = 0 \/ p[p[v]] # n
    BY <1>2, <2>1 DEF IsTree, IsNearer, Reached
  <2> QED  BY <1>3, <1>6, <1>7, <2>1, <2>2
<1>9. \A d \in R : new[d] \in R
  BY <1>8
<1>10. ASSUME NEW T \in SUBSET R, T # {} PROVE \E d \in T : new[d] = d \/ new[d] \notin T
  <2> DEFINE U == {v \in V : addr(v) \in T}
  <2>1. U \in SUBSET (Indexes(n) \ {0}) /\ U # {}
    BY <1>8, <1>10
  <2>2. PICK v \in U : p[v] \notin U
    BY <1>2, <2>1 DEF IsTree, NoCycle
  <2>3. CASE p[v] = 0
    BY <1>8, <2>2, <2>3
  <2>4. CASE p[v] # 0
    <3>1. p[v] \in V /\ addr(p[v]) \notin T /\ new[addr(v)] = addr(p[v])
      BY <1>8, <2>2, <2>4
    <3> QED  BY <2>2, <3>1
  <2> QED  BY <2>3, <2>4
<1>11. ASSUME NEW d \in R, new[d] = d PROVE d \in Addresses(db[1].pairs)
  <2>1. PICK v \in V : d = addr(v)
    OBVIOUS
  <2>2. p[v] = 0
    <3> SUFFICES ASSUME p[v] # 0 PROVE FALSE
      OBVIOUS
    <3>1. p[v] = v
      BY <1>5, <1>8, <1>11, <2>1
    <3>2. {v} \in SUBSET (Indexes(n) \ {0}) /\ {v} # {}
      BY <1>8
    <3>3. \E w \in {v} : p[w] \notin {v}
      BY <1>2, <3>2 DEF IsTree, NoCycle
    <3> QED  BY <3>1, <3>3
  <2>3. Accounts(adj, s, 0, v)
    BY <1>2, <1>3, <2>2 DEF IsTree, IsNearer
  <2>4. adj \in Graph(n) /\ IsList(db, 0 + 1, adj[0])
    BY <1>3, AdjListOk DEF n, adj
  <2>5. PICK k \in 1..Len(adj[0]) : adj[0][k].node = v
    <3>1. adj[0] \in Seq(EdgeOf(n))
      BY <1>3, <2>4 DEF Graph
    <3>2. DOMAIN adj[0] = 1..Len(adj[0])
      BY <3>1
    <3> QED  BY <2>3, <3>2 DEF Accounts
  <2>6. PICK j \in 1..Len(db[1].pairs) : Search(db, db[1].pairs[j].address) = v + 1
    BY <2>4, <2>5 DEF IsList
  <2> DEFINE a == db[1].pairs[j].address
  <2>7. v + 1 # 0
    <3>1. v \in Indexes(n)
      BY <1>8
    <3> QED  BY <1>1, <3>1 DEF Indexes
  <2>8. Found(db, a, v + 1)
    BY <2>6, PlaceIs
  <2>9. a = d
    BY <2>1, <2>7, <2>8 DEF Found, addr
  <2> QED  BY <2>9 DEF Addresses
<1>12. IsFiniteSet(R)
  <2>1. IsFiniteSet(Indexes(n))
    <3>1. 0 \in Int /\ n - 1 \in Int
      BY <1>1
    <3> QED  BY <3>1, FS_Interval DEF Indexes
  <2>2. IsFiniteSet(V)
    BY <1>3, <2>1, FS_Subset
  <2> DEFINE f == [v \in V |-> addr(v)]
  <2>3. f \in Surjection(V, R)
    BY DEF Surjection
  <2> HIDE DEF f, R
  <2> QED  BY <2>2, <2>3, FS_Surjection
<1>13. R \subseteq Addresses(db)
  BY <1>1, <1>3 DEF Addresses, addr, n
<1> HIDE DEF R
<1> QED  BY <1>6, <1>7, <1>9, <1>10, <1>11, <1>12, <1>13 DEF Calculated

\* CalculateTable writes such a table.
LEMMA CalculateTableOk ==
    ASSUME NEW A, NEW M \in SUBSET Nat, NEW db, IsDatabase(db, A, M), NEW table
    PROVE  \E R : Calculated(db, table, CalculateTable(db, table), R)
<1> DEFINE n == Len(db)
           s == Calculate(AdjListGenerator(db))
           V == {v \in DOMAIN s.prehop : s.prehop[v] < n}
           entries == [d \in {db[v + 1].address : v \in V} |->
                         IF s.prehop[Search(db, d) - 1] = 0 THEN d
                         ELSE db[s.prehop[Search(db, d) - 1] + 1].address]
           new == Overwrite(table, entries)
<1>1. n \in Nat \ {0}
  <2>1. db \in Seq({db[k] : k \in 1..Len(db)}) /\ Len(db) >= 1
    BY DEF IsDatabase
  <2> QED  BY <2>1
<1>2. AdjListGenerator(db) \in Graph(n)
  BY AdjListOk
<1>3. Calculates(AdjListGenerator(db), s, n)
  BY <1>1, <1>2, CalculateOk
<1>4. CalculateTable(db, table) = new
  BY Zenon DEF CalculateTable
<1> HIDE DEF s
<1>5. DOMAIN s.prehop = Indexes(n)
  BY <1>3 DEF Calculates, Fit
<1>6. IsTable(db, s, entries, V)
  BY Zenon, <1>5 DEF IsTable
<1> HIDE DEF n, entries, V
<1>7. new = Overwrite(table, entries)
  OBVIOUS
<1> HIDE DEF new
<1>8. Calculated(db, table, new, DOMAIN entries)
  BY <1>3, <1>6, <1>7, TableOk DEF n
<1> QED  BY <1>4, <1>8

\* FindSendEntry goes along the table.
LEMMA FindSendEntryLoop ==
    ASSUME NEW table, NEW dest, NEW N \in Nat, N = Cardinality(DOMAIN table)
    PROVE  \E v : IsRun(v, "Find", table, dest, [k \in 1..N |-> k], N, FindSendEntry(table, dest))
<1> DEFINE seq == [k \in 1..N |-> k]
           step(d) == IF d \in DOMAIN table THEN table[d] ELSE d
           F(it) == [p \in SUBSET (1..N) |-> IF p = {} THEN dest ELSE step(it[p \ {Max(p)}])]
<1>1. \A acc, e : Turn("Find", table, acc, e) = step(acc)
  BY DEF Turn
<1>2. DOMAIN seq = 1..N /\ seq = [k \in 1..Cardinality(DOMAIN table) |-> k]
  OBVIOUS
<1> HIDE DEF seq
<1>3. \A it : IsLoop(it, "Find", table, dest, seq, N) <=> it = F(it)
  <2> SUFFICES ASSUME NEW it PROVE IsLoop(it, "Find", table, dest, seq, N) <=> it = F(it)
    OBVIOUS
  <2>1. \A p : Turn("Find", table, it[p \ {Max(p)}], seq[Max(p)]) = step(it[p \ {Max(p)}])
    BY Zenon, <1>1
  <2> HIDE DEF step
  <2> QED  BY <2>1 DEF IsLoop
<1>4. \E it : it = F(it)
  BY <1>3, Iterates
<1>5. PICK it : /\ it = F(it)
                /\ FindSendEntry(table, dest) = it[1..N]
  BY Zenon, <1>4, <1>2 DEF FoldLeft, MapThenFoldSet, FindSendEntry
<1>6. PICK v : IsRun(v, "Find", table, dest, seq, N, it[1..N])
  <2>1. it = F(it)
    BY Zenon, <1>5
  <2>2. IsLoop(it, "Find", table, dest, seq, N)
    BY Zenon, <2>1, <1>3
  <2> QED  BY <2>2, Iteration
<1> QED  BY Zenon, <1>5, <1>6 DEF seq

\* Over a forest it finds an end.
LEMMA FindSendEntryOk ==
    ASSUME NEW table, IsForest(table, DOMAIN table), NEW dest \in DOMAIN table
    PROVE  /\ FindSendEntry(table, dest) \in DOMAIN table
           /\ table[FindSendEntry(table, dest)] = FindSendEntry(table, dest)
<1> DEFINE D == DOMAIN table
           N == Cardinality(D)
           seq == [k \in 1..N |-> k]
<1>1. N \in Nat /\ table \in [D -> D]
  BY FS_CardinalityType DEF IsForest
<1> HIDE DEF N
<1>2. PICK v : IsRun(v, "Find", table, dest, seq, N, FindSendEntry(table, dest))
  BY <1>1, FindSendEntryLoop DEF N
<1>3. /\ v[0] = dest
      /\ \A k \in 0..N - 1 : v[k + 1] = IF v[k] \in D THEN table[v[k]] ELSE v[k]
      /\ v[N] = FindSendEntry(table, dest)
  <2>1. \A acc, e : Turn("Find", table, acc, e) = IF acc \in D THEN table[acc] ELSE acc
    BY DEF Turn
  <2> HIDE DEF seq, D
  <2> QED  BY <1>2, <2>1 DEF IsRun
<1> DEFINE T == {k \in 0..N : v[k] \in D}
<1>4. 0 \in T
  BY <1>1, <1>3
<1>5. ASSUME NEW k \in 0..N - 1, k \in T PROVE k + 1 \in T
  BY <1>1, <1>3, <1>5
<1> HIDE DEF T
<1>6. \A k \in 0..N : k \in T
  BY <1>1, <1>4, <1>5, Upto
<1>7. Goes(v, table, N)
  <2> SUFFICES ASSUME NEW k \in 0..N - 1 PROVE v[k + 1] = table[v[k]]
    BY DEF Goes
  <2>1. k \in 0..N
    BY <1>1
  <2>2. v[k] \in D
    BY <1>6, <2>1 DEF T
  <2> QED  BY <1>3, <2>2
<1>8. Cardinality(D) <= N
  BY <1>1 DEF N
<1>9. v[0] \in D
  BY <1>3
<1> HIDE DEF D
<1>10. v[N] \in D /\ table[v[N]] = v[N]
  BY <1>1, <1>7, <1>8, <1>9, ChainEnds DEF D
<1> QED  BY <1>3, <1>10 DEF D

\* Entries that several calculations left form a forest together: a set of
\* entries that meets the nodes just reached leads to an end or out of the set
\* inside the new tree, and any other set is as it was before.
LEMMA ForestGrows ==
    ASSUME NEW db, NEW table, IsForest(table, DOMAIN table), NEW new, NEW R,
           Calculated(db, table, new, R)
    PROVE  IsForest(new, DOMAIN new)
<1> DEFINE D == DOMAIN table
<1>1. /\ new = [d \in D \cup R |-> new[d]]
      /\ \A d \in D \ R : new[d] = table[d]
      /\ \A d \in R : new[d] \in R
      /\ \A T \in SUBSET R : T # {} => \E d \in T : new[d] = d \/ new[d] \notin T
  BY DEF Calculated
<1>2. /\ table \in [D -> D]
      /\ \A T \in SUBSET D : T # {} => \E d \in T : table[d] = d \/ table[d] \notin T
  BY DEF IsForest
<1>3. IsFiniteSet(D \cup R)
  BY FS_Union DEF IsForest, Calculated
<1> HIDE DEF D
<1>4. new \in [D \cup R -> D \cup R]
  <2>1. \A d \in D \cup R : new[d] \in D \cup R
    BY <1>1, <1>2
  <2> QED  BY <1>1, <2>1
<1>5. ASSUME NEW T \in SUBSET (D \cup R), T # {}
      PROVE  \E d \in T : new[d] = d \/ new[d] \notin T
  <2>1. CASE T \cap R # {}
    <3>1. PICK d \in T \cap R : new[d] = d \/ new[d] \notin T \cap R
      BY <1>1, <2>1
    <3> QED  BY <1>1, <3>1
  <2>2. CASE T \cap R = {}
    <3>1. T \in SUBSET D
      BY <2>2
    <3>2. PICK d \in T : table[d] = d \/ table[d] \notin T
      BY <1>2, <1>5, <3>1
    <3>3. new[d] = table[d]
      BY <1>1, <2>2, <3>1, <3>2
    <3> QED  BY <3>2, <3>3
  <2> QED  BY <2>1, <2>2
<1> QED  BY <1>3, <1>4, <1>5 DEF IsForest

=============================================================================
