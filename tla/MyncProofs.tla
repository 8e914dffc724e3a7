------------------------------ MODULE MyncProofs ------------------------------
(***************************************************************************)
(* The coding protocol, for any nodes, devices, traffic and medium.        *)
(*                                                                         *)
(* Each handler has a lemma: it is Fine, that is, it ends in a failed      *)
(* assertion or in a sound state, and Moves, that is, it only adds known   *)
(* ids to the pool, known beliefs to m_packetInfo and frames to devices.   *)
(* NextIs collects them; truth of beliefs (Truth) and the refinement of    *)
(* Coding follow from it without another look at the handlers.             *)
(*                                                                         *)
(* The second half goes over the handlers again: each of them Goes, that   *)
(* is, it ends with every entry Filed under its next hop, or in one of the *)
(* assertions H that may fail. With no such assertion left, the program    *)
(* does not abort.                                                         *)
(***************************************************************************)
EXTENDS MyncInvariant, FiniteSetTheorems, SequenceTheorems, WellFoundedInduction, TLAPS

-----------------------------------------------------------------------------
(* Induction over data, without operator parameters. *)

\* A nonempty set of naturals has a least element.
LEMMA LeastElement ==
    ASSUME NEW T, T \subseteq Nat, T # {}
    PROVE  \E x \in T : \A y \in T : x <= y
<1> DEFINE R == OpToRel(<, Nat)
<1>1. IsWellFoundedOn(R, Nat)
  BY Zenon, NatLessThanWellFounded
<1>2. \A x, y \in Nat : <<x, y>> \in R <=> x < y
  BY Zenon DEF OpToRel
<1> HIDE DEF R
<1>3. PICK x \in T : \A y \in T : ~ (<<y, x>> \in R)
  BY <1>1, WFMin
<1>4. \A y \in T : ~ (y < x)
  BY <1>2, <1>3
<1>5. \A y \in T : x <= y
  BY <1>4
<1> QED  BY <1>5

\* A set of naturals that has 0 and with each k below N also k + 1 has all of
\* 0..N: induction on N with a set where the library has a predicate.
LEMMA Upto ==
    ASSUME NEW N \in Nat, NEW T, 0 \in T, \A k \in 0..N - 1 : k \in T => k + 1 \in T
    PROVE  \A k \in 0..N : k \in T
<1> SUFFICES ASSUME NEW j \in 0..N, j \notin T PROVE FALSE
  OBVIOUS
<1> DEFINE U == {k \in 0..N : k \notin T}
<1>1. U \subseteq Nat /\ U # {}
  OBVIOUS
<1> HIDE DEF U
<1>2. PICK x \in U : \A y \in U : x <= y
  BY <1>1, LeastElement
<1>3. x \in 0..N /\ x \notin T /\ x # 0
  BY DEF U
<1>4. x - 1 \notin U
  BY <1>2, <1>3
<1>5. x - 1 \in T
  BY <1>3, <1>4 DEF U
<1> QED  BY <1>3, <1>5

\* The greatest position of a prefix is its length.
LEMMA MaxUpto ==
    ASSUME NEW k \in Nat, NEW s \in SUBSET (1..k + 1), k + 1 \in s
    PROVE  Max(s) = k + 1
<1>1. /\ k + 1 \in s
      /\ \A y \in s : k + 1 >= y
  OBVIOUS
<1>2. \A x \in s : (\A y \in s : x >= y) => x = k + 1
  <2> SUFFICES ASSUME NEW x \in s, \A y \in s : x >= y PROVE x = k + 1
    OBVIOUS
  <2>1. x >= k + 1 /\ k + 1 >= x /\ x \in Int
    OBVIOUS
  <2> QED  BY <2>1
<1> QED  BY <1>1, <1>2 DEF Max

\* A recursive function of IsLoop exists.
LEMMA Iterates ==
    ASSUME NEW loop, NEW c, NEW base, NEW seq, NEW N \in Nat
    PROVE  \E it : IsLoop(it, loop, c, base, seq, N)
<1> DEFINE Fixed(it, k) == IsLoop(it, loop, c, base, seq, k)
<1> DEFINE T == {k \in 0..N : \E it : Fixed(it, k)}
<1>1. 0 \in T
  <2> DEFINE it == [s \in SUBSET (1..0) |-> base]
  <2>1. \A s \in SUBSET (1..0) : s = {}
    OBVIOUS
  <2>2. it = [s \in SUBSET (1..0) |-> IF s = {} THEN base
                             ELSE Turn(loop, c, it[s \ {Max(s)}], seq[Max(s)])]
    BY <2>1
  <2>3. Fixed(it, 0)
    BY <2>2 DEF IsLoop
  <2> QED  BY <2>3
<1>2. ASSUME NEW k \in 0..N - 1, k \in T PROVE k + 1 \in T
  <2>1. PICK f : Fixed(f, k)
    BY <1>2
  <2> DEFINE it == [s \in SUBSET (1..k + 1) |->
                      IF k + 1 \in s THEN Turn(loop, c, f[s \ {k + 1}], seq[k + 1]) ELSE f[s]]
  <2> DEFINE r == [s \in SUBSET (1..k + 1) |-> IF s = {} THEN base
                             ELSE Turn(loop, c, it[s \ {Max(s)}], seq[Max(s)])]
  <2>2. ASSUME NEW s \in SUBSET (1..k + 1), k + 1 \in s
        PROVE  it[s] = Turn(loop, c, it[s \ {Max(s)}], seq[Max(s)])
    <3>1. Max(s) = k + 1
      BY <2>2, MaxUpto
    <3>2. s \ {k + 1} \in SUBSET (1..k + 1) /\ k + 1 \notin s \ {k + 1}
      OBVIOUS
    <3>3. it[s \ {k + 1}] = f[s \ {k + 1}]
      BY <3>2
    <3>4. it[s] = Turn(loop, c, f[s \ {k + 1}], seq[k + 1])
      BY <2>2
    <3> QED  BY <3>1, <3>3, <3>4
  <2>3. ASSUME NEW s \in SUBSET (1..k + 1), k + 1 \notin s
        PROVE  it[s] = IF s = {} THEN base ELSE Turn(loop, c, it[s \ {Max(s)}], seq[Max(s)])
    <3>1. s \in SUBSET (1..k)
      BY <2>3
    <3>2. f[s] = IF s = {} THEN base ELSE Turn(loop, c, f[s \ {Max(s)}], seq[Max(s)])
      BY <2>1, <3>1 DEF IsLoop
    <3>3. s \ {Max(s)} \in SUBSET (1..k + 1) /\ k + 1 \notin s \ {Max(s)}
      BY <2>3
    <3>4. it[s \ {Max(s)}] = f[s \ {Max(s)}]
      BY <3>3
    <3>5. it[s] = f[s]
      BY <2>3
    <3> QED  BY <3>2, <3>4, <3>5
  <2>4. \A s \in SUBSET (1..k + 1) : it[s] = r[s]
    BY <2>2, <2>3
  <2>5. it = r
    BY <2>4
  <2>6. Fixed(it, k + 1)
    BY <2>5 DEF IsLoop
  <2>7. k + 1 \in 0..N
    OBVIOUS
  <2> HIDE DEF it, Fixed
  <2> QED  BY <2>6, <2>7
<1> HIDE DEF T
<1>3. \A k \in 0..N : k \in T
  BY <1>1, <1>2, Upto
<1>4. N \in T
  BY <1>3
<1> QED  BY <1>4 DEF T

\* Its values at the prefixes are a run of the loop, so that what every turn
\* keeps the loop keeps.
LEMMA Iteration ==
    ASSUME NEW loop, NEW c, NEW base, NEW seq, NEW N \in Nat, NEW it,
           IsLoop(it, loop, c, base, seq, N)
    PROVE  \E v : IsRun(v, loop, c, base, seq, N, it[1..N])
<1> DEFINE v == [k \in 0..N |-> it[1..k]]
<1>1. 1..0 = {} /\ {} \in SUBSET (1..N)
  OBVIOUS
<1>2. v[0] = base
  BY <1>1 DEF IsLoop
<1>3. ASSUME NEW k \in 0..N - 1
      PROVE  v[k + 1] = Turn(loop, c, v[k], seq[k + 1])
  <2>1. 1..k + 1 \in SUBSET (1..N) /\ 1..k + 1 # {} /\ (1..k + 1) \ {k + 1} = 1..k
    OBVIOUS
  <2>2. Max(1..k + 1) = k + 1
    BY MaxUpto
  <2>3. it[1..k + 1] = Turn(loop, c, it[1..k], seq[k + 1])
    BY <2>1, <2>2 DEF IsLoop
  <2>4. k \in 0..N /\ k + 1 \in 0..N
    OBVIOUS
  <2> QED  BY <2>3, <2>4
<1>4. v[N] = it[1..N]
  <2>1. N \in 0..N
    OBVIOUS
  <2> QED  BY <2>1
<1> HIDE DEF v
<1>5. IsRun(v, loop, c, base, seq, N, it[1..N])
  BY <1>2, <1>3, <1>4 DEF IsRun
<1> QED  BY <1>5

\* It is a run of EncodeNeighbor.
LEMMA EncodeLoop ==
    ASSUME NEW n, NEW active, NEW start, NEW N \in Nat
    PROVE  \E v : IsRun(v, "Encode", <<n, active>>, start, [i \in 1..N |-> i], N,
                        Coded(n, active, start, N))
<1> DEFINE c == <<n, active>>
           seq == [i \in 1..N |-> i]
           F(it) == [s \in SUBSET (1..N) |-> IF s = {} THEN start
                       ELSE EncodeNeighbor(n, active, it[s \ {Max(s)}], seq[Max(s)])]
<1>1. \A acc, e : Turn("Encode", c, acc, e) = EncodeNeighbor(n, active, acc, e)
  BY DEF Turn
<1>2. DOMAIN seq = 1..N /\ \A k \in 0..N - 1 : seq[k + 1] = k + 1
  OBVIOUS
<1> HIDE DEF c, seq
<1>3. \A it : IsLoop(it, "Encode", c, start, seq, N) <=> it = F(it)
  BY Zenon, <1>1 DEF IsLoop
<1>4. \E it : it = F(it)
  BY <1>3, Iterates
<1>5. PICK it : /\ it = F(it)
                /\ FoldLeft(LAMBDA acc, i : EncodeNeighbor(n, active, acc, i), start, seq) = it[1..N]
  BY Zenon, <1>4, <1>2 DEF FoldLeft, MapThenFoldSet
<1>6. PICK v : IsRun(v, "Encode", c, start, seq, N, it[1..N])
  <2>1. it = F(it)
    BY Zenon, <1>5
  <2>2. IsLoop(it, "Encode", c, start, seq, N)
    BY Zenon, <2>1, <1>3
  <2> QED  BY <2>2, Iteration
<1> QED  BY Zenon, <1>5, <1>6 DEF seq, c, Coded

\* SendHello is a run of EnqueueHello over the devices.
LEMMA SendHelloLoop ==
    ASSUME NEW n, NEW start, NEW garbage, NEW N \in Nat, DOMAIN Devices(n) = 1..N
    PROVE  \E v : IsRun(v, "SendHello", <<n, garbage>>, start, [i \in 1..N |-> i], N,
                        SendHello(n, start, garbage))
<1> DEFINE c == <<n, garbage>>
           seq == [i \in 1..N |-> i]
           F(it) == [s \in SUBSET (1..N) |-> IF s = {} THEN start
                       ELSE EnqueueHello(n, it[s \ {Max(s)}], seq[Max(s)], garbage[seq[Max(s)]])]
<1>1. \A acc, e : Turn("SendHello", c, acc, e) = EnqueueHello(n, acc, e, garbage[e])
  BY DEF Turn
<1>2. DOMAIN seq = 1..N /\ \A k \in 0..N - 1 : seq[k + 1] = k + 1
  OBVIOUS
<1> HIDE DEF c, seq
<1>3. \A it : IsLoop(it, "SendHello", c, start, seq, N) <=> it = F(it)
  <2> SUFFICES ASSUME NEW it PROVE IsLoop(it, "SendHello", c, start, seq, N) <=> it = F(it)
    OBVIOUS
  <2>1. \A s : Turn("SendHello", c, it[s \ {Max(s)}], seq[Max(s)])
               = EnqueueHello(n, it[s \ {Max(s)}], seq[Max(s)], garbage[seq[Max(s)]])
    BY Zenon, <1>1
  <2> QED  BY <2>1 DEF IsLoop
<1>4. \E it : it = F(it)
  BY <1>3, Iterates
<1>5. PICK it : /\ it = F(it)
                /\ FoldLeft(LAMBDA t, i : EnqueueHello(n, t, i, garbage[i]), start, seq) = it[1..N]
  BY Zenon, <1>4, <1>2 DEF FoldLeft, MapThenFoldSet
<1>6. PICK v : IsRun(v, "SendHello", c, start, seq, N, it[1..N])
  <2>1. it = F(it)
    BY Zenon, <1>5
  <2>2. IsLoop(it, "SendHello", c, start, seq, N)
    BY Zenon, <2>1, <1>3
  <2> QED  BY <2>2, Iteration
<1> QED  BY Zenon, <1>5, <1>6 DEF seq, c, SendHello

\* NeighborLearn is a run of LearnPair over the pairs of a hello.
LEMMA LearnLoop ==
    ASSUME NEW start, NEW seq, NEW N \in Nat, DOMAIN seq = 1..N
    PROVE  \E v : IsRun(v, "NeighborLearn", 0, start, seq, N, FoldLeft(LearnPair, start, seq))
<1> DEFINE F(it) == [s \in SUBSET (1..N) |-> IF s = {} THEN start
                       ELSE LearnPair(it[s \ {Max(s)}], seq[Max(s)])]
<1>1. \A acc, e : Turn("NeighborLearn", 0, acc, e) = LearnPair(acc, e)
  BY DEF Turn
<1>3. \A it : IsLoop(it, "NeighborLearn", 0, start, seq, N) <=> it = F(it)
  BY <1>1 DEF IsLoop
<1>4. \E it : it = F(it)
  BY <1>3, Iterates
<1>5. PICK it : /\ it = F(it)
                /\ FoldLeft(LearnPair, start, seq) = it[1..N]
  BY Zenon, <1>4 DEF FoldLeft, MapThenFoldSet
<1>6. PICK v : IsRun(v, "NeighborLearn", 0, start, seq, N, it[1..N])
  <2>1. IsLoop(it, "NeighborLearn", 0, start, seq, N)
    BY <1>5, <1>3
  <2> QED  BY <2>1, Iteration
<1> QED  BY Zenon, <1>5, <1>6

\* AddTrinity is a run over the known trinities, which drops the replaced ones.
LEMMA AddTrinityLoop ==
    ASSUME NEW tri, NEW t, NEW N \in Nat, DOMAIN tri = 1..N
    PROVE  \E v : /\ IsRun(v, "AddTrinity", t, <<>>, tri, N, v[N])
                  /\ AddTrinity(tri, t) = Append(v[N], t)
<1> DEFINE F(it) == [s \in SUBSET (1..N) |-> IF s = {} THEN <<>>
                       ELSE IF Replaces(t, tri[Max(s)]) THEN it[s \ {Max(s)}]
                       ELSE Append(it[s \ {Max(s)}], tri[Max(s)])]
<1>1. \A acc, e : Turn("AddTrinity", t, acc, e) = IF Replaces(t, e) THEN acc ELSE Append(acc, e)
  BY DEF Turn
<1>3. \A it : IsLoop(it, "AddTrinity", t, <<>>, tri, N) <=> it = F(it)
  BY <1>1 DEF IsLoop
<1>4. \E it : it = F(it)
  BY <1>3, Iterates
<1>5. PICK it : /\ it = F(it)
                /\ AddTrinity(tri, t) = Append(it[1..N], t)
  BY Zenon, <1>4 DEF AddTrinity, FoldLeft, MapThenFoldSet
<1>6. PICK v : IsRun(v, "AddTrinity", t, <<>>, tri, N, it[1..N])
  <2>1. IsLoop(it, "AddTrinity", t, <<>>, tri, N)
    BY <1>5, <1>3
  <2> QED  BY <2>1, Iteration
<1>7. v[N] = it[1..N]
  BY <1>6 DEF IsRun
<1> QED  BY Zenon, <1>5, <1>6, <1>7

\* EraseAll is a run over the queue, which drops the acked ids.
LEMMA EraseAllLoop ==
    ASSUME NEW q, NEW pids, NEW N \in Nat, DOMAIN q = 1..N
    PROVE  \E v : IsRun(v, "EraseAll", pids, <<>>, q, N, EraseAll(q, pids))
<1> DEFINE F(it) == [s \in SUBSET (1..N) |-> IF s = {} THEN <<>>
                       ELSE IF q[Max(s)].pid \in pids THEN it[s \ {Max(s)}]
                       ELSE Append(it[s \ {Max(s)}], q[Max(s)])]
<1>1. \A acc, e : Turn("EraseAll", pids, acc, e) = IF e.pid \in pids THEN acc ELSE Append(acc, e)
  BY DEF Turn
<1>3. \A it : IsLoop(it, "EraseAll", pids, <<>>, q, N) <=> it = F(it)
  BY Zenon, <1>1 DEF IsLoop
<1>4. \E it : it = F(it)
  BY <1>3, Iterates
<1>5. PICK it : /\ it = F(it)
                /\ EraseAll(q, pids) = it[1..N]
  BY Zenon, <1>4 DEF EraseAll, FoldLeft, MapThenFoldSet
<1>6. PICK v : IsRun(v, "EraseAll", pids, <<>>, q, N, it[1..N])
  <2>1. IsLoop(it, "EraseAll", pids, <<>>, q, N)
    BY <1>5, <1>3
  <2> QED  BY <2>1, Iteration
<1> QED  BY Zenon, <1>5, <1>6

-----------------------------------------------------------------------------
(* Addresses *)

\* Every node has devices, with addresses.
LEMMA DeviceAt ==
    ASSUME NEW m \in Node
    PROVE  /\ Devices(m) \in Seq(Device) /\ Len(Devices(m)) \in Nat \ {0}
           /\ DOMAIN Devices(m) = 1..Len(Devices(m))
           /\ \A i \in DOMAIN Devices(m) :
                 /\ Devices(m)[i] \in Device
                 /\ Devices(m)[i].mac \in Macs(m) /\ Devices(m)[i].ip \in Ips(m)
<1>1. Devices(m) \in Seq(Device) /\ Devices(m) # <<>>
  BY DevicesAssumption DEF Device
<1>2. Len(Devices(m)) \in Nat \ {0} /\ DOMAIN Devices(m) = 1..Len(Devices(m))
  BY <1>1
<1>3. \A i \in DOMAIN Devices(m) : Devices(m)[i] \in Device
  BY <1>1
<1> QED  BY <1>1, <1>2, <1>3 DEF Macs, Ips

\* Nodes have no address in common.
LEMMA Apart ==
    ASSUME NEW m \in Node, NEW k \in Node
    PROVE  /\ \A mac : mac \in Macs(m) /\ mac \in Macs(k) => m = k
           /\ \A ip : ip \in Ips(m) /\ ip \in Ips(k) => m = k
<1>1. ASSUME NEW i \in DOMAIN Devices(m), NEW j \in DOMAIN Devices(k),
             Devices(m)[i].mac = Devices(k)[j].mac \/ Devices(m)[i].ip = Devices(k)[j].ip
      PROVE  m = k
  BY Zenon, <1>1, DevicesAssumption
<1> QED  BY Zenon, <1>1 DEF Macs, Ips

\* Owner names the node of an address.
LEMMA OwnerOf ==
    ASSUME NEW m \in Node, NEW mac \in Macs(m)
    PROVE  mac \in Address /\ Owner[mac] = m
<1>1. mac \in Address
  BY DEF Address
<1>2. \A k \in Node : mac \in Macs(k) => k = m
  BY Zenon, Apart
<1>3. (CHOOSE k \in Node : mac \in Macs(k)) = m
  BY <1>2
<1> QED  BY <1>1, <1>3 DEF Owner, Address

\* Addresses are positive; broadcast is none of them.
LEMMA Numbers ==
    /\ \A m \in Node : Macs(m) \subseteq Nat \ {0} /\ Ips(m) \subseteq Nat \ {0}
    /\ Address \subseteq Nat \ {0} /\ Broadcast \notin Address
<1>1. ASSUME NEW m \in Node PROVE Macs(m) \subseteq Nat \ {0} /\ Ips(m) \subseteq Nat \ {0}
  BY DeviceAt DEF Macs, Ips, Device
<1>2. Address \subseteq Nat \ {0}
  BY <1>1 DEF Address
<1> QED  BY <1>1, <1>2 DEF Broadcast

\* Min of a nonempty set of naturals is its least member.
LEMMA MinIn ==
    ASSUME NEW I, I \subseteq Nat, I # {}
    PROVE  Min(I) \in I /\ \A y \in I : Min(I) <= y
<1>1. \E x \in I : \A y \in I : x <= y
  BY Zenon, LeastElement
<1> QED  BY <1>1 DEF Min

\* The IP that identifies a node is one of its own.
LEMMA OwnIp ==
    ASSUME NEW m \in Node
    PROVE  GetIP(m) \in Ips(m) /\ GetIP(m) # ZeroIp
<1>1. Ips(m) # {} /\ Ips(m) \subseteq Nat
  <2>1. 1 \in DOMAIN Devices(m)
    BY DeviceAt
  <2>2. Devices(m)[1].ip \in Ips(m)
    BY <2>1 DEF Ips
  <2> QED  BY <2>2, Numbers
<1>2. \E ip \in Ips(m) : \A x \in Ips(m) : ip <= x
  BY <1>1, LeastElement
<1>3. GetIP(m) = CHOOSE ip \in Ips(m) : \A x \in Ips(m) : ip <= x
  BY DEF GetIP, Ips
<1>4. GetIP(m) \in Ips(m)
  BY <1>2, <1>3
<1> QED  BY <1>4, Numbers DEF ZeroIp

\* GetMac is an address of the node the row is about.
LEMMA GetMacIn ==
    ASSUME NEW m \in Node, NEW nbr \in Neighbor, Belongs(nbr, m)
    PROVE  GetMac(nbr) \in Macs(m) /\ GetMac(nbr) \in Address /\ Owner[GetMac(nbr)] = m
<1> DEFINE macs == {nbr.tri[i].mac : i \in DOMAIN nbr.tri}
<1>1. nbr.tri \in Seq(Trinity) /\ nbr.tri # <<>>
  BY DEF Neighbor, Belongs
<1>2. macs # {} /\ macs \subseteq Macs(m)
  <2>1. 1 \in DOMAIN nbr.tri
    BY <1>1
  <2>2. macs # {}
    BY <2>1
  <2> QED  BY <2>2 DEF Belongs
<1>3. macs \subseteq Nat
  BY <1>2, Numbers
<1>4. GetMac(nbr) = CHOOSE x \in macs : \A y \in macs : x <= y
  BY DEF GetMac
<1> HIDE DEF macs
<1>5. \E x \in macs : \A y \in macs : x <= y
  BY <1>2, <1>3, LeastElement
<1>6. GetMac(nbr) \in macs
  BY <1>4, <1>5
<1> QED  BY <1>2, <1>6, OwnerOf

\* SearchMac finds a row with the address if there is one.
LEMMA SearchMacIn ==
    ASSUME NEW nbrs \in Seq(Neighbor), NEW mac
    PROVE  MacAt(nbrs, mac, SearchMac(nbrs, mac))
<1> DEFINE I == {i \in 1..Len(nbrs) : HasMac(nbrs[i], mac)}
<1>1. SearchMac(nbrs, mac) = IF I # {} THEN Min(I) ELSE 0
  BY Zenon DEF SearchMac, SelectInSeq
<1>2. DOMAIN nbrs = 1..Len(nbrs)
  OBVIOUS
<1>3. I \subseteq Nat
  OBVIOUS
<1>4. I # {} => Min(I) \in I
  BY <1>3, MinIn
<1> QED  BY <1>1, <1>2, <1>4 DEF MacAt

\* SearchIp finds a row with the IP if there is one.
LEMMA SearchIpIn ==
    ASSUME NEW nbrs \in Seq(Neighbor), NEW ip
    PROVE  IpAt(nbrs, ip, SearchIp(nbrs, ip))
<1> DEFINE I == {i \in 1..Len(nbrs) : HasIP(nbrs[i], ip)}
<1>1. SearchIp(nbrs, ip) = IF I # {} THEN Min(I) ELSE 0
  BY Zenon DEF SearchIp, SelectInSeq
<1>2. DOMAIN nbrs = 1..Len(nbrs)
  OBVIOUS
<1>3. I \subseteq Nat
  OBVIOUS
<1>4. I # {} => Min(I) \in I
  BY <1>3, MinIn
<1> QED  BY <1>1, <1>2, <1>4 DEF IpAt

-----------------------------------------------------------------------------
(* Sequences *)

\* The members of a sequence over S are in S.
LEMMA SetOf ==
    ASSUME NEW S, NEW q \in Seq(S)
    PROVE  /\ DOMAIN q = 1..Len(q) /\ Len(q) \in Nat
           /\ ToSet(q) \subseteq S
           /\ \A x : x \in ToSet(q) <=> \E i \in DOMAIN q : q[i] = x
BY DEF ToSet

\* What is left when one position goes.
LEMMA RemoveAtIs ==
    ASSUME NEW S, NEW q \in Seq(S), NEW k \in DOMAIN q
    PROVE  /\ RemoveAt(q, k) \in Seq(S)
           /\ Len(RemoveAt(q, k)) = Len(q) - 1
           /\ \A i \in 1..Len(q) - 1 : RemoveAt(q, k)[i] = q[IF i < k THEN i ELSE i + 1]
<1> DEFINE a == SubSeq(q, 1, k - 1)
           b == SubSeq(q, k + 1, Len(q))
<1>1. k \in 1..Len(q) /\ Len(q) \in Nat
  OBVIOUS
<1>2. a \in Seq(S) /\ Len(a) = k - 1 /\ \A i \in 1..k - 1 : a[i] = q[i]
  <2>1. \A i \in 1..k - 1 : q[i] \in S
    BY <1>1
  <2> QED  BY <1>1, <2>1, SubSeqProperties
<1>3. b \in Seq(S) /\ Len(b) = Len(q) - k /\ \A i \in 1..Len(q) - k : b[i] = q[k + i]
  <2>1. \A i \in k + 1..Len(q) : q[i] \in S
    BY <1>1
  <2> QED  BY <1>1, <2>1, SubSeqProperties
<1> HIDE DEF a, b
<1>4. RemoveAt(q, k) = a \o b
  BY DEF RemoveAt, a, b
<1>5. /\ a \o b \in Seq(S) /\ Len(a \o b) = Len(q) - 1
      /\ \A i \in 1..Len(q) - 1 : (a \o b)[i] = IF i <= k - 1 THEN a[i] ELSE b[i - (k - 1)]
  <2>1. /\ a \o b \in Seq(S) /\ Len(a \o b) = Len(a) + Len(b)
        /\ \A i \in 1..Len(a) + Len(b) : (a \o b)[i] = IF i <= Len(a) THEN a[i] ELSE b[i - Len(a)]
    BY <1>2, <1>3, ConcatProperties
  <2>2. Len(a) + Len(b) = Len(q) - 1 /\ Len(a) = k - 1
    BY <1>1, <1>2, <1>3
  <2> QED  BY <2>1, <2>2
<1>6. \A i \in 1..Len(q) - 1 : (a \o b)[i] = q[IF i < k THEN i ELSE i + 1]
  <2> TAKE i \in 1..Len(q) - 1
  <2>1. CASE i < k
    BY <1>1, <1>2, <1>5, <2>1
  <2>2. CASE ~ (i < k)
    <3> DEFINE j == i - (k - 1)
    <3>1. j \in 1..Len(q) - k /\ k + j = i + 1
      BY <1>1, <2>2
    <3>2. (a \o b)[i] = b[j]
      BY <1>1, <1>5, <2>2
    <3>3. b[j] = q[k + j]
      BY <1>3, <3>1
    <3> QED  BY <3>1, <3>2, <3>3, <2>2
  <2> QED  BY <2>1, <2>2
<1> QED  BY <1>4, <1>5, <1>6

\* What an element in front gives.
LEMMA ConsIs ==
    ASSUME NEW S, NEW q \in Seq(S), NEW e \in S
    PROVE  /\ <<e>> \o q \in Seq(S) /\ Len(<<e>> \o q) = Len(q) + 1
           /\ \A i \in 1..Len(q) + 1 : (<<e>> \o q)[i] = IF i = 1 THEN e ELSE q[i - 1]
           /\ ToSet(<<e>> \o q) = {e} \cup ToSet(q)
<1>1. <<e>> \in Seq(S) /\ Len(<<e>>) = 1 /\ <<e>>[1] = e
  OBVIOUS
<1>2. /\ <<e>> \o q \in Seq(S) /\ Len(<<e>> \o q) = Len(q) + 1
      /\ \A i \in 1..Len(q) + 1 : (<<e>> \o q)[i] = IF i <= 1 THEN <<e>>[i] ELSE q[i - 1]
  BY <1>1, ConcatProperties
<1>3. \A i \in 1..Len(q) + 1 : (<<e>> \o q)[i] = IF i = 1 THEN e ELSE q[i - 1]
  BY <1>1, <1>2
<1> DEFINE r == <<e>> \o q
<1> HIDE DEF r
<1>4. r \in Seq(S) /\ Len(r) = Len(q) + 1 /\ \A i \in 1..Len(q) + 1 : r[i] = IF i = 1 THEN e ELSE q[i - 1]
  BY <1>2, <1>3 DEF r
<1>5. r[1] = e /\ \A i \in 1..Len(q) : r[i + 1] = q[i]
  BY <1>4
<1>6. ToSet(r) = {e} \cup ToSet(q)
  <2>1. DOMAIN r = 1..Len(q) + 1 /\ DOMAIN q = 1..Len(q) /\ Len(q) \in Nat
    BY <1>4
  <2>2. \A i \in 1..Len(q) + 1 : r[i] \in {e} \cup ToSet(q)
    <3> TAKE i \in 1..Len(q) + 1
    <3>1. CASE i = 1
      BY <3>1, <1>5
    <3>2. CASE i # 1
      <4>1. i - 1 \in 1..Len(q) /\ r[i] = q[i - 1]
        BY <3>2, <1>4, <2>1
      <4> QED  BY <4>1, <2>1 DEF ToSet
    <3> QED  BY <3>1, <3>2
  <2>3. e \in ToSet(r) /\ \A i \in 1..Len(q) : q[i] \in ToSet(r)
    <3>1. 1 \in DOMAIN r /\ \A i \in 1..Len(q) : i + 1 \in DOMAIN r
      BY <2>1
    <3> QED  BY <3>1, <1>5 DEF ToSet
  <2> QED  BY <2>1, <2>2, <2>3 DEF ToSet
<1> QED  BY <1>2, <1>3, <1>6 DEF r

\* What an element at the end gives.
LEMMA AppendIs ==
    ASSUME NEW S, NEW q \in Seq(S), NEW e \in S
    PROVE  /\ Append(q, e) \in Seq(S) /\ Len(Append(q, e)) = Len(q) + 1
           /\ \A i \in 1..Len(q) + 1 : Append(q, e)[i] = IF i = Len(q) + 1 THEN e ELSE q[i]
           /\ ToSet(Append(q, e)) = {e} \cup ToSet(q)
<1> DEFINE r == Append(q, e)
<1>1. r \in Seq(S) /\ Len(r) = Len(q) + 1 /\ Len(q) \in Nat
  OBVIOUS
<1>2. \A i \in 1..Len(q) : r[i] = q[i]
  OBVIOUS
<1>3. r[Len(q) + 1] = e
  OBVIOUS
<1> HIDE DEF r
<1>4. ToSet(r) = {e} \cup ToSet(q)
  BY <1>1, <1>2, <1>3 DEF ToSet
<1> QED  BY <1>1, <1>2, <1>3, <1>4 DEF r

\* What the head and the tail are.
LEMMA TailIs ==
    ASSUME NEW S, NEW q \in Seq(S), q # <<>>
    PROVE  /\ Tail(q) \in Seq(S) /\ Len(Tail(q)) = Len(q) - 1 /\ Len(q) \in Nat \ {0}
           /\ \A i \in 1..Len(q) - 1 : Tail(q)[i] = q[i + 1]
           /\ Head(q) \in S /\ 1 \in DOMAIN q /\ q[1] = Head(q)
           /\ ToSet(q) = {Head(q)} \cup ToSet(Tail(q))
<1> DEFINE r == Tail(q)
           h == Head(q)
<1>1. r \in Seq(S) /\ Len(r) = Len(q) - 1 /\ Len(q) \in Nat \ {0} /\ h \in S
  OBVIOUS
<1>2. \A i \in 1..Len(q) - 1 : r[i] = q[i + 1]
  OBVIOUS
<1>3. q[1] = h
  OBVIOUS
<1> HIDE DEF r, h
<1>4. ToSet(q) \subseteq {h} \cup ToSet(r)
  <2> SUFFICES ASSUME NEW i \in 1..Len(q), i # 1 PROVE q[i] \in ToSet(r)
    BY <1>3 DEF ToSet
  <2>1. i - 1 \in 1..Len(r) /\ r[i - 1] = q[i]
    BY <1>1, <1>2
  <2> QED  BY <1>1, <2>1 DEF ToSet
<1>5. {h} \cup ToSet(r) \subseteq ToSet(q)
  <2>1. DOMAIN q = 1..Len(q) /\ DOMAIN r = 1..Len(q) - 1 /\ 1 \in 1..Len(q)
    BY <1>1
  <2>2. \A i \in 1..Len(q) - 1 : i + 1 \in 1..Len(q)
    BY <1>1
  <2> QED  BY <2>1, <2>2, <1>2, <1>3 DEF ToSet
<1> QED  BY <1>1, <1>2, <1>3, <1>4, <1>5 DEF r, h

\* What a concatenation holds.
LEMMA ConcatIs ==
    ASSUME NEW S, NEW q \in Seq(S), NEW r \in Seq(S)
    PROVE  q \o r \in Seq(S) /\ ToSet(q \o r) = ToSet(q) \cup ToSet(r)
<1> DEFINE c == q \o r
<1>1. /\ c \in Seq(S) /\ Len(c) = Len(q) + Len(r) /\ Len(q) \in Nat /\ Len(r) \in Nat
      /\ \A i \in 1..Len(q) + Len(r) : c[i] = IF i <= Len(q) THEN q[i] ELSE r[i - Len(q)]
  BY ConcatProperties
<1> HIDE DEF c
<1>2. \A i \in 1..Len(q) : i \in 1..Len(c) /\ c[i] = q[i]
  BY <1>1
<1>3. \A i \in 1..Len(r) : Len(q) + i \in 1..Len(c) /\ c[Len(q) + i] = r[i]
  <2> TAKE i \in 1..Len(r)
  <2> DEFINE j == Len(q) + i
  <2>1. j \in 1..Len(q) + Len(r) /\ ~ (j <= Len(q)) /\ j - Len(q) = i
    BY <1>1
  <2>2. c[j] = r[j - Len(q)]
    BY <1>1, <2>1
  <2> QED  BY <1>1, <2>1, <2>2
<1>0. DOMAIN c = 1..Len(c) /\ DOMAIN q = 1..Len(q) /\ DOMAIN r = 1..Len(r)
  BY <1>1
<1>4. ToSet(q) \subseteq ToSet(c) /\ ToSet(r) \subseteq ToSet(c)
  <2>1. ToSet(q) \subseteq ToSet(c)
    BY <1>0, <1>2 DEF ToSet
  <2>2. ToSet(r) \subseteq ToSet(c)
    BY <1>0, <1>3 DEF ToSet
  <2> QED  BY <2>1, <2>2
<1>5. ToSet(c) \subseteq ToSet(q) \cup ToSet(r)
  <2> SUFFICES ASSUME NEW i \in 1..Len(c) PROVE c[i] \in ToSet(q) \cup ToSet(r)
    BY <1>1 DEF ToSet
  <2>1. CASE i <= Len(q)
    BY <1>1, <2>1 DEF ToSet
  <2>2. CASE i > Len(q)
    <3>1. i - Len(q) \in 1..Len(r) /\ c[i] = r[i - Len(q)]
      BY <1>1, <2>2
    <3> QED  BY <3>1 DEF ToSet
  <2> QED  BY <1>1, <2>1, <2>2
<1> QED  BY <1>1, <1>4, <1>5 DEF c

\* RemoveFirst of a list without repetitions.
LEMMA RemoveFirstIs ==
    ASSUME NEW S, NEW q \in Seq(S), IsInjective(q), NEW e \in ToSet(q)
    PROVE  LET r == RemoveFirst(q, e)
           IN  r \in Seq(S) /\ IsInjective(r) /\ ToSet(r) = ToSet(q) \ {e}
<1> DEFINE I == {i \in 1..Len(q) : q[i] = e}
           k == Min(I)
           r == RemoveAt(q, k)
<1>1. DOMAIN q = 1..Len(q) /\ Len(q) \in Nat
  OBVIOUS
<1>2. I \subseteq Nat /\ I # {}
  BY <1>1 DEF ToSet
<1>3. k \in DOMAIN q /\ q[k] = e
  BY <1>1, <1>2, MinIn
<1>4. RemoveFirst(q, e) = r
  <2>1. \E i \in 1..Len(q) : q[i] = e
    BY <1>2
  <2> QED  BY Zenon, <1>2, <2>1 DEF RemoveFirst, SelectInSeq
<1> HIDE DEF I, k
<1>5. /\ r \in Seq(S) /\ Len(r) = Len(q) - 1
      /\ \A i \in 1..Len(q) - 1 : r[i] = q[IF i < k THEN i ELSE i + 1]
  BY <1>3, RemoveAtIs
<1> HIDE DEF r
<1>6. DOMAIN r = 1..Len(q) - 1
  BY <1>5
<1> DEFINE g(i) == IF i < k THEN i ELSE i + 1
<1>7. \A i \in DOMAIN r : r[i] = q[g(i)] /\ g(i) \in DOMAIN q /\ g(i) # k
  BY <1>1, <1>3, <1>5, <1>6
<1>8. \A i, j \in DOMAIN r : g(i) = g(j) => i = j
  BY <1>1, <1>3, <1>6
<1>9. \A j \in DOMAIN q : j # k => \E i \in DOMAIN r : g(i) = j
  <2> TAKE j \in DOMAIN q
  <2> HAVE j # k
  <2>1. CASE j < k
    BY <2>1, <1>1, <1>3, <1>6
  <2>2. CASE j > k
    <3>1. j - 1 \in DOMAIN r /\ g(j - 1) = j
      BY <2>2, <1>1, <1>3, <1>6
    <3> QED  BY <3>1
  <2> QED  BY <2>1, <2>2, <1>1, <1>3
<1> HIDE DEF g
<1>10. IsInjective(r)
  BY <1>7, <1>8 DEF IsInjective
<1>11. ToSet(r) = ToSet(q) \ {e}
  <2>1. ASSUME NEW i \in DOMAIN r PROVE r[i] \in ToSet(q) \ {e}
    <3>1. g(i) \in DOMAIN q /\ g(i) # k /\ r[i] = q[g(i)]
      BY <1>7
    <3>2. q[g(i)] # e
      BY <3>1, <1>3 DEF IsInjective
    <3> QED  BY <3>1, <3>2 DEF ToSet
  <2>2. ASSUME NEW j \in DOMAIN q, q[j] # e PROVE q[j] \in ToSet(r)
    <3>1. PICK i \in DOMAIN r : g(i) = j
      BY <2>2, <1>3, <1>9
    <3> QED  BY <3>1, <1>7 DEF ToSet
  <2> QED  BY <2>1, <2>2 DEF ToSet
<1> QED  BY <1>4, <1>5, <1>10, <1>11

\* A new element in front keeps a sequence free of duplicates.
LEMMA ConsInjective ==
    ASSUME NEW S, NEW q \in Seq(S), IsInjective(q), NEW e \in S, e \notin ToSet(q)
    PROVE  IsInjective(<<e>> \o q)
<1> DEFINE r == <<e>> \o q
<1>1. /\ r \in Seq(S) /\ Len(r) = Len(q) + 1 /\ DOMAIN r = 1..Len(q) + 1
      /\ \A i \in 1..Len(q) + 1 : r[i] = IF i = 1 THEN e ELSE q[i - 1]
  BY ConsIs
<1>2. DOMAIN q = 1..Len(q) /\ Len(q) \in Nat
  OBVIOUS
<1> HIDE DEF r
<1> SUFFICES ASSUME NEW i \in DOMAIN r, NEW j \in DOMAIN r, r[i] = r[j] PROVE i = j
  BY DEF IsInjective, r
<1>3. \A x \in DOMAIN r : x # 1 => x - 1 \in DOMAIN q /\ r[x] = q[x - 1] /\ r[x] # e
  BY <1>1, <1>2 DEF ToSet
<1>4. r[1] = e
  BY <1>1, <1>2
<1>5. CASE i = 1 \/ j = 1
  BY <1>3, <1>4, <1>5
<1>6. CASE i # 1 /\ j # 1
  <2>1. i - 1 = j - 1
    BY <1>3, <1>6 DEF IsInjective
  <2> QED  BY <2>1, <1>1, <1>2
<1> QED  BY <1>5, <1>6

\* So does one at the end.
LEMMA AppendInjective1 ==
    ASSUME NEW S, NEW q \in Seq(S), IsInjective(q), NEW e \in S, e \notin ToSet(q)
    PROVE  IsInjective(Append(q, e))
<1> DEFINE r == Append(q, e)
<1>1. /\ r \in Seq(S) /\ Len(r) = Len(q) + 1 /\ DOMAIN r = 1..Len(q) + 1
      /\ \A i \in 1..Len(q) + 1 : r[i] = IF i = Len(q) + 1 THEN e ELSE q[i]
  BY AppendIs
<1>2. DOMAIN q = 1..Len(q) /\ Len(q) \in Nat
  OBVIOUS
<1> HIDE DEF r
<1> SUFFICES ASSUME NEW i \in DOMAIN r, NEW j \in DOMAIN r, r[i] = r[j] PROVE i = j
  BY DEF IsInjective, r
<1>3. \A x \in DOMAIN r : x # Len(q) + 1 => x \in DOMAIN q /\ r[x] = q[x] /\ r[x] # e
  BY <1>1, <1>2 DEF ToSet
<1>4. r[Len(q) + 1] = e
  BY <1>1, <1>2
<1>5. CASE i = Len(q) + 1 \/ j = Len(q) + 1
  BY <1>3, <1>4, <1>5
<1>6. CASE i # Len(q) + 1 /\ j # Len(q) + 1
  BY <1>3, <1>6 DEF IsInjective
<1> QED  BY <1>5, <1>6

\* The head of a sequence without duplicates is not in its tail.
LEMMA TailInjective ==
    ASSUME NEW S, NEW q \in Seq(S), q # <<>>, IsInjective(q)
    PROVE  IsInjective(Tail(q)) /\ ToSet(Tail(q)) = ToSet(q) \ {Head(q)}
<1> DEFINE r == Tail(q)
<1>1. /\ r \in Seq(S) /\ Len(r) = Len(q) - 1 /\ Len(q) \in Nat \ {0}
      /\ \A i \in 1..Len(q) - 1 : r[i] = q[i + 1]
      /\ q[1] = Head(q) /\ ToSet(q) = {Head(q)} \cup ToSet(r)
  BY TailIs
<1> HIDE DEF r
<1>2. DOMAIN q = 1..Len(q) /\ DOMAIN r = 1..Len(q) - 1
  BY <1>1
<1>3. \A i \in DOMAIN r : i + 1 \in DOMAIN q /\ i + 1 # 1 /\ r[i] = q[i + 1] /\ 1 \in DOMAIN q
  BY <1>1, <1>2
<1>4. IsInjective(r)
  <2> SUFFICES ASSUME NEW i \in DOMAIN r, NEW j \in DOMAIN r, r[i] = r[j] PROVE i = j
    BY DEF IsInjective
  <2>1. i + 1 = j + 1
    BY <1>3 DEF IsInjective
  <2> QED  BY <2>1, <1>2
<1>5. Head(q) \notin ToSet(r)
  BY <1>1, <1>3 DEF IsInjective, ToSet
<1> QED  BY <1>1, <1>4, <1>5 DEF r

-----------------------------------------------------------------------------
(* Queues *)

\* A queue may lose entries.
LEMMA ThinnedOk ==
    ASSUME NEW n, NEW K, NEW q, NEW r, Thinned(q, r)
    PROVE  /\ QueueOk(n, q, K) => QueueOk(n, r, K)
           /\ RtqOk(n, q, K) => RtqOk(n, r, K)
<1>1. QueueOk(n, q, K) => QueueOk(n, r, K)
  <2> HAVE QueueOk(n, q, K)
  <2>1. Len(r) <= QueueMax
    BY QueueAssumption DEF QueueOk, Thinned
  <2> QED  BY <2>1 DEF QueueOk, Thinned
<1>2. RtqOk(n, q, K) => RtqOk(n, r, K)
  BY <1>1 DEF RtqOk, Thinned
<1> QED  BY <1>1, <1>2

\* A queue about K is one about any larger set of ids.
LEMMA QueueMono ==
    ASSUME NEW n, NEW K, NEW L, K \subseteq L, NEW q
    PROVE  /\ QueueOk(n, q, K) => QueueOk(n, q, L)
           /\ RtqOk(n, q, K) => RtqOk(n, q, L)
BY DEF QueueOk, RtqOk, EntryOk

\* What EnqueueBack and EnqueueFront make of a queue.
LEMMA Enqueued ==
    ASSUME NEW n, NEW K, NEW q, QueueOk(n, q, K), NEW e \in Entry, EntryOk(n, K, e),
           Accepts(q, e), NEW r, Joins(q, e, r)
    PROVE  /\ QueueOk(n, r, K)
           /\ \E i \in DOMAIN r : r[i] = e
           /\ \A i \in DOMAIN q : \E j \in DOMAIN r : r[j] = q[i]
           /\ \A i \in DOMAIN r : r[i] = e \/ \E j \in DOMAIN q : r[i] = q[j]
<1>1. q \in Seq(Entry) /\ DOMAIN q = 1..Len(q) /\ Len(q) \in Nat /\ Len(q) <= QueueMax
  BY DEF QueueOk
<1>2. Len(q) + 1 <= QueueMax /\ \A i \in DOMAIN q : q[i].pid # e.pid
  <2>1. Len(q) # QueueMax
    BY DEF Accepts
  <2>2. QueueMax \in Nat
    BY QueueAssumption
  <2>3. Len(q) \in Nat /\ Len(q) <= QueueMax
    BY <1>1
  <2>5. Len(q) + 1 <= QueueMax
    BY ONLY <2>1, <2>2, <2>3
  <2>4. \A i \in DOMAIN q : q[i].pid # e.pid
    BY DEF Accepts, Pids
  <2> QED  BY <2>4, <2>5
<1>3. \E at \in 1..Len(q) + 1 : \E f \in [DOMAIN q -> 1..Len(q) + 1] :
         /\ r \in Seq(Entry) /\ Len(r) = Len(q) + 1 /\ DOMAIN r = 1..Len(q) + 1
         /\ r[at] = e
         /\ \A i \in DOMAIN q : r[f[i]] = q[i]
         /\ \A j \in DOMAIN r : j # at => \E i \in DOMAIN q : f[i] = j
  <2>1. CASE r = Append(q, e)
    <3> DEFINE f == [i \in DOMAIN q |-> i]
    <3>1. /\ r \in Seq(Entry) /\ Len(r) = Len(q) + 1
          /\ \A i \in 1..Len(q) + 1 : r[i] = IF i = Len(q) + 1 THEN e ELSE q[i]
      BY <1>1, <2>1, AppendIs
    <3>2. f \in [DOMAIN q -> 1..Len(q) + 1] /\ Len(q) + 1 \in 1..Len(q) + 1
      BY <1>1
    <3>3. DOMAIN r = 1..Len(q) + 1 /\ r[Len(q) + 1] = e /\ \A i \in DOMAIN q : r[f[i]] = q[i]
      BY <1>1, <3>1, <3>2
    <3>4. \A j \in DOMAIN r : j # Len(q) + 1 => \E i \in DOMAIN q : f[i] = j
      BY <1>1, <3>3
    <3> QED  BY <3>1, <3>2, <3>3, <3>4
  <2>2. CASE r = <<e>> \o q
    <3> DEFINE f == [i \in DOMAIN q |-> i + 1]
    <3>1. /\ r \in Seq(Entry) /\ Len(r) = Len(q) + 1
          /\ \A i \in 1..Len(q) + 1 : r[i] = IF i = 1 THEN e ELSE q[i - 1]
      BY <1>1, <2>2, ConsIs
    <3>2. f \in [DOMAIN q -> 1..Len(q) + 1] /\ 1 \in 1..Len(q) + 1
      BY <1>1
    <3>3. DOMAIN r = 1..Len(q) + 1 /\ r[1] = e /\ \A i \in DOMAIN q : r[f[i]] = q[i]
      BY <1>1, <3>1, <3>2
    <3>4. \A j \in DOMAIN r : j # 1 => \E i \in DOMAIN q : f[i] = j
      <4> TAKE j \in DOMAIN r
      <4> HAVE j # 1
      <4>1. j - 1 \in DOMAIN q /\ f[j - 1] = j
        BY <1>1, <3>3
      <4> QED  BY <4>1
    <3> QED  BY <3>1, <3>2, <3>3, <3>4
  <2> QED  BY <2>1, <2>2 DEF Joins
<1>4. PICK at \in 1..Len(q) + 1, f \in [DOMAIN q -> 1..Len(q) + 1] :
         /\ r \in Seq(Entry) /\ Len(r) = Len(q) + 1 /\ DOMAIN r = 1..Len(q) + 1
         /\ r[at] = e
         /\ \A i \in DOMAIN q : r[f[i]] = q[i]
         /\ \A j \in DOMAIN r : j # at => \E i \in DOMAIN q : f[i] = j
  BY <1>3
<1>5. Distinct(r)
  <2> SUFFICES ASSUME NEW i \in DOMAIN r, NEW j \in DOMAIN r, r[i].pid = r[j].pid PROVE i = j
    BY DEF Distinct
  <2>1. \A x \in DOMAIN r : x # at => \E y \in DOMAIN q : f[y] = x /\ r[x] = q[y] /\ r[x].pid # e.pid
    BY <1>2, <1>4
  <2>2. CASE i = at \/ j = at
    BY <1>4, <2>1, <2>2
  <2>3. CASE i # at /\ j # at
    BY <2>1, <2>3 DEF QueueOk, Distinct
  <2> QED  BY <2>2, <2>3
<1>6. \A i \in DOMAIN r : r[i] = e \/ \E j \in DOMAIN q : r[i] = q[j]
  BY <1>4
<1>7. \A i \in DOMAIN r : EntryOk(n, K, r[i])
  BY <1>6 DEF QueueOk
<1> QED  BY <1>2, <1>4, <1>5, <1>6, <1>7 DEF QueueOk

\* The tail has every entry but the head.
LEMMA TailThins ==
    ASSUME NEW q \in Seq(Entry), q # <<>>, Distinct(q)
    PROVE  /\ Thinned(q, Tail(q))
           /\ \A i \in DOMAIN q : q[i].pid # Head(q).pid => \E j \in DOMAIN Tail(q) : Tail(q)[j] = q[i]
           /\ \A j \in DOMAIN Tail(q) : Tail(q)[j].pid # Head(q).pid
<1> DEFINE r == Tail(q)
<1>1. /\ r \in Seq(Entry) /\ Len(r) = Len(q) - 1 /\ Len(q) \in Nat \ {0}
      /\ \A i \in 1..Len(q) - 1 : r[i] = q[i + 1]
      /\ q[1] = Head(q)
  BY TailIs
<1> HIDE DEF r
<1>2. DOMAIN q = 1..Len(q) /\ DOMAIN r = 1..Len(q) - 1
  BY <1>1
<1>3. \A i \in DOMAIN r : i + 1 \in DOMAIN q /\ i + 1 # 1 /\ r[i] = q[i + 1] /\ 1 \in DOMAIN q
  BY <1>1, <1>2
<1>4. Distinct(r)
  <2> SUFFICES ASSUME NEW i \in DOMAIN r, NEW j \in DOMAIN r, r[i].pid = r[j].pid PROVE i = j
    BY DEF Distinct
  <2>1. i + 1 = j + 1
    BY <1>3 DEF Distinct
  <2> QED  BY <2>1, <1>2
<1>5. \A j \in DOMAIN r : r[j].pid # Head(q).pid
  BY <1>1, <1>3 DEF Distinct
<1>6. \A i \in DOMAIN q : q[i].pid # Head(q).pid => \E j \in DOMAIN r : r[j] = q[i]
  <2> TAKE i \in DOMAIN q
  <2> HAVE q[i].pid # Head(q).pid
  <2>1. i - 1 \in DOMAIN r /\ r[i - 1] = q[i]
    BY <1>1, <1>2
  <2> QED  BY <2>1
<1> QED  BY <1>1, <1>3, <1>4, <1>5, <1>6 DEF r, Thinned

\* Erase takes the entry with the id and nothing else.
LEMMA EraseThins ==
    ASSUME NEW q \in Seq(Entry), Distinct(q), NEW pid
    PROVE  /\ Thinned(q, Erase(q, pid))
           /\ \A i \in DOMAIN q : q[i].pid # pid => \E j \in DOMAIN Erase(q, pid) : Erase(q, pid)[j] = q[i]
           /\ \A j \in DOMAIN Erase(q, pid) : \E i \in DOMAIN q : Erase(q, pid)[j] = q[i] /\ q[i].pid # pid
<1> DEFINE I == {i \in 1..Len(q) : q[i].pid = pid}
           k == Min(I)
           r == RemoveAt(q, k)
<1>1. DOMAIN q = 1..Len(q) /\ Len(q) \in Nat
  OBVIOUS
<1>2. CASE I = {}
  <2>1. Erase(q, pid) = q
    BY <1>2 DEF Erase, RemoveFirstMatch
  <2>2. \A i \in DOMAIN q : q[i].pid # pid
    BY <1>1, <1>2
  <2> QED  BY <2>1, <2>2, <1>1 DEF Thinned
<1>3. CASE I # {}
  <2>1. k \in DOMAIN q /\ q[k].pid = pid
    <3>1. I \subseteq Nat
      BY <1>1
    <3>2. Min(I) \in I
      BY <1>3, <3>1, MinIn
    <3> QED  BY <1>1, <3>2
  <2>2. Erase(q, pid) = r
    <3>1. \E i \in 1..Len(q) : q[i].pid = pid
      BY <1>3
    <3> QED  BY Zenon, <1>3, <3>1 DEF Erase, RemoveFirstMatch, SelectInSeq
  <2> HIDE DEF I, k
  <2>3. /\ r \in Seq(Entry) /\ Len(r) = Len(q) - 1
        /\ \A i \in 1..Len(q) - 1 : r[i] = q[IF i < k THEN i ELSE i + 1]
    BY <2>1, RemoveAtIs
  <2> HIDE DEF r
  <2>4. DOMAIN r = 1..Len(q) - 1
    BY <2>3
  <2> DEFINE g(i) == IF i < k THEN i ELSE i + 1
  <2>5. \A i \in DOMAIN r : r[i] = q[g(i)] /\ g(i) \in DOMAIN q /\ g(i) # k
    BY <1>1, <2>1, <2>3, <2>4
  <2>6. \A i, j \in DOMAIN r : g(i) = g(j) => i = j
    BY <1>1, <2>1, <2>4
  <2>7. \A j \in DOMAIN q : j # k => \E i \in DOMAIN r : g(i) = j
    <3> TAKE j \in DOMAIN q
    <3> HAVE j # k
    <3>1. CASE j < k
      BY <3>1, <1>1, <2>1, <2>4
    <3>2. CASE j > k
      <4>1. j - 1 \in DOMAIN r /\ g(j - 1) = j
        BY <3>2, <1>1, <2>1, <2>4
      <4> QED  BY <4>1
    <3> QED  BY <3>1, <3>2, <1>1, <2>1
  <2> HIDE DEF g
  <2>8. Distinct(r)
    BY <2>5, <2>6 DEF Distinct
  <2>9. Len(r) <= Len(q)
    BY <1>1, <2>3
  <2>10. Thinned(q, r)
    BY <2>3, <2>5, <2>8, <2>9 DEF Thinned
  <2>11. \A i \in DOMAIN q : q[i].pid # pid => \E j \in DOMAIN r : r[j] = q[i]
    BY <2>1, <2>5, <2>7
  <2>12. \A i \in DOMAIN r : q[g(i)].pid # pid
    BY <2>1, <2>5 DEF Distinct
  <2>13. \A j \in DOMAIN r : \E i \in DOMAIN q : r[j] = q[i] /\ q[i].pid # pid
    BY <2>5, <2>12
  <2> QED  BY <2>2, <2>10, <2>11, <2>13
<1> QED  BY <1>2, <1>3

\* EraseAll takes entries only.
LEMMA EraseAllThins ==
    ASSUME NEW q \in Seq(Entry), Distinct(q), NEW pids
    PROVE  Thinned(q, EraseAll(q, pids))
<1> DEFINE N == Len(q)
<1>1. N \in Nat /\ DOMAIN q = 1..N
  OBVIOUS
<1>a. PICK v : IsRun(v, "EraseAll", pids, <<>>, q, N, EraseAll(q, pids))
  BY <1>1, EraseAllLoop
<1>2. /\ v[0] = <<>>
      /\ \A k \in 0..N - 1 : v[k + 1] = IF q[k + 1].pid \in pids THEN v[k]
                                        ELSE Append(v[k], q[k + 1])
      /\ EraseAll(q, pids) = v[N]
  BY <1>a DEF IsRun, Turn
<1> HIDE DEF N
<1> DEFINE Good(k) ==
      /\ v[k] \in Seq(Entry) /\ Len(v[k]) <= k /\ Distinct(v[k])
      /\ \A i \in DOMAIN v[k] : \E j \in 1..k : v[k][i] = q[j]
<1>3. Good(0)
  BY <1>2 DEF Distinct
<1>4. ASSUME NEW k \in 0..N - 1, Good(k) PROVE Good(k + 1)
  <2> DEFINE w == v[k]
             e == q[k + 1]
  <2>1. k + 1 \in DOMAIN q /\ e \in Entry /\ k \in Nat
    BY <1>1
  <2>2. CASE e.pid \in pids
    <3>1. v[k + 1] = v[k]
      BY <1>2, <2>2
    <3> QED  BY <1>4, <3>1
  <2>3. CASE e.pid \notin pids
    <3> DEFINE u == v[k + 1]
    <3>1. u = Append(w, e)
      BY <1>2, <2>3
    <3>2. w \in Seq(Entry) /\ Len(w) <= k /\ Distinct(w) /\ DOMAIN w = 1..Len(w) /\ Len(w) \in Nat
          /\ \A i \in DOMAIN w : \E j \in 1..k : w[i] = q[j]
      BY <1>4
    <3> HIDE DEF w, e
    <3>3. /\ u \in Seq(Entry) /\ Len(u) = Len(w) + 1 /\ DOMAIN u = 1..Len(w) + 1
          /\ \A i \in 1..Len(w) + 1 : u[i] = IF i = Len(w) + 1 THEN e ELSE w[i]
      BY <2>1, <3>1, <3>2, AppendIs
    <3>4. \A i \in DOMAIN u : i # Len(w) + 1 => i \in DOMAIN w /\ u[i] = w[i]
      BY <3>2, <3>3
    <3>5. u[Len(w) + 1] = e
      BY <3>2, <3>3
    <3> HIDE DEF u
    <3>6. \A i \in DOMAIN w : w[i].pid # e.pid
      <4> TAKE i \in DOMAIN w
      <4>1. PICK j \in 1..k : w[i] = q[j]
        BY <3>2
      <4>2. j \in DOMAIN q /\ j # k + 1
        BY <1>1
      <4> QED  BY <4>1, <4>2, <2>1 DEF Distinct, e
    <3>7. Distinct(u)
      <4> SUFFICES ASSUME NEW i \in DOMAIN u, NEW j \in DOMAIN u, u[i].pid = u[j].pid PROVE i = j
        BY DEF Distinct
      <4>1. CASE i = Len(w) + 1 \/ j = Len(w) + 1
        BY <4>1, <3>4, <3>5, <3>6
      <4>2. CASE i # Len(w) + 1 /\ j # Len(w) + 1
        BY <4>2, <3>2, <3>4 DEF Distinct
      <4> QED  BY <4>1, <4>2
    <3>8. \A i \in DOMAIN u : \E j \in 1..k + 1 : u[i] = q[j]
      <4> TAKE i \in DOMAIN u
      <4>1. CASE i = Len(w) + 1
        BY <4>1, <3>5, <2>1 DEF e
      <4>2. CASE i # Len(w) + 1
        BY <4>2, <3>2, <3>4, <2>1
      <4> QED  BY <4>1, <4>2
    <3>9. Len(u) <= k + 1
      BY <3>2, <3>3, <2>1
    <3> QED  BY <3>3, <3>7, <3>8, <3>9 DEF u
  <2> QED  BY <2>2, <2>3
<1> HIDE DEF Good
<1> DEFINE T == {k \in 0..N : Good(k)}
<1>5. 0 \in T /\ \A k \in 0..N - 1 : k \in T => k + 1 \in T
  BY <1>1, <1>3, <1>4
<1> HIDE DEF T
<1>6. N \in T
  BY <1>1, <1>5, Upto
<1>7. Good(N)
  BY <1>6 DEF T
<1> QED  BY <1>1, <1>2, <1>7 DEF Good, Thinned, N

-----------------------------------------------------------------------------
(* The neighbor table *)

\* AddTrinity keeps known trinities or drops them, and adds the new one.
LEMMA AddTrinityIs ==
    ASSUME NEW tri \in Seq(Trinity), NEW t \in Trinity
    PROVE  /\ AddTrinity(tri, t) \in Seq(Trinity) /\ AddTrinity(tri, t) # <<>>
           /\ \A i \in DOMAIN AddTrinity(tri, t) :
                 AddTrinity(tri, t)[i] = t \/ \E j \in DOMAIN tri : AddTrinity(tri, t)[i] = tri[j]
           /\ \E i \in DOMAIN AddTrinity(tri, t) : AddTrinity(tri, t)[i] = t
<1> DEFINE N == Len(tri)
<1>1. N \in Nat /\ DOMAIN tri = 1..N
  OBVIOUS
<1>2. PICK v : /\ IsRun(v, "AddTrinity", t, <<>>, tri, N, v[N])
               /\ AddTrinity(tri, t) = Append(v[N], t)
  BY Zenon, <1>1, AddTrinityLoop
<1>3. /\ v[0] = <<>>
      /\ \A k \in 0..N - 1 : v[k + 1] = IF Replaces(t, tri[k + 1]) THEN v[k]
                                        ELSE Append(v[k], tri[k + 1])
  BY <1>2 DEF IsRun, Turn
<1> HIDE DEF N
<1> DEFINE Good(w) ==
      w \in Seq(Trinity) /\ \A i \in DOMAIN w : \E j \in DOMAIN tri : w[i] = tri[j]
<1>4. Good(v[0])
  BY <1>3
<1>5. ASSUME NEW k \in 0..N - 1, Good(v[k]) PROVE Good(v[k + 1])
  <2> DEFINE w == v[k]
             e == tri[k + 1]
             u == v[k + 1]
  <2>1. k + 1 \in DOMAIN tri /\ e \in Trinity
    BY <1>1
  <2>2. u = w \/ u = Append(w, e)
    BY <1>3
  <2>3. w \in Seq(Trinity) /\ \A i \in DOMAIN w : \E j \in DOMAIN tri : w[i] = tri[j]
    BY <1>5
  <2>4. e = tri[k + 1]
    OBVIOUS
  <2> HIDE DEF w, e, u
  <2>5. CASE u = Append(w, e)
    <3>1. /\ u \in Seq(Trinity) /\ DOMAIN u = 1..Len(w) + 1 /\ DOMAIN w = 1..Len(w) /\ Len(w) \in Nat
          /\ \A i \in 1..Len(w) + 1 : u[i] = IF i = Len(w) + 1 THEN e ELSE w[i]
      BY <2>1, <2>3, <2>5, AppendIs
    <3>2. \A i \in DOMAIN u : i # Len(w) + 1 => i \in DOMAIN w /\ u[i] = w[i]
      BY <3>1
    <3>3. u[Len(w) + 1] = e
      BY <3>1
    <3> QED  BY <2>1, <2>3, <2>4, <3>1, <3>2, <3>3 DEF u
  <2> QED  BY <2>2, <2>3, <2>5 DEF u
<1> HIDE DEF Good
<1> DEFINE T == {k \in 0..N : Good(v[k])}
<1>6. 0 \in T /\ \A k \in 0..N - 1 : k \in T => k + 1 \in T
  BY <1>1, <1>4, <1>5
<1> HIDE DEF T
<1>7. N \in T
  BY <1>1, <1>6, Upto
<1>8. Good(v[N])
  BY <1>7 DEF T
<1> DEFINE w == v[N]
           r == AddTrinity(tri, t)
<1>9. w \in Seq(Trinity) /\ r = Append(w, t)
  BY <1>2, <1>8 DEF Good
<1>10. \A i \in DOMAIN w : \E j \in DOMAIN tri : w[i] = tri[j]
  BY <1>8 DEF Good
<1> HIDE DEF w, r
<1>11. /\ r \in Seq(Trinity) /\ DOMAIN r = 1..Len(w) + 1 /\ DOMAIN w = 1..Len(w) /\ Len(w) \in Nat
       /\ \A i \in 1..Len(w) + 1 : r[i] = IF i = Len(w) + 1 THEN t ELSE w[i]
  BY <1>9, AppendIs
<1>12. Len(w) + 1 \in DOMAIN r /\ r[Len(w) + 1] = t /\ r # <<>>
  BY <1>11
<1>13. \A i \in DOMAIN r : i # Len(w) + 1 => i \in DOMAIN w /\ r[i] = w[i]
  BY <1>11
<1> QED  BY <1>10, <1>11, <1>12, <1>13 DEF r

\* A neighbor is one node.
LEMMA OneOwner ==
    ASSUME NEW nbr, NEW m \in Node, Belongs(nbr, m), NEW k \in Node
    PROVE  /\ \A mac \in Macs(k) : HasMac(nbr, mac) => k = m
           /\ \A ip \in Ips(k) : HasIP(nbr, ip) => k = m
<1>1. \A mac \in Macs(k) : HasMac(nbr, mac) => k = m
  BY Apart DEF Belongs, HasMac
<1>2. \A ip \in Ips(k) : ip # ZeroIp
  BY Numbers DEF ZeroIp
<1>3. \A ip \in Ips(k) : HasIP(nbr, ip) => k = m
  BY <1>2, Apart DEF Belongs, HasIP
<1> QED  BY <1>1, <1>3

\* A row with an address of node m is about m.
LEMMA RowOwner ==
    ASSUME NEW nbr, NEW w, Row(nbr, w), NEW m \in Node,
           (\E mac \in Macs(m) : HasMac(nbr, mac)) \/ (\E ip \in Ips(m) : HasIP(nbr, ip))
    PROVE  Belongs(nbr, m) /\ \A p \in ToSet(nbr.vq) : <<p, m>> \in w
<1>1. PICK k \in Node : Belongs(nbr, k) /\ \A p \in ToSet(nbr.vq) : <<p, k>> \in w
  BY DEF Row
<1>2. k = m
  BY <1>1, OneOwner
<1> QED  BY <1>1, <1>2

\* Sharing an address is mutual.
LEMMA ShareMutual ==
    ASSUME NEW x, NEW y, ~ ShareAddress(x, y) PROVE ~ ShareAddress(y, x)
BY DEF ShareAddress, HasIP, HasMac

\* Sharing an address is about the trinities.
LEMMA ShareTrinities ==
    ASSUME NEW x, NEW y, x.tri = y.tri
    PROVE  \A z : ShareAddress(z, x) => ShareAddress(z, y)
BY DEF ShareAddress, HasIP, HasMac

\* A row apart from x and y, and clear of t, is apart from what they are merged to.
LEMMA ApartMerge ==
    ASSUME NEW x, NEW y, NEW t, NEW u, Merges(u, x, y, t), NEW z, ~ ShareAddress(x, z), ~ ShareAddress(y, z), Clear(z, t)
    PROVE  ~ ShareAddress(z, u)
<1>1. ~ ShareAddress(u, z)
  BY DEF ShareAddress, Clear, Merges
<1> QED  BY <1>1, ShareMutual

\* A table without one of its rows.
LEMMA RowsRemove ==
    ASSUME NEW nbrs \in Seq(Neighbor), NEW k \in DOMAIN nbrs, NEW w,
           RowsOn(nbrs, DOMAIN nbrs \ {k}, w)
    PROVE  /\ Rows(RemoveAt(nbrs, k), w)
           /\ \A i \in DOMAIN RemoveAt(nbrs, k) : \E j \in DOMAIN nbrs \ {k} : RemoveAt(nbrs, k)[i] = nbrs[j]
           /\ \A j \in DOMAIN nbrs \ {k} : \E i \in DOMAIN RemoveAt(nbrs, k) : RemoveAt(nbrs, k)[i] = nbrs[j]
<1> DEFINE r == RemoveAt(nbrs, k)
           g(i) == IF i < k THEN i ELSE i + 1
<1>1. /\ r \in Seq(Neighbor) /\ Len(r) = Len(nbrs) - 1 /\ DOMAIN nbrs = 1..Len(nbrs) /\ Len(nbrs) \in Nat
      /\ \A i \in 1..Len(nbrs) - 1 : r[i] = nbrs[IF i < k THEN i ELSE i + 1]
  BY RemoveAtIs
<1> HIDE DEF r
<1>2. DOMAIN r = 1..Len(nbrs) - 1
  BY <1>1
<1>3. \A i \in DOMAIN r : r[i] = nbrs[g(i)] /\ g(i) \in DOMAIN nbrs \ {k}
  BY <1>1, <1>2
<1>4. \A i, j \in DOMAIN r : g(i) = g(j) => i = j
  BY <1>1, <1>2
<1>5. \A j \in DOMAIN nbrs \ {k} : \E i \in DOMAIN r : g(i) = j
  <2> TAKE j \in DOMAIN nbrs \ {k}
  <2>1. CASE j < k
    BY <2>1, <1>1, <1>2
  <2>2. CASE j > k
    <3>1. j - 1 \in DOMAIN r /\ g(j - 1) = j
      BY <2>2, <1>1, <1>2
    <3> QED  BY <3>1
  <2> QED  BY <2>1, <2>2, <1>1
<1> HIDE DEF g
<1>6. RowsOn(r, DOMAIN r, w)
  <2>0. RowsOn(nbrs, DOMAIN nbrs \ {k}, w)
    OBVIOUS
  <2>1. \A i \in DOMAIN r : Row(r[i], w)
    BY ONLY <2>0, <1>3 DEF RowsOn
  <2>2. \A i, j \in DOMAIN r : i # j => ToSet(r[i].vq) \cap ToSet(r[j].vq) = {}
    BY ONLY <2>0, <1>3, <1>4 DEF RowsOn
  <2>3. \A i, j \in DOMAIN r : i # j => ~ ShareAddress(r[i], r[j])
    BY ONLY <2>0, <1>3, <1>4 DEF RowsOn
  <2> QED  BY <2>1, <2>2, <2>3 DEF RowsOn
<1>7. \A j \in DOMAIN nbrs \ {k} : \E i \in DOMAIN r : r[i] = nbrs[j]
  BY <1>3, <1>5
<1> QED  BY <1>1, <1>3, <1>6, <1>7 DEF Rows, r

\* A table with a new row that shares no id and no address with the others.
LEMMA RowsAppend ==
    ASSUME NEW nbrs, NEW w, Rows(nbrs, w), NEW nbr \in Neighbor, Row(nbr, w),
           \A k \in DOMAIN nbrs : ToSet(nbrs[k].vq) \cap ToSet(nbr.vq) = {},
           \A k \in DOMAIN nbrs : ~ ShareAddress(nbr, nbrs[k])
    PROVE  /\ Rows(Append(nbrs, nbr), w)
           /\ \E k \in DOMAIN Append(nbrs, nbr) : Append(nbrs, nbr)[k] = nbr
<1> DEFINE r == Append(nbrs, nbr)
<1>1. /\ nbrs \in Seq(Neighbor) /\ DOMAIN nbrs = 1..Len(nbrs) /\ Len(nbrs) \in Nat
      /\ r \in Seq(Neighbor) /\ DOMAIN r = 1..Len(nbrs) + 1
      /\ \A i \in 1..Len(nbrs) + 1 : r[i] = IF i = Len(nbrs) + 1 THEN nbr ELSE nbrs[i]
  BY AppendIs DEF Rows
<1> HIDE DEF r
<1>2. \A i \in DOMAIN r : i # Len(nbrs) + 1 => i \in DOMAIN nbrs /\ r[i] = nbrs[i]
  BY <1>1
<1>3. r[Len(nbrs) + 1] = nbr /\ Len(nbrs) + 1 \in DOMAIN r
  BY <1>1
<1>4. \A i \in DOMAIN r : Row(r[i], w)
  BY <1>2, <1>3 DEF Rows, RowsOn
<1>5. \A i, j \in DOMAIN r : i # j => ToSet(r[i].vq) \cap ToSet(r[j].vq) = {}
  <2> TAKE i, j \in DOMAIN r
  <2> HAVE i # j
  <2>1. CASE i = Len(nbrs) + 1
    BY <2>1, <1>2, <1>3
  <2>2. CASE j = Len(nbrs) + 1
    BY <2>2, <1>2, <1>3
  <2>3. CASE i # Len(nbrs) + 1 /\ j # Len(nbrs) + 1
    BY <2>3, <1>2 DEF Rows, RowsOn
  <2> QED  BY <2>1, <2>2, <2>3
<1>6. \A i, j \in DOMAIN r : i # j => ~ ShareAddress(r[i], r[j])
  <2> TAKE i, j \in DOMAIN r
  <2> HAVE i # j
  <2>1. CASE i = Len(nbrs) + 1
    BY <2>1, <1>2, <1>3
  <2>2. CASE j = Len(nbrs) + 1
    BY <2>2, <1>2, <1>3, ShareMutual
  <2>3. CASE i # Len(nbrs) + 1 /\ j # Len(nbrs) + 1
    BY <2>3, <1>2 DEF Rows, RowsOn
  <2> QED  BY <2>1, <2>2, <2>3
<1> QED  BY <1>1, <1>3, <1>4, <1>5, <1>6 DEF Rows, RowsOn, r

\* A table with a row replaced.
LEMMA RowsReplace ==
    ASSUME NEW nbrs, NEW w, Rows(nbrs, w), NEW k \in DOMAIN nbrs, NEW w2,
           NEW nbr \in Neighbor, Row(nbr, w2),
           \A l \in DOMAIN nbrs \ {k} : /\ ToSet(nbrs[l].vq) \cap ToSet(nbr.vq) = {}
                                        /\ Row(nbrs[l], w2)
                                        /\ ~ ShareAddress(nbrs[l], nbr)
    PROVE  Rows([nbrs EXCEPT ![k] = nbr], w2)
<1> DEFINE r == [nbrs EXCEPT ![k] = nbr]
<1>1. nbrs \in Seq(Neighbor)
  BY DEF Rows
<1>2. r \in Seq(Neighbor) /\ DOMAIN r = DOMAIN nbrs
      /\ r[k] = nbr /\ \A l \in DOMAIN nbrs \ {k} : r[l] = nbrs[l]
  BY <1>1
<1> HIDE DEF r
<1>3. \A i \in DOMAIN r : Row(r[i], w2)
  BY <1>2
<1>4. \A i, j \in DOMAIN r : i # j => ToSet(r[i].vq) \cap ToSet(r[j].vq) = {}
  <2> TAKE i, j \in DOMAIN r
  <2> HAVE i # j
  <2>1. CASE i = k
    BY <2>1, <1>2
  <2>2. CASE j = k
    BY <2>2, <1>2
  <2>3. CASE i # k /\ j # k
    BY <2>3, <1>2 DEF Rows, RowsOn
  <2> QED  BY <2>1, <2>2, <2>3
<1>5. \A i, j \in DOMAIN r : i # j => ~ ShareAddress(r[i], r[j])
  <2> TAKE i, j \in DOMAIN r
  <2> HAVE i # j
  <2>1. CASE i = k
    BY <2>1, <1>2, ShareMutual
  <2>2. CASE j = k
    BY <2>2, <1>2
  <2>3. CASE i # k /\ j # k
    BY <2>3, <1>2 DEF Rows, RowsOn
  <2> QED  BY <2>1, <2>2, <2>3
<1> QED  BY <1>2, <1>3, <1>4, <1>5 DEF Rows, RowsOn, r

\* A row when other entries wait.
LEMMA RowMono ==
    ASSUME NEW nbr, NEW w, Row(nbr, w), NEW w2,
           \A p \in ToSet(nbr.vq) : \A m \in Node : <<p, m>> \in w => <<p, m>> \in w2
    PROVE  Row(nbr, w2)
BY DEF Row

\* A table when more entries wait.
LEMMA TableMono ==
    ASSUME NEW nbrs, NEW w, NEW w2, w \subseteq w2
    PROVE  /\ Rows(nbrs, w) => Rows(nbrs, w2)
           /\ Table(nbrs, w) => Table(nbrs, w2)
BY DEF Table, Rows, RowsOn, Row

\* A packet joins the virtual queue of the neighbor it goes to.
LEMMA VqPush ==
    ASSUME NEW nbrs, NEW w, Table(nbrs, w), NEW k \in DOMAIN nbrs,
           NEW m \in Node, NEW mac \in Macs(m), HasMac(nbrs[k], mac),
           NEW pid \in Packet, \A x \in Node : <<pid, x>> \notin w,
           NEW w2, w \subseteq w2, <<pid, m>> \in w2,
           NEW vq \in Seq(Packet), ToSet(vq) = {pid} \cup ToSet(nbrs[k].vq)
    PROVE  Rows([nbrs EXCEPT ![k].vq = vq], w2)
<1> DEFINE nbr == [nbrs[k] EXCEPT !.vq = vq]
<1>1. nbrs \in Seq(Neighbor) /\ nbrs[k] \in Neighbor /\ Row(nbrs[k], w)
  BY DEF Table, Rows, RowsOn
<1>2. nbr \in Neighbor /\ nbr.vq = vq /\ nbr.tri = nbrs[k].tri
  BY <1>1 DEF Neighbor
<1>3. [nbrs EXCEPT ![k].vq = vq] = [nbrs EXCEPT ![k] = nbr]
  BY <1>1
<1> HIDE DEF nbr
<1>4. Belongs(nbrs[k], m) /\ \A p \in ToSet(nbrs[k].vq) : <<p, m>> \in w
  BY <1>1, RowOwner
<1>5. Row(nbr, w2)
  <2>1. Belongs(nbr, m)
    BY <1>2, <1>4 DEF Belongs
  <2>2. \A p \in ToSet(nbr.vq) : <<p, m>> \in w2
    BY <1>2, <1>4
  <2> QED  BY <2>1, <2>2 DEF Row
<1>6. ASSUME NEW l \in DOMAIN nbrs \ {k}
      PROVE  /\ ToSet(nbrs[l].vq) \cap ToSet(nbr.vq) = {} /\ Row(nbrs[l], w2)
             /\ ~ ShareAddress(nbrs[l], nbr)
  <2>1. Row(nbrs[l], w) /\ ToSet(nbrs[l].vq) \cap ToSet(nbrs[k].vq) = {}
    BY DEF Table, Rows, RowsOn
  <2>4. ~ ShareAddress(nbrs[l], nbr)
    <3>1. ~ ShareAddress(nbrs[l], nbrs[k])
      BY DEF Table, Rows, RowsOn
    <3> QED  BY <1>2, <3>1, ShareTrinities
  <2>2. pid \notin ToSet(nbrs[l].vq)
    BY <2>1 DEF Row
  <2>3. Row(nbrs[l], w2)
    BY <2>1, RowMono
  <2> QED  BY <1>2, <2>1, <2>2, <2>3, <2>4
<1> QED  BY <1>2, <1>3, <1>5, <1>6, RowsReplace DEF Table

\* A packet leaves the virtual queue it is in.
LEMMA VqPop ==
    ASSUME NEW nbrs, NEW w, Table(nbrs, w), NEW k \in DOMAIN nbrs,
           NEW pid \in ToSet(nbrs[k].vq),
           NEW w2, \A p : \A m \in Node : p # pid /\ <<p, m>> \in w => <<p, m>> \in w2,
           NEW vq \in Seq(Packet), IsInjective(vq), ToSet(vq) = ToSet(nbrs[k].vq) \ {pid}
    PROVE  Table([nbrs EXCEPT ![k].vq = vq], w2)
<1> DEFINE nbr == [nbrs[k] EXCEPT !.vq = vq]
<1>1. nbrs \in Seq(Neighbor) /\ nbrs[k] \in Neighbor /\ Row(nbrs[k], w)
  BY DEF Table, Rows, RowsOn
<1>2. nbr \in Neighbor /\ nbr.vq = vq /\ nbr.tri = nbrs[k].tri
  BY <1>1 DEF Neighbor
<1>3. [nbrs EXCEPT ![k].vq = vq] = [nbrs EXCEPT ![k] = nbr]
  BY <1>1
<1> HIDE DEF nbr
<1>4. Row(nbr, w2)
  <2>1. PICK m \in Node : Belongs(nbrs[k], m) /\ \A p \in ToSet(nbrs[k].vq) : <<p, m>> \in w
    BY <1>1 DEF Row
  <2>2. Belongs(nbr, m)
    BY <1>2, <2>1 DEF Belongs
  <2>3. \A p \in ToSet(nbr.vq) : <<p, m>> \in w2
    BY <1>2, <2>1
  <2> QED  BY <2>2, <2>3 DEF Row
<1>5. ASSUME NEW l \in DOMAIN nbrs \ {k}
      PROVE  /\ ToSet(nbrs[l].vq) \cap ToSet(nbr.vq) = {} /\ Row(nbrs[l], w2)
             /\ ~ ShareAddress(nbrs[l], nbr)
  <2>1. Row(nbrs[l], w) /\ ToSet(nbrs[l].vq) \cap ToSet(nbrs[k].vq) = {}
    BY DEF Table, Rows, RowsOn
  <2>4. ~ ShareAddress(nbrs[l], nbr)
    <3>1. ~ ShareAddress(nbrs[l], nbrs[k])
      BY DEF Table, Rows, RowsOn
    <3> QED  BY <1>2, <3>1, ShareTrinities
  <2>2. pid \notin ToSet(nbrs[l].vq)
    BY <2>1
  <2>3. Row(nbrs[l], w2)
    BY <2>1, <2>2, RowMono
  <2> QED  BY <1>2, <2>1, <2>3, <2>4
<1>6. Rows([nbrs EXCEPT ![k] = nbr], w2)
  BY <1>2, <1>4, <1>5, RowsReplace DEF Table
<1>7. \A l \in DOMAIN nbrs : IsInjective([nbrs EXCEPT ![k] = nbr][l].vq)
  <2>1. \A l \in DOMAIN nbrs : [nbrs EXCEPT ![k] = nbr][l] = IF l = k THEN nbr ELSE nbrs[l]
    BY <1>1
  <2> QED  BY <2>1, <1>2 DEF Table
<1>8. DOMAIN [nbrs EXCEPT ![k] = nbr] = DOMAIN nbrs
  OBVIOUS
<1> QED  BY <1>3, <1>6, <1>7, <1>8 DEF Table

\* Injectivity is what WithNeighbors tests.
LEMMA RowsTable ==
    ASSUME NEW nbrs, NEW w, Rows(nbrs, w), ~ DuplicateVirtualEntry(nbrs)
    PROVE  Table(nbrs, w)
BY DEF Table, DuplicateVirtualEntry

\* AddNeighbor adds a row at the end.
LEMMA AddNeighborOk ==
    ASSUME NEW nbrs, NEW w, Rows(nbrs, w), NEW nbr \in Neighbor, Row(nbr, w),
           \A k \in DOMAIN nbrs : ToSet(nbrs[k].vq) \cap ToSet(nbr.vq) = {}
    PROVE  Rows(AddNeighbor(nbrs, nbr), w)
BY RowsAppend DEF AddNeighbor

\* Absorb merges a row of node m into what a hello of m builds.
LEMMA AbsorbOk ==
    ASSUME NEW acc, NEW m \in Node, NEW w, LearnOk(acc, m, w),
           NEW k \in DOMAIN acc.nbrs \cup {0},
           k \in DOMAIN acc.nbrs =>
              \/ \E mac \in Macs(m) : HasMac(acc.nbrs[k], mac)
              \/ \E ip \in Ips(m) : HasIP(acc.nbrs[k], ip)
    PROVE  LearnOk(Absorb(acc, k), m, w)
<1>1. CASE k = 0
  BY <1>1 DEF Absorb
<1>2. CASE k # 0
  <2> DEFINE nbrs == acc.nbrs
             new == acc.new
             r == RemoveAt(nbrs, k)
             vq == new.vq \o nbrs[k].vq
             grown == [new EXCEPT !.vq = vq]
  <2>1. k \in DOMAIN nbrs /\ Rows(nbrs, w) /\ nbrs \in Seq(Neighbor) /\ new \in Neighbor
    BY <1>2 DEF LearnOk, Rows
  <2>2. nbrs[k] \in Neighbor /\ Row(nbrs[k], w)
    BY <2>1 DEF Rows, RowsOn
  <2>3. \A p \in ToSet(nbrs[k].vq) : <<p, m>> \in w
    BY <2>1, <2>2, RowOwner
  <2>4. RowsOn(nbrs, DOMAIN nbrs \ {k}, w)
    BY <2>1 DEF Rows, RowsOn
  <2>5. Rows(r, w) /\ \A i \in DOMAIN r : \E j \in DOMAIN nbrs \ {k} : r[i] = nbrs[j]
    BY <2>1, <2>4, RowsRemove
  <2>6. new.vq \in Seq(Packet) /\ nbrs[k].vq \in Seq(Packet)
    BY <2>1, <2>2 DEF Neighbor
  <2>7. vq \in Seq(Packet) /\ ToSet(vq) = ToSet(new.vq) \cup ToSet(nbrs[k].vq)
    BY <2>6, ConcatIs
  <2>8. grown \in Neighbor /\ grown.tri = new.tri /\ grown.vq = vq
    BY <2>1, <2>7 DEF Neighbor
  <2>9. Absorb(acc, k) = [nbrs |-> r, new |-> grown]
    BY <1>2 DEF Absorb
  <2>10. \A i \in DOMAIN r : ToSet(r[i].vq) \cap ToSet(vq) = {}
    <3> SUFFICES ASSUME NEW i \in DOMAIN r PROVE ToSet(r[i].vq) \cap ToSet(vq) = {}
      OBVIOUS
    <3>1. PICK j \in DOMAIN nbrs \ {k} : r[i] = nbrs[j]
      BY <2>5
    <3>2. ToSet(nbrs[j].vq) \cap ToSet(nbrs[k].vq) = {}
      BY <2>1 DEF Rows, RowsOn
    <3>3. ToSet(nbrs[j].vq) \cap ToSet(new.vq) = {}
      BY DEF LearnOk
    <3> QED  BY <3>1, <3>2, <3>3, <2>7
  <2>11. \A p \in ToSet(vq) : <<p, m>> \in w
    BY <2>3, <2>7 DEF LearnOk
  <2>12. \A i \in DOMAIN new.tri : new.tri[i].mac \in Macs(m) /\ new.tri[i].ip \in Ips(m)
    BY DEF LearnOk
  <2> HIDE DEF r, vq, grown, nbrs, new
  <2>13. LearnOk([nbrs |-> r, new |-> grown], m, w)
    BY <2>5, <2>8, <2>10, <2>11, <2>12 DEF LearnOk
  <2> QED  BY <2>9, <2>13
<1> QED  BY <1>1, <1>2

\* A pair of a hello keeps the table and the row that is being built sound.
LEMMA LearnPairOk ==
    ASSUME NEW acc, NEW m \in Node, NEW w, LearnOk(acc, m, w), NEW i \in DOMAIN Devices(m)
    PROVE  LearnOk(LearnPair(acc, Devices(m)[i]), m, w) /\ LearnPair(acc, Devices(m)[i]).new.tri # <<>>
<1> DEFINE pair == Devices(m)[i]
           byMac == Absorb(acc, SearchMac(acc.nbrs, pair.mac))
           byIp == Absorb(byMac, SearchIp(byMac.nbrs, pair.ip))
<1>1. pair \in Device /\ pair.mac \in Macs(m) /\ pair.ip \in Ips(m)
  BY DeviceAt
<1>2. pair \in Trinity
  <2>1. pair.mac \in Address
    BY <1>1, OwnerOf
  <2>2. OnChannel(pair.mac, pair.ch)
    BY DEF OnChannel
  <2> QED  BY <1>1, <2>1, <2>2 DEF Device, Trinity
<1>3. LearnPair(acc, pair) = [byIp EXCEPT !.new.tri = AddTrinity(@, pair)]
  BY DEF LearnPair
<1> HIDE DEF pair
<1>4. LearnOk(byMac, m, w)
  <2> DEFINE k == SearchMac(acc.nbrs, pair.mac)
  <2>1. acc.nbrs \in Seq(Neighbor)
    BY DEF LearnOk, Rows
  <2>a. MacAt(acc.nbrs, pair.mac, k)
    BY <2>1, SearchMacIn
  <2>2. k = 0 \/ (k \in DOMAIN acc.nbrs /\ HasMac(acc.nbrs[k], pair.mac))
    BY <2>a DEF MacAt
  <2>3. k \in DOMAIN acc.nbrs \cup {0}
    BY <2>2
  <2>4. k \in DOMAIN acc.nbrs => \E mac \in Macs(m) : HasMac(acc.nbrs[k], mac)
    <3>1. 0 \notin DOMAIN acc.nbrs
      BY <2>1
    <3> QED  BY <1>1, <2>2, <3>1
  <2> HIDE DEF k
  <2>5. LearnOk(Absorb(acc, k), m, w)
    BY <2>3, <2>4, AbsorbOk
  <2> QED  BY <2>5 DEF k
<1> HIDE DEF byMac
<1>5. LearnOk(byIp, m, w)
  <2> DEFINE k == SearchIp(byMac.nbrs, pair.ip)
  <2>1. byMac.nbrs \in Seq(Neighbor)
    BY <1>4 DEF LearnOk, Rows
  <2>a. IpAt(byMac.nbrs, pair.ip, k)
    BY <2>1, SearchIpIn
  <2>2. k = 0 \/ (k \in DOMAIN byMac.nbrs /\ HasIP(byMac.nbrs[k], pair.ip))
    BY <2>a DEF IpAt
  <2>3. k \in DOMAIN byMac.nbrs \cup {0}
    BY <2>2
  <2>4. k \in DOMAIN byMac.nbrs => \E ip \in Ips(m) : HasIP(byMac.nbrs[k], ip)
    <3>1. 0 \notin DOMAIN byMac.nbrs
      BY <2>1
    <3> QED  BY <1>1, <2>2, <3>1
  <2> HIDE DEF k
  <2>5. LearnOk(Absorb(byMac, k), m, w)
    BY <1>4, <2>3, <2>4, AbsorbOk
  <2> QED  BY <2>5 DEF k
<1> HIDE DEF byIp
<1> DEFINE tri == AddTrinity(byIp.new.tri, pair)
           new == [byIp.new EXCEPT !.tri = tri]
<1>6. byIp.new \in Neighbor /\ byIp.new.tri \in Seq(Trinity)
      /\ byIp = [nbrs |-> byIp.nbrs, new |-> byIp.new]
  BY <1>5 DEF LearnOk, Neighbor
<1>7. /\ tri \in Seq(Trinity) /\ tri # <<>>
      /\ \A j \in DOMAIN tri : tri[j] = pair \/ \E l \in DOMAIN byIp.new.tri : tri[j] = byIp.new.tri[l]
  BY <1>2, <1>6, AddTrinityIs
<1>8. LearnPair(acc, pair) = [nbrs |-> byIp.nbrs, new |-> new]
  BY <1>3, <1>6
<1> HIDE DEF tri
<1>9. new \in Neighbor /\ new.tri = tri /\ new.vq = byIp.new.vq
  BY <1>6, <1>7 DEF Neighbor
<1>10. \A j \in DOMAIN tri : tri[j].mac \in Macs(m) /\ tri[j].ip \in Ips(m)
  BY <1>1, <1>5, <1>7 DEF LearnOk
<1> HIDE DEF new
<1>11. LearnOk([nbrs |-> byIp.nbrs, new |-> new], m, w)
  BY <1>5, <1>9, <1>10 DEF LearnOk
<1> QED  BY <1>7, <1>8, <1>9, <1>11 DEF pair

\* What a hello makes of the table.
LEMMA NeighborLearnOk ==
    ASSUME NEW nbrs, NEW w, Rows(nbrs, w), NEW m \in Node
    PROVE  Rows(NeighborLearn(nbrs, Devices(m)), w)
<1> DEFINE pairs == Devices(m)
           N == Len(pairs)
           start == [nbrs |-> nbrs, new |-> NewNeighbor]
           out == FoldLeft(LearnPair, start, pairs)
<1>1. N \in Nat \ {0} /\ DOMAIN pairs = 1..N
  BY DeviceAt
<1>2. NeighborLearn(nbrs, pairs) = AddNeighbor(out.nbrs, out.new)
  <2>1. pairs # <<>>
    BY <1>1
  <2> QED  BY Zenon, <2>1 DEF NeighborLearn
<1> HIDE DEF pairs, N
<1>3. PICK v : IsRun(v, "NeighborLearn", 0, start, pairs, N, out)
  <2>1. N \in Nat
    BY <1>1
  <2> QED  BY Zenon, <1>1, <2>1, LearnLoop
<1> HIDE DEF out
<1>4. /\ v[0] = start /\ v[N] = out
      /\ \A k \in 0..N - 1 : v[k + 1] = LearnPair(v[k], pairs[k + 1])
  BY <1>3 DEF IsRun, Turn
<1>5. LearnOk(start, m, w)
  <2>1. NewNeighbor \in Neighbor /\ DOMAIN NewNeighbor.tri = {} /\ ToSet(NewNeighbor.vq) = {}
    BY DEF NewNeighbor, Neighbor, ToSet
  <2> QED  BY <2>1 DEF LearnOk
<1> HIDE DEF start
<1> DEFINE T == {k \in 0..N : LearnOk(v[k], m, w) /\ (k > 0 => v[k].new.tri # <<>>)}
<1>6. 0 \in T
  BY <1>1, <1>4, <1>5
<1>7. ASSUME NEW k \in 0..N - 1, k \in T PROVE k + 1 \in T
  <2>1. k + 1 \in DOMAIN pairs /\ v[k + 1] = LearnPair(v[k], pairs[k + 1])
    BY <1>1, <1>4
  <2>2. LearnOk(v[k + 1], m, w) /\ v[k + 1].new.tri # <<>>
    BY <1>7, <2>1, LearnPairOk DEF pairs
  <2> QED  BY <1>1, <2>2
<1> HIDE DEF T
<1>8. N \in T
  <2>1. \A k \in 0..N : k \in T
    BY <1>1, <1>6, <1>7, Upto
  <2> QED  BY <1>1, <2>1
<1>9. LearnOk(out, m, w) /\ out.new.tri # <<>>
  BY <1>1, <1>4, <1>8 DEF T
<1>10. Row(out.new, w)
  <2>1. Belongs(out.new, m)
    BY <1>9 DEF LearnOk, Belongs
  <2> QED  BY <1>9, <2>1 DEF LearnOk, Row
<1>11. Rows(AddNeighbor(out.nbrs, out.new), w)
  BY <1>9, <1>10, AddNeighborOk DEF LearnOk
<1> QED  BY <1>2, <1>11 DEF pairs

\* What a data frame of node m makes of the table, and that its sender is found in it.
LEMMA SMNeighborsOk ==
    ASSUME NEW nbrs, NEW w, Table(nbrs, w), NEW m \in Node, NEW t \in Trinity,
           t.mac \in Macs(m), t.ip \in Ips(m)
    PROVE  /\ Rows(SMNeighbors(nbrs, t), w)
           /\ \E k \in DOMAIN SMNeighbors(nbrs, t) : HasIP(SMNeighbors(nbrs, t)[k], t.ip)
<1> DEFINE a == SearchIp(nbrs, t.ip)
           b == SearchMac(nbrs, t.mac)
           r == SMNeighbors(nbrs, t)
<1>1. nbrs \in Seq(Neighbor) /\ Rows(nbrs, w) /\ 0 \notin DOMAIN nbrs
      /\ \A k \in DOMAIN nbrs : nbrs[k] \in Neighbor /\ Row(nbrs[k], w)
  <2>1. nbrs \in Seq(Neighbor) /\ Rows(nbrs, w) /\ \A k \in DOMAIN nbrs : Row(nbrs[k], w)
    BY DEF Table, Rows, RowsOn
  <2>2. 0 \notin DOMAIN nbrs /\ \A k \in DOMAIN nbrs : nbrs[k] \in Neighbor
    BY <2>1
  <2> QED  BY <2>1, <2>2
<1>2. IpAt(nbrs, t.ip, a) /\ MacAt(nbrs, t.mac, b)
  BY <1>1, SearchIpIn, SearchMacIn
<1>3. r = CASE a # 0 /\ b = 0 -> [nbrs EXCEPT ![a].tri = AddSoftTrinity(@, t)]
            [] a = 0 /\ b # 0 -> [nbrs EXCEPT ![b].tri = AddTrinity(@, t)]
            [] a # 0 /\ b # 0 -> IF a = b THEN nbrs ELSE MergeNeighbors(nbrs, a, b, t)
            [] OTHER          -> AddNeighbor(nbrs, [NewNeighbor EXCEPT !.tri = AddTrinity(@, t)])
  BY DEF SMNeighbors
<1> SUFFICES Rows(r, w) /\ \E k \in DOMAIN r : HasIP(r[k], t.ip)
  OBVIOUS
<1> HIDE DEF a, b, r
<1>4. a # 0 => /\ a \in DOMAIN nbrs /\ HasIP(nbrs[a], t.ip) /\ Belongs(nbrs[a], m)
               /\ \A p \in ToSet(nbrs[a].vq) : <<p, m>> \in w
  <2> HAVE a # 0
  <2>1. a \in DOMAIN nbrs /\ HasIP(nbrs[a], t.ip)
    BY <1>2 DEF IpAt
  <2> QED  BY <1>1, <2>1, RowOwner
<1>5. b # 0 => /\ b \in DOMAIN nbrs /\ HasMac(nbrs[b], t.mac) /\ Belongs(nbrs[b], m)
               /\ \A p \in ToSet(nbrs[b].vq) : <<p, m>> \in w
  <2> HAVE b # 0
  <2>1. b \in DOMAIN nbrs /\ HasMac(nbrs[b], t.mac)
    BY <1>2 DEF MacAt
  <2> QED  BY <1>1, <2>1, RowOwner
<1>6. ASSUME NEW k \in DOMAIN nbrs, Belongs(nbrs[k], m), \A p \in ToSet(nbrs[k].vq) : <<p, m>> \in w,
             NEW tri, GrownTri(tri, nbrs[k].tri, t), r = Retri(nbrs, k, tri),
             \A l \in DOMAIN nbrs \ {k} : Clear(nbrs[l], t)
      PROVE  Rows(r, w) /\ \E l \in DOMAIN r : HasIP(r[l], t.ip)
  <2> DEFINE nbr == [nbrs[k] EXCEPT !.tri = tri]
  <2>1. nbr \in Neighbor /\ nbr.tri = tri /\ nbr.vq = nbrs[k].vq
    BY <1>1, <1>6 DEF Neighbor, GrownTri
  <2>2. r = [nbrs EXCEPT ![k] = nbr]
    BY <1>1, <1>6 DEF Retri
  <2> HIDE DEF nbr
  <2>3. \A i \in DOMAIN tri : tri[i].mac \in Macs(m) /\ tri[i].ip \in Ips(m) \cup {ZeroIp}
    BY <1>6 DEF Belongs, GrownTri
  <2>4. Row(nbr, w)
    <3>1. Belongs(nbr, m)
      BY <1>6, <2>1, <2>3 DEF Belongs, GrownTri
    <3> QED  BY <1>6, <2>1, <3>1 DEF Row
  <2>5. Rows(r, w)
    <3>1. \A l \in DOMAIN nbrs \ {k} : ToSet(nbrs[l].vq) \cap ToSet(nbr.vq) = {} /\ Row(nbrs[l], w)
      BY <1>1, <2>1 DEF Rows, RowsOn
    <3>2. ASSUME NEW l \in DOMAIN nbrs \ {k} PROVE ~ ShareAddress(nbrs[l], nbr)
      <4>1. ~ ShareAddress(nbrs[k], nbrs[l]) /\ Clear(nbrs[l], t)
        BY <1>1, <1>6 DEF Rows, RowsOn
      <4>2. \A i \in DOMAIN nbr.tri : nbr.tri[i] = t \/ \E j \in DOMAIN nbrs[k].tri : nbr.tri[i] = nbrs[k].tri[j]
        BY <1>6, <2>1 DEF GrownTri
      <4>3. Merges(nbr, nbrs[k], nbrs[k], t)
        BY <4>2 DEF Merges
      <4> QED  BY <4>1, <4>3, ApartMerge
    <3> QED  BY <1>1, <2>1, <2>2, <2>4, <3>1, <3>2, RowsReplace
  <2>6. r[k] = nbr /\ k \in DOMAIN r
    BY <1>1, <2>2
  <2>7. HasIP(nbr, t.ip)
    BY <1>6, <2>1 DEF HasIP, GrownTri
  <2> QED  BY <2>5, <2>6, <2>7
<1>12. a # 0 => \A l \in DOMAIN nbrs \ {a} : ~ HasIP(nbrs[l], t.ip)
  <2> SUFFICES ASSUME a # 0, NEW l \in DOMAIN nbrs \ {a} PROVE ~ HasIP(nbrs[l], t.ip)
    OBVIOUS
  <2>1. ~ ShareAddress(nbrs[a], nbrs[l]) /\ HasIP(nbrs[a], t.ip)
    BY <1>1, <1>4 DEF Rows, RowsOn
  <2>2. t.ip # ZeroIp
    BY DeviceAt DEF Ips, Device, ZeroIp
  <2> QED  BY <2>1, <2>2 DEF ShareAddress, HasIP
<1>13. b # 0 => \A l \in DOMAIN nbrs \ {b} : ~ HasMac(nbrs[l], t.mac)
  <2> SUFFICES ASSUME b # 0, NEW l \in DOMAIN nbrs \ {b} PROVE ~ HasMac(nbrs[l], t.mac)
    OBVIOUS
  <2>1. ~ ShareAddress(nbrs[b], nbrs[l]) /\ HasMac(nbrs[b], t.mac)
    BY <1>1, <1>5 DEF Rows, RowsOn
  <2> QED  BY <2>1 DEF ShareAddress, HasMac
<1>7. CASE a # 0 /\ b = 0
  <2> DEFINE old == nbrs[a].tri
             tri == Append(old, t)
  <2>1. r = Retri(nbrs, a, tri)
    BY <1>3, <1>7 DEF AddSoftTrinity, Retri
  <2>2. old \in Seq(Trinity) /\ a \in DOMAIN nbrs
    BY <1>1, <1>4, <1>7 DEF Neighbor
  <2> HIDE DEF old
  <2>3. /\ tri \in Seq(Trinity) /\ DOMAIN tri = 1..Len(old) + 1 /\ DOMAIN old = 1..Len(old) /\ Len(old) \in Nat
        /\ \A i \in 1..Len(old) + 1 : tri[i] = IF i = Len(old) + 1 THEN t ELSE old[i]
    BY <2>2, AppendIs
  <2> HIDE DEF tri
  <2>4. tri # <<>> /\ tri[Len(old) + 1] = t /\ Len(old) + 1 \in DOMAIN tri
    BY <2>3
  <2>5. \A i \in DOMAIN tri : i # Len(old) + 1 => i \in DOMAIN old /\ tri[i] = old[i]
    BY <2>3
  <2>6. \A i \in DOMAIN tri : tri[i] = t \/ \E j \in DOMAIN old : tri[i] = old[j]
    BY <2>4, <2>5
  <2>7. GrownTri(tri, nbrs[a].tri, t)
    BY <2>3, <2>4, <2>6 DEF old, GrownTri
  <2>8. \A l \in DOMAIN nbrs \ {a} : Clear(nbrs[l], t)
    BY <1>2, <1>7, <1>12 DEF MacAt, Clear
  <2> QED  BY <1>4, <1>6, <1>7, <2>1, <2>2, <2>7, <2>8
<1>8. CASE a = 0 /\ b # 0
  <2> DEFINE tri == AddTrinity(nbrs[b].tri, t)
  <2>1. r = Retri(nbrs, b, tri)
    BY <1>3, <1>8 DEF Retri
  <2>2. nbrs[b].tri \in Seq(Trinity) /\ b \in DOMAIN nbrs
    BY <1>1, <1>5, <1>8 DEF Neighbor
  <2>3. /\ tri \in Seq(Trinity) /\ tri # <<>>
        /\ \A i \in DOMAIN tri : tri[i] = t \/ \E j \in DOMAIN nbrs[b].tri : tri[i] = nbrs[b].tri[j]
        /\ \E i \in DOMAIN tri : tri[i] = t
    BY <2>2, AddTrinityIs
  <2> HIDE DEF tri
  <2>4. GrownTri(tri, nbrs[b].tri, t)
    BY <2>3 DEF GrownTri
  <2>5. \A l \in DOMAIN nbrs \ {b} : Clear(nbrs[l], t)
    BY <1>2, <1>8, <1>13 DEF IpAt, Clear
  <2> QED  BY <1>5, <1>6, <1>8, <2>1, <2>2, <2>4, <2>5
<1>9. CASE a # 0 /\ b # 0 /\ a = b
  <2>1. r = nbrs
    BY <1>3, <1>9
  <2> QED  BY <1>1, <1>4, <1>9, <2>1
<1>10. CASE a # 0 /\ b # 0 /\ a # b
  <2> DEFINE added == AddTrinity(nbrs[b].tri, t)
             tri == nbrs[a].tri \o added
             vq == nbrs[a].vq \o nbrs[b].vq
             nbr == [tri |-> tri, vq |-> vq]
             merged == [nbrs EXCEPT ![a] = nbr]
  <2>1. a \in DOMAIN nbrs /\ b \in DOMAIN nbrs
    BY <1>4, <1>5, <1>10
  <2>2. r = RemoveAt(merged, b)
    BY <1>3, <1>10 DEF MergeNeighbors
  <2>3. /\ nbrs[a].tri \in Seq(Trinity) /\ nbrs[a].vq \in Seq(Packet)
        /\ nbrs[b].tri \in Seq(Trinity) /\ nbrs[b].vq \in Seq(Packet)
    BY <1>1, <2>1 DEF Neighbor
  <2>4. /\ added \in Seq(Trinity) /\ added # <<>>
        /\ \A i \in DOMAIN added : added[i] = t \/ \E j \in DOMAIN nbrs[b].tri : added[i] = nbrs[b].tri[j]
    BY <2>3, AddTrinityIs
  <2> HIDE DEF added
  <2>5. tri \in Seq(Trinity) /\ ToSet(tri) = ToSet(nbrs[a].tri) \cup ToSet(added)
    BY <2>3, <2>4, ConcatIs
  <2>6. vq \in Seq(Packet) /\ ToSet(vq) = ToSet(nbrs[a].vq) \cup ToSet(nbrs[b].vq)
    BY <2>3, ConcatIs
  <2> HIDE DEF tri, vq
  <2>7. nbr \in Neighbor /\ nbr.tri = tri /\ nbr.vq = vq
    BY <2>5, <2>6 DEF Neighbor
  <2> HIDE DEF nbr
  <2>8. \A x \in ToSet(tri) : x.mac \in Macs(m) /\ x.ip \in Ips(m) \cup {ZeroIp}
    <3>1. \A x \in ToSet(nbrs[a].tri) : x.mac \in Macs(m) /\ x.ip \in Ips(m) \cup {ZeroIp}
      BY <1>4, <1>10 DEF Belongs, ToSet
    <3>2. \A x \in ToSet(added) : x.mac \in Macs(m) /\ x.ip \in Ips(m) \cup {ZeroIp}
      BY <1>5, <1>10, <2>4 DEF Belongs, ToSet
    <3> QED  BY <2>5, <3>1, <3>2
  <2>9. \A i \in DOMAIN tri : tri[i] \in ToSet(tri)
    BY DEF ToSet
  <2>10. tri # <<>> /\ HasIP(nbr, t.ip)
    <3>1. PICK i \in DOMAIN nbrs[a].tri : nbrs[a].tri[i].ip = t.ip
      BY <1>4, <1>10 DEF HasIP
    <3>2. nbrs[a].tri[i] \in ToSet(tri)
      BY <2>5, <3>1 DEF ToSet
    <3>3. PICK j \in DOMAIN tri : tri[j] = nbrs[a].tri[i]
      BY <3>2 DEF ToSet
    <3>4. tri # <<>>
      BY <3>3
    <3> QED  BY <2>7, <3>1, <3>3, <3>4 DEF HasIP
  <2>11. Row(nbr, w)
    <3>1. Belongs(nbr, m)
      BY <2>7, <2>8, <2>9, <2>10 DEF Belongs
    <3>2. \A p \in ToSet(nbr.vq) : <<p, m>> \in w
      BY <1>4, <1>5, <1>10, <2>6, <2>7
    <3> QED  BY <3>1, <3>2 DEF Row
  <2>12. /\ merged \in Seq(Neighbor) /\ DOMAIN merged = DOMAIN nbrs /\ merged[a] = nbr
         /\ \A k \in DOMAIN nbrs \ {a} : merged[k] = nbrs[k]
    BY <1>1, <2>1, <2>7
  <2> HIDE DEF merged
  <2>13. RowsOn(merged, DOMAIN merged \ {b}, w)
    <3>1. \A k \in DOMAIN merged \ {b} : Row(merged[k], w)
      BY <1>1, <2>11, <2>12
    <3>2. \A k \in DOMAIN nbrs \ {a, b} : ToSet(nbrs[k].vq) \cap ToSet(nbr.vq) = {}
      <4> TAKE k \in DOMAIN nbrs \ {a, b}
      <4>1. ToSet(nbrs[k].vq) \cap ToSet(nbrs[a].vq) = {} /\ ToSet(nbrs[k].vq) \cap ToSet(nbrs[b].vq) = {}
        BY <1>1, <2>1 DEF Rows, RowsOn
      <4> QED  BY <2>6, <2>7, <4>1
    <3>3. \A k, l \in DOMAIN merged \ {b} : k # l => ToSet(merged[k].vq) \cap ToSet(merged[l].vq) = {}
      <4> TAKE k, l \in DOMAIN merged \ {b}
      <4> HAVE k # l
      <4>1. CASE k = a
        BY <2>12, <3>2, <4>1
      <4>2. CASE l = a
        BY <2>12, <3>2, <4>2
      <4>3. CASE k # a /\ l # a
        BY <1>1, <2>12, <4>3 DEF Rows, RowsOn
      <4> QED  BY <4>1, <4>2, <4>3
    <3>4. \A k \in DOMAIN nbrs \ {a, b} : ~ ShareAddress(nbrs[k], nbr)
      <4> TAKE k \in DOMAIN nbrs \ {a, b}
      <4>1. ~ ShareAddress(nbrs[a], nbrs[k]) /\ ~ ShareAddress(nbrs[b], nbrs[k])
        BY <1>1, <2>1 DEF Rows, RowsOn
      <4>2. Clear(nbrs[k], t)
        BY <1>10, <1>12, <1>13 DEF Clear
      <4>3. \A i \in DOMAIN tri : tri[i] \in ToSet(nbrs[a].tri) \/ tri[i] \in ToSet(added)
        BY <2>5, <2>9
      <4>4. ASSUME NEW i \in DOMAIN nbr.tri
            PROVE  \/ nbr.tri[i] = t
                   \/ \E j \in DOMAIN nbrs[a].tri : nbr.tri[i] = nbrs[a].tri[j]
                   \/ \E l \in DOMAIN nbrs[b].tri : nbr.tri[i] = nbrs[b].tri[l]
        <5>1. CASE tri[i] \in ToSet(nbrs[a].tri)
          <6>1. \E j \in DOMAIN nbrs[a].tri : tri[i] = nbrs[a].tri[j]
            BY <5>1 DEF ToSet
          <6> QED  BY <2>7, <6>1
        <5>2. CASE tri[i] \in ToSet(added)
          <6>1. PICK j \in DOMAIN added : tri[i] = added[j]
            BY <5>2 DEF ToSet
          <6> QED  BY <2>4, <2>7, <6>1
        <5> QED  BY <2>7, <4>3, <5>1, <5>2
      <4>5. Merges(nbr, nbrs[a], nbrs[b], t)
        BY <4>4 DEF Merges
      <4> QED  BY <4>1, <4>2, <4>5, ApartMerge
    <3>5. \A k, l \in DOMAIN merged \ {b} : k # l => ~ ShareAddress(merged[k], merged[l])
      <4> TAKE k, l \in DOMAIN merged \ {b}
      <4> HAVE k # l
      <4>1. CASE k = a
        BY <2>12, <3>4, <4>1, ShareMutual
      <4>2. CASE l = a
        BY <2>12, <3>4, <4>2
      <4>3. CASE k # a /\ l # a
        BY <1>1, <2>12, <4>3 DEF Rows, RowsOn
      <4> QED  BY <4>1, <4>2, <4>3
    <3> QED  BY <3>1, <3>3, <3>5 DEF RowsOn
  <2>14. /\ Rows(RemoveAt(merged, b), w)
         /\ \A j \in DOMAIN merged \ {b} : \E i \in DOMAIN RemoveAt(merged, b) : RemoveAt(merged, b)[i] = merged[j]
    <3>1. merged \in Seq(Neighbor) /\ b \in DOMAIN merged
      BY <2>1, <2>12
    <3> QED  BY <2>13, <3>1, RowsRemove
  <2>15. \E i \in DOMAIN r : r[i] = merged[a]
    BY <1>10, <2>1, <2>2, <2>12, <2>14
  <2> QED  BY <2>2, <2>10, <2>12, <2>14, <2>15
<1>11. CASE a = 0 /\ b = 0
  <2> DEFINE tri == AddTrinity(<<>>, t)
             nbr == [NewNeighbor EXCEPT !.tri = tri]
  <2>1. r = AddNeighbor(nbrs, nbr)
    BY <1>3, <1>11 DEF NewNeighbor
  <2>2. /\ tri \in Seq(Trinity) /\ tri # <<>>
        /\ \A i \in DOMAIN tri : tri[i] = t
        /\ \E i \in DOMAIN tri : tri[i] = t
    <3>1. <<>> \in Seq(Trinity) /\ \A j \in DOMAIN <<>> : FALSE
      OBVIOUS
    <3> QED  BY <3>1, AddTrinityIs
  <2> HIDE DEF tri
  <2>3. nbr \in Neighbor /\ nbr.tri = tri /\ nbr.vq = <<>> /\ ToSet(nbr.vq) = {}
    <3>1. nbr = [tri |-> tri, vq |-> <<>>]
      BY DEF NewNeighbor
    <3>2. ToSet(<<>>) = {}
      BY DEF ToSet
    <3>3. nbr \in Neighbor
      <4>1. <<>> \in Seq(Packet) /\ tri \in Seq(Trinity)
        BY <2>2
      <4> QED  BY <3>1, <4>1 DEF Neighbor
    <3> QED  BY <3>1, <3>2, <3>3
  <2> HIDE DEF nbr
  <2>4. Row(nbr, w)
    <3>1. Belongs(nbr, m)
      BY <2>2, <2>3 DEF Belongs
    <3> QED  BY <2>3, <3>1 DEF Row
  <2>5. \A k \in DOMAIN nbrs : ~ ShareAddress(nbr, nbrs[k])
    <3>1. \A k \in DOMAIN nbrs : ~ HasIP(nbrs[k], t.ip) /\ ~ HasMac(nbrs[k], t.mac)
      BY <1>2, <1>11 DEF IpAt, MacAt
    <3> QED  BY <2>2, <2>3, <3>1 DEF ShareAddress
  <2>6. r = Append(nbrs, nbr)
    BY <2>1, <2>5 DEF AddNeighbor
  <2>7. Rows(r, w) /\ \E k \in DOMAIN r : r[k] = nbr
    BY <1>1, <2>3, <2>4, <2>5, <2>6, RowsAppend
  <2>8. HasIP(nbr, t.ip)
    BY <2>2, <2>3 DEF HasIP
  <2> QED  BY <2>7, <2>8
<1> QED  BY <1>7, <1>8, <1>9, <1>10, <1>11

-----------------------------------------------------------------------------
(* The entries that wait in a queue *)

\* What waits but for one id still waits in a queue that lost that one only.
LEMMA AwaitedKept ==
    ASSUME NEW q, NEW r, NEW pid,
           \A i \in DOMAIN q : q[i].pid # pid => \E j \in DOMAIN r : r[j] = q[i]
    PROVE  \A p, m : p # pid /\ <<p, m>> \in Awaited(q) => <<p, m>> \in Awaited(r)
BY DEF Awaited

\* What waits still waits in a queue with all the unicast entries.
LEMMA AwaitedMore ==
    ASSUME NEW q, NEW r, \A i \in DOMAIN q : Unicast(q[i]) => \E j \in DOMAIN r : r[j] = q[i]
    PROVE  Awaited(q) \subseteq Awaited(r)
BY DEF Awaited

\* A unicast entry of a queue is waited for.
LEMMA AwaitedNew ==
    ASSUME NEW r, NEW e, Unicast(e), \E i \in DOMAIN r : r[i] = e
    PROVE  <<e.pid, Owner[e.dest]>> \in Awaited(r)
BY DEF Awaited

\* What a queue accepts is not waited for yet.
LEMMA AwaitedNot ==
    ASSUME NEW q, NEW e, Accepts(q, e)
    PROVE  \A m : <<e.pid, m>> \notin Awaited(q)
BY DEF Awaited, Accepts, Pids

-----------------------------------------------------------------------------
(* Sound states of a node *)

\* What can be sent can be sent by a node that has and believes more.
LEMMA SendableMono ==
    ASSUME NEW n, NEW K, NEW L, K \subseteq L, NEW I, NEW J, I \subseteq J
    PROVE  Sendable(n, K, I) \subseteq Sendable(n, L, J)
<1> SUFFICES ASSUME NEW f \in DataSendable(n, K, I) PROVE f \in DataSendable(n, L, J)
  BY DEF Sendable
<1>1. IdsOk(f.ids, f.pkt, I) /\ HopsOk(n, f.ids) /\ AddrOk(n, f.ids, f.dst)
  BY DEF DataSendable
<1>2. IdsOk(f.ids, f.pkt, J)
  <2>1. \A pid, m : Believes(I, pid, m) => Believes(J, pid, m)
    BY DEF Believes
  <2> QED  BY <1>1, <2>1 DEF IdsOk
<1>3. f \in [type : {"data"}, src : Macs(n), dst : Int, ip : {GetIP(n)}, ids : SUBSET Ids(K),
             pkt : SUBSET STRING, recps : SUBSET K, acks : SUBSET [ip : Nat, pid : K]]
  BY DEF DataSendable
<1>4. Ids(K) \subseteq Ids(L) /\ [ip : Nat, pid : K] \subseteq [ip : Nat, pid : L]
  BY DEF Ids
<1>5. f \in [type : {"data"}, src : Macs(n), dst : Int, ip : {GetIP(n)}, ids : SUBSET Ids(L),
             pkt : SUBSET STRING, recps : SUBSET L, acks : SUBSET [ip : Nat, pid : L]]
  BY <1>3, <1>4
<1> QED  BY <1>1, <1>2, <1>5 DEF DataSendable

\* A handler may end in a handler that adds nothing.
LEMMA MovesOn ==
    ASSUME NEW V, NEW n, NEW s, NEW t, NEW u, NEW got, NEW news, Moves(n, s, t, got, news)
    PROVE  /\ Moves(n, t, u, {}, {}) => Moves(n, s, u, got, news)
           /\ Fine(n, V, t, u, {}, {}) => Fine(n, V, s, u, got, news)
BY DEF Moves, Fine

\* A failed assertion ends the program.
LEMMA Aborted ==
    ASSUME NEW s, Shape(s), NEW why, why # None
    PROVE  ~ Running(Abort(s, why))
BY DEF Shape, Abort, Running

\* A change of the neighbor table that does not end the program.
LEMMA NeighborsSet ==
    ASSUME NEW s, Shape(s), Running(s), NEW nbrs, Running(WithNeighbors(s, nbrs))
    PROVE  WithNeighbors(s, nbrs) = [s EXCEPT !.nbrs = nbrs] /\ ~ DuplicateVirtualEntry(nbrs)
<1>1. ~ DuplicateVirtualEntry(nbrs)
  <2> SUFFICES ASSUME DuplicateVirtualEntry(nbrs) PROVE FALSE
    OBVIOUS
  <2>1. WithNeighbors(s, nbrs) = Abort(s, "duplicate virtual queue entry")
    BY Zenon DEF WithNeighbors
  <2>2. "duplicate virtual queue entry" # None
    BY Zenon DEF None
  <2>3. ~ Running(Abort(s, "duplicate virtual queue entry"))
    BY Zenon, <2>2, Aborted
  <2> QED  BY Zenon, <2>1, <2>3
<1> QED  BY <1>1 DEF WithNeighbors

\* A frame goes to the MAC queue of a device.
LEMMA Forwarded ==
    ASSUME NEW V, NEW n, NEW s, Sound(n, V, s), NEW i \in DOMAIN Devices(n),
           NEW f \in Sendable(n, V, s.info), f.src = Devices(n)[i].mac
    PROVE  /\ Fine(n, V, s, DoSendEnd(ForwardDown(s, i, f)), {}, {})
           /\ Timed(DoSendEnd(ForwardDown(s, i, f)))
<1> DEFINE t == DoSendEnd(ForwardDown(s, i, f))
           S == Sendable(n, V, s.info)
           line == s.mac[i]
<1>1. t = [s EXCEPT !.mac = [s.mac EXCEPT ![i] = Append(line, f)], !.timer = TRUE]
  BY DEF DoSendEnd, ForwardDown, Sound, Shape
<1> HIDE DEF t
<1>2. /\ Shape(t) /\ t.queue = s.queue /\ t.rtq = s.rtq /\ t.nbrs = s.nbrs /\ t.pool = s.pool
      /\ t.info = s.info /\ t.acks = s.acks /\ t.recps = s.recps /\ t.abort = s.abort
      /\ t.mac = [s.mac EXCEPT ![i] = Append(line, f)] /\ t.timer
  BY <1>1 DEF Sound, Shape
<1>3. s.mac \in [DOMAIN Devices(n) -> Seq(S)] /\ line \in Seq(S)
  BY DEF Sound
<1> HIDE DEF S, line
<1>4. Append(line, f) \in Seq(S) /\ ToSet(line) \subseteq ToSet(Append(line, f))
      /\ ToSet(Append(line, f)) = {f} \cup ToSet(line)
  BY <1>3, AppendIs DEF S
<1>5. t.mac \in [DOMAIN Devices(n) -> Seq(S)]
  BY <1>2, <1>3, <1>4
<1>6. \A j \in DOMAIN Devices(n) : t.mac[j] = IF j = i THEN Append(line, f) ELSE s.mac[j]
  BY <1>2, <1>3
<1>7. \A j \in DOMAIN Devices(n) : ToSet(s.mac[j]) \subseteq ToSet(t.mac[j])
  BY <1>4, <1>6 DEF line
<1>11. \A j \in DOMAIN Devices(n) : FromDevice(n, j, t.mac[j])
  BY <1>4, <1>6 DEF Sound, FromDevice, line
<1>8. Sound(n, V, t)
  BY <1>2, <1>5, <1>11 DEF Sound, Running, S
<1>9. Moves(n, s, t, {}, {})
  BY <1>2, <1>7 DEF Moves, Timed
<1>10. Timed(t)
  BY <1>2 DEF Timed
<1> QED  BY <1>8, <1>9, <1>10 DEF Fine, t

\* DoSendEnd keeps a node sound.
LEMMA TimerSet ==
    ASSUME NEW V, NEW n, NEW s, Sound(n, V, s)
    PROVE  Fine(n, V, s, DoSendEnd(s), {}, {})
<1> DEFINE t == DoSendEnd(s)
<1>1. t = [s EXCEPT !.timer = TRUE]
  BY DEF DoSendEnd
<1> HIDE DEF t
<1>2. /\ Shape(t) /\ t.queue = s.queue /\ t.rtq = s.rtq /\ t.nbrs = s.nbrs /\ t.pool = s.pool
      /\ t.info = s.info /\ t.acks = s.acks /\ t.recps = s.recps /\ t.abort = s.abort
      /\ t.mac = s.mac /\ t.timer
  BY <1>1 DEF Sound, Shape
<1>3. Sound(n, V, t)
  BY <1>2 DEF Sound, Running
<1>4. Moves(n, s, t, {}, {})
  BY <1>2 DEF Moves, Timed
<1> QED  BY <1>3, <1>4 DEF Fine, t

-----------------------------------------------------------------------------
(* Encode *)

\* Packets are sets of natives.
LEMMA PacketIs == Packet \subseteq SUBSET STRING
BY TrafficAssumption DEF Packet, Request

\* Index names a device on the channel.
LEMMA IndexIs ==
    ASSUME NEW n \in Node, NEW c, Index(n, c) # 0
    PROVE  Index(n, c) \in DOMAIN Devices(n) /\ Devices(n)[Index(n, c)].ch = c
<1> DEFINE I == {i \in 1..Len(Devices(n)) : Devices(n)[i].ch = c}
<1>1. Index(n, c) = IF I # {} THEN Min(I) ELSE 0
  BY Zenon DEF Index, SelectInSeq
<1>2. DOMAIN Devices(n) = 1..Len(Devices(n)) /\ Len(Devices(n)) \in Nat
  BY DeviceAt
<1>3. I \subseteq Nat
  BY <1>2
<1>4. I # {} /\ Min(I) \in I
  BY <1>1, <1>3, MinIn
<1> QED  BY <1>1, <1>2, <1>4

\* Of some channels of a node one has the highest number.
LEMMA HighestChannel ==
    ASSUME NEW n \in Node, NEW C, C # {},
           \A c \in C : \E i \in DOMAIN Devices(n) : Devices(n)[i].ch = c
    PROVE  \E c \in C : \A d \in C : d <= c
<1> DEFINE N == Len(Devices(n))
           ch == [i \in 1..N |-> Devices(n)[i].ch]
           T == {k \in 0..N : \E b \in Nat : \A i \in 1..k : ch[i] <= b}
<1>1. N \in Nat /\ DOMAIN Devices(n) = 1..N
  BY DeviceAt
<1>2. ch \in [1..N -> Nat]
  BY <1>1, DeviceAt DEF Device
<1>3. \A c \in C : \E i \in 1..N : ch[i] = c
  BY <1>1
<1> HIDE DEF N, ch
<1>4. 0 \in T
  BY <1>1
<1>5. ASSUME NEW k \in 0..N - 1, k \in T PROVE k + 1 \in T
  <2>1. PICK b \in Nat : \A i \in 1..k : ch[i] <= b
    BY <1>5
  <2>2. k + 1 \in 1..N /\ k + 1 \in 0..N /\ ch[k + 1] \in Nat
    BY <1>1, <1>2
  <2>3. \A i \in 1..k + 1 : i = k + 1 \/ i \in 1..k
    OBVIOUS
  <2> DEFINE d == IF b <= ch[k + 1] THEN ch[k + 1] ELSE b
  <2>4. d \in Nat /\ b <= d /\ ch[k + 1] <= d
    BY <2>2
  <2> HIDE DEF d
  <2>5. \A i \in 1..k + 1 : ch[i] <= d
    <3> TAKE i \in 1..k + 1
    <3>1. CASE i = k + 1
      BY <2>4, <3>1
    <3>2. CASE i \in 1..k
      <4>1. ch[i] <= b /\ ch[i] \in Nat
        BY <1>1, <1>2, <2>1, <3>2
      <4> QED  BY <2>4, <4>1
    <3> QED  BY <2>3, <3>1, <3>2
  <2> QED  BY <2>2, <2>4, <2>5
<1> HIDE DEF T
<1>6. N \in T
  <2>1. \A k \in 0..N : k \in T
    BY <1>1, <1>4, <1>5, Upto
  <2> QED  BY <1>1, <2>1
<1> DEFINE U == {b \in Nat : \A c \in C : c <= b}
<1>7. U # {} /\ U \subseteq Nat
  BY <1>3, <1>6 DEF T
<1>8. C \subseteq Nat
  BY <1>2, <1>3
<1> HIDE DEF U
<1>9. PICK b \in U : \A d \in U : b <= d
  BY <1>7, LeastElement
<1>10. b \in Nat /\ \A c \in C : c <= b
  BY <1>9 DEF U
<1>11. b \in C
  <2> SUFFICES ASSUME b \notin C PROVE FALSE
    OBVIOUS
  <2>1. \A c \in C : c \in Nat /\ c <= b /\ c # b
    BY <1>8, <1>10
  <2>2. b - 1 \in Nat /\ \A c \in C : c <= b - 1
    BY <1>10, <2>1
  <2>3. b - 1 \in U
    BY <2>2 DEF U
  <2>4. b <= b - 1
    BY <1>9, <2>3
  <2> QED  BY <1>10, <2>4
<1> QED  BY <1>10, <1>11

\* QueueEntry names the entry with the id.
LEMMA QueueEntryIs ==
    ASSUME NEW V, NEW s, s.queue \in Seq(Entry), Distinct(s.queue), NEW j \in DOMAIN s.queue
    PROVE  QueueEntry(s, s.queue[j].pid) = s.queue[j]
<1> DEFINE q == s.queue
           pid == q[j].pid
           I == {i \in 1..Len(q) : q[i].pid = pid}
<1>1. QueueEntry(s, pid) = q[IF I # {} THEN Min(I) ELSE 0]
  BY Zenon DEF QueueEntry, SelectInSeq
<1>2. DOMAIN q = 1..Len(q) /\ Len(q) \in Nat
  OBVIOUS
<1>3. I # {} /\ I \subseteq Nat
  BY <1>2
<1>4. Min(I) \in I
  BY <1>3, MinIn
<1>5. Min(I) = j
  BY <1>2, <1>4 DEF Distinct
<1> QED  BY <1>1, <1>3, <1>5

\* What IP asked for goes to a next hop.
LEMMA HopOf ==
    ASSUME NEW n, NEW e, Requested(n, e) PROVE e.dest \in NextHops(n)
BY DEF Requested, NextHops

\* The front of a virtual queue is the id of an entry of the output queue.
LEMMA FrontOf ==
    ASSUME NEW V, NEW n, NEW s, Sound(n, V, s), NEW i \in DOMAIN s.nbrs, s.nbrs[i].vq # <<>>
    PROVE  /\ s.nbrs[i] \in Neighbor /\ Head(s.nbrs[i].vq) \in ToSet(s.nbrs[i].vq)
           /\ \E m \in Node, j \in DOMAIN s.queue : FrontIs(s, s.nbrs[i], m, j)
<1> DEFINE nbr == s.nbrs[i]
           pid == Head(nbr.vq)
<1>1. s.nbrs \in Seq(Neighbor) /\ Row(nbr, Awaited(s.queue))
      /\ s.queue \in Seq(Entry) /\ Distinct(s.queue)
  BY DEF Sound, Table, Rows, RowsOn, QueueOk
<1>2. nbr \in Neighbor /\ nbr.vq \in Seq(Packet) /\ nbr.vq # <<>>
  <2>1. nbr \in Neighbor
    BY <1>1
  <2> QED  BY <2>1 DEF Neighbor
<1>3. pid \in ToSet(nbr.vq)
  BY <1>2, TailIs
<1>4. PICK m \in Node : Belongs(nbr, m) /\ \A p \in ToSet(nbr.vq) : <<p, m>> \in Awaited(s.queue)
  BY <1>1 DEF Row
<1>5. PICK j \in DOMAIN s.queue : Unicast(s.queue[j]) /\ <<s.queue[j].pid, Owner[s.queue[j].dest]>> = <<pid, m>>
  <2>1. <<pid, m>> \in Awaited(s.queue)
    BY <1>3, <1>4
  <2> QED  BY <2>1 DEF Awaited
<1>6. QueueEntry(s, s.queue[j].pid) = s.queue[j]
  BY <1>1, QueueEntryIs
<1>7. FrontIs(s, nbr, m, j)
  BY <1>4, <1>5, <1>6 DEF FrontIs
<1> QED  BY <1>2, <1>3, <1>7

\* A native that moves from the output queue to the retransmission queue, or to
\* nowhere, leaves the node sound.
LEMMA TakenSound ==
    ASSUME NEW V, NEW n, NEW s, Sound(n, V, s), NEW i \in DOMAIN s.nbrs, s.nbrs[i].vq # <<>>,
           NEW m \in Node, NEW j \in DOMAIN s.queue, FrontIs(s, s.nbrs[i], m, j),
           NEW R, R = s.rtq \/ (~ HitMax(s.queue[j]) /\ R = EnqueueBack(s.rtq, s.queue[j])),
           NEW t, t = Taken(s, i, j, R)
    PROVE  /\ Sound(n, V, t) /\ t.pool = s.pool /\ t.info = s.info /\ t.mac = s.mac
           /\ DOMAIN t.nbrs = DOMAIN s.nbrs
           /\ \A k \in DOMAIN t.queue : \E l \in DOMAIN s.queue :
                 t.queue[k] = s.queue[l] /\ s.queue[l].pid # s.queue[j].pid
<1> DEFINE e == s.queue[j]
           Q == Erase(s.queue, e.pid)
           B == [s.nbrs EXCEPT ![i].vq = Tail(s.nbrs[i].vq)]
           K == V \cap Packet
<1>1. /\ Shape(t) /\ t.queue = Q /\ t.rtq = R /\ t.nbrs = B /\ t.pool = s.pool
      /\ t.info = s.info /\ t.acks = s.acks /\ t.recps = s.recps /\ t.abort = s.abort
      /\ t.mac = s.mac
  BY DEF Sound, Shape, Taken
<1>2. /\ s.queue \in Seq(Entry) /\ Distinct(s.queue) /\ QueueOk(n, s.queue, K) /\ RtqOk(n, s.rtq, K)
      /\ Table(s.nbrs, Awaited(s.queue)) /\ s.nbrs \in Seq(Neighbor)
  BY DEF Sound, QueueOk, Table, Rows
<1>3. /\ Thinned(s.queue, Q)
      /\ \A x \in DOMAIN s.queue : s.queue[x].pid # e.pid => \E y \in DOMAIN Q : Q[y] = s.queue[x]
      /\ \A y \in DOMAIN Q : \E x \in DOMAIN s.queue : Q[y] = s.queue[x] /\ s.queue[x].pid # e.pid
  BY <1>2, EraseThins
<1> HIDE DEF Q
<1>4. QueueOk(n, Q, K)
  BY <1>2, <1>3, ThinnedOk
<1>5. RtqOk(n, R, K)
  <2>1. CASE R = s.rtq
    BY <1>2, <2>1
  <2>2. CASE ~ HitMax(e) /\ R = EnqueueBack(s.rtq, e) /\ Accepts(s.rtq, e)
    <3>1. QueueOk(n, s.rtq, K) /\ e \in Entry /\ EntryOk(n, K, e) /\ Unicast(e)
      <4>1. e \in Entry
        BY <1>2
      <4>2. QueueOk(n, s.rtq, K)
        BY <1>2 DEF RtqOk
      <4>3. EntryOk(n, K, e)
        BY <1>2 DEF QueueOk
      <4> QED  BY <4>1, <4>2, <4>3 DEF FrontIs
    <3>2. e.retry < MaxRetry
      <4>1. e.retry \in 0..MaxRetry /\ e.retry # MaxRetry
        BY <2>2, <3>1 DEF Entry, HitMax
      <4>2. MaxRetry \in Nat
        BY QueueAssumption
      <4> QED  BY <4>1, <4>2
    <3>3. Joins(s.rtq, e, R)
      BY <2>2 DEF EnqueueBack, Joins
    <3>4. QueueOk(n, R, K) /\ \A x \in DOMAIN R : R[x] = e \/ \E y \in DOMAIN s.rtq : R[x] = s.rtq[y]
      BY <2>2, <3>1, <3>3, Enqueued
    <3>5. \A x \in DOMAIN R : Unicast(R[x]) /\ R[x].retry < MaxRetry
      BY <1>2, <3>1, <3>2, <3>4 DEF RtqOk
    <3> QED  BY <3>4, <3>5 DEF RtqOk
  <2>3. CASE R = EnqueueBack(s.rtq, e) /\ ~ Accepts(s.rtq, e)
    BY <1>2, <2>3 DEF EnqueueBack
  <2> QED  BY <2>1, <2>2, <2>3
<1>6. Table(B, Awaited(Q))
  <2> DEFINE vq == s.nbrs[i].vq
             rest == Tail(vq)
  <2>1. s.nbrs[i] \in Neighbor /\ IsInjective(vq) /\ vq \in Seq(Packet) /\ vq # <<>>
    <3>1. s.nbrs[i] \in Neighbor /\ IsInjective(vq)
      BY <1>2 DEF Table
    <3> QED  BY <3>1 DEF Neighbor
  <2>2. Head(vq) = e.pid /\ e.pid \in ToSet(vq)
    BY <2>1, TailIs DEF FrontIs
  <2>3. rest \in Seq(Packet) /\ IsInjective(rest) /\ ToSet(rest) = ToSet(vq) \ {e.pid}
    BY <2>1, <2>2, TailInjective, TailIs
  <2>4. \A p : \A x \in Node : p # e.pid /\ <<p, x>> \in Awaited(s.queue) => <<p, x>> \in Awaited(Q)
    BY ONLY <1>3, AwaitedKept
  <2> HIDE DEF rest
  <2>5. Table([s.nbrs EXCEPT ![i].vq = rest], Awaited(Q))
    BY <1>2, <2>2, <2>3, <2>4, VqPop
  <2> QED  BY <2>5 DEF rest
<1>7. Sound(n, V, t)
  BY <1>1, <1>4, <1>5, <1>6 DEF Sound, Running
<1>8. DOMAIN B = DOMAIN s.nbrs
  OBVIOUS
<1> QED  BY <1>1, <1>3, <1>7, <1>8

\* Every address has an owner.
LEMMA OwnerIn ==
    ASSUME NEW mac \in Address
    PROVE  Owner[mac] \in Node /\ mac \in Macs(Owner[mac])
<1>1. PICK m \in Node : mac \in Macs(m)
  BY DEF Address
<1>2. Owner[mac] = m
  BY <1>1, OwnerOf
<1> QED  BY <1>1, <1>2

\* One more native in the frame.
LEMMA BuiltMore ==
    ASSUME NEW n, NEW V, NEW s, NEW entry, NEW acc, Built(n, V, s, entry, acc),
           NEW e, e.dest \in Address, e.pid \in V \cap Packet, e.dest \in NextHops(n),
           \A id \in acc.ids : id.mac # e.dest, e.pid \notin acc.natives,
           NEW g \in Address, Owner[g] = Owner[e.dest],
           \A h \in acc.nexthops : <<e.pid, h>> \in s.info,
           \A p \in acc.natives : <<p, g>> \in s.info,
           NEW r, r.first = acc.first, r.nexthops = acc.nexthops \cup {g},
           r.natives = acc.natives \cup {e.pid}, r.ids = acc.ids \cup {First(e)},
           r.pkt = XOR(entry.pid, e.pid)
    PROVE  Built(n, V, s, entry, r)
<1> DEFINE new == First(e)
<1>1. new.mac = e.dest /\ new.pid = e.pid /\ new \notin acc.ids
      /\ new \in [mac : Address, pid : V \cap Packet]
  BY DEF First
<1>2. /\ acc.first = entry /\ acc.nexthops \subseteq Address
      /\ IsFiniteSet(acc.ids) /\ acc.ids \subseteq [mac : Address, pid : V \cap Packet]
      /\ First(entry) \in acc.ids /\ acc.natives = {id.pid : id \in acc.ids}
      /\ \A id \in acc.ids : \E h \in acc.nexthops : Owner[h] = Owner[id.mac]
      /\ \A x, y \in acc.ids : x # y => x.pid # y.pid /\ Believes(s.info, x.pid, Owner[y.mac])
  BY DEF Built, Natives
<1> DEFINE first == First(entry)
<1>3. first.pid = entry.pid
  BY DEF First
<1>4. r.ids = acc.ids \cup {new}
  OBVIOUS
<1> HIDE DEF new, first
<1>5. IsFiniteSet(r.ids)
  BY <1>2, <1>4, FS_AddElement
<1>6. r.natives = Natives(r)
  BY <1>1, <1>2, <1>4 DEF Natives
<1>7. \A id \in r.ids : \E h \in r.nexthops : Owner[h] = Owner[id.mac]
  <2>1. \A id \in acc.ids : \E h \in r.nexthops : Owner[h] = Owner[id.mac]
    BY <1>2
  <2>2. Owner[g] = Owner[new.mac] /\ g \in r.nexthops
    BY <1>1
  <2> QED  BY <1>4, <2>1, <2>2
<1>8. ASSUME NEW x \in acc.ids
      PROVE  /\ x.pid # new.pid
             /\ Believes(s.info, x.pid, Owner[new.mac]) /\ Believes(s.info, new.pid, Owner[x.mac])
  <2>1. x.pid # new.pid
    BY <1>1, <1>2
  <2>2. Believes(s.info, x.pid, Owner[new.mac])
    <3>1. <<x.pid, g>> \in s.info /\ g \in Macs(Owner[g])
      BY <1>2, OwnerIn
    <3> QED  BY <1>1, <3>1 DEF Believes
  <2>3. Believes(s.info, new.pid, Owner[x.mac])
    <3>1. PICK h \in acc.nexthops : Owner[h] = Owner[x.mac]
      BY <1>2
    <3>2. <<e.pid, h>> \in s.info /\ h \in Address
      BY <1>2
    <3>3. h \in Macs(Owner[h])
      BY <3>2, OwnerIn
    <3> QED  BY <1>1, <3>1, <3>2, <3>3 DEF Believes
  <2> QED  BY <2>1, <2>2, <2>3
<1>9. \A x, y \in r.ids : x # y => x.pid # y.pid /\ Believes(s.info, x.pid, Owner[y.mac])
  <2> TAKE x, y \in r.ids
  <2> HAVE x # y
  <2>1. CASE x = new
    <3>1. y \in acc.ids
      BY <1>4, <2>1
    <3> QED  BY <1>8, <2>1, <3>1
  <2>2. CASE y = new
    <3>1. x \in acc.ids
      BY <1>4, <2>2
    <3> QED  BY <1>8, <2>2, <3>1
  <2>3. CASE x # new /\ y # new
    <3>1. x \in acc.ids /\ y \in acc.ids
      BY <1>4, <2>3
    <3> QED  BY <1>2, <3>1
  <2> QED  BY <2>1, <2>2, <2>3
<1>10. r.ids # {first}
  <2>1. first \in acc.ids /\ new \in r.ids
    BY <1>2, <1>4 DEF first
  <2> QED  BY <1>1, <2>1
<1>11. \A y \in r.ids : y # first /\ r.ids = {first, y} => r.pkt = XOR(entry.pid, y.pid)
  <2> TAKE y \in r.ids
  <2> HAVE y # first /\ r.ids = {first, y}
  <2>1. new \in {first, y} /\ new # first
    BY <1>1, <1>2, <1>4 DEF first
  <2>2. y = new
    BY <2>1
  <2> QED  BY <1>1, <2>2
<1>12. r.ids \subseteq [mac : Address, pid : V \cap Packet] /\ r.nexthops \subseteq Address
       /\ first \in r.ids /\ r.first = entry
  BY <1>1, <1>2, <1>4 DEF first
<1>14. HopsOk(n, r.ids)
  <2>1. HopsOk(n, acc.ids) /\ \A id \in acc.ids : id.mac # new.mac
    BY <1>1 DEF Built
  <2> QED  BY <1>1, <1>4, <2>1 DEF HopsOk
<1>13. r.pkt \in SUBSET STRING
  <2>1. entry.pid \in SUBSET STRING /\ e.pid \in SUBSET STRING
    BY <1>1, <1>2, <1>3, PacketIs DEF first
  <2> QED  BY <2>1 DEF XOR
<1> QED  BY <1>5, <1>6, <1>7, <1>9, <1>10, <1>11, <1>12, <1>13, <1>14 DEF Built, first

\* TakeNative keeps the invariant of the loop.
LEMMA TakeNativeOk ==
    ASSUME NEW V, NEW n \in Node, NEW s, NEW entry, NEW acc, EncodeOk(n, V, s, entry, acc), Running(acc.s),
           NEW i \in DOMAIN acc.s.nbrs, acc.s.nbrs[i].vq # <<>>, Codable(acc, acc.s.nbrs[i]),
           NEW usable, usable # {}, \A c \in usable : Index(n, c) \in DOMAIN Devices(n)
    PROVE  EncodeOk(n, V, s, entry, TakeNative(n, acc, i, usable))
<1> DEFINE nbr == acc.s.nbrs[i]
           pid == Head(nbr.vq)
           e == QueueEntry(acc.s, pid)
           last == CHOOSE c \in usable : \A d \in usable : d <= c
           r == TakeNative(n, acc, i, usable)
<1>1. AccShape(acc) /\ Encoding(n, V, s, entry, acc)
  BY DEF EncodeOk
<1>2. Sound(n, V, acc.s) /\ acc.s.pool = s.pool /\ acc.s.info = s.info /\ Built(n, V, s, entry, acc)
  BY <1>1 DEF Encoding
<1>3. nbr \in Neighbor /\ \E m \in Node, j \in DOMAIN acc.s.queue : FrontIs(acc.s, nbr, m, j)
  BY <1>2, FrontOf
<1>4. PICK m \in Node, j \in DOMAIN acc.s.queue : FrontIs(acc.s, nbr, m, j)
  BY <1>3
<1>5. e = acc.s.queue[j] /\ e.pid = pid /\ Owner[e.dest] = m /\ Belongs(nbr, m) /\ Unicast(e)
  BY <1>4 DEF FrontIs
<1>6. e.dest \in Address /\ e.pid \in V \cap Packet /\ e.dest \in NextHops(n)
  <2>1. EntryOk(n, V \cap Packet, acc.s.queue[j])
    BY <1>2 DEF Sound, QueueOk
  <2>2. e.dest \in NextHops(n)
    BY ONLY <1>5, <2>1, HopOf DEF EntryOk, Unicast
  <2> QED  BY ONLY <1>5, <2>1, <2>2 DEF EntryOk, Unicast
<1>7. e.pid \notin acc.natives
  BY ONLY <1>1, <1>4, <1>5 DEF Encoding
<1>8. GetMac(nbr) \in Address /\ Owner[GetMac(nbr)] = m
  BY ONLY <1>3, <1>4, <1>5, GetMacIn
<1>9. /\ \A h \in acc.nexthops : <<pid, h>> \in acc.s.info
      /\ \A p \in acc.natives : <<p, GetMac(nbr)>> \in acc.s.info
  BY Zenon DEF Codable, Known
<1>10. Index(n, last) \in DOMAIN Devices(n)
  <2>1. \A c \in usable : \E k \in DOMAIN Devices(n) : Devices(n)[k].ch = c
    <3> TAKE c \in usable
    <3>1. Index(n, c) \in DOMAIN Devices(n) /\ Index(n, c) # 0
      BY DeviceAt
    <3> QED  BY <3>1, IndexIs
  <2>2. \E c \in usable : \A d \in usable : d <= c
    BY <2>1, HighestChannel
  <2>3. last \in usable
    BY <2>2
  <2> QED  BY <2>3
<1>11. CASE \E id \in acc.ids : id.mac = e.dest
  <2> DEFINE t == Abort(acc.s, "IdNexthop not added")
  <2>1. r = [acc EXCEPT !.s = t]
    BY Zenon, <1>11 DEF TakeNative
  <2>2. ~ Running(t)
    <3>1. "IdNexthop not added" # None
      BY Zenon DEF None
    <3> QED  BY Zenon, <1>2, <3>1, Aborted DEF Sound
  <2> HIDE DEF t
  <2>3. AccShape(r) /\ r.s = t
    BY <1>1, <2>1 DEF AccShape
  <2> QED  BY <2>2, <2>3 DEF EncodeOk
<1>12. CASE \A id \in acc.ids : id.mac # e.dest
  <2> DEFINE d == acc.s.queue[j]
             R == IF HitMax(d) THEN acc.s.rtq ELSE EnqueueBack(acc.s.rtq, d)
             t == Taken(acc.s, i, j, R)
             u == [s |-> t, first |-> acc.first, nexthops |-> acc.nexthops \cup {GetMac(nbr)},
                   natives |-> acc.natives \cup {e.pid}, channels |-> acc.channels,
                   iface |-> Index(n, last), pkt |-> XOR(acc.first.pid, e.pid),
                   encoded |-> TRUE, ids |-> acc.ids \cup {First(e)}]
  <2>1. r = u
    <3>1. r = [acc EXCEPT
                 !.s        = LeaveQueues(@, i, e),
                 !.nexthops = @ \cup {GetMac(nbr)},
                 !.natives  = @ \cup {e.pid},
                 !.ids      = AddIdNexthop(@, e.dest, e.pid),
                 !.iface    = Index(n, last),
                 !.pkt      = XOR(acc.first.pid, e.pid),
                 !.encoded  = TRUE]
      BY Zenon, <1>12 DEF TakeNative
    <3>2. e = d
      BY ONLY <1>5
    <3>3. Shape(acc.s)
      BY <1>2 DEF Sound
    <3>4. AddIdNexthop(acc.ids, e.dest, e.pid) = acc.ids \cup {First(e)}
      BY DEF AddIdNexthop, First
    <3> HIDE DEF e, r, last, d, R
    <3>5. t = LeaveQueues(acc.s, i, e)
      BY <3>2, <3>3 DEF Shape, R, Taken, d, LeaveQueues
    <3> HIDE DEF t
    <3> QED  BY <1>1, <3>1, <3>4, <3>5 DEF AccShape
  <2>2. R = acc.s.rtq \/ (~ HitMax(d) /\ R = EnqueueBack(acc.s.rtq, d))
    OBVIOUS
  <2>3. /\ Sound(n, V, t) /\ t.pool = s.pool /\ t.info = s.info /\ t.mac = acc.s.mac
        /\ DOMAIN t.nbrs = DOMAIN acc.s.nbrs
        /\ \A k \in DOMAIN t.queue : \E l \in DOMAIN acc.s.queue :
              t.queue[k] = acc.s.queue[l] /\ acc.s.queue[l].pid # e.pid
    <3> HIDE DEF R, e
    <3>1. /\ Sound(n, V, t) /\ t.pool = acc.s.pool /\ t.info = acc.s.info /\ t.mac = acc.s.mac
          /\ DOMAIN t.nbrs = DOMAIN acc.s.nbrs
          /\ \A k \in DOMAIN t.queue : \E l \in DOMAIN acc.s.queue :
                t.queue[k] = acc.s.queue[l] /\ acc.s.queue[l].pid # d.pid
      BY <1>2, <1>4, <2>2, TakenSound
    <3> QED  BY <1>2, <1>5, <3>1
  <2> HIDE DEF R, t, e, last
  <2>4. /\ AccShape(u) /\ u.s = t /\ u.first = acc.first /\ u.nexthops = acc.nexthops \cup {GetMac(nbr)}
        /\ u.natives = acc.natives \cup {e.pid} /\ u.ids = acc.ids \cup {First(e)}
        /\ u.iface = Index(n, last) /\ u.pkt = XOR(acc.first.pid, e.pid) /\ u.encoded
    BY DEF AccShape
  <2> HIDE DEF u
  <2>5. Built(n, V, s, entry, u)
    <3>1. acc.first = entry
      BY <1>2 DEF Built
    <3> DEFINE g == GetMac(nbr)
    <3>2. /\ \A h \in acc.nexthops : <<e.pid, h>> \in s.info
          /\ \A p \in acc.natives : <<p, g>> \in s.info
      BY <1>2, <1>5, <1>9
    <3>3. g \in Address /\ Owner[g] = Owner[e.dest]
      BY <1>5, <1>8
    <3>4. u.nexthops = acc.nexthops \cup {g}
      BY <2>4
    <3> HIDE DEF g
    <3> QED  BY <1>2, <1>6, <1>7, <1>12, <2>4, <3>1, <3>2, <3>3, <3>4, BuiltMore
  <2>6. \A k \in DOMAIN u.s.queue : u.s.queue[k].pid \notin u.natives
    <3>1. \A l \in DOMAIN acc.s.queue : acc.s.queue[l].pid \notin acc.natives
      BY <1>1 DEF Encoding
    <3> QED  BY <2>3, <2>4, <3>1
  <2>7. Encoding(n, V, s, entry, u)
    <3>1. u.s.mac = s.mac /\ DOMAIN u.s.nbrs = DOMAIN s.nbrs
      BY <1>1, <2>3, <2>4 DEF Encoding
    <3> QED  BY <1>10, <2>3, <2>4, <2>5, <2>6, <3>1 DEF Encoding
  <2> QED  BY <2>1, <2>4, <2>7 DEF EncodeOk
<1> QED  BY <1>11, <1>12

\* The channels still open do not matter for what is built.
LEMMA OtherChannels ==
    ASSUME NEW V, NEW n, NEW s, NEW entry, NEW acc, EncodeOk(n, V, s, entry, acc), NEW C,
           NEW r, r = [acc EXCEPT !.channels = C]
    PROVE  EncodeOk(n, V, s, entry, r) /\ r.s = acc.s /\ r.nexthops = acc.nexthops /\ r.natives = acc.natives
<1>1. /\ AccShape(r) /\ r.s = acc.s /\ r.nexthops = acc.nexthops /\ r.natives = acc.natives
      /\ r.first = acc.first /\ r.iface = acc.iface /\ r.pkt = acc.pkt
      /\ r.encoded = acc.encoded /\ r.ids = acc.ids
  BY DEF EncodeOk, AccShape
<1>2. Built(n, V, s, entry, acc) => Built(n, V, s, entry, r)
  BY <1>1 DEF Built, Natives
<1>3. Encoding(n, V, s, entry, acc) => Encoding(n, V, s, entry, r)
  BY <1>1, <1>2 DEF Encoding
<1> QED  BY <1>1, <1>3 DEF EncodeOk

\* So does a turn of the loop.
LEMMA EncodeNeighborOk ==
    ASSUME NEW V, NEW n \in Node, NEW active, active \subseteq DOMAIN Devices(n),
           NEW s, NEW entry, NEW acc, EncodeOk(n, V, s, entry, acc),
           NEW i, Running(acc.s) => i \in DOMAIN acc.s.nbrs
    PROVE  EncodeOk(n, V, s, entry, EncodeNeighbor(n, active, acc, i))
<1> DEFINE nbr == acc.s.nbrs[i]
           common == acc.channels \cap GetChannels(nbr)
           usable == {c \in IF common = {} THEN acc.channels ELSE common : Index(n, c) \in active}
           r == EncodeNeighbor(n, active, acc, i)
           u == [acc EXCEPT !.channels = common]
           f == [acc EXCEPT !.s = Abort(acc.s, "I think we should be able to index")]
<1> SUFFICES EncodeOk(n, V, s, entry, r)
  OBVIOUS
<1>1. CASE ~ Running(acc.s) \/ nbr.vq = <<>> \/ ~ Codable(acc, nbr) \/ r = acc
  <2>1. r = acc
    BY Zenon, <1>1 DEF EncodeNeighbor
  <2> QED  BY <2>1
<1>2. CASE Running(acc.s) /\ nbr.vq # <<>> /\ Codable(acc, nbr) /\ r # acc
  <2>1. r = f \/ r = u \/ (usable # {} /\ r = TakeNative(n, u, i, usable))
    BY Zenon, <1>2 DEF EncodeNeighbor
  <2> HIDE DEF r
  <2>2. EncodeOk(n, V, s, entry, u) /\ u.s = acc.s /\ u.nexthops = acc.nexthops /\ u.natives = acc.natives
    BY OtherChannels
  <2>3. CASE r = u
    BY <2>2, <2>3
  <2>4. CASE r = f
    <3> DEFINE t == Abort(acc.s, "I think we should be able to index")
    <3>1. "I think we should be able to index" # None
      BY Zenon DEF None
    <3>2. AccShape(acc) /\ Shape(acc.s)
      BY <1>2 DEF EncodeOk, Encoding, Sound
    <3>3. ~ Running(t)
      BY Zenon, <3>1, <3>2, Aborted
    <3>5. r = [acc EXCEPT !.s = t]
      BY Zenon, <2>4
    <3> HIDE DEF t, f
    <3>4. AccShape([acc EXCEPT !.s = t]) /\ [acc EXCEPT !.s = t].s = t
      BY <3>2 DEF AccShape
    <3> QED  BY <3>3, <3>4, <3>5 DEF EncodeOk
  <2>5. CASE usable # {} /\ r = TakeNative(n, u, i, usable)
    <3>1. \A c \in usable : Index(n, c) \in DOMAIN Devices(n)
      OBVIOUS
    <3>2. Running(u.s) /\ i \in DOMAIN u.s.nbrs /\ u.s.nbrs[i].vq # <<>>
      BY <1>2, <2>2
    <3>3. Codable(u, u.s.nbrs[i])
      BY Zenon, <1>2, <2>2 DEF Codable
    <3> HIDE DEF usable, u, common
    <3> QED  BY <2>2, <2>5, <3>1, <3>2, <3>3, TakeNativeOk
  <2> QED  BY Zenon, <2>1, <2>3, <2>4, <2>5
<1> QED  BY <1>1, <1>2 DEF r

\* What is built is a frame that can be sent.
LEMMA BuiltIds ==
    ASSUME NEW n, NEW V, NEW s, NEW entry, NEW acc, Built(n, V, s, entry, acc)
    PROVE  /\ acc.ids \in SUBSET Ids(V) /\ IdsOk(acc.ids, acc.pkt, s.info)
           /\ acc.pkt \in SUBSET STRING /\ HopsOk(n, acc.ids)
<1> DEFINE first == First(entry)
<1>1. /\ IsFiniteSet(acc.ids) /\ acc.ids \subseteq [mac : Address, pid : V \cap Packet]
      /\ first \in acc.ids
      /\ \A x, y \in acc.ids : x # y => x.pid # y.pid /\ Believes(s.info, x.pid, Owner[y.mac])
      /\ acc.ids = {first} => acc.pkt = entry.pid
      /\ \A y \in acc.ids : y # first /\ acc.ids = {first, y} => acc.pkt = XOR(entry.pid, y.pid)
  BY DEF Built
<1>2. first.pid = entry.pid
  BY DEF First
<1> HIDE DEF first
<1>3. Broadcast \notin Address
  <2> SUFFICES ASSUME NEW m \in Node, NEW i \in DOMAIN Devices(m) PROVE Devices(m)[i].mac # 0
    BY DEF Address, Macs, Broadcast
  <2>1. Devices(m)[i] \in Device
    BY DeviceAt
  <2> QED  BY <2>1 DEF Device
<1>4. \A id \in acc.ids : acc.ids = {id} => acc.pkt = id.pid
  BY <1>1, <1>2
<1>5. \A x, y \in acc.ids : x # y /\ acc.ids = {x, y} => acc.pkt = XOR(x.pid, y.pid)
  <2> TAKE x, y \in acc.ids
  <2> HAVE x # y /\ acc.ids = {x, y}
  <2>1. CASE x = first
    BY <1>1, <1>2, <2>1
  <2>2. CASE y = first
    <3>1. acc.pkt = XOR(y.pid, x.pid)
      BY <1>1, <1>2, <2>2
    <3> QED  BY <3>1 DEF XOR
  <2> QED  BY <1>1, <2>1, <2>2
<1>6. \A id \in acc.ids : id.mac \in Address /\ id.mac # Broadcast
  BY <1>1, <1>3
<1>7. acc.ids \in SUBSET Ids(V)
  BY <1>1 DEF Ids
<1>8. acc.ids # {} /\ acc.pkt \in SUBSET STRING /\ HopsOk(n, acc.ids)
  BY <1>1 DEF Built
<1> QED  BY <1>1, <1>4, <1>5, <1>6, <1>7, <1>8 DEF IdsOk

\* The entry Encode starts with.
LEMMA EncodeStart ==
    ASSUME NEW V, NEW n \in Node, NEW s, Sound(n, V, s), NEW entry, Leaves(n, V, s, entry), Unicast(entry),
           NEW g \in Macs(Owner[entry.dest]), NEW C,
           NEW start, start = [s |-> s, first |-> entry, nexthops |-> {g},
                  natives |-> {entry.pid}, channels |-> C,
                  iface |-> entry.iface, pkt |-> entry.pid, encoded |-> FALSE,
                  ids |-> AddIdNexthop({}, entry.dest, entry.pid)]
    PROVE  EncodeOk(n, V, s, entry, start)
<1> DEFINE first == First(entry)
<1>1. AddIdNexthop({}, entry.dest, entry.pid) = {first}
  BY DEF AddIdNexthop, First
<1>2. first.mac = entry.dest /\ first.pid = entry.pid /\ first = [mac |-> entry.dest, pid |-> entry.pid]
  BY DEF First
<1>3. entry.dest \in Address /\ entry.pid \in V \cap Packet /\ entry.iface \in DOMAIN Devices(n)
      /\ entry.dest \in NextHops(n)
  BY HopOf DEF Leaves, EntryOk, Unicast
<1> HIDE DEF first
<1>4. /\ AccShape(start) /\ start.s = s /\ start.first = entry /\ start.nexthops = {g}
      /\ start.natives = {entry.pid} /\ start.ids = {first} /\ start.iface = entry.iface
      /\ start.pkt = entry.pid
  BY <1>1 DEF AccShape
<1>5. Owner[entry.dest] \in Node /\ g \in Address /\ Owner[g] = Owner[entry.dest]
  <2>1. Owner[entry.dest] \in Node
    BY <1>3, OwnerIn
  <2> QED  BY <2>1, OwnerOf DEF Address
<1>6. Built(n, V, s, entry, start)
  <2>1. start.natives = Natives(start)
    BY <1>2, <1>4 DEF Natives
  <2>2. IsFiniteSet(start.ids)
    BY <1>4, FS_Singleton
  <2>3. start.pkt \in SUBSET STRING
    BY <1>3, <1>4, PacketIs
  <2>4. start.ids \subseteq [mac : Address, pid : V \cap Packet]
    BY <1>2, <1>3, <1>4
  <2>5. \A id \in start.ids : \E h \in start.nexthops : Owner[h] = Owner[id.mac]
    BY <1>2, <1>4, <1>5
  <2>6. start.nexthops \subseteq Address
    BY <1>4, <1>5
  <2>7. HopsOk(n, start.ids)
    BY <1>2, <1>3, <1>4 DEF HopsOk
  <2> QED  BY <1>4, <2>1, <2>2, <2>3, <2>4, <2>5, <2>6, <2>7 DEF Built, first
<1>7. \A i \in DOMAIN s.queue : s.queue[i].pid \notin {entry.pid}
  BY DEF Leaves, Accepts, Pids
<1>8. Encoding(n, V, s, entry, start)
  BY <1>3, <1>4, <1>6, <1>7 DEF Encoding, first
<1> QED  BY <1>4, <1>8 DEF EncodeOk

\* So does the loop.
LEMMA EncodeLoopOk ==
    ASSUME NEW V, NEW n \in Node, NEW active, active \subseteq DOMAIN Devices(n),
           NEW s, NEW entry, NEW start, EncodeOk(n, V, s, entry, start),
           NEW N \in Nat, DOMAIN s.nbrs = 1..N
    PROVE  EncodeOk(n, V, s, entry, Coded(n, active, start, N))
<1> DEFINE out == Coded(n, active, start, N)
           seq == [i \in 1..N |-> i]
<1>1. PICK v : IsRun(v, "Encode", <<n, active>>, start, seq, N, out)
  BY EncodeLoop
<1> HIDE DEF out
<1>2. /\ v[0] = start
      /\ \A k \in 0..N - 1 : v[k + 1] = EncodeNeighbor(n, active, v[k], k + 1)
      /\ out = v[N]
  <2> DEFINE c == <<n, active>>
  <2>1. \A acc, e : Turn("Encode", c, acc, e) = EncodeNeighbor(n, active, acc, e)
    BY DEF Turn
  <2>2. \A k \in 0..N - 1 : seq[k + 1] = k + 1
    OBVIOUS
  <2> HIDE DEF c, seq
  <2> QED  BY <1>1, <2>1, <2>2 DEF IsRun, c
<1> DEFINE T == {k \in 0..N : EncodeOk(n, V, s, entry, v[k])}
<1>3. 0 \in T
  BY <1>2
<1>4. ASSUME NEW k \in 0..N - 1, k \in T PROVE k + 1 \in T
  <2>1. EncodeOk(n, V, s, entry, v[k]) /\ k + 1 \in 1..N
    BY <1>4
  <2>2. Running(v[k].s) => k + 1 \in DOMAIN v[k].s.nbrs
    BY <2>1 DEF EncodeOk, Encoding
  <2>3. EncodeOk(n, V, s, entry, EncodeNeighbor(n, active, v[k], k + 1))
    BY <2>1, <2>2, EncodeNeighborOk
  <2> QED  BY <1>2, <2>1, <2>3
<1> HIDE DEF T
<1>5. N \in T
  <2>1. \A k \in 0..N : k \in T
    BY <1>3, <1>4, Upto
  <2> QED  BY <2>1
<1> QED  BY <1>2, <1>5 DEF T, out

\* An entry waits for its ack.
LEMMA Awaits ==
    ASSUME NEW V, NEW n \in Node, NEW s, Sound(n, V, s), NEW e \in Entry,
           EntryOk(n, V \cap Packet, e), Unicast(e), ~ HitMax(e),
           NEW t, t = [s EXCEPT !.rtq = EnqueueBack(s.rtq, e)]
    PROVE  /\ Sound(n, V, t) /\ t.pool = s.pool /\ t.info = s.info /\ t.mac = s.mac
<1> DEFINE K == V \cap Packet
           R == EnqueueBack(s.rtq, e)
<1>1. QueueOk(n, s.rtq, K) /\ RtqOk(n, s.rtq, K)
  BY DEF Sound, RtqOk
<1>2. e.retry < MaxRetry
  BY QueueAssumption DEF Entry, HitMax
<1>3. RtqOk(n, R, K)
  <2>1. CASE Accepts(s.rtq, e)
    <3>1. Joins(s.rtq, e, R)
      BY <2>1 DEF EnqueueBack, Joins
    <3>2. QueueOk(n, R, K) /\ \A x \in DOMAIN R : R[x] = e \/ \E y \in DOMAIN s.rtq : R[x] = s.rtq[y]
      BY <1>1, <2>1, <3>1, Enqueued
    <3>3. \A x \in DOMAIN R : Unicast(R[x]) /\ R[x].retry < MaxRetry
      BY <1>1, <1>2, <3>2 DEF RtqOk
    <3> QED  BY <3>2, <3>3 DEF RtqOk
  <2>2. CASE ~ Accepts(s.rtq, e)
    BY <1>1, <2>2 DEF EnqueueBack
  <2> QED  BY <2>1, <2>2
<1> HIDE DEF R
<1>4. /\ Shape(t) /\ t.queue = s.queue /\ t.rtq = R /\ t.nbrs = s.nbrs /\ t.pool = s.pool
      /\ t.info = s.info /\ t.acks = s.acks /\ t.recps = s.recps /\ t.abort = s.abort
      /\ t.mac = s.mac
  BY DEF Sound, Shape, R
<1> QED  BY <1>3, <1>4 DEF Sound, Running

\* What Encode returns can be sent.
LEMMA EncodeGood ==
    ASSUME NEW V, NEW n \in Node, NEW active, active \subseteq DOMAIN Devices(n),
           NEW s, Sound(n, V, s), NEW entry, Leaves(n, V, s, entry), Unicast(entry),
           SearchMac(s.nbrs, entry.dest) # 0, Running(Encode(n, s, active, entry).s)
    PROVE  /\ OutOk(n, V, s, Encode(n, s, active, entry))
           /\ First(entry) \in Encode(n, s, active, entry).ids
<1> DEFINE k == SearchMac(s.nbrs, entry.dest)
           nbr == s.nbrs[k]
           N == Len(s.nbrs)
           start == [s |-> s, first |-> entry, nexthops |-> {GetMac(nbr)},
                  natives |-> {entry.pid}, channels |-> GetChannels(nbr),
                  iface |-> entry.iface, pkt |-> entry.pid, encoded |-> FALSE,
                  ids |-> AddIdNexthop({}, entry.dest, entry.pid)]
           done == Coded(n, active, start, N)
           r == Encode(n, s, active, entry)
<1>1. s.nbrs \in Seq(Neighbor) /\ Rows(s.nbrs, Awaited(s.queue)) /\ entry.dest \in Address
      /\ entry \in Entry /\ EntryOk(n, V \cap Packet, entry)
  BY DEF Sound, Table, Rows, Leaves, EntryOk, Unicast
<1>2. N \in Nat /\ DOMAIN s.nbrs = 1..N
  BY <1>1
<1>3. [i \in DOMAIN s.nbrs |-> i] = [i \in 1..N |-> i]
  BY <1>2
<1>4. /\ done.encoded /\ ~ HitMax(entry) => r = [done EXCEPT !.s.rtq = EnqueueBack(@, entry)]
      /\ ~ (done.encoded /\ ~ HitMax(entry)) => r = done
  BY Zenon, <1>3 DEF Encode, Coded
<1>5. GetMac(nbr) \in Macs(Owner[entry.dest])
  <2>1. MacAt(s.nbrs, entry.dest, k)
    BY <1>1, SearchMacIn
  <2>2. k \in DOMAIN s.nbrs /\ HasMac(nbr, entry.dest)
    BY <2>1 DEF MacAt
  <2>3. nbr \in Neighbor /\ Row(nbr, Awaited(s.queue))
    BY <1>1, <2>2 DEF Rows, RowsOn
  <2>4. PICK m \in Node : Belongs(nbr, m)
    BY <2>3 DEF Row
  <2>5. GetMac(nbr) \in Macs(m)
    BY <2>3, <2>4, GetMacIn
  <2>6. entry.dest \in Macs(m)
    BY <2>2, <2>4 DEF HasMac, Belongs
  <2> QED  BY <2>5, <2>6, OwnerOf
<1> DEFINE g == GetMac(nbr)
           C == GetChannels(nbr)
<1>6. EncodeOk(n, V, s, entry, start)
  <2> HIDE DEF g, C
  <2> SUFFICES ASSUME NEW u, u = [s |-> s, first |-> entry, nexthops |-> {g},
                  natives |-> {entry.pid}, channels |-> C,
                  iface |-> entry.iface, pkt |-> entry.pid, encoded |-> FALSE,
                  ids |-> AddIdNexthop({}, entry.dest, entry.pid)]
               PROVE  EncodeOk(n, V, s, entry, u)
    BY DEF g, C
  <2>1. g \in Macs(Owner[entry.dest])
    BY <1>5 DEF g
  <2> QED  BY <2>1, EncodeStart
<1> HIDE DEF start
<1>7. EncodeOk(n, V, s, entry, done)
  BY <1>2, <1>6, EncodeLoopOk
<1> SUFFICES OutOk(n, V, s, r) /\ First(entry) \in r.ids
  OBVIOUS
<1>8. Running(r.s)
  OBVIOUS
<1> HIDE DEF done, r, N
<1>9. AccShape(done) /\ (Running(done.s) => Encoding(n, V, s, entry, done))
  BY <1>7 DEF EncodeOk
<1>10. CASE r = done
  <2>1. Encoding(n, V, s, entry, r)
    BY <1>8, <1>9, <1>10
  <2>2. r.ids \in SUBSET Ids(V) /\ IdsOk(r.ids, r.pkt, s.info) /\ r.pkt \in SUBSET STRING /\ HopsOk(n, r.ids)
    BY <2>1, BuiltIds DEF Encoding
  <2>3. First(entry) \in r.ids
    BY <2>1 DEF Encoding, Built
  <2> QED  BY <2>1, <2>2, <2>3 DEF OutOk, Encoding
<1>11. CASE done.encoded /\ ~ HitMax(entry) /\ r = [done EXCEPT !.s.rtq = EnqueueBack(@, entry)]
  <2> DEFINE d == done.s
             t == [d EXCEPT !.rtq = EnqueueBack(d.rtq, entry)]
  <2>1. r = [done EXCEPT !.s = t]
    BY <1>9, <1>11 DEF AccShape
  <2>2. r.s = t /\ r.iface = done.iface /\ r.ids = done.ids /\ r.pkt = done.pkt /\ r.encoded = done.encoded
    BY <1>9, <2>1 DEF AccShape
  <2>3. Running(d)
    <3> SUFFICES ASSUME ~ Running(d) PROVE ~ Running(t)
      BY <1>8, <2>2
    <3>1. t.abort = d.abort
      OBVIOUS
    <3> QED  BY <3>1 DEF Running
  <2>4. Encoding(n, V, s, entry, done)
    BY <1>9, <2>3
  <2>5. Sound(n, V, d) /\ d.pool = s.pool /\ d.info = s.info /\ d.mac = s.mac
    BY <2>4 DEF Encoding
  <2>6. /\ Sound(n, V, t) /\ t.pool = d.pool /\ t.info = d.info /\ t.mac = d.mac
    <3>1. EntryOk(n, V \cap Packet, entry)
      BY <1>1, <2>5
    <3> SUFFICES ASSUME NEW u, u = t
                 PROVE  Sound(n, V, u) /\ u.pool = d.pool /\ u.info = d.info /\ u.mac = d.mac
      OBVIOUS
    <3> QED  BY <1>1, <1>11, <2>5, <3>1, Awaits
  <2>7. r.ids \in SUBSET Ids(V) /\ IdsOk(r.ids, r.pkt, s.info) /\ r.pkt \in SUBSET STRING /\ HopsOk(n, r.ids)
    BY <2>4, <2>2, BuiltIds DEF Encoding
  <2>8. First(entry) \in r.ids
    BY <2>2, <2>4 DEF Encoding, Built
  <2> HIDE DEF t, d
  <2> QED  BY <1>11, <2>2, <2>4, <2>5, <2>6, <2>7, <2>8 DEF OutOk, Encoding
<1> QED  BY <1>4, <1>10, <1>11

\* So can an entry on its own.
LEMMA PlainGood ==
    ASSUME NEW V, NEW n \in Node, NEW s, Sound(n, V, s), NEW entry, Leaves(n, V, s, entry)
    PROVE  OutOk(n, V, s, PlainSend(s, entry)) /\ First(entry) \in PlainSend(s, entry).ids
<1> DEFINE r == PlainSend(s, entry)
           first == First(entry)
<1>1. AddIdNexthop({}, entry.dest, entry.pid) = {first}
  BY DEF AddIdNexthop, First
<1>2. r.s = s /\ r.iface = entry.iface /\ r.pkt = entry.pid /\ r.ids = {first}
  BY <1>1 DEF PlainSend
<1>3. first.mac = entry.dest /\ first.pid = entry.pid /\ first = [mac |-> entry.dest, pid |-> entry.pid]
  BY DEF First
<1>4. /\ entry.pid \in V \cap Packet /\ entry.iface \in DOMAIN Devices(n)
      /\ entry.dest \in Address \cup {Broadcast}
      /\ entry.dest = Broadcast => Unforwarded(entry.pid)
  BY DEF Leaves, EntryOk
<1> HIDE DEF r, first
<1>5. r.ids \in SUBSET Ids(V)
  BY <1>2, <1>3, <1>4 DEF Ids
<1>6. IdsOk(r.ids, r.pkt, s.info)
  <2>1. IsFiniteSet(r.ids)
    BY <1>2, FS_Singleton
  <2> QED  BY <1>2, <1>3, <1>4, <2>1 DEF IdsOk
<1>7. r.pkt \in SUBSET STRING
  BY <1>2, <1>4, PacketIs
<1>8. HopsOk(n, r.ids)
  <2>1. first.mac \in NextHops(n)
    BY <1>3, HopOf DEF Leaves, EntryOk
  <2> QED  BY <1>2, <2>1 DEF HopsOk
<1>9. First(entry) \in r.ids
  BY <1>2 DEF first
<1>10. OutOk(n, V, s, r)
  BY <1>2, <1>4, <1>5, <1>6, <1>7, <1>8 DEF OutOk
<1> QED  BY <1>9, <1>10 DEF r

-----------------------------------------------------------------------------
(* DoSend and TrySend *)

\* No more reports are attached than there are.
LEMMA AttachedIs ==
    ASSUME NEW S, NEW list \in Seq(S), NEW s, s.nbrs \in Seq(Neighbor)
    PROVE  Attached(list, s) \in Nat /\ Attached(list, s) <= Len(list)
<1>1. Len(list) \in Nat /\ Len(s.nbrs) \in Nat
  OBVIOUS
<1>2. \/ Attached(list, s) = Len(s.nbrs) /\ Len(s.nbrs) < Len(list)
      \/ Attached(list, s) = Len(list)
  BY <1>1 DEF Attached
<1> QED  BY <1>1, <1>2

\* A node only sends frames it can vouch for.
LEMMA FrameSendable ==
    ASSUME NEW V, NEW n \in Node, NEW s, NEW out, OutOk(n, V, s, out),
           NEW addr \in Int, AddrOk(n, out.ids, addr)
    PROVE  DataFrame(n, out.s, addr, out) \in Sendable(n, V, s.info)
<1> DEFINE r == out.s
           f == DataFrame(n, r, addr, out)
           R == {r.recps[i] : i \in 1..Attached(r.recps, r)}
           A == {r.acks[i] : i \in Len(r.acks) - Attached(r.acks, r) + 1 .. Len(r.acks)}
<1>1. /\ r.nbrs \in Seq(Neighbor) /\ r.pool = s.pool
      /\ r.acks \in Seq([ip : Nat, pid : V]) /\ r.recps \in Seq(V)
      /\ out.iface \in DOMAIN Devices(n) /\ out.ids \in SUBSET Ids(V)
      /\ IdsOk(out.ids, out.pkt, s.info) /\ out.pkt \in SUBSET STRING /\ HopsOk(n, out.ids)
  BY DEF OutOk, Sound, Table, Rows
<1>2. f = [type |-> "data", src |-> Devices(n)[out.iface].mac, dst |-> addr,
           ip |-> GetIP(n), ids |-> out.ids, pkt |-> out.pkt, recps |-> R, acks |-> A]
  BY Zenon DEF DataFrame
<1>3. R \in SUBSET V
  BY <1>1, AttachedIs
<1>4. A \in SUBSET [ip : Nat, pid : V]
  <2> DEFINE B == [ip : Nat, pid : V]
             a == Attached(r.acks, r)
             q == r.acks
  <2>1. q \in Seq(B) /\ r.nbrs \in Seq(Neighbor)
    BY <1>1
  <2> HIDE DEF B
  <2>2. a \in Nat /\ a <= Len(q)
    BY <2>1, AttachedIs
  <2> HIDE DEF a
  <2>3. \A i \in Len(q) - a + 1 .. Len(q) : q[i] \in B
    BY <2>1, <2>2
  <2> QED  BY <2>3 DEF B, a
<1>5. Devices(n)[out.iface].mac \in Macs(n)
  BY <1>1 DEF Macs
<1> HIDE DEF R, A, f, r
<1>6. /\ f \in [type : {"data"}, src : Macs(n), dst : Int, ip : {GetIP(n)}, ids : SUBSET Ids(V),
                pkt : SUBSET STRING, recps : SUBSET V, acks : SUBSET [ip : Nat, pid : V]]
      /\ f.ids = out.ids /\ f.pkt = out.pkt
  BY <1>1, <1>2, <1>3, <1>4, <1>5
<1>7. AddrOk(n, f.ids, f.dst)
  BY <1>2
<1> QED  BY <1>1, <1>6, <1>7 DEF DataSendable, Sendable, f, r

\* A node stays sound when frames that can be sent join its devices, and reports
\* and acks leave.
LEMMA ReportedSound ==
    ASSUME NEW V, NEW n, NEW s, Sound(n, V, s), NEW t, Reported(n, V, s, t)
    PROVE  Sound(n, V, t) /\ Moves(n, s, t, {}, {})
<1>1. Sound(n, V, t)
  BY DEF Sound, Reported, Running
<1>2. Moves(n, s, t, {}, {})
  BY DEF Reported, Moves, Timed
<1> QED  BY <1>1, <1>2

\* Transmit sends what can be sent, and starts the timer.
LEMMA TransmitOk ==
    ASSUME NEW V, NEW n \in Node, NEW s, NEW out, OutOk(n, V, s, out),
           NEW addr \in Int, AddrOk(n, out.ids, addr)
    PROVE  Fine(n, V, out.s, Transmit(n, out.s, addr, out), {}, {}) /\ Timed(Transmit(n, out.s, addr, out))
<1> DEFINE r == out.s
           f == DataFrame(n, r, addr, out)
           rep == SubSeq(r.recps, Attached(r.recps, r) + 1, Len(r.recps))
           ack == SubSeq(r.acks, 1, Len(r.acks) - Attached(r.acks, r))
           t == [r EXCEPT !.recps = rep, !.acks = ack]
<1>1. Sound(n, V, r) /\ r.pool = s.pool /\ r.info = s.info /\ out.iface \in DOMAIN Devices(n)
  BY DEF OutOk
<1>2. /\ r.nbrs \in Seq(Neighbor) /\ Shape(r)
      /\ r.acks \in Seq([ip : Nat, pid : V]) /\ r.recps \in Seq(V)
  BY <1>1 DEF Sound, Table, Rows
<1>3. Transmit(n, r, addr, out) = DoSendEnd(ForwardDown(t, out.iface, f))
  BY Zenon DEF Transmit
<1>4. rep \in Seq(V)
  <2> DEFINE q == r.recps
             a == Attached(q, r)
  <2>1. q \in Seq(V)
    BY <1>2
  <2>2. a \in Nat /\ a <= Len(q)
    BY <1>2, AttachedIs
  <2> HIDE DEF a, q
  <2>3. a + 1 \in Int /\ Len(q) \in Int /\ \A i \in a + 1 .. Len(q) : q[i] \in V
    BY <2>1, <2>2
  <2>4. SubSeq(q, a + 1, Len(q)) \in Seq(V)
    BY <2>3, SubSeqProperties
  <2> QED  BY <2>4 DEF a, q
<1>5. ack \in Seq([ip : Nat, pid : V])
  <2> DEFINE B == [ip : Nat, pid : V]
             q == r.acks
             a == Attached(q, r)
  <2>1. q \in Seq(B)
    BY <1>2
  <2> HIDE DEF B
  <2>2. a \in Nat /\ a <= Len(q)
    BY <1>2, <2>1, AttachedIs
  <2> HIDE DEF a, q
  <2>3. Len(q) - a \in Int /\ \A i \in 1 .. Len(q) - a : q[i] \in B
    BY <2>1, <2>2
  <2>4. SubSeq(q, 1, Len(q) - a) \in Seq(B)
    BY <2>3, SubSeqProperties
  <2> QED  BY <2>4 DEF a, q, B
<1> HIDE DEF rep, ack, f
<1>6. Reported(n, V, r, t)
  <2>3. t = [r EXCEPT !.recps = rep, !.acks = ack]
    OBVIOUS
  <2> HIDE DEF t, r
  <2>1. /\ Shape(t) /\ t.queue = r.queue /\ t.rtq = r.rtq /\ t.nbrs = r.nbrs
        /\ t.pool = r.pool /\ t.info = r.info /\ t.mac = r.mac /\ t.abort = r.abort
        /\ t.acks = ack /\ t.recps = rep
    BY <1>2, <2>3 DEF Shape
  <2>2. t.timer = r.timer
    BY <1>2, <2>3 DEF Shape
  <2> QED  BY <1>4, <1>5, <2>1, <2>2 DEF Reported
<1> HIDE DEF t, r
<1>7. Sound(n, V, t) /\ Moves(n, r, t, {}, {})
  BY <1>1, <1>6, ReportedSound
<1>8. f \in Sendable(n, V, t.info)
  <2>1. t.pool = s.pool /\ t.info = s.info
    BY <1>1, <1>6 DEF Reported
  <2> QED  BY <2>1, FrameSendable DEF f, r
<1>11. f.src = Devices(n)[out.iface].mac
  BY DEF f, DataFrame
<1>9. Fine(n, V, t, DoSendEnd(ForwardDown(t, out.iface, f)), {}, {})
      /\ Timed(DoSendEnd(ForwardDown(t, out.iface, f)))
  BY <1>1, <1>7, <1>8, <1>11, Forwarded
<1>10. Fine(n, V, r, DoSendEnd(ForwardDown(t, out.iface, f)), {}, {})
  BY <1>7, <1>9, MovesOn
<1> QED  BY <1>3, <1>9, <1>10 DEF r

\* A new neighbor table does no harm when its rows are right.
LEMMA TableSet ==
    ASSUME NEW V, NEW n, NEW s, Sound(n, V, s), NEW nbrs, Rows(nbrs, Awaited(s.queue)),
           NEW t, t = WithNeighbors(s, nbrs)
    PROVE  Fine(n, V, s, t, {}, {}) /\ (Running(t) => t.nbrs = nbrs /\ t.queue = s.queue)
<1> SUFFICES ASSUME Running(t)
             PROVE  Sound(n, V, t) /\ Moves(n, s, t, {}, {}) /\ t.nbrs = nbrs /\ t.queue = s.queue
  BY DEF Fine
<1>1. Shape(s) /\ Running(s)
  BY DEF Sound
<1>2. t = [s EXCEPT !.nbrs = nbrs] /\ ~ DuplicateVirtualEntry(nbrs)
  BY <1>1, NeighborsSet
<1>3. /\ Shape(t) /\ t.queue = s.queue /\ t.rtq = s.rtq /\ t.nbrs = nbrs
      /\ t.pool = s.pool /\ t.info = s.info /\ t.mac = s.mac /\ t.abort = s.abort
      /\ t.acks = s.acks /\ t.recps = s.recps /\ (s.timer => t.timer)
  BY <1>1, <1>2 DEF Shape
<1>4. Table(nbrs, Awaited(s.queue))
  BY <1>2, RowsTable
<1>5. Sound(n, V, t)
  BY <1>3, <1>4 DEF Sound, Running
<1>6. Moves(n, s, t, {}, {})
  BY <1>3 DEF Moves, Timed
<1> QED  BY <1>3, <1>5, <1>6

\* What was awaited still is, and a unicast entry that joins is too.
LEMMA JoinsKeeps ==
    ASSUME NEW q \in Seq(Entry), NEW e \in Entry, NEW r, Joins(q, e, r)
    PROVE  /\ Awaited(q) \subseteq Awaited(r)
           /\ Unicast(e) => <<e.pid, Owner[e.dest]>> \in Awaited(r)
<1>1. DOMAIN q = 1..Len(q) /\ Len(q) \in Nat
  OBVIOUS
<1>2. /\ \A i \in DOMAIN q : \E j \in DOMAIN r : r[j] = q[i]
      /\ \E j \in DOMAIN r : r[j] = e
  <2>1. CASE r = Append(q, e)
    <3>1. r \in Seq(Entry) /\ Len(r) = Len(q) + 1 /\ \A i \in 1..Len(q) + 1 : r[i] = IF i = Len(q) + 1 THEN e ELSE q[i]
      BY <2>1, AppendIs
    <3>2. /\ \A i \in DOMAIN q : i \in DOMAIN r /\ r[i] = q[i]
          /\ Len(q) + 1 \in DOMAIN r /\ r[Len(q) + 1] = e
      BY <1>1, <3>1
    <3> QED  BY <3>2
  <2>2. CASE r = <<e>> \o q
    <3>1. r \in Seq(Entry) /\ Len(r) = Len(q) + 1 /\ \A i \in 1..Len(q) + 1 : r[i] = IF i = 1 THEN e ELSE q[i - 1]
      BY <2>2, ConsIs
    <3>2. /\ \A i \in DOMAIN q : i + 1 \in DOMAIN r /\ r[i + 1] = q[i]
          /\ 1 \in DOMAIN r /\ r[1] = e
      BY <1>1, <3>1
    <3> QED  BY <3>2
  <2> QED  BY <2>1, <2>2 DEF Joins
<1> QED  BY <1>2, AwaitedMore, AwaitedNew

\* An entry joins the output queue, and perhaps its packet the pool.
LEMMA QueueGrows ==
    ASSUME NEW V, NEW n, NEW s, Sound(n, V, s), NEW got, got \subseteq V, NEW e \in Entry,
           EntryOk(n, V \cap Packet, e), Accepts(s.queue, e),
           NEW q, Joins(s.queue, e, q), NEW t, t = Grown(s, q, got)
    PROVE  Sound(n, V, t) /\ Moves(n, s, t, got, {})
<1> DEFINE P == s.pool \cup got
           K == V \cap Packet
<1>1. Shape(s) /\ QueueOk(n, s.queue, K) /\ Table(s.nbrs, Awaited(s.queue)) /\ P \subseteq V
  BY DEF Sound
<1>2. /\ Shape(t) /\ t.queue = q /\ t.rtq = s.rtq /\ t.nbrs = s.nbrs
      /\ t.pool = P /\ t.info = s.info /\ t.mac = s.mac /\ t.abort = s.abort
      /\ t.acks = s.acks /\ t.recps = s.recps /\ (s.timer => t.timer)
  BY <1>1 DEF Shape, Grown
<1>3. EntryOk(n, K, e)
  OBVIOUS
<1> HIDE DEF K
<1>4. QueueOk(n, q, K)
  BY <1>1, <1>3, Enqueued
<1>5. Awaited(s.queue) \subseteq Awaited(q)
  BY JoinsKeeps DEF Sound, QueueOk
<1>6. Table(s.nbrs, Awaited(q))
  BY <1>1, <1>5, TableMono
<1> HIDE DEF P
<1>7. Sound(n, V, t)
  BY <1>1, <1>2, <1>4, <1>6 DEF Sound, Running, K
<1>8. Moves(n, s, t, got, {})
  BY <1>2 DEF Moves, Timed, P
<1> QED  BY <1>7, <1>8

\* A unicast entry joins the output queue and its packet a virtual queue.
LEMMA UnicastJoins ==
    ASSUME NEW V, NEW n, NEW s, Sound(n, V, s), NEW got, got \subseteq V, NEW e \in Entry, Unicast(e),
           EntryOk(n, V \cap Packet, e), Accepts(s.queue, e),
           NEW q, Joins(s.queue, e, q), NEW k, k # 0, MacAt(s.nbrs, e.dest, k),
           NEW vq \in Seq(Packet), ToSet(vq) = {e.pid} \cup ToSet(s.nbrs[k].vq),
           NEW b, b = Grown(s, q, got),
           NEW t, t = WithNeighbors(b, Queued(s.nbrs, k, vq))
    PROVE  Fine(n, V, s, t, got, {})
<1> DEFINE m == Owner[e.dest]
           B == Queued(s.nbrs, k, vq)
<1>1. /\ Sound(n, V, b) /\ Moves(n, s, b, got, {})
      /\ b.nbrs = s.nbrs /\ b.queue = q /\ Awaited(s.queue) \subseteq Awaited(q)
      /\ <<e.pid, Owner[e.dest]>> \in Awaited(q)
  <2>1. Sound(n, V, b) /\ Moves(n, s, b, got, {})
    BY QueueGrows
  <2>2. b.nbrs = s.nbrs /\ b.queue = q /\ Awaited(s.queue) \subseteq Awaited(q)
    <3>1. b.nbrs = s.nbrs /\ b.queue = q
      BY DEF Grown, Sound, Shape
    <3>2. Awaited(s.queue) \subseteq Awaited(q)
      BY JoinsKeeps DEF Sound, QueueOk
    <3> QED  BY <3>1, <3>2
  <2>3. <<e.pid, Owner[e.dest]>> \in Awaited(q)
    BY JoinsKeeps DEF Sound, QueueOk
  <2> QED  BY <2>1, <2>2, <2>3
<1>2. e.dest \in Address /\ e.pid \in Packet
  BY DEF EntryOk, Unicast
<1>3. m \in Node /\ e.dest \in Macs(m)
  BY <1>2, OwnerIn
<1>4. k \in DOMAIN s.nbrs /\ HasMac(s.nbrs[k], e.dest)
  BY DEF MacAt
<1>5. Table(s.nbrs, Awaited(s.queue)) /\ \A x : <<e.pid, x>> \notin Awaited(s.queue)
  BY AwaitedNot DEF Sound
<1>6. Rows(B, Awaited(q))
  <2> DEFINE w == Awaited(s.queue)
             w2 == Awaited(q)
             pid == e.pid
             mac == e.dest
  <2>1. Table(s.nbrs, w) /\ w \subseteq w2 /\ <<pid, m>> \in w2 /\ \A x \in Node : <<pid, x>> \notin w
    BY <1>1, <1>5
  <2>2. mac \in Macs(m) /\ m \in Node /\ pid \in Packet /\ HasMac(s.nbrs[k], mac)
    BY <1>2, <1>3, <1>4
  <2>3. vq \in Seq(Packet) /\ ToSet(vq) = {pid} \cup ToSet(s.nbrs[k].vq)
    OBVIOUS
  <2> HIDE DEF w, w2, m, pid, mac
  <2> SUFFICES Rows([s.nbrs EXCEPT ![k].vq = vq], w2)
    BY DEF w2, Queued
  <2> QED  BY <1>4, <2>1, <2>2, <2>3, VqPush
<1> HIDE DEF B, m
<1>7. Fine(n, V, b, t, {}, {})
  <2>1. t = WithNeighbors(b, B) /\ Rows(B, Awaited(b.queue))
    BY <1>1, <1>6 DEF B
  <2> QED  BY <1>1, <2>1, TableSet
<1> QED  BY <1>1, <1>7, MovesOn

\* A handler may end in DoSendEnd.
LEMMA ThenTimer ==
    ASSUME NEW V, NEW n, NEW s, NEW t, NEW got, NEW news, Fine(n, V, s, t, got, news)
    PROVE  Fine(n, V, s, DoSendEnd(t), got, news)
<1> DEFINE u == DoSendEnd(t)
<1>1. u.abort = t.abort
  BY DEF DoSendEnd
<1> SUFFICES ASSUME Running(u) PROVE Fine(n, V, s, u, got, news)
  BY DEF Fine
<1>2. Running(t)
  BY <1>1 DEF Running
<1>3. Sound(n, V, t) /\ Moves(n, s, t, got, news)
  BY <1>2 DEF Fine
<1>4. Fine(n, V, t, u, {}, {})
  BY <1>3, TimerSet
<1> HIDE DEF u
<1> QED  BY <1>3, <1>4, MovesOn DEF u

\* PutBack returns the entry to the front of both queues.
LEMMA PutBackOk ==
    ASSUME NEW V, NEW n \in Node, NEW s, Sound(n, V, s), NEW e, Leaves(n, V, s, e),
           e.dest # Broadcast => SearchMac(s.nbrs, e.dest) # 0
    PROVE  Fine(n, V, s, PutBack(s, e), {}, {})
<1> DEFINE q == EnqueueFront(s.queue, e)
           b == [s EXCEPT !.queue = q]
           k == SearchMac(s.nbrs, e.dest)
           B == AddVirtualQueueEntryFront(s.nbrs, k, e.pid)
           t == IF e.dest = Broadcast THEN b ELSE WithNeighbors(b, B)
<1>1. PutBack(s, e) = DoSendEnd(t)
  BY Zenon DEF PutBack
<1>2. /\ e \in Entry /\ EntryOk(n, V \cap Packet, e) /\ Accepts(s.queue, e)
      /\ e.type = "data"
  BY DEF Leaves
<1>3. Joins(s.queue, e, q) /\ EntryOk(n, V \cap Packet, e)
  BY <1>2 DEF Joins, EnqueueFront
<1>4. Shape(s) /\ s.nbrs \in Seq(Neighbor)
  BY DEF Sound, Table, Rows
<1>5. b = Grown(s, q, {})
  BY <1>4 DEF Shape, Grown
<1> HIDE DEF b, q
<1>6. Fine(n, V, s, t, {}, {})
  <2>1. CASE e.dest = Broadcast
    <3>1. Sound(n, V, b) /\ Moves(n, s, b, {}, {})
      BY <1>2, <1>3, <1>5, QueueGrows
    <3> QED  BY <2>1, <3>1 DEF Fine
  <2>2. CASE e.dest # Broadcast
    <3> DEFINE old == s.nbrs[k].vq
               vq == <<e.pid>> \o old
    <3>1. k # 0 /\ MacAt(s.nbrs, e.dest, k)
      BY <1>4, <2>2, SearchMacIn
    <3> HIDE DEF k
    <3>2. k \in DOMAIN s.nbrs
      BY <3>1 DEF MacAt
    <3>3. s.nbrs[k] \in Neighbor
      BY <1>4, <3>2
    <3>4. old \in Seq(Packet) /\ e.pid \in Packet
      BY <1>2, <3>3 DEF EntryOk, Neighbor
    <3> HIDE DEF old
    <3>5. vq \in Seq(Packet) /\ ToSet(vq) = {e.pid} \cup ToSet(old)
      BY <3>4, ConsIs
    <3>6. B = Queued(s.nbrs, k, vq)
      BY DEF AddVirtualQueueEntryFront, Queued, old
    <3> HIDE DEF vq, B
    <3>7. t = WithNeighbors(b, Queued(s.nbrs, k, vq))
      BY <2>2, <3>6
    <3>8. Unicast(e) /\ ToSet(vq) = {e.pid} \cup ToSet(s.nbrs[k].vq)
      BY <1>2, <2>2, <3>5 DEF Unicast, old
    <3> HIDE DEF t
    <3> QED  BY <1>2, <1>3, <1>5, <3>1, <3>5, <3>7, <3>8, UnicastJoins
  <2> QED  BY <2>1, <2>2
<1> HIDE DEF t
<1> QED  BY <1>1, <1>6, ThenTimer

\* A frame is sent to the group, or led to an address.
LEMMA AddrIn ==
    ASSUME NEW V, NEW n \in Node, NEW s, Sound(n, V, s), NEW e \in Entry, Requested(n, e)
    PROVE  /\ RealSendAddr(s, e) \in Int
           /\ \A ids : First(e) \in ids => AddrOk(n, ids, RealSendAddr(s, e))
<1>1. s.nbrs \in Seq(Neighbor) /\ Rows(s.nbrs, Awaited(s.queue)) /\ e.dest \in Int
  BY DEF Sound, Table, Rows, Entry
<1>2. s.nbrs # <<>> => GetMac(Head(s.nbrs)) \in Int
  <2> HAVE s.nbrs # <<>>
  <2> DEFINE nbr == Head(s.nbrs)
  <2>1. 1 \in DOMAIN s.nbrs /\ nbr = s.nbrs[1] /\ nbr \in Neighbor
    BY <1>1, TailIs
  <2>2. Row(nbr, Awaited(s.queue))
    BY <1>1, <2>1 DEF Rows, RowsOn
  <2>3. PICK m \in Node : Belongs(nbr, m)
    BY <2>2 DEF Row
  <2> HIDE DEF nbr
  <2>4. GetMac(nbr) \in Macs(m)
    BY <2>1, <2>3, GetMacIn
  <2>5. \A i \in DOMAIN Devices(m) : Devices(m)[i].mac \in Int
    <3> TAKE i \in DOMAIN Devices(m)
    <3>1. Devices(m)[i] \in Device
      BY DeviceAt
    <3> QED  BY <3>1 DEF Device
  <2> QED  BY <2>4, <2>5 DEF nbr, Macs
<1>3. Group \in Int
  BY DEF Group
<1> DEFINE r == RealSendAddr(s, e)
<1>4. r = e.dest \/ (s.nbrs # <<>> /\ r = GetMac(Head(s.nbrs))) \/ r = Group
  BY DEF RealSendAddr
<1>5. r = Group \/ e.proto = "etox" \/ (e.proto = "udp" /\ r = e.dest)
  BY DEF RealSendAddr
<1> HIDE DEF r
<1>6. ASSUME NEW ids, First(e) \in ids PROVE AddrOk(n, ids, r)
  <2>1. PICK req \in Asking(n) : e.pid = req.pid /\ e.dest = req.dest /\ e.proto = req.proto
    BY DEF Requested
  <2>2. First(e).pid = e.pid
    BY DEF First
  <2>3. req.pid \in {id.pid : id \in ids}
    BY <1>6, <2>1, <2>2
  <2> QED  BY <1>5, <2>1, <2>3 DEF AddrOk, Led
<1> QED  BY <1>1, <1>2, <1>3, <1>4, <1>6 DEF r

\* The next hop of an entry that leaves the queue is a neighbor.
LEMMA SendEntryOk ==
    ASSUME NEW V, NEW n \in Node, NEW active, active \subseteq DOMAIN Devices(n),
           NEW s, Sound(n, V, s), NEW e, Leaves(n, V, s, e),
           e.dest # Broadcast => SearchMac(s.nbrs, e.dest) # 0
    PROVE  Fine(n, V, s, SendEntry(n, s, active, e), {}, {})
<1> DEFINE coded == s.queue # <<>> /\ e.dest # Broadcast
           out == IF coded THEN Encode(n, s, active, e) ELSE PlainSend(s, e)
           r == SendEntry(n, s, active, e)
           addr == RealSendAddr(s, e)
<1>1. /\ ~ Running(out.s) => r = out.s
      /\ Running(out.s) /\ ~ out.encoded /\ e.iface \notin active => r = PutBack(out.s, e)
      /\ Running(out.s) /\ ~ (~ out.encoded /\ e.iface \notin active) =>
            r = Transmit(n, out.s, addr, out)
  BY Zenon DEF SendEntry
<1>2. e \in Entry /\ e.type = "data" /\ Requested(n, e)
  BY DEF Leaves, EntryOk
<1>3. Running(out.s) => OutOk(n, V, s, out) /\ First(e) \in out.ids
  <2>1. CASE coded
    <3>1. out = Encode(n, s, active, e)
      BY <2>1
    <3>2. Unicast(e) /\ SearchMac(s.nbrs, e.dest) # 0
      BY <1>2, <2>1 DEF Unicast
    <3> HIDE DEF out
    <3> QED  BY <3>1, <3>2, EncodeGood
  <2>2. CASE ~ coded
    <3>1. out = PlainSend(s, e)
      BY <2>2
    <3> QED  BY <3>1, PlainGood
  <2> QED  BY <2>1, <2>2
<1> HIDE DEF out, r, addr
<1>4. addr \in Int /\ \A ids : First(e) \in ids => AddrOk(n, ids, addr)
  BY <1>2, AddrIn DEF addr
<1>5. CASE ~ Running(out.s)
  BY <1>1, <1>5 DEF Fine, r
<1>6. CASE Running(out.s) /\ ~ out.encoded /\ e.iface \notin active
  <2>1. out.s = s /\ r = PutBack(s, e)
    BY <1>1, <1>3, <1>6 DEF OutOk
  <2> QED  BY <2>1, PutBackOk DEF r
<1>7. CASE Running(out.s) /\ ~ (~ out.encoded /\ e.iface \notin active)
  <2>1. r = Transmit(n, out.s, addr, out) /\ OutOk(n, V, s, out) /\ AddrOk(n, out.ids, addr)
    BY <1>1, <1>3, <1>4, <1>7
  <2>2. Fine(n, V, out.s, r, {}, {}) /\ Timed(r)
    BY <1>4, <2>1, TransmitOk
  <2>3. out.s.pool = s.pool /\ out.s.info = s.info /\ out.s.mac = s.mac
    BY <2>1 DEF OutOk
  <2> QED  BY <2>2, <2>3 DEF Fine, Moves, r
<1> QED  BY <1>5, <1>6, <1>7

\* The packet of a data entry leaves its virtual queue with the entry.
LEMMA LeftSound ==
    ASSUME NEW V, NEW n, NEW s, Sound(n, V, s), s.queue # <<>>, NEW e, e = Head(s.queue),
           NEW nbrs, Table(nbrs, Awaited(Tail(s.queue))), NEW t, t = Left(s, nbrs)
    PROVE  /\ Sound(n, V, t) /\ Moves(n, s, t, {}, {})
           /\ e.type = "data" => Leaves(n, V, t, e)
<1> DEFINE q == s.queue
           r == Tail(q)
           K == V \cap Packet
<1>1. Shape(s) /\ q \in Seq(Entry) /\ q # <<>> /\ Distinct(q) /\ QueueOk(n, q, K)
  BY DEF Sound, QueueOk
<1>2. /\ Thinned(q, r)
      /\ \A j \in DOMAIN r : r[j].pid # e.pid
  BY <1>1, TailThins
<1>3. /\ Shape(t) /\ t.queue = r /\ t.rtq = s.rtq /\ t.nbrs = nbrs
      /\ t.pool = s.pool /\ t.info = s.info /\ t.mac = s.mac /\ t.abort = s.abort
      /\ t.acks = s.acks /\ t.recps = s.recps /\ (s.timer => t.timer)
  BY <1>1 DEF Shape, Left
<1>4. QueueOk(n, r, K)
  BY <1>1, <1>2, ThinnedOk
<1>5. Sound(n, V, t)
  BY <1>3, <1>4 DEF Sound, Running
<1>6. Moves(n, s, t, {}, {})
  BY <1>3 DEF Moves, Timed
<1>7. e.type = "data" => Leaves(n, V, t, e)
  <2>1. e \in Entry /\ 1 \in DOMAIN q /\ q[1] = e /\ Len(r) = Len(q) - 1 /\ Len(q) \in Nat
    BY <1>1, TailIs
  <2>2. EntryOk(n, K, e) /\ Len(q) <= QueueMax /\ QueueMax \in Nat
    BY <1>1, <2>1, QueueAssumption DEF QueueOk
  <2> HIDE DEF q, r
  <2>3. Len(r) # QueueMax
    BY <2>1, <2>2
  <2>4. Accepts(r, e)
    BY <1>2, <2>3 DEF Accepts, Pids
  <2> QED  BY <1>3, <2>1, <2>2, <2>4 DEF Leaves
<1> QED  BY <1>5, <1>6, <1>7

\* Only unicast data is awaited by anyone.
LEMMA LeftOther ==
    ASSUME NEW V, NEW n, NEW s, Sound(n, V, s), s.queue # <<>>, ~ Unicast(Head(s.queue))
    PROVE  Table(s.nbrs, Awaited(Tail(s.queue)))
<1> DEFINE q == s.queue
           r == Tail(q)
           e == Head(q)
<1>1. q \in Seq(Entry) /\ q # <<>> /\ Distinct(q) /\ Table(s.nbrs, Awaited(q))
  BY DEF Sound, QueueOk
<1>2. /\ \A i \in DOMAIN q : q[i].pid # e.pid => \E j \in DOMAIN r : r[j] = q[i]
      /\ 1 \in DOMAIN q /\ q[1] = e
  BY <1>1, TailThins, TailIs
<1>3. \A i \in DOMAIN q : Unicast(q[i]) => \E j \in DOMAIN r : r[j] = q[i]
  <2> TAKE i \in DOMAIN q
  <2> HAVE Unicast(q[i])
  <2>1. i # 1
    BY <1>2
  <2>2. q[i].pid # e.pid
    BY <1>1, <1>2, <2>1 DEF Distinct
  <2> QED  BY <1>2, <2>2
<1> HIDE DEF q, r
<1>4. Awaited(q) \subseteq Awaited(r)
  BY <1>3, AwaitedMore
<1>5. Table(s.nbrs, Awaited(r))
  BY <1>1, <1>4, TableMono
<1> QED  BY <1>5 DEF q, r

\* A unicast entry leaves its neighbor's virtual queue with the output queue.
LEMMA UnicastLeft ==
    ASSUME NEW V, NEW n \in Node, NEW s, Sound(n, V, s), s.queue # <<>>,
           NEW e, e = Head(s.queue), Unicast(e),
           NEW k, k = SearchMac(s.nbrs, e.dest), k # 0, Contains(s.nbrs[k].vq, e.pid),
           NEW B, B = RemoveVirtualQueueEntry(s.nbrs, k, e.pid),
           NEW left, left = Left(s, B)
    PROVE  /\ Sound(n, V, left) /\ Moves(n, s, left, {}, {}) /\ Leaves(n, V, left, e)
           /\ left.nbrs = B /\ SearchMac(left.nbrs, e.dest) # 0
<1>3. /\ s.queue \in Seq(Entry) /\ Distinct(s.queue) /\ Table(s.nbrs, Awaited(s.queue))
      /\ s.nbrs \in Seq(Neighbor)
  BY DEF Sound, QueueOk, Table, Rows
<1>4. k \in DOMAIN s.nbrs
  <2>1. MacAt(s.nbrs, e.dest, k)
    BY <1>3, SearchMacIn
  <2> QED  BY <2>1 DEF MacAt
<1> DEFINE old == s.nbrs[k].vq
           pid == e.pid
           vq == RemoveFirst(old, pid)
           w == Awaited(s.queue)
           w2 == Awaited(Tail(s.queue))
<1>5. s.nbrs[k] \in Neighbor /\ IsInjective(old)
  BY <1>3, <1>4 DEF Table
<1>6. old \in Seq(Packet)
  BY ONLY <1>5 DEF Neighbor
<1>7. pid \in ToSet(old)
  <2>1. Contains(old, pid)
    OBVIOUS
  <2> HIDE DEF old, pid
  <2>2. pid \in {old[i] : i \in DOMAIN old}
    BY <1>6, <2>1 DEF Contains
  <2> QED  BY <2>2 DEF ToSet
<1>8. vq \in Seq(Packet) /\ IsInjective(vq) /\ ToSet(vq) = ToSet(old) \ {pid}
  <2> HIDE DEF old, pid
  <2> QED  BY <1>5, <1>6, <1>7, RemoveFirstIs
<1>9. \A p : \A m \in Node : p # pid /\ <<p, m>> \in w => <<p, m>> \in w2
  <2>1. \A i \in DOMAIN s.queue : s.queue[i].pid # e.pid =>
            \E j \in DOMAIN Tail(s.queue) : Tail(s.queue)[j] = s.queue[i]
    BY <1>3, TailThins
  <2> QED  BY <2>1, AwaitedKept
<1>10. Table(B, w2)
  <2>1. Table(s.nbrs, w) /\ pid \in ToSet(s.nbrs[k].vq) /\ ToSet(vq) = ToSet(s.nbrs[k].vq) \ {pid}
    BY ONLY <1>3, <1>7, <1>8
  <2>2. B = [s.nbrs EXCEPT ![k].vq = vq]
    BY Zenon DEF RemoveVirtualQueueEntry
  <2> HIDE DEF w, w2, pid, vq
  <2>3. Table([s.nbrs EXCEPT ![k].vq = vq], w2)
    BY ONLY <1>4, <1>8, <1>9, <2>1, VqPop
  <2> QED  BY ONLY <2>2, <2>3
<1>12. B[k].tri = s.nbrs[k].tri /\ DOMAIN B = DOMAIN s.nbrs
       /\ \A l \in DOMAIN s.nbrs : l # k => B[l] = s.nbrs[l]
  <2>1. B = [s.nbrs EXCEPT ![k].vq = vq]
    BY Zenon DEF RemoveVirtualQueueEntry
  <2>2. s.nbrs[k] = [tri |-> s.nbrs[k].tri, vq |-> s.nbrs[k].vq]
    BY ONLY <1>5 DEF Neighbor
  <2> HIDE DEF vq
  <2> QED  BY ONLY <1>3, <1>4, <2>1, <2>2
<1>13. Sound(n, V, left) /\ Moves(n, s, left, {}, {}) /\ Leaves(n, V, left, e) /\ left.nbrs = B
  <2>1. /\ Sound(n, V, left) /\ Moves(n, s, left, {}, {})
        /\ e.type = "data" => Leaves(n, V, left, e)
    BY <1>10, LeftSound
  <2>2. left.nbrs = B
    BY DEF Sound, Shape, Left
  <2>3. e.type = "data"
    BY Zenon DEF Unicast
  <2> QED  BY ONLY <2>1, <2>2, <2>3
<1>14. SearchMac(left.nbrs, e.dest) # 0
  <2>1. left.nbrs \in Seq(Neighbor)
    <3>1. Table(left.nbrs, Awaited(left.queue))
      BY ONLY <1>13 DEF Sound
    <3> QED  BY ONLY <3>1 DEF Table, Rows
  <2>2. MacAt(left.nbrs, e.dest, SearchMac(left.nbrs, e.dest))
    BY <2>1, SearchMacIn
  <2>3. HasMac(B[k], e.dest) /\ k \in DOMAIN B
    <3>1. MacAt(s.nbrs, e.dest, k)
      BY <1>3, SearchMacIn
    <3>2. HasMac(s.nbrs[k], e.dest)
      BY <3>1 DEF MacAt
    <3>3. B[k].tri = s.nbrs[k].tri /\ k \in DOMAIN B
      BY ONLY <1>4, <1>12
    <3>4. HasMac(B[k], e.dest)
      BY ONLY Zenon, <3>2, <3>3 DEF HasMac
    <3> QED  BY ONLY <3>3, <3>4
  <2>4. \A l \in DOMAIN left.nbrs : HasMac(left.nbrs[l], e.dest) => SearchMac(left.nbrs, e.dest) # 0
    BY ONLY <2>2 DEF MacAt
  <2> QED  BY ONLY <1>13, <2>3, <2>4
<1> QED  BY ONLY <1>13, <1>14

\* A unicast entry is sent, dropped or put back.
LEMMA SendUnicastOk ==
    ASSUME NEW V, NEW n \in Node, NEW active, active \subseteq DOMAIN Devices(n),
           NEW s, Sound(n, V, s), s.queue # <<>>, NEW e, e = Head(s.queue), Unicast(e)
    PROVE  Fine(n, V, s, SendUnicast(n, s, active, e), {}, {})
<1> DEFINE k == SearchMac(s.nbrs, e.dest)
           B == RemoveVirtualQueueEntry(s.nbrs, k, e.pid)
           left == [s EXCEPT !.queue = Tail(s.queue), !.nbrs = B]
           r == SendUnicast(n, s, active, e)
<1>1. \/ r = Abort(s, "neighborPos > -1")
      \/ r = Abort(s, "Removed failed")
      \/ k # 0 /\ Contains(s.nbrs[k].vq, e.pid)
         /\ (r = DoSendEnd(left) \/ r = SendEntry(n, left, active, e))
  BY Zenon DEF SendUnicast
<1> SUFFICES ASSUME Running(r) PROVE Fine(n, V, s, r, {}, {})
  BY DEF Fine
<1>2. k # 0 /\ Contains(s.nbrs[k].vq, e.pid)
      /\ (r = DoSendEnd(left) \/ r = SendEntry(n, left, active, e))
  <2>1. Shape(s)
    BY DEF Sound
  <2>2. ~ Running(Abort(s, "neighborPos > -1")) /\ ~ Running(Abort(s, "Removed failed"))
    <3>1. "neighborPos > -1" # None /\ "Removed failed" # None
      BY Zenon DEF None
    <3> QED  BY Zenon, <2>1, <3>1, Aborted
  <2> QED  BY Zenon, <1>1, <2>2
<1> HIDE DEF r
<1>3. /\ Sound(n, V, left) /\ Moves(n, s, left, {}, {}) /\ Leaves(n, V, left, e)
      /\ SearchMac(left.nbrs, e.dest) # 0
  <2>1. B = RemoveVirtualQueueEntry(s.nbrs, k, e.pid) /\ left = Left(s, B)
        /\ k = SearchMac(s.nbrs, e.dest)
    BY DEF Left
  <2> HIDE DEF B, left, k
  <2> QED  BY <1>2, <2>1, UnicastLeft
<1> HIDE DEF left
<1>4. CASE r = DoSendEnd(left)
  <2>1. Fine(n, V, left, r, {}, {})
    BY <1>3, <1>4, TimerSet
  <2> QED  BY <1>3, <2>1, MovesOn
<1>5. CASE r = SendEntry(n, left, active, e)
  <2>1. Fine(n, V, left, r, {}, {})
    BY <1>3, <1>5, SendEntryOk
  <2> QED  BY <1>3, <2>1, MovesOn
<1> QED  BY <1>2, <1>4, <1>5

\* A hello is sent or stays.
LEMMA SendHelloEntryOk ==
    ASSUME NEW V, NEW n \in Node, NEW active, NEW s, Sound(n, V, s), s.queue # <<>>,
           NEW e, e = Head(s.queue), e.type = "hello"
    PROVE  Fine(n, V, s, SendHelloEntry(n, s, active, e), {}, {})
<1> DEFINE left == [s EXCEPT !.queue = Tail(s.queue)]
           f == [type |-> "hello", src |-> Devices(n)[e.iface].mac, dst |-> Broadcast,
                 pairs |-> Devices(n)]
           r == SendHelloEntry(n, s, active, e)
<1>1. r = DoSendEnd(s) \/ r = DoSendEnd(ForwardDown(left, e.iface, f))
  BY Zenon DEF SendHelloEntry
<1>2. left = Left(s, s.nbrs)
  BY DEF Sound, Shape, Left
<1>3. e.iface \in DOMAIN Devices(n)
  <2>1. QueueOk(n, s.queue, V \cap Packet) /\ s.queue \in Seq(Entry)
    BY DEF Sound, QueueOk
  <2>2. 1 \in DOMAIN s.queue /\ s.queue[1] = e
    BY <2>1, TailIs
  <2> QED  BY <2>1, <2>2 DEF QueueOk, EntryOk
<1> HIDE DEF left, f, r
<1>4. Sound(n, V, left) /\ Moves(n, s, left, {}, {})
  <2>1. ~ Unicast(Head(s.queue))
    BY DEF Unicast
  <2>2. Table(s.nbrs, Awaited(Tail(s.queue)))
    BY <2>1, LeftOther
  <2> QED  BY <1>2, <2>2, LeftSound
<1>5. f \in Sendable(n, V, left.info)
  <2>1. Devices(n)[e.iface].mac \in Macs(n)
    BY <1>3 DEF Macs
  <2> QED  BY <2>1 DEF f, Sendable
<1>8. f.src = Devices(n)[e.iface].mac
  BY DEF f
<1>6. CASE r = DoSendEnd(s)
  BY <1>6, TimerSet DEF r
<1>7. CASE r = DoSendEnd(ForwardDown(left, e.iface, f))
  <2>1. Fine(n, V, left, r, {}, {})
    BY <1>3, <1>4, <1>5, <1>7, <1>8, Forwarded
  <2> QED  BY <1>4, <2>1, MovesOn DEF r
<1> QED  BY <1>1, <1>6, <1>7

\* DoSend keeps a node sound.
LEMMA DoSendOk ==
    ASSUME NEW V, NEW n \in Node, NEW active, active \subseteq DOMAIN Devices(n),
           NEW s, Sound(n, V, s), s.queue # <<>>
    PROVE  Fine(n, V, s, DoSend(n, s, active), {}, {})
<1> DEFINE e == Head(s.queue)
           left == [s EXCEPT !.queue = Tail(s.queue)]
           r == DoSend(n, s, active)
<1>1. /\ e.type = "hello" => r = SendHelloEntry(n, s, active, e)
      /\ e.type = "data" /\ e.dest # Broadcast => r = SendUnicast(n, s, active, e)
      /\ e.type = "data" /\ e.dest = Broadcast => r = SendEntry(n, left, active, e)
  <2>1. "hello" # "data"
    OBVIOUS
  <2> QED  BY Zenon, <2>1 DEF DoSend
<1>2. e \in Entry
  <2>1. s.queue \in Seq(Entry)
    BY DEF Sound, QueueOk
  <2> QED  BY <2>1, TailIs
<1>3. left = Left(s, s.nbrs)
  BY DEF Sound, Shape, Left
<1> HIDE DEF r, left, e
<1>4. e = Head(s.queue)
  BY DEF e
<1>5. CASE e.type = "hello"
  BY <1>1, <1>4, <1>5, SendHelloEntryOk DEF r
<1>6. CASE e.type = "data" /\ e.dest # Broadcast
  <2>1. Unicast(e)
    BY <1>6 DEF Unicast
  <2> QED  BY <1>1, <1>4, <1>6, <2>1, SendUnicastOk DEF r
<1>7. CASE e.type = "data" /\ e.dest = Broadcast
  <2>1. Table(s.nbrs, Awaited(Tail(s.queue)))
    BY <1>4, <1>7, LeftOther DEF Unicast
  <2>2. Sound(n, V, left) /\ Moves(n, s, left, {}, {}) /\ (e.type = "data" => Leaves(n, V, left, e))
    BY <1>3, <1>4, <2>1, LeftSound
  <2>3. Fine(n, V, left, SendEntry(n, left, active, e), {}, {})
    BY <1>7, <2>2, SendEntryOk
  <2>4. Fine(n, V, left, r, {}, {})
    BY <1>1, <1>7, <2>3
  <2> QED  BY <2>2, <2>4, MovesOn DEF r
<1> QED  BY <1>2, <1>5, <1>6, <1>7 DEF Entry

\* Whatever the try timer finds, it leaves a sound node.
LEMMA TrySendOk ==
    ASSUME NEW V, NEW n \in Node, NEW s, Sound(n, V, s)
    PROVE  Fine(n, V, s, TrySend(n, s), {}, {})
<1>1. CASE TrySend(n, s) = s
  BY <1>1 DEF Fine, Moves
<1>2. CASE s.queue # <<>> /\ TrySend(n, s) = DoSend(n, s, ActiveDevices(n, s))
  <2>1. ActiveDevices(n, s) \subseteq DOMAIN Devices(n)
    BY DEF ActiveDevices
  <2> QED  BY <1>2, <2>1, DoSendOk
<1> QED  BY Zenon, <1>1, <1>2 DEF TrySend

\* What another event leaves sound the try that follows it does too.
LEMMA ThenTry ==
    ASSUME NEW V, NEW n \in Node, NEW s, NEW t, NEW got, NEW news, Fine(n, V, s, t, got, news)
    PROVE  Fine(n, V, s, TrySend(n, t), got, news)
<1>1. CASE Running(t)
  <2>1. Sound(n, V, t) /\ Moves(n, s, t, got, news)
    BY <1>1 DEF Fine
  <2>2. Fine(n, V, t, TrySend(n, t), {}, {})
    BY <2>1, TrySendOk
  <2> QED  BY <2>1, <2>2, MovesOn
<1>2. CASE ~ Running(t)
  <2>1. TrySend(n, t) = t
    BY Zenon, <1>2 DEF TrySend
  <2> QED  BY <2>1
<1> QED  BY <1>1, <1>2

-----------------------------------------------------------------------------
(* Enqueue, SendHello and Retransmit *)

\* A request makes an entry.
LEMMA NewEntryOk ==
    ASSUME NEW n \in Node, NEW req, Asked(n, req), NEW P, req.pid \in P
    PROVE  LET e == NewEntry(req)
           IN  /\ e \in Entry /\ EntryOk(n, P \cap Packet, e)
               /\ e.pid = req.pid /\ e.dest = req.dest /\ e.type = "data" /\ (req.dest # Broadcast => Unicast(e))
<1> DEFINE e == NewEntry(req)
<1>1. /\ req.pid \in SUBSET STRING /\ req.dest \in Address \cup {Broadcast}
      /\ req.iface \in DOMAIN Devices(n) /\ req.proto \in {"udp", "etox", "other"}
      /\ req.pid \in Packet /\ req \in Asking(n)
      /\ req.dest = Broadcast => Unforwarded(req.pid)
  BY DEF Asked, Request
<1>2. req.dest \in Int
  <2>1. \A m \in Node : \A i \in DOMAIN Devices(m) : Devices(m)[i].mac \in Int
    <3> TAKE m \in Node
    <3> TAKE i \in DOMAIN Devices(m)
    <3>1. Devices(m)[i] \in Device
      BY DeviceAt
    <3> QED  BY <3>1 DEF Device
  <2> QED  BY <1>1, <2>1 DEF Address, Macs, Broadcast
<1>3. req.iface \in Nat /\ 0 \in 0..MaxRetry
  BY <1>1, DeviceAt, QueueAssumption
<1>4. /\ e.pid = req.pid /\ e.dest = req.dest /\ e.type = "data" /\ e.iface = req.iface
      /\ e.proto = req.proto
  BY DEF NewEntry
<1>5. e \in Entry
  BY <1>1, <1>2, <1>3 DEF NewEntry, Entry
<1> HIDE DEF e
<1>6. EntryOk(n, P \cap Packet, e)
  BY <1>1, <1>4 DEF EntryOk, Requested
<1>7. req.dest # Broadcast => Unicast(e)
  BY <1>4 DEF Unicast
<1> QED  BY <1>4, <1>5, <1>6, <1>7 DEF e

\* A next hop nobody was heard from becomes a row of its own.
LEMMA StrangerOk ==
    ASSUME NEW V, NEW n \in Node, NEW s, Sound(n, V, s), NEW req, Asked(n, req), req.dest # Broadcast,
           NEW e, e = NewEntry(req), Accepts(s.queue, e),
           NEW q, Awaited(s.queue) \subseteq Awaited(q), <<req.pid, Owner[req.dest]>> \in Awaited(q),
           NEW stranger, stranger = [tri |-> <<[mac |-> req.dest, ip |-> ZeroIp,
                                                ch |-> Devices(n)[req.iface].ch]>>,
                                     vq |-> <<req.pid>>]
    PROVE  Rows(AddNeighbor(s.nbrs, stranger), Awaited(q))
<1> DEFINE m == Owner[req.dest]
           t == [mac |-> req.dest, ip |-> ZeroIp, ch |-> Devices(n)[req.iface].ch]
<1>1. req.dest \in Address /\ req.pid \in Packet /\ req.iface \in DOMAIN Devices(n)
      /\ (RoutesOnLink => OnChannel(req.dest, Devices(n)[req.iface].ch))
  BY DEF Asked, Request, RoutesOnLink
<1>2. m \in Node /\ req.dest \in Macs(m)
  BY <1>1, OwnerIn
<1>3. t \in Trinity /\ t.mac = req.dest /\ t.ip = ZeroIp
  <2>1. Devices(n)[req.iface] \in Device
    BY <1>1, DeviceAt
  <2> QED  BY <1>1, <2>1 DEF Device, Trinity, ZeroIp
<1> HIDE DEF t
<1>4. stranger = [tri |-> <<t>>, vq |-> <<req.pid>>]
  BY DEF t
<1>5. /\ stranger \in Neighbor /\ stranger.tri = <<t>> /\ stranger.vq = <<req.pid>>
  <2>1. <<t>> \in Seq(Trinity) /\ <<req.pid>> \in Seq(Packet)
    BY <1>1, <1>3
  <2> QED  BY <1>4, <2>1 DEF Neighbor
<1> HIDE DEF m
<1>6. ToSet(stranger.vq) = {req.pid}
  BY <1>5 DEF ToSet
<1>7. Belongs(stranger, m)
  BY <1>2, <1>3, <1>5 DEF Belongs
<1>8. Row(stranger, Awaited(q))
  BY <1>2, <1>6, <1>7 DEF Row, m
<1>9. /\ Rows(s.nbrs, Awaited(q)) /\ Rows(s.nbrs, Awaited(s.queue))
  <2>1. Rows(s.nbrs, Awaited(s.queue))
    BY DEF Sound, Table
  <2> QED  BY <2>1, TableMono
<1>10. \A k \in DOMAIN s.nbrs : ToSet(s.nbrs[k].vq) \cap ToSet(stranger.vq) = {}
  <2>1. e.pid = req.pid
    BY DEF NewEntry
  <2>2. \A x : <<e.pid, x>> \notin Awaited(s.queue)
    BY AwaitedNot
  <2>3. \A k \in DOMAIN s.nbrs : req.pid \notin ToSet(s.nbrs[k].vq)
    BY <1>9, <2>1, <2>2 DEF Rows, RowsOn, Row
  <2> QED  BY <1>6, <2>3
<1> QED  BY <1>5, <1>8, <1>9, <1>10, AddNeighborOk

\* A request is refused, or joins the queues and the pool.
LEMMA StoreDataOk ==
    ASSUME NEW V, NEW n \in Node, NEW s, Sound(n, V, s), NEW req, Asked(n, req), req.pid \in V
    PROVE  StoreData(n, s, req) = s \/ Fine(n, V, s, StoreData(n, s, req), {req.pid}, {})
<1> DEFINE e == NewEntry(req)
           got == {req.pid}
           q == EnqueueBack(s.queue, e)
           k == SearchMac(s.nbrs, req.dest)
           stored == [s EXCEPT !.queue = q, !.pool = s.pool \cup got]
           stranger == [tri |-> <<[mac |-> req.dest, ip |-> ZeroIp,
                                   ch |-> Devices(n)[req.iface].ch]>>,
                        vq |-> <<req.pid>>]
           far == WithNeighbors(stored, AddNeighbor(s.nbrs, stranger))
           near == WithNeighbors(stored, AddVirtualQueueEntry(s.nbrs, k, req.pid))
           r == StoreData(n, s, req)
<1>1. /\ ~ Accepts(s.queue, e) => r = s
      /\ Accepts(s.queue, e) /\ req.dest = Broadcast => r = stored
      /\ Accepts(s.queue, e) /\ req.dest # Broadcast /\ k = 0 => r = far
      /\ Accepts(s.queue, e) /\ req.dest # Broadcast /\ k # 0 => r = near
  BY Zenon DEF StoreData, NewEntry
<1>2. /\ e \in Entry /\ EntryOk(n, V \cap Packet, e)
      /\ e.pid = req.pid /\ e.dest = req.dest /\ e.type = "data"
      /\ (req.dest # Broadcast => Unicast(e)) /\ req.pid \in Packet
  BY NewEntryOk DEF Asked
<1>3. stored = Grown(s, q, got)
  BY DEF Grown
<1>4. s.nbrs \in Seq(Neighbor)
  BY DEF Sound, Table, Rows
<1>5. e = NewEntry(req) /\ got \subseteq V
  OBVIOUS
<1> SUFFICES r = s \/ Fine(n, V, s, r, got, {})
  OBVIOUS
<1> HIDE DEF e, got, q, stored, far, near, r, k
<1>6. CASE ~ Accepts(s.queue, e)
  BY <1>1, <1>6
<1>7. CASE Accepts(s.queue, e)
  <2>1. Joins(s.queue, e, q)
    BY <1>7 DEF Joins, EnqueueBack, q
  <2>2. Sound(n, V, stored) /\ Moves(n, s, stored, got, {})
    BY <1>2, <1>3, <1>5, <1>7, <2>1, QueueGrows
  <2>3. stored.nbrs = s.nbrs /\ stored.queue = q
    BY <1>3 DEF Sound, Shape, Grown
  <2>4. CASE req.dest = Broadcast
    BY <1>1, <1>7, <2>2, <2>4 DEF Fine
  <2>5. CASE req.dest # Broadcast /\ k = 0
    <3>1. Awaited(s.queue) \subseteq Awaited(q)
      BY <1>2, <2>1, JoinsKeeps DEF Sound, QueueOk
    <3>2. Unicast(e) => <<e.pid, Owner[e.dest]>> \in Awaited(q)
      BY <1>2, <2>1, JoinsKeeps DEF Sound, QueueOk
    <3>3. <<req.pid, Owner[req.dest]>> \in Awaited(q)
      BY <1>2, <2>5, <3>2
    <3> DEFINE B == AddNeighbor(s.nbrs, stranger)
    <3> HIDE DEF stranger
    <3>4. Rows(B, Awaited(q))
      BY <1>5, <1>7, <2>5, <3>1, <3>3, StrangerOk DEF stranger
    <3>5. r = WithNeighbors(stored, B)
      BY <1>1, <1>7, <2>5 DEF far
    <3> HIDE DEF B
    <3>6. Fine(n, V, stored, r, {}, {})
      BY <2>2, <2>3, <3>4, <3>5, TableSet
    <3> QED  BY <2>2, <3>6, MovesOn
  <2>6. CASE req.dest # Broadcast /\ k # 0
    <3> DEFINE old == s.nbrs[k].vq
               vq == Append(old, req.pid)
               B == AddVirtualQueueEntry(s.nbrs, k, req.pid)
    <3>1. MacAt(s.nbrs, e.dest, k)
      BY <1>2, <1>4, SearchMacIn DEF k
    <3>2. k \in DOMAIN s.nbrs
      BY <2>6, <3>1 DEF MacAt
    <3>3. s.nbrs[k] \in Neighbor
      BY <1>4, <3>2
    <3>4. old \in Seq(Packet)
      BY <3>3 DEF Neighbor
    <3> HIDE DEF old
    <3>5. vq \in Seq(Packet) /\ ToSet(vq) = {e.pid} \cup ToSet(old)
      BY <1>2, <3>4, AppendIs
    <3>6. B = Queued(s.nbrs, k, vq)
      BY DEF AddVirtualQueueEntry, Queued, old
    <3> HIDE DEF vq, B
    <3>7. r = WithNeighbors(stored, Queued(s.nbrs, k, vq))
      BY <1>1, <1>7, <2>6, <3>6 DEF near, B
    <3>8. Unicast(e) /\ ToSet(vq) = {e.pid} \cup ToSet(s.nbrs[k].vq)
      BY <1>2, <2>6, <3>5 DEF old
    <3>9. Fine(n, V, s, r, got, {})
      BY <1>2, <1>3, <1>5, <1>7, <2>1, <2>6, <3>1, <3>5, <3>7, <3>8, UnicastJoins
    <3> QED  BY <3>9
  <2> QED  BY <2>4, <2>5, <2>6
<1> QED  BY <1>6, <1>7

\* Enqueue for a data packet.
LEMMA EnqueueDataOk ==
    ASSUME NEW V, NEW n \in Node, NEW s, Sound(n, V, s), NEW req, Asked(n, req), req.pid \in V
    PROVE  \/ EnqueueData(n, s, req) = TrySend(n, s)
           \/ Fine(n, V, s, EnqueueData(n, s, req), {req.pid}, {})
<1> DEFINE t == StoreData(n, s, req)
           got == {req.pid}
<1>1. EnqueueData(n, s, req) = TrySend(n, t)
  BY DEF EnqueueData, Sound
<1>2. t = s \/ Fine(n, V, s, t, got, {})
  BY StoreDataOk
<1> HIDE DEF t, got
<1>3. Fine(n, V, s, t, got, {}) => Fine(n, V, s, TrySend(n, t), got, {})
  BY ThenTry
<1> QED  BY <1>1, <1>2, <1>3 DEF got

\* A hello joins the front of the queue.
LEMMA EnqueueHelloOk ==
    ASSUME NEW V, NEW n \in Node, NEW s, NEW t, Fine(n, V, s, t, {}, {}), NEW i \in DOMAIN Devices(n),
           NEW garbage \in SUBSET STRING
    PROVE  Fine(n, V, s, EnqueueHello(n, t, i, garbage), {}, {})
<1> DEFINE e == [type |-> "hello", pid |-> garbage, dest |-> Broadcast,
                 iface |-> i, proto |-> "other", retry |-> 0]
           q == EnqueueFront(t.queue, e)
           u == [t EXCEPT !.queue = q]
<1>1. EnqueueHello(n, t, i, garbage) = TrySend(n, u)
  BY Zenon DEF EnqueueHello
<1>2. CASE ~ Running(t)
  <2>1. u.abort = t.abort
    OBVIOUS
  <2>2. ~ Running(u)
    BY <1>2, <2>1 DEF Running
  <2> HIDE DEF u
  <2>3. Fine(n, V, s, u, {}, {})
    BY <2>2 DEF Fine
  <2> QED  BY <1>1, <2>3, ThenTry
<1>3. CASE Running(t)
  <2>1. Sound(n, V, t) /\ Moves(n, s, t, {}, {})
    BY <1>3 DEF Fine
  <2>2. e \in Entry /\ e.type = "hello" /\ e.iface = i
    <3>1. i \in Nat /\ 0 \in 0..MaxRetry /\ Broadcast \in Int
      BY DeviceAt, QueueAssumption DEF Broadcast
    <3> QED  BY <3>1 DEF Entry
  <2>3. u = Grown(t, q, {})
    BY <2>1 DEF Sound, Shape, Grown
  <2> HIDE DEF e, q, u
  <2>4. EntryOk(n, V \cap Packet, e)
    BY <2>2 DEF EntryOk
  <2>5. CASE Accepts(t.queue, e)
    <3>1. Joins(t.queue, e, q)
      BY <2>5 DEF Joins, EnqueueFront, q
    <3>2. Sound(n, V, u) /\ Moves(n, t, u, {}, {})
      BY <2>1, <2>2, <2>3, <2>4, <2>5, <3>1, QueueGrows
    <3>3. Fine(n, V, s, u, {}, {})
      BY <2>1, <3>2, MovesOn DEF Fine
    <3> QED  BY <1>1, <3>3, ThenTry
  <2>6. CASE ~ Accepts(t.queue, e)
    <3>1. q = t.queue
      BY <2>6 DEF EnqueueFront, q
    <3>2. u = t
      BY <2>1, <2>3, <3>1 DEF Sound, Shape, Grown
    <3> QED  BY <1>1, <3>2, ThenTry
  <2> QED  BY <2>5, <2>6
<1> QED  BY <1>2, <1>3

\* SendHello keeps a node sound.
LEMMA SendHelloOk ==
    ASSUME NEW V, NEW n \in Node, NEW s, Sound(n, V, s),
           NEW garbage \in [DOMAIN Devices(n) -> SUBSET STRING]
    PROVE  Fine(n, V, s, SendHello(n, s, garbage), {}, {})
<1> DEFINE N == Len(Devices(n))
           out == SendHello(n, s, garbage)
           seq == [i \in 1..N |-> i]
<1>1. N \in Nat /\ DOMAIN Devices(n) = 1..N
  BY DeviceAt
<1> HIDE DEF N
<1>2. PICK v : IsRun(v, "SendHello", <<n, garbage>>, s, seq, N, out)
  BY <1>1, SendHelloLoop
<1> HIDE DEF out
<1>3. /\ v[0] = s
      /\ \A k \in 0..N - 1 : v[k + 1] = EnqueueHello(n, v[k], k + 1, garbage[k + 1])
      /\ out = v[N]
  <2> DEFINE c == <<n, garbage>>
  <2>1. \A acc, e : Turn("SendHello", c, acc, e) = EnqueueHello(n, acc, e, garbage[e])
    BY DEF Turn
  <2>2. \A k \in 0..N - 1 : seq[k + 1] = k + 1
    BY <1>1
  <2> HIDE DEF c, seq
  <2> QED  BY <1>2, <2>1, <2>2 DEF IsRun, c
<1> DEFINE T == {k \in 0..N : Fine(n, V, s, v[k], {}, {})}
<1>4. 0 \in T
  BY <1>1, <1>3 DEF Fine, Moves
<1>5. ASSUME NEW k \in 0..N - 1, k \in T PROVE k + 1 \in T
  <2>1. Fine(n, V, s, v[k], {}, {}) /\ k + 1 \in 0..N /\ k + 1 \in DOMAIN Devices(n)
    BY <1>1, <1>5
  <2>2. garbage[k + 1] \in SUBSET STRING
    BY <2>1
  <2>3. Fine(n, V, s, EnqueueHello(n, v[k], k + 1, garbage[k + 1]), {}, {})
    BY <2>1, <2>2, EnqueueHelloOk
  <2> QED  BY <1>3, <2>1, <2>3
<1> HIDE DEF T
<1>6. N \in T
  <2>1. \A k \in 0..N : k \in T
    BY <1>1, <1>4, <1>5, Upto
  <2> QED  BY <1>1, <2>1
<1> QED  BY <1>3, <1>6 DEF T, out

\* A smaller retransmission queue.
LEMMA RtqShrinks ==
    ASSUME NEW V, NEW n, NEW s, Sound(n, V, s), NEW q, RtqOk(n, q, V \cap Packet),
           q # <<>> => s.rtq # <<>>,
           NEW t, t = [s EXCEPT !.rtq = q]
    PROVE  Sound(n, V, t) /\ Moves(n, s, t, {}, {}) /\ t.nbrs = s.nbrs /\ t.queue = s.queue
<1>1. Shape(s)
  BY DEF Sound
<1>2. /\ Shape(t) /\ t.queue = s.queue /\ t.rtq = q /\ t.nbrs = s.nbrs
      /\ t.pool = s.pool /\ t.info = s.info /\ t.mac = s.mac /\ t.abort = s.abort
      /\ t.acks = s.acks /\ t.recps = s.recps /\ (s.timer => t.timer)
  BY <1>1 DEF Shape
<1>3. Sound(n, V, t)
  BY <1>2 DEF Sound, Running
<1>4. Moves(n, s, t, {}, {})
  BY <1>2 DEF Moves, Timed
<1> QED  BY <1>2, <1>3, <1>4

\* The entry to be sent again is an entry of the output queue.
LEMMA RetryOk ==
    ASSUME NEW n, NEW K, NEW q, RtqOk(n, q, K), q # <<>>, NEW e, e = Retry(Head(q))
    PROVE  e \in Entry /\ EntryOk(n, K, e) /\ Unicast(e)
<1> DEFINE h == Head(q)
<1>1. q \in Seq(Entry)
  BY DEF RtqOk, QueueOk
<1>2. h \in Entry /\ 1 \in DOMAIN q /\ q[1] = h
  BY <1>1, TailIs
<1>3. Unicast(h) /\ h.retry < MaxRetry /\ EntryOk(n, K, h)
  BY <1>2 DEF RtqOk, QueueOk
<1> HIDE DEF h
<1>4. h.retry \in 0..MaxRetry /\ MaxRetry \in Nat /\ h.retry + 1 \in 0..MaxRetry
  BY <1>2, <1>3, QueueAssumption DEF Entry
<1>5. e = [h EXCEPT !.retry = h.retry + 1]
  BY DEF Retry, h
<1>6. /\ e \in Entry /\ e.type = h.type /\ e.pid = h.pid /\ e.dest = h.dest /\ e.iface = h.iface
      /\ e.proto = h.proto
  BY <1>2, <1>4, <1>5 DEF Entry
<1> QED  BY <1>3, <1>6 DEF EntryOk, Unicast, Requested

\* A failed assertion acks nothing.
LEMMA AbortStill ==
    ASSUME NEW s, NEW why
    PROVE  Still(s, Abort(s, why))
BY DEF Still, Abort

\* Nor does a change of the table.
LEMMA NeighborsStill ==
    ASSUME NEW s, NEW nbrs
    PROVE  Still(s, WithNeighbors(s, nbrs))
<1>1. Still(s, [s EXCEPT !.nbrs = nbrs])
  BY DEF Still
<1>2. Still(s, Abort(s, "duplicate virtual queue entry"))
  BY Zenon, AbortStill
<1> QED  BY Zenon, <1>1, <1>2 DEF WithNeighbors

\* Nor does the timer.
LEMMA TimerStill ==
    ASSUME NEW s
    PROVE  Still(s, DoSendEnd(s))
BY DEF Still, DoSendEnd

\* Still twice.
LEMMA StillOn ==
    ASSUME NEW s, NEW t, NEW u, Still(s, t), Still(t, u)
    PROVE  Still(s, u)
BY DEF Still

\* Retransmit moves an entry back to the queue, if that accepts it, before it sends.
LEMMA RetransmitSends ==
    ASSUME NEW V, NEW n \in Node, NEW s, Sound(n, V, s), s.rtq # <<>>
    PROVE  \E again : /\ Retransmit(n, s) = TrySend(n, DoSendEnd(again))
                      /\ Fine(n, V, s, DoSendEnd(again), {}, {}) /\ Still(s, again)
                      /\ Requeued(s, again)
<1> DEFINE q == Tail(s.rtq)
           e == Retry(Head(s.rtq))
           rest == [s EXCEPT !.rtq = q]
           k == SearchMac(s.nbrs, e.dest)
           front == EnqueueFront(s.queue, e)
           b == [rest EXCEPT !.queue = front]
           B == AddVirtualQueueEntryFront(s.nbrs, k, e.pid)
           gone == Abort(rest, "neighborPos >= 0")
           r == Retransmit(n, s)
<1>1. \E again : /\ r = TrySend(n, DoSendEnd(again))
                 /\ \/ again = rest
                    \/ k = 0 /\ again = gone
                    \/ Accepts(s.queue, e) /\ k # 0 /\ again = WithNeighbors(b, B)
  BY Zenon DEF Retransmit, DoSendEnd
<1>0. \A again : \/ again = rest
                 \/ k = 0 /\ again = gone
                 \/ Accepts(s.queue, e) /\ k # 0 /\ again = WithNeighbors(b, B)
                 => Requeued(s, again)
  BY Zenon DEF Requeued
<1>2. Shape(s) /\ s.nbrs \in Seq(Neighbor) /\ RtqOk(n, s.rtq, V \cap Packet)
      /\ s.rtq \in Seq(Entry) /\ Distinct(s.rtq)
  BY DEF Sound, Table, Rows, RtqOk, QueueOk
<1>3. RtqOk(n, q, V \cap Packet)
  <2>1. Thinned(s.rtq, q)
    BY <1>2, TailThins
  <2> QED  BY <1>2, <2>1, ThinnedOk
<1>4. e \in Entry /\ EntryOk(n, V \cap Packet, e) /\ Unicast(e)
  BY <1>2, RetryOk
<1>5. rest = [s EXCEPT !.rtq = q]
  OBVIOUS
<1> HIDE DEF q, e, rest, r, B, k
<1>6. Sound(n, V, rest) /\ Moves(n, s, rest, {}, {}) /\ rest.nbrs = s.nbrs /\ rest.queue = s.queue
  <2> SUFFICES ASSUME NEW t, t = [s EXCEPT !.rtq = q]
               PROVE  Sound(n, V, t) /\ Moves(n, s, t, {}, {}) /\ t.nbrs = s.nbrs /\ t.queue = s.queue
    BY <1>5
  <2> QED  BY <1>3, RtqShrinks
<1>7. rest.pool = s.pool
  BY <1>6 DEF Moves
<1>8. Fine(n, V, s, gone, {}, {})
  <2>1. "neighborPos >= 0" # None
    BY Zenon DEF None
  <2>2. Shape(rest)
    BY <1>6 DEF Sound
  <2>3. ~ Running(gone)
    BY Zenon, <2>1, <2>2, Aborted
  <2> HIDE DEF gone
  <2> QED  BY <2>3 DEF Fine
<1>9. ASSUME Accepts(s.queue, e), k # 0
      PROVE  Fine(n, V, s, WithNeighbors(b, B), {}, {})
  <2> DEFINE old == rest.nbrs[k].vq
             vq == <<e.pid>> \o old
             t == WithNeighbors(b, B)
  <2>1. MacAt(rest.nbrs, e.dest, k)
    BY <1>2, <1>6, SearchMacIn DEF k
  <2>2. k \in DOMAIN rest.nbrs /\ rest.nbrs \in Seq(Neighbor)
    BY <1>2, <1>6, <1>9, <2>1 DEF MacAt
  <2>3. rest.nbrs[k] \in Neighbor
    BY <2>2
  <2>4. old \in Seq(Packet) /\ e.pid \in Packet
    BY <1>4, <2>3 DEF Neighbor, EntryOk, Unicast
  <2>5. B = Queued(rest.nbrs, k, vq)
    BY <1>6 DEF B, AddVirtualQueueEntryFront, Queued
  <2>6. b = Grown(rest, front, {})
    BY <1>6 DEF Sound, Shape, Grown
  <2>7. Joins(rest.queue, e, front) /\ Accepts(rest.queue, e)
    BY <1>6, <1>9 DEF Joins, EnqueueFront
  <2> HIDE DEF b, front
  <2>8. vq \in Seq(Packet) /\ ToSet(vq) = {e.pid} \cup ToSet(rest.nbrs[k].vq)
    <3> HIDE DEF old
    <3>1. vq \in Seq(Packet) /\ ToSet(vq) = {e.pid} \cup ToSet(old)
      BY <2>4, ConsIs
    <3> QED  BY <3>1 DEF old
  <2>9. EntryOk(n, V \cap Packet, e)
    <3>1. rest.pool \cup {} = s.pool
      BY <1>7
    <3> QED  BY <1>4, <3>1
  <2>10. t = WithNeighbors(b, Queued(rest.nbrs, k, vq))
    BY <2>5
  <2> HIDE DEF vq, t
  <2>11. Fine(n, V, rest, t, {}, {})
    BY <1>4, <1>6, <1>9, <2>1, <2>6, <2>7, <2>8, <2>9, <2>10, UnicastJoins
  <2>12. Fine(n, V, s, t, {}, {})
    BY <1>6, <2>11, MovesOn
  <2> QED  BY <2>12 DEF t
<1>10. PICK again : /\ r = TrySend(n, DoSendEnd(again))
                    /\ \/ again = rest
                       \/ k = 0 /\ again = gone
                       \/ Accepts(s.queue, e) /\ k # 0 /\ again = WithNeighbors(b, B)
  BY Zenon, <1>1
<1>11. Fine(n, V, s, rest, {}, {})
  BY <1>6 DEF Fine
<1> HIDE DEF gone
<1>12. Fine(n, V, s, again, {}, {})
  BY <1>8, <1>9, <1>10, <1>11
<1>13. Fine(n, V, s, DoSendEnd(again), {}, {})
  BY <1>12, ThenTimer
<1>14. Still(s, rest) /\ Still(rest, b)
  BY DEF rest, b, Still
<1>15. Still(rest, gone)
  BY Zenon, AbortStill DEF gone
<1>16. Still(b, WithNeighbors(b, B))
  BY NeighborsStill
<1> HIDE DEF b
<1>17. Still(s, again)
  BY <1>10, <1>14, <1>15, <1>16, StillOn
<1>18. Requeued(s, again)
  BY Zenon, <1>0, <1>10
<1> QED  BY <1>10, <1>13, <1>17, <1>18 DEF r

\* Retransmit keeps a node sound.
LEMMA RetransmitOk ==
    ASSUME NEW V, NEW n \in Node, NEW s, Sound(n, V, s)
    PROVE  Fine(n, V, s, Retransmit(n, s), {}, {})
<1> DEFINE off == [s EXCEPT !.timer = FALSE]
<1>1. s.rtq = <<>> => Retransmit(n, s) = off
  BY Zenon DEF Retransmit
<1>2. Shape(s)
  BY DEF Sound
<1>3. CASE s.rtq = <<>>
  <2> SUFFICES ASSUME NEW t, t = off PROVE Fine(n, V, s, t, {}, {})
    BY <1>1, <1>3
  <2>1. /\ Shape(t) /\ t.queue = s.queue /\ t.rtq = s.rtq /\ t.nbrs = s.nbrs
        /\ t.pool = s.pool /\ t.info = s.info /\ t.mac = s.mac /\ t.abort = s.abort
        /\ t.acks = s.acks /\ t.recps = s.recps
    BY <1>2 DEF Shape
  <2>2. Sound(n, V, t)
    BY <2>1 DEF Sound, Running
  <2>3. Moves(n, s, t, {}, {})
    BY <1>3, <2>1 DEF Moves, Timed
  <2> QED  BY <2>2, <2>3 DEF Fine
<1>4. CASE s.rtq # <<>>
  <2>1. PICK again : /\ Retransmit(n, s) = TrySend(n, DoSendEnd(again))
                     /\ Fine(n, V, s, DoSendEnd(again), {}, {})
    BY <1>4, RetransmitSends
  <2> QED  BY <2>1, ThenTry
<1> QED  BY <1>3, <1>4

-----------------------------------------------------------------------------
(* Recv *)

\* The native that is for this node is in the frame.
LEMMA MyNativeIs ==
    ASSUME NEW n \in Node, NEW f, AmINext(n, f)
    PROVE  MyNative(n, f) \in Natives(f)
<1> DEFINE D == MyDevices(n, f)
           first == CHOOSE i \in D : \A j \in D : i <= j
           mac == Devices(n)[first].mac
<1>1. D # {} /\ D \subseteq Nat
  BY DeviceAt DEF AmINext, MyDevices
<1>2. first \in D
  <2>1. \E i \in D : \A j \in D : i <= j
    BY <1>1, LeastElement
  <2> HIDE DEF D
  <2> QED  BY <2>1
<1>3. \E id \in f.ids : id.mac = mac
  BY <1>2 DEF MyDevices
<1>4. MyNative(n, f) = (CHOOSE id \in f.ids : id.mac = mac).pid
  BY Zenon DEF MyNative
<1> HIDE DEF mac
<1>5. (CHOOSE id \in f.ids : id.mac = mac) \in f.ids
  BY <1>3
<1> QED  BY <1>4, <1>5 DEF Natives

\* What was handed up or acked is of no concern to soundness.
LEMMA HandedOk ==
    ASSUME NEW V, NEW n, NEW s, Sound(n, V, s), NEW up, NEW acks \in Seq([ip : Nat, pid : V]),
           NEW t, t = Handed(s, up, acks)
    PROVE  Sound(n, V, t) /\ Moves(n, s, t, {}, {})
<1>1. Shape(s) /\ s.recps \in Seq(V)
  BY DEF Sound
<1>2. /\ Shape(t) /\ t.queue = s.queue /\ t.rtq = s.rtq /\ t.nbrs = s.nbrs
      /\ t.pool = s.pool /\ t.info = s.info /\ t.mac = s.mac /\ t.abort = s.abort
      /\ t.acks = acks /\ t.recps = s.recps /\ t.timer = s.timer
  BY <1>1 DEF Shape, Handed
<1>3. Reported(n, V, s, t)
  BY <1>1, <1>2 DEF Reported
<1> QED  BY <1>3, ReportedSound

\* IP may answer a unicast packet with one of its own, a broadcast never.
LEMMA ForwardUpOk ==
    ASSUME NEW V, NEW n \in Node, NEW s, Sound(n, V, s), NEW i, NEW dst,
           NEW pid, Unforwarded(pid) \/ pid \in V \cap Packet
    PROVE  /\ \/ Fine(n, V, s, ForwardUp(n, s, i, pid, dst), {}, {})
              \/ Fine(n, V, s, ForwardUp(n, s, i, pid, dst), {pid}, {})
           /\ Unforwarded(pid) => Fine(n, V, s, ForwardUp(n, s, i, pid, dst), {}, {})
<1> DEFINE answer == IpForward(n, pid)
           handed == [s EXCEPT !.up = s.up \cup {pid}]
           r == ForwardUp(n, s, i, pid, dst)
           req == Head(answer)
<1>1. \/ r = s
      \/ r = handed
      \/ answer # <<>> /\ r = EnqueueData(n, handed, req)
  BY DEF ForwardUp
<1>2. Fine(n, V, s, s, {}, {})
  BY DEF Fine, Moves
<1>3. Sound(n, V, handed) /\ Moves(n, s, handed, {}, {})
  <2>1. handed = Handed(s, s.up \cup {pid}, s.acks)
    BY DEF Sound, Shape, Handed
  <2>2. s.acks \in Seq([ip : Nat, pid : V])
    BY DEF Sound
  <2> HIDE DEF handed
  <2> QED  BY <2>1, <2>2, HandedOk
<1> HIDE DEF handed, r
<1>4. Fine(n, V, s, handed, {}, {})
  BY <1>3 DEF Fine
<1>5. ASSUME answer # <<>>, pid \in V \cap Packet
      PROVE  \/ Fine(n, V, s, EnqueueData(n, handed, req), {}, {})
             \/ Fine(n, V, s, EnqueueData(n, handed, req), {pid}, {})
  <2>1. PICK t \in Traffic : pid = t.req.pid
    BY <1>5 DEF Packet
  <2>2. req \in Request(n) /\ req.pid = pid /\ req.dest # Broadcast
    BY Zenon, <1>5, <2>1, TrafficAssumption
  <2>6. req \in Asking(n)
    BY <1>5, <2>1 DEF Asking
  <2>3. Asked(n, req) /\ req.pid \in V
    BY <1>5, <2>2, <2>6 DEF Asked
  <2> HIDE DEF req
  <2>4. \/ Fine(n, V, handed, EnqueueData(n, handed, req), {}, {})
        \/ Fine(n, V, handed, EnqueueData(n, handed, req), {pid}, {})
    <3>1. \/ EnqueueData(n, handed, req) = TrySend(n, handed)
          \/ Fine(n, V, handed, EnqueueData(n, handed, req), {req.pid}, {})
      BY <1>3, <2>3, EnqueueDataOk
    <3>2. Fine(n, V, handed, TrySend(n, handed), {}, {})
      BY <1>3, TrySendOk
    <3> QED  BY <2>2, <3>1, <3>2
  <2>5. \A got : Fine(n, V, handed, EnqueueData(n, handed, req), got, {})
                    => Fine(n, V, s, EnqueueData(n, handed, req), got, {})
    BY <1>3 DEF Fine, Moves
  <2> QED  BY <2>4, <2>5
<1>6. Unforwarded(pid) => answer = <<>>
  BY DEF Unforwarded
<1> QED  BY <1>1, <1>2, <1>4, <1>5, <1>6 DEF r

\* A packet that was received or overheard is reported, pooled, and known to be
\* with the sender.
LEMMA NoteReceptionOk ==
    ASSUME NEW V, NEW n, NEW s, NEW t, NEW p \in V, NEW got, got = {} \/ got = {p},
           Fine(n, V, s, t, got, {}), NEW mac, NEW u, u = NoteReception(t, p, mac)
    PROVE  Fine(n, V, s, u, {p}, {<<p, mac>>})
<1>1. CASE ~ Running(t)
  BY <1>1 DEF NoteReception, Fine
<1>2. CASE Running(t)
  <2> DEFINE R == Append(t.recps, p)
             P == t.pool \cup {p}
             I == t.info \cup {<<p, mac>>}
  <2>1. Sound(n, V, t) /\ Moves(n, s, t, got, {})
    BY <1>2 DEF Fine
  <2>2. u = [t EXCEPT !.recps = R, !.pool = P, !.info = I]
    BY <1>2 DEF NoteReception
  <2>3. Shape(t) /\ t.recps \in Seq(V) /\ t.mac \in [DOMAIN Devices(n) -> Seq(Sendable(n, V, t.info))]
        /\ P \subseteq V /\ R \in Seq(V)
    <3>1. Shape(t) /\ t.recps \in Seq(V) /\ t.mac \in [DOMAIN Devices(n) -> Seq(Sendable(n, V, t.info))]
      BY <2>1 DEF Sound
    <3>2. t.pool \subseteq V
      BY <2>1 DEF Sound
    <3> QED  BY <3>1, <3>2
  <2>4. P = s.pool \cup {p} /\ I = s.info \cup {<<p, mac>>}
    BY <2>1 DEF Moves
  <2>5. t.info \subseteq I
    OBVIOUS
  <2> HIDE DEF R, P, I
  <2>6. /\ Shape(u) /\ u.queue = t.queue /\ u.rtq = t.rtq /\ u.nbrs = t.nbrs
        /\ u.pool = P /\ u.info = I /\ u.mac = t.mac /\ u.abort = t.abort
        /\ u.acks = t.acks /\ u.recps = R /\ (t.timer => u.timer)
    BY <2>2, <2>3 DEF Shape
  <2>7. u.mac \in [DOMAIN Devices(n) -> Seq(Sendable(n, V, I))]
    <3> DEFINE A == Sendable(n, V, t.info)
               B == Sendable(n, V, I)
    <3>1. A \subseteq B
      BY <2>5, SendableMono
    <3>2. t.mac \in [DOMAIN Devices(n) -> Seq(A)]
      BY <2>3
    <3> HIDE DEF A, B
    <3>3. Seq(A) \subseteq Seq(B)
      BY <3>1
    <3>4. t.mac \in [DOMAIN Devices(n) -> Seq(B)]
      BY <3>2, <3>3
    <3> QED  BY <2>6, <3>4 DEF B
  <2>8. Sound(n, V, u)
    BY <2>1, <2>3, <2>6, <2>7 DEF Sound, Running
  <2>9. Moves(n, s, u, {p}, {<<p, mac>>})
    BY <2>1, <2>4, <2>6 DEF Moves, Timed
  <2> QED  BY <2>8, <2>9 DEF Fine
<1> QED  BY <1>1, <1>2

\* What the reports and acks of a frame name, the sender has.
LEMMA HeedReportsOk ==
    ASSUME NEW V, NEW n, NEW s, Sound(n, V, s), NEW f, NEW mac,
           NEW t, t = HeedReports(n, s, f, mac)
    PROVE  Sound(n, V, t) /\ Moves(n, s, t, {}, Reports(f) \X {mac})
<1> DEFINE mine == {a.pid : a \in {b \in f.acks : b.ip = GetIP(n)}}
           q == EraseAll(s.rtq, mine)
           I == s.info \cup (Reports(f) \X {mac})
<1>1. t = [s EXCEPT !.rtq = q, !.info = I]
  BY DEF HeedReports, Reports
<1>2. Shape(s) /\ RtqOk(n, s.rtq, V \cap Packet) /\ s.rtq \in Seq(Entry) /\ Distinct(s.rtq)
      /\ s.mac \in [DOMAIN Devices(n) -> Seq(Sendable(n, V, s.info))]
  BY DEF Sound, RtqOk, QueueOk
<1>3. s.info \subseteq I
  OBVIOUS
<1> HIDE DEF mine, q, I
<1>4. Thinned(s.rtq, q)
  BY <1>2, EraseAllThins DEF q
<1>5. RtqOk(n, q, V \cap Packet)
  BY <1>2, <1>4, ThinnedOk
<1>6. q # <<>> => s.rtq # <<>>
  BY <1>2, <1>4 DEF Thinned
<1>7. /\ Shape(t) /\ t.queue = s.queue /\ t.rtq = q /\ t.nbrs = s.nbrs
      /\ t.pool = s.pool /\ t.info = I /\ t.mac = s.mac /\ t.abort = s.abort
      /\ t.acks = s.acks /\ t.recps = s.recps /\ (s.timer => t.timer)
  BY <1>1, <1>2 DEF Shape
<1>8. t.mac \in [DOMAIN Devices(n) -> Seq(Sendable(n, V, I))]
  <2> DEFINE A == Sendable(n, V, s.info)
             B == Sendable(n, V, I)
  <2>1. A \subseteq B
    BY <1>3, SendableMono
  <2>2. s.mac \in [DOMAIN Devices(n) -> Seq(A)]
    BY <1>2
  <2> HIDE DEF A, B
  <2>3. Seq(A) \subseteq Seq(B)
    BY <2>1
  <2>4. s.mac \in [DOMAIN Devices(n) -> Seq(B)]
    BY <2>2, <2>3
  <2> QED  BY <1>7, <2>4 DEF B
<1>9. Sound(n, V, t)
  BY <1>5, <1>7, <1>8 DEF Sound, Running
<1>10. Moves(n, s, t, {}, Reports(f) \X {mac})
  BY <1>6, <1>7 DEF Moves, Timed, I
<1> QED  BY <1>9, <1>10

\* A frame with one native adds Got.
LEMMA RecvPlainOk ==
    ASSUME NEW V, NEW n \in Node, NEW s, Sound(n, V, s), NEW i, NEW mac, NEW f,
           NEW m, NEW L, NEW J, f \in DataSendable(m, L, J), ~ (Cardinality(f.ids) > 1),
           NEW got, got = Got(n, s, f), got \subseteq V
    PROVE  Fine(n, V, s, RecvPlain(n, s, i, f, mac), got, got \X {mac})
<1> DEFINE r == RecvPlain(n, s, i, f, mac)
           pid == MyNative(n, f)
           p == f.pkt
<1>1. IdsOk(f.ids, f.pkt, J) /\ f.ids \in SUBSET Ids(L)
  BY DEF DataSendable
<1>2. PICK id \in f.ids : f.ids = {id}
  <2>1. IsFiniteSet(f.ids) /\ f.ids # {}
    BY <1>1 DEF IdsOk
  <2>2. Cardinality(f.ids) = 1
    BY <2>1, FS_CardinalityType, FS_EmptySet
  <2> QED  BY <2>1, <2>2, FS_Singleton
<1>3. p = id.pid /\ p \in Packet
  BY <1>1, <1>2 DEF IdsOk, Ids
<1>4. CASE IsBroadcast(f)
  <2>1. Unforwarded(p)
    BY <1>1, <1>2, <1>3, <1>4 DEF IsBroadcast, IdsOk
  <2>2. r = ForwardUp(n, s, i, p, Broadcast)
    BY <1>4 DEF RecvPlain
  <2>3. got = {}
    BY <1>4 DEF Got
  <2>4. Fine(n, V, s, ForwardUp(n, s, i, p, Broadcast), {}, {})
    BY <2>1, ForwardUpOk
  <2> QED  BY <2>2, <2>3, <2>4
<1>5. CASE ~ IsBroadcast(f)
  <2>1. got = {p} /\ p \in V /\ got \X {mac} = {<<p, mac>>}
    BY <1>5 DEF Got
  <2>2. CASE ~ AmINext(n, f)
    <3>1. r = NoteReception(s, p, mac)
      BY <1>5, <2>2 DEF RecvPlain
    <3>2. Fine(n, V, s, s, {}, {})
      BY DEF Fine, Moves
    <3> HIDE DEF r, p
    <3>3. Fine(n, V, s, r, {p}, {<<p, mac>>})
      BY <2>1, <3>1, <3>2, NoteReceptionOk
    <3> QED  BY <2>1, <3>3 DEF r
  <2>3. CASE AmINext(n, f)
    <3>1. pid = p
      <4>1. pid \in Natives(f)
        BY <2>3, MyNativeIs
      <4> QED  BY <1>2, <1>3, <4>1 DEF Natives
    <3> DEFINE t == ForwardUp(n, s, i, pid, f.dst)
    <3>2. r = NoteReception(t, p, mac)
      BY Zenon, <1>5, <2>3, <3>1 DEF RecvPlain
    <3>3. p \in V \cap Packet
      BY <1>3, <2>1
    <3> HIDE DEF r, p, pid
    <3>4. \/ Fine(n, V, s, ForwardUp(n, s, i, p, f.dst), {}, {})
          \/ Fine(n, V, s, ForwardUp(n, s, i, p, f.dst), {p}, {})
      BY <3>3, ForwardUpOk
    <3>5. Fine(n, V, s, t, {}, {}) \/ Fine(n, V, s, t, {p}, {})
      BY <3>1, <3>4
    <3> HIDE DEF t
    <3>6. Fine(n, V, s, r, {p}, {<<p, mac>>})
      BY <2>1, <3>2, <3>5, NoteReceptionOk
    <3> QED  BY <2>1, <3>6 DEF r
  <2> QED  BY <2>2, <2>3
<1> QED  BY <1>4, <1>5

\* So does a coded one.
LEMMA RecvEncodedOk ==
    ASSUME NEW V, NEW n \in Node, NEW s, Sound(n, V, s), NEW i, NEW mac, NEW f,
           NEW m \in Node, NEW L, NEW J, f \in DataSendable(m, L, J), Cardinality(f.ids) > 1,
           NEW got, got = Got(n, s, f), got \subseteq V
    PROVE  Fine(n, V, s, RecvEncoded(n, s, i, f, mac), got, got \X {mac})
<1> DEFINE r == RecvEncoded(n, s, i, f, mac)
           pid == MyNative(n, f)
           p == DecodedPacket(s, f)
           acked == AddAck(s, f.ip, pid)
           t == ForwardUp(n, acked, i, pid, f.dst)
<1>1. /\ Decode(s, f) < 0 => r = s
      /\ ~ (Decode(s, f) < 0) /\ ~ AmINext(n, f) => r = NoteReception(s, p, mac)
      /\ ~ (Decode(s, f) < 0) /\ AmINext(n, f) =>
            \/ r = Abort(s, "isDecodable == pid")
            \/ r = Abort(s, "pid == Hash(packet)")
            \/ DecodedId(s, f) = pid /\ r = NoteReception(t, pid, mac)
  BY Zenon DEF RecvEncoded
<1>2. /\ Decode(s, f) < 0 => got = {}
      /\ ~ (Decode(s, f) < 0) /\ ~ AmINext(n, f) => got = {p}
      /\ ~ (Decode(s, f) < 0) /\ AmINext(n, f) => got = {DecodedId(s, f)}
  BY DEF Got
<1>3. Fine(n, V, s, s, {}, {})
  BY DEF Fine, Moves
<1>4. AmINext(n, f) => pid \in Packet
  <2>1. AmINext(n, f) => pid \in Natives(f)
    BY MyNativeIs
  <2>2. f.ids \in SUBSET Ids(L)
    BY DEF DataSendable
  <2> QED  BY <2>1, <2>2 DEF Natives, Ids
<1>5. \A why : why # None => Fine(n, V, s, Abort(s, why), got, got \X {mac})
  <2>1. Shape(s)
    BY DEF Sound
  <2> QED  BY <2>1, Aborted DEF Fine
<1>6. f.ip \in Nat
  <2>1. f.ip = GetIP(m)
    BY DEF DataSendable
  <2> QED  BY <2>1, OwnIp, Numbers
<1>7. CASE Decode(s, f) < 0
  <2>1. r = s
    BY Zenon, <1>1, <1>7
  <2>2. got = {} /\ got \X {mac} = {}
    BY <1>2, <1>7
  <2> HIDE DEF r
  <2> QED  BY <1>3, <2>1, <2>2 DEF r
<1>8. CASE ~ (Decode(s, f) < 0) /\ ~ AmINext(n, f)
  <2>1. r = NoteReception(s, p, mac)
    BY Zenon, <1>1, <1>8
  <2>2. got = {p}
    BY <1>2, <1>8
  <2>3. p \in V /\ got \X {mac} = {<<p, mac>>}
    BY <2>2
  <2> HIDE DEF r, p
  <2>4. Fine(n, V, s, r, {p}, {<<p, mac>>})
    BY <1>3, <2>1, <2>3, NoteReceptionOk
  <2> QED  BY <2>2, <2>3, <2>4 DEF r
<1>9. CASE ~ (Decode(s, f) < 0) /\ AmINext(n, f)
  <2>1. \/ r = Abort(s, "isDecodable == pid")
        \/ r = Abort(s, "pid == Hash(packet)")
        \/ DecodedId(s, f) = pid /\ r = NoteReception(t, pid, mac)
    BY Zenon, <1>1, <1>9
  <2>2. "isDecodable == pid" # None /\ "pid == Hash(packet)" # None
    BY Zenon DEF None
  <2>3. CASE r = Abort(s, "isDecodable == pid")
    BY Zenon, <1>5, <2>2, <2>3
  <2>4. CASE r = Abort(s, "pid == Hash(packet)")
    BY Zenon, <1>5, <2>2, <2>4
  <2>5. CASE DecodedId(s, f) = pid /\ r = NoteReception(t, pid, mac)
    <3>1. got = {pid}
      BY <1>2, <1>9, <2>5
    <3>2. pid \in V \cap Packet /\ got \X {mac} = {<<pid, mac>>}
      BY <1>4, <1>9, <3>1
    <3>3. acked = Handed(s, s.up, Append(s.acks, [ip |-> f.ip, pid |-> pid]))
      BY DEF AddAck, Handed, Sound, Shape
    <3>4. Append(s.acks, [ip |-> f.ip, pid |-> pid]) \in Seq([ip : Nat, pid : V])
      <4> DEFINE B == [ip : Nat, pid : V]
                 b == [ip |-> f.ip, pid |-> pid]
      <4>1. b \in B
        BY <1>6, <3>2
      <4>2. s.acks \in Seq(B)
        BY DEF Sound
      <4> HIDE DEF B, b
      <4>3. Append(s.acks, b) \in Seq(B)
        BY <4>1, <4>2
      <4> QED  BY <4>3 DEF B, b
    <3> HIDE DEF acked, pid, r
    <3>5. Sound(n, V, acked) /\ Moves(n, s, acked, {}, {})
      BY <3>3, <3>4, HandedOk
    <3>6. Fine(n, V, acked, t, {}, {}) \/ Fine(n, V, acked, t, {pid}, {})
      BY <3>2, <3>5, ForwardUpOk
    <3> HIDE DEF t
    <3>7. Fine(n, V, s, t, {}, {}) \/ Fine(n, V, s, t, {pid}, {})
      BY <3>5, <3>6 DEF Fine, Moves
    <3>8. Fine(n, V, s, NoteReception(t, pid, mac), {pid}, {<<pid, mac>>})
      BY <3>2, <3>7, NoteReceptionOk
    <3> QED  BY <2>5, <3>1, <3>2, <3>8 DEF r
  <2> QED  BY Zenon, <2>1, <2>3, <2>4, <2>5
<1> QED  BY <1>7, <1>8, <1>9

\* What a node may hold only grows.
LEMMA SoundMono ==
    ASSUME NEW n, NEW V, NEW W, V \subseteq W, NEW s, Sound(n, V, s)
    PROVE  Sound(n, W, s)
<1>1. /\ QueueOk(n, s.queue, W \cap Packet) /\ RtqOk(n, s.rtq, W \cap Packet)
  <2>1. V \cap Packet \subseteq W \cap Packet
    OBVIOUS
  <2>2. QueueOk(n, s.queue, V \cap Packet) /\ RtqOk(n, s.rtq, V \cap Packet)
    BY DEF Sound
  <2> QED  BY <2>1, <2>2, QueueMono
<1>2. s.acks \in Seq([ip : Nat, pid : W])
  <2> DEFINE A == [ip : Nat, pid : V]
             B == [ip : Nat, pid : W]
  <2>1. A \subseteq B
    OBVIOUS
  <2>2. s.acks \in Seq(A)
    BY DEF Sound
  <2> HIDE DEF A, B
  <2>3. s.acks \in Seq(B)
    BY <2>1, <2>2
  <2> QED  BY <2>3 DEF B
<1>3. s.recps \in Seq(W)
  <2>1. s.recps \in Seq(V)
    BY DEF Sound
  <2> QED  BY <2>1
<1>4. s.mac \in [DOMAIN Devices(n) -> Seq(Sendable(n, W, s.info))]
  <2> DEFINE A == Sendable(n, V, s.info)
             B == Sendable(n, W, s.info)
  <2>1. A \subseteq B
    BY SendableMono
  <2>2. s.mac \in [DOMAIN Devices(n) -> Seq(A)]
    BY DEF Sound
  <2> HIDE DEF A, B
  <2>3. Seq(A) \subseteq Seq(B)
    BY <2>1
  <2>4. s.mac \in [DOMAIN Devices(n) -> Seq(B)]
    BY <2>2, <2>3
  <2> QED  BY <2>4 DEF B
<1>5. s.pool \subseteq W
  BY DEF Sound
<1> QED  BY <1>1, <1>2, <1>3, <1>4, <1>5 DEF Sound

\* The sender of a data frame is found in the table, by one of its addresses.
LEMMA SenderIs ==
    ASSUME NEW nbrs, NEW w, Rows(nbrs, w), NEW m \in Node, NEW ip \in Ips(m),
           \E k \in DOMAIN nbrs : HasIP(nbrs[k], ip)
    PROVE  GetMac(nbrs[SearchIp(nbrs, ip)]) \in Macs(m)
<1> DEFINE k == SearchIp(nbrs, ip)
<1>1. nbrs \in Seq(Neighbor) /\ RowsOn(nbrs, DOMAIN nbrs, w)
  BY DEF Rows
<1>2. IpAt(nbrs, ip, k)
  BY <1>1, SearchIpIn
<1> HIDE DEF k
<1>3. k \in DOMAIN nbrs /\ HasIP(nbrs[k], ip)
  BY <1>2 DEF IpAt
<1>4. nbrs[k] \in Neighbor /\ Row(nbrs[k], w)
  BY <1>1, <1>3 DEF RowsOn
<1>5. Belongs(nbrs[k], m)
  BY <1>3, <1>4, RowOwner
<1> QED  BY <1>4, <1>5, GetMacIn DEF k

\* What reception adds depends on the pool only.
LEMMA GotSame ==
    ASSUME NEW n, NEW s, NEW t, NEW f, t.pool = s.pool
    PROVE  Got(n, t, f) = Got(n, s, f)
<1>1. MissingNatives(t, f) = MissingNatives(s, f)
  BY DEF MissingNatives
<1>2. Decode(t, f) = Decode(s, f) /\ DecodedId(t, f) = DecodedId(s, f)
  BY Zenon, <1>1 DEF Decode, DecodedId
<1>3. DecodedPacket(t, f) = DecodedPacket(s, f)
  BY Zenon DEF DecodedPacket
<1> QED  BY Zenon, <1>2, <1>3 DEF Got

\* A data frame adds Got to the pool, and that its sender has that and what it
\* reports to the beliefs.
LEMMA RecvDataOk ==
    ASSUME NEW n \in Node, NEW m \in Node, NEW s, Sound(n, s.pool, s), NEW i \in DOMAIN Devices(n),
           NEW L, NEW J, NEW f, f \in DataSendable(m, L, J), OnChannel(f.src, Devices(n)[i].ch),
           NEW G, G = Got(n, s, f), NEW r, r = RecvData(n, s, i, f)
    PROVE  \E mac \in Macs(m) : Fine(n, s.pool \cup G, s, r, G, (Reports(f) \cup G) \X {mac})
<1> DEFINE V == s.pool \cup G
           t == [ip |-> f.ip, mac |-> f.src, ch |-> Devices(n)[i].ch]
           B == SMNeighbors(s.nbrs, t)
           met == WithNeighbors(s, B)
           mac == GetMac(met.nbrs[SearchIp(met.nbrs, f.ip)])
           told == HeedReports(n, met, f, mac)
           out == IF Cardinality(f.ids) > 1 THEN RecvEncoded(n, told, i, f, mac)
                  ELSE RecvPlain(n, told, i, f, mac)
<1>1. /\ ~ Running(met) => r = met
      /\ Running(met) => r = TrySend(n, out)
  BY Zenon DEF RecvData
<1>2. f.ip \in Ips(m) /\ f.src \in Macs(m)
  BY OwnIp DEF DataSendable
<1>3. t \in Trinity /\ t.mac = f.src /\ t.ip = f.ip
  <2>1. Devices(n)[i] \in Device
    BY DeviceAt
  <2> QED  BY <1>2, <2>1, OwnerOf, Numbers DEF Device, Trinity
<1>4. Sound(n, V, s)
  BY SoundMono
<1> HIDE DEF t, V
<1>5. Rows(B, Awaited(s.queue)) /\ \E k \in DOMAIN B : HasIP(B[k], f.ip)
  <2>1. Table(s.nbrs, Awaited(s.queue))
    BY <1>4 DEF Sound
  <2> QED  BY <1>2, <1>3, <2>1, SMNeighborsOk
<1> HIDE DEF B
<1>6. Fine(n, V, s, met, {}, {}) /\ (Running(met) => met.nbrs = B /\ met.queue = s.queue)
  BY <1>4, <1>5, TableSet
<1> HIDE DEF met
<1>7. CASE ~ Running(met)
  BY <1>1, <1>2, <1>7 DEF Fine
<1>8. CASE Running(met)
  <2>1. Sound(n, V, met) /\ Moves(n, s, met, {}, {}) /\ met.nbrs = B
    BY <1>6, <1>8 DEF Fine
  <2>2. mac \in Macs(m)
    BY <1>2, <1>5, <2>1, SenderIs
  <2> HIDE DEF mac
  <2>3. Sound(n, V, told) /\ Moves(n, met, told, {}, Reports(f) \X {mac})
    BY <2>1, HeedReportsOk
  <2>4. told.pool = s.pool
    BY <2>1, <2>3 DEF Moves
  <2> HIDE DEF told
  <2>5. G = Got(n, told, f) /\ G \subseteq V
    BY <2>4, GotSame DEF V
  <2>6. Fine(n, V, told, out, G, G \X {mac})
    <3>1. CASE Cardinality(f.ids) > 1
      <4>1. out = RecvEncoded(n, told, i, f, mac)
        BY Zenon, <3>1
      <4> HIDE DEF out
      <4>2. Fine(n, V, told, RecvEncoded(n, told, i, f, mac), G, G \X {mac})
        BY <2>3, <2>5, <3>1, RecvEncodedOk
      <4> QED  BY <4>1, <4>2
    <3>2. CASE ~ (Cardinality(f.ids) > 1)
      <4>1. out = RecvPlain(n, told, i, f, mac)
        BY Zenon, <3>2
      <4> HIDE DEF out
      <4>2. Fine(n, V, told, RecvPlain(n, told, i, f, mac), G, G \X {mac})
        BY <2>3, <2>5, <3>2, RecvPlainOk
      <4> QED  BY <4>1, <4>2
    <3> QED  BY <3>1, <3>2
  <2> HIDE DEF out
  <2>7. Fine(n, V, s, out, G, (Reports(f) \cup G) \X {mac})
    <3>1. (Reports(f) \X {mac}) \cup (G \X {mac}) = (Reports(f) \cup G) \X {mac}
      OBVIOUS
    <3>2. Running(out) => Sound(n, V, out) /\ Moves(n, told, out, G, G \X {mac})
      BY <2>6 DEF Fine
    <3>3. Moves(n, told, out, G, G \X {mac}) => Moves(n, s, out, G, (Reports(f) \cup G) \X {mac})
      BY <2>1, <2>3, <3>1 DEF Moves
    <3> QED  BY <3>2, <3>3 DEF Fine
  <2>8. Fine(n, V, s, TrySend(n, out), G, (Reports(f) \cup G) \X {mac})
    BY <2>7, ThenTry
  <2> QED  BY <1>1, <1>8, <2>2, <2>8 DEF V
<1> QED  BY <1>7, <1>8

\* The same for every frame.
LEMMA RecvOk ==
    ASSUME NEW n \in Node, NEW m \in Node, NEW s, Sound(n, s.pool, s), NEW i \in DOMAIN Devices(n),
           NEW L, NEW J, NEW f \in Sendable(m, L, J), NEW r, r = Recv(n, s, i, f),
           f.type = "data" => OnChannel(f.src, Devices(n)[i].ch)
    PROVE  \E got, news : Fine(n, s.pool \cup got, s, r, got, news) /\ Learns(n, m, s, f, got, news)
<1> DEFINE B == NeighborLearn(s.nbrs, f.pairs)
           t == WithNeighbors(s, B)
<1>1. \/ r = s
      \/ f.type = "hello" /\ r = TrySend(n, t)
      \/ f.type # "hello" /\ r = RecvData(n, s, i, f)
  BY Zenon DEF Recv
<1>2. CASE r = s
  <2>1. Fine(n, s.pool \cup {}, s, r, {}, {}) /\ Learns(n, m, s, f, {}, {})
    BY <1>2 DEF Fine, Moves, Learns
  <2> QED  BY <2>1
<1>3. CASE f.type = "hello" /\ r = TrySend(n, t)
  <2>1. f.pairs = Devices(m)
    BY <1>3 DEF Sendable, DataSendable
  <2>2. Rows(s.nbrs, Awaited(s.queue))
    BY DEF Sound, Table
  <2>3. Rows(B, Awaited(s.queue))
    BY <2>1, <2>2, NeighborLearnOk
  <2> DEFINE V == s.pool \cup {}
  <2>4. Sound(n, V, s)
    BY SoundMono
  <2> HIDE DEF B, V
  <2>5. Fine(n, V, s, t, {}, {})
    BY <2>3, <2>4, TableSet
  <2> HIDE DEF t
  <2>6. Fine(n, V, s, TrySend(n, t), {}, {})
    BY <2>5, ThenTry
  <2>7. Learns(n, m, s, f, {}, {})
    BY DEF Learns
  <2> QED  BY <1>3, <2>6, <2>7 DEF V
<1>4. CASE f.type # "hello" /\ r = RecvData(n, s, i, f)
  <2>1. f \in DataSendable(m, L, J) /\ f.type = "data"
    BY <1>4 DEF Sendable, DataSendable
  <2> DEFINE G == Got(n, s, f)
  <2>2. G = Got(n, s, f)
    OBVIOUS
  <2> HIDE DEF G
  <2>3. \E mac \in Macs(m) : Fine(n, s.pool \cup G, s, r, G, (Reports(f) \cup G) \X {mac})
    BY <1>4, <2>1, <2>2, RecvDataOk
  <2>4. PICK mac \in Macs(m) : Fine(n, s.pool \cup G, s, r, G, (Reports(f) \cup G) \X {mac})
    BY <2>3
  <2>5. Learns(n, m, s, f, G, (Reports(f) \cup G) \X {mac})
    BY <2>1, <2>2 DEF Learns
  <2> QED  BY <2>4, <2>5
<1> QED  BY <1>1, <1>2, <1>3, <1>4

-----------------------------------------------------------------------------
(* The invariant *)

\* What a device holds is a frame that can be sent.
LEMMA FrameIs ==
    ASSUME NEW m \in Node, NEW K, Sound(m, K, state[m]), NEW i \in DOMAIN Devices(m),
           NEW f, f \in ToSet(state[m].mac[i])
    PROVE  /\ f \in Sendable(m, K, state[m].info)
           /\ f \in FramesOf(m)
<1> DEFINE S == Sendable(m, K, state[m].info)
           q == state[m].mac[i]
<1>1. q \in Seq(S)
  BY DEF Sound
<1>2. f \in FramesOf(m)
  BY DEF FramesOf
<1> HIDE DEF S, q
<1>3. ToSet(q) \subseteq S
  BY <1>1, SetOf
<1> QED  BY <1>2, <1>3 DEF S, q

\* A device hears data frames from devices on its channel.
LEMMA HeardOn ==
    ASSUME NEW m \in Node, NEW n \in Node, NEW i \in DOMAIN Devices(m), NEW j \in DOMAIN Devices(n),
           Deliver(m, i, n, j), NEW K, Sound(m, K, state[m]),
           NEW f \in ToSet(state[m].mac[i]), f.type = "data"
    PROVE  OnChannel(f.src, Devices(n)[j].ch)
<1>1. f.src = Devices(m)[i].mac
  BY DEF Sound, FromDevice
<1>2. Devices(m)[i].ch = Devices(n)[j].ch
  BY DEF Deliver
<1> QED  BY <1>1, <1>2 DEF OnChannel

\* Every step is one of the four.
LEMMA NextIs ==
    ASSUME Inv, Next
    PROVE  Sent \/ Ticked \/ Offered \/ Delivered
<1>1. Alive /\ \A n \in Node : Sound(n, state[n].pool, state[n])
  BY DEF Inv, Next
<1>2. ASSUME NEW n \in Node, NEW s, Update(n, s)
      PROVE  state'[n] = s /\ Update(n, state'[n])
  BY <1>2 DEF Inv, Update
<1>3. ASSUME NEW n \in Node, NEW s, Update(n, s),
             Fine(n, state[n].pool, state[n], s, {}, {})
      PROVE  Ticked
  <2>1. state[n].pool \cup {} = state[n].pool
    OBVIOUS
  <2>2. Stepped(n, {}, {})
    BY <1>2, <1>3, <2>1 DEF Stepped
  <2> QED  BY <2>2 DEF Ticked
<1>4. ASSUME NEW t \in Traffic, Offer(t) PROVE Ticked \/ Offered
  <2> DEFINE n == t.node
             s == state[n]
             r == EnqueueData(n, s, t.req)
             p == t.req.pid
             V == s.pool \cup {p}
  <2>1. Update(n, r)
    BY <1>4 DEF Offer
  <2>2. n \in Node /\ t.req \in Request(n) /\ p \in Packet
    BY TrafficAssumption DEF Packet
  <2>3. Asked(n, t.req)
    <3>1. t.req.dest = Broadcast => Unforwarded(p)
      BY Zenon, TrafficAssumption DEF Unforwarded
    <3>2. t.req \in Asking(n)
      BY DEF Asking
    <3> QED  BY <2>2, <3>1, <3>2 DEF Asked
  <2>4. Sound(n, s.pool, s) /\ Sound(n, V, s) /\ p \in V
    <3>1. Sound(n, s.pool, s)
      BY <1>1, <2>2
    <3>2. s.pool \subseteq V
      OBVIOUS
    <3> HIDE DEF V, s
    <3>3. Sound(n, V, s)
      BY <3>1, <3>2, SoundMono
    <3> QED  BY <3>1, <3>3 DEF V
  <2>5. r = TrySend(n, s) \/ Fine(n, V, s, r, {p}, {})
    <3> HIDE DEF V, s, n
    <3> QED  BY <2>2, <2>3, <2>4, EnqueueDataOk
  <2>6. state'[n] = r /\ Update(n, state'[n])
    BY <1>2, <2>1, <2>2
  <2>7. CASE Fine(n, V, s, r, {p}, {})
    BY <2>2, <2>6, <2>7 DEF Stepped, Offered
  <2>8. CASE r = TrySend(n, s)
    <3>1. Fine(n, s.pool, s, TrySend(n, s), {}, {})
      BY <2>2, <2>4, TrySendOk
    <3> QED  BY <1>3, <2>1, <2>2, <2>8, <3>1
  <2> QED  BY <2>5, <2>7, <2>8
<1>5. ASSUME NEW n \in Node, TryTimer(n) PROVE Ticked
  <2>1. Fine(n, state[n].pool, state[n], TrySend(n, state[n]), {}, {})
    BY <1>1, TrySendOk
  <2> QED  BY <1>3, <1>5, <2>1 DEF TryTimer
<1>6. ASSUME NEW n \in Node, RetransmitTimer(n) PROVE Ticked
  <2>1. Fine(n, state[n].pool, state[n], Retransmit(n, state[n]), {}, {})
    BY <1>1, RetransmitOk
  <2> QED  BY <1>3, <1>6, <2>1 DEF RetransmitTimer
<1>7. ASSUME NEW n \in Node, HelloTimer(n) PROVE Ticked
  <2>1. PICK garbage \in [DOMAIN Devices(n) -> HelloIds] : Update(n, SendHello(n, state[n], garbage))
    BY <1>7 DEF HelloTimer
  <2>2. garbage \in [DOMAIN Devices(n) -> SUBSET STRING]
    BY <2>1, TrafficAssumption
  <2>3. Fine(n, state[n].pool, state[n], SendHello(n, state[n], garbage), {}, {})
    BY <1>1, <2>2, SendHelloOk
  <2> QED  BY <1>3, <2>1, <2>3
<1>8. ASSUME NEW m \in Node, NEW n \in Node, NEW i \in DOMAIN Devices(m), NEW j \in DOMAIN Devices(n),
             Deliver(m, i, n, j)
      PROVE  Ticked \/ Delivered
  <2> DEFINE f == Head(state[m].mac[i])
             r == Recv(n, state[n], j, f)
  <2>1. state[m].mac[i] # <<>> /\ n # m /\ Update(n, r)
    BY <1>8 DEF Deliver
  <2>2. f \in ToSet(state[m].mac[i])
    <3> DEFINE S == Sendable(m, state[m].pool, state[m].info)
               q == state[m].mac[i]
    <3>1. q \in Seq(S) /\ q # <<>>
      BY <1>1, <2>1 DEF Sound
    <3> HIDE DEF S, q
    <3>2. Head(q) \in ToSet(q)
      BY <3>1, TailIs
    <3> QED  BY <3>2 DEF q
  <2> HIDE DEF f
  <2>3. f \in Sendable(m, state[m].pool, state[m].info) /\ f \in FramesOf(m)
    BY <1>1, <2>2, FrameIs
  <2>4. \E got, news : /\ Fine(n, state[n].pool \cup got, state[n], r, got, news)
                       /\ Learns(n, m, state[n], f, got, news)
    <3>1. Sound(n, state[n].pool, state[n])
      BY <1>1
    <3>2. f.type = "data" => OnChannel(f.src, Devices(n)[j].ch)
      BY <1>1, <1>8, <2>2, HeardOn
    <3> HIDE DEF r
    <3> QED  BY <2>3, <3>1, <3>2, RecvOk DEF r
  <2>5. PICK got, news : /\ Fine(n, state[n].pool \cup got, state[n], r, got, news)
                         /\ Learns(n, m, state[n], f, got, news)
    BY <2>4
  <2> HIDE DEF r
  <2>6. state'[n] = r /\ Update(n, state'[n])
    BY <1>2, <2>1
  <2>7. Stepped(n, got, news)
    BY <2>5, <2>6 DEF Stepped
  <2>8. CASE f.type = "data"
    <3>1. f \in DataFramesOf(m) /\ m \in Node \ {n}
      BY <2>1, <2>3, <2>8 DEF DataFramesOf
    <3>2. Hears(n, got, news)
      BY <2>5, <3>1 DEF Hears
    <3> QED  BY <2>7, <3>2 DEF Delivered
  <2>9. CASE f.type # "data"
    <3>1. got = {} /\ news = {}
      BY <2>5, <2>9 DEF Learns
    <3> QED  BY <2>7, <3>1 DEF Ticked
  <2> QED  BY <2>8, <2>9
<1> QED  BY <1>4, <1>5, <1>6, <1>7, <1>8 DEF Next, Sent

\* A device that finishes with a frame.
LEMMA FrameDoneOk ==
    ASSUME NEW V, NEW n \in Node, NEW s, Sound(n, V, s), NEW i \in DOMAIN Devices(n), s.mac[i] # <<>>,
           Timed(s), NEW t, t = FrameDone(s, i)
    PROVE  Sound(n, V, t) /\ Timed(t) /\ Emptier(n, s, t)
<1> DEFINE S == Sendable(n, V, s.info)
           line == s.mac[i]
<1>1. t = [s EXCEPT !.mac = [s.mac EXCEPT ![i] = Tail(line)]]
  BY DEF FrameDone
<1>2. Shape(s) /\ s.mac \in [DOMAIN Devices(n) -> Seq(S)] /\ line \in Seq(S)
  BY DEF Sound
<1> HIDE DEF S, line
<1>3. Tail(line) \in Seq(S) /\ ToSet(Tail(line)) \subseteq ToSet(line)
  BY <1>2, TailIs DEF line
<1>4. /\ Shape(t) /\ t.queue = s.queue /\ t.rtq = s.rtq /\ t.nbrs = s.nbrs /\ t.pool = s.pool
      /\ t.info = s.info /\ t.acks = s.acks /\ t.recps = s.recps /\ t.abort = s.abort
      /\ t.mac = [s.mac EXCEPT ![i] = Tail(line)] /\ (s.timer => t.timer)
  BY <1>1, <1>2 DEF Shape
<1>5. t.mac \in [DOMAIN Devices(n) -> Seq(S)]
  BY <1>2, <1>3, <1>4
<1>6. \A j \in DOMAIN Devices(n) : t.mac[j] = IF j = i THEN Tail(line) ELSE s.mac[j]
  BY <1>2, <1>4
<1>7. \A j \in DOMAIN Devices(n) : ToSet(t.mac[j]) \subseteq ToSet(s.mac[j])
  BY <1>3, <1>6 DEF line
<1>9. \A j \in DOMAIN Devices(n) : FromDevice(n, j, t.mac[j])
  BY <1>7 DEF Sound, FromDevice
<1>8. Sound(n, V, t)
  BY <1>4, <1>5, <1>9 DEF Sound, Running, S
<1> QED  BY <1>4, <1>7, <1>8 DEF Timed, Emptier

\* A node starts with nothing, which is sound.
LEMMA EmptyOk ==
    ASSUME NEW n \in Node, NEW s, s = EmptyNode(n)
    PROVE  Sound(n, s.pool, s) /\ Timed(s) /\ s.info = {} /\ s.pool = {}
           /\ \A i \in DOMAIN Devices(n) : s.mac[i] = <<>>
<1>1. /\ Shape(s) /\ s.queue = <<>> /\ s.rtq = <<>> /\ s.nbrs = <<>> /\ s.pool = {}
      /\ s.info = {} /\ s.acks = <<>> /\ s.recps = <<>> /\ s.abort = None
      /\ s.mac = [i \in DOMAIN Devices(n) |-> <<>>]
  BY DEF EmptyNode, Shape
<1>2. QueueOk(n, <<>>, {} \cap Packet) /\ RtqOk(n, <<>>, {} \cap Packet)
  BY QueueAssumption DEF QueueOk, RtqOk, Distinct
<1>3. Table(<<>>, Awaited(s.queue))
  BY DEF Table, Rows, RowsOn
<1>4. s.mac \in [DOMAIN Devices(n) -> Seq(Sendable(n, {}, {}))]
  BY <1>1
<1>6. \A i \in DOMAIN Devices(n) : FromDevice(n, i, s.mac[i])
  BY <1>1 DEF FromDevice, ToSet
<1>5. Sound(n, {}, s)
  BY <1>1, <1>2, <1>3, <1>4, <1>6 DEF Sound, Running
<1> QED  BY <1>1, <1>5 DEF Timed

\* At the start every node is sound.
LEMMA InitInv == Init => Inv
<1> SUFFICES ASSUME Init PROVE Inv
  OBVIOUS
<1>1. state = [n \in Node |-> EmptyNode(n)]
  BY DEF Init
<1>2. ASSUME NEW n \in Node PROVE Sound(n, state[n].pool, state[n]) /\ Timed(state[n])
  <2>1. state[n] = EmptyNode(n)
    BY <1>1
  <2> QED  BY <2>1, EmptyOk
<1> QED  BY <1>1, <1>2 DEF Inv

\* Both kinds of steps, seen from one node.
LEMMA SteppedInv ==
    ASSUME Inv, Alive, NEW n \in Node, NEW got, NEW news, Stepped(n, got, news)
    PROVE  /\ Inv'
           /\ \A m \in Node \ {n} : state'[m] = state[m]
           /\ Alive' => Moves(n, state[n], state'[n], got, news)
<1>1. state' = [state EXCEPT ![n] = state'[n]]
  BY DEF Stepped, Update
<1>2. state = [m \in Node |-> state[m]]
  BY DEF Inv
<1>3. state' = [m \in Node |-> state'[m]] /\ \A m \in Node \ {n} : state'[m] = state[m]
  BY <1>1, <1>2
<1>4. Alive' => Running(state'[n])
  BY DEF Alive
<1>5. Alive' => /\ Sound(n, state'[n].pool, state'[n]) /\ Timed(state'[n])
                /\ Moves(n, state[n], state'[n], got, news)
  <2> HAVE Alive'
  <2>1. Fine(n, state[n].pool \cup got, state[n], state'[n], got, news)
    BY DEF Stepped
  <2>2. Sound(n, state[n].pool \cup got, state'[n]) /\ Moves(n, state[n], state'[n], got, news)
    BY <1>4, <2>1 DEF Fine
  <2>3. state'[n].pool = state[n].pool \cup got
    BY <2>2 DEF Moves
  <2>4. Timed(state[n])
    BY DEF Inv
  <2> QED  BY <2>2, <2>3, <2>4 DEF Moves
<1>6. Alive' => \A m \in Node : Sound(m, state'[m].pool, state'[m]) /\ Timed(state'[m])
  BY <1>3, <1>5 DEF Inv
<1> QED  BY <1>3, <1>5, <1>6 DEF Inv

\* A device that finishes with a frame keeps every node sound.
LEMMA SentInv ==
    ASSUME Inv, Alive, NEW n \in Node, NEW i \in DOMAIN Devices(n), MacDone(n, i)
    PROVE  /\ Inv'
           /\ \A m \in Node : /\ state'[m].pool = state[m].pool /\ state'[m].info = state[m].info
                              /\ FramesOf(m)' \subseteq FramesOf(m)
<1>1. state' = [state EXCEPT ![n] = FrameDone(state[n], i)] /\ state[n].mac[i] # <<>>
  BY DEF MacDone, Update, FrameDone
<1>2. state = [m \in Node |-> state[m]]
  BY DEF Inv
<1>3. /\ state' = [m \in Node |-> state'[m]] /\ state'[n] = FrameDone(state[n], i)
      /\ \A m \in Node \ {n} : state'[m] = state[m]
  BY <1>1, <1>2
<1>4. Sound(n, state[n].pool, state[n]) /\ Timed(state[n])
  BY DEF Inv
<1>5. /\ Sound(n, state[n].pool, state'[n])
      /\ state'[n].pool = state[n].pool /\ state'[n].info = state[n].info /\ Timed(state'[n])
      /\ \A j \in DOMAIN Devices(n) : ToSet(state'[n].mac[j]) \subseteq ToSet(state[n].mac[j])
  <2> SUFFICES ASSUME NEW s, s = state[n], NEW t, t = FrameDone(s, i)
               PROVE  Sound(n, s.pool, t) /\ Timed(t) /\ Emptier(n, s, t)
    BY <1>3 DEF Emptier
  <2> DEFINE V == s.pool
  <2>1. Sound(n, V, s) /\ Timed(s) /\ s.mac[i] # <<>> /\ t = FrameDone(s, i)
    BY <1>1, <1>4
  <2> HIDE DEF V
  <2>2. Sound(n, V, t) /\ Timed(t) /\ Emptier(n, s, t)
    BY <2>1, FrameDoneOk
  <2> QED  BY <2>2 DEF V
<1>6. Inv'
  BY <1>3, <1>5 DEF Inv
<1>7. \A m \in Node : FramesOf(m)' \subseteq FramesOf(m)
  BY <1>3, <1>5 DEF FramesOf
<1> QED  BY <1>3, <1>5, <1>6, <1>7

\* Every step keeps every node sound.
LEMMA NextInv == Inv /\ [Next]_vars => Inv'
<1> SUFFICES ASSUME Inv, [Next]_vars PROVE Inv'
  OBVIOUS
<1>1. CASE Next
  <2>1. Alive
    BY <1>1 DEF Next
  <2>2. Sent \/ Ticked \/ Offered \/ Delivered
    BY <1>1, NextIs
  <2>3. Sent => Inv'
    BY <2>1, SentInv DEF Sent
  <2>4. Ticked \/ Offered \/ Delivered => Inv'
    BY <2>1, SteppedInv DEF Ticked, Offered, Delivered
  <2> QED  BY <2>2, <2>3, <2>4
<1>2. CASE UNCHANGED vars
  BY <1>2 DEF vars, Inv, Alive
<1> QED  BY <1>1, <1>2

\* Every node stays sound as long as the program runs.
THEOREM Invariance == Spec => []Inv
BY InitInv, NextInv, PTL DEF Spec

\* No address is ever filed under two neighbors: a search finds the only row
\* there is, whatever hellos and frames the table was learnt and merged from.
THEOREM AddressesApart == Spec => [](Alive => NeighborsDisjoint)
<1>1. Inv => (Alive => NeighborsDisjoint)
  BY DEF Inv, Sound, Table, Rows, RowsOn, NeighborsDisjoint
<1> QED  BY <1>1, Invariance, PTL

\* Virtual queues point into the output queue, through sends, coding,
\* retransmissions, entries put back and merged neighbors.
THEOREM PointersLive == Spec => [](Alive => NoDanglingPointer)
<1>1. ASSUME NEW nbr, NEW q, Row(nbr, Awaited(q)) PROVE PointsInto(nbr, q)
  <2>1. PICK m \in Node : Belongs(nbr, m) /\ \A p \in ToSet(nbr.vq) : <<p, m>> \in Awaited(q)
    BY <1>1 DEF Row
  <2>2. \A p : <<p, m>> \in Awaited(q) =>
          \E i \in DOMAIN q : Unicast(q[i]) /\ q[i].pid = p /\ Owner[q[i].dest] = m
    BY DEF Awaited
  <2> QED  BY <2>1, <2>2 DEF PointsInto
<1>2. Inv => (Alive => NoDanglingPointer)
  <2> SUFFICES ASSUME Inv, Alive PROVE NoDanglingPointer
    OBVIOUS
  <2>1. \A n \in Node : Table(state[n].nbrs, Awaited(state[n].queue))
    BY DEF Inv, Sound
  <2>2. ASSUME NEW n \in Node, NEW k \in DOMAIN state[n].nbrs
        PROVE  IsInjective(state[n].nbrs[k].vq) /\ PointsInto(state[n].nbrs[k], state[n].queue)
    <3>1. IsInjective(state[n].nbrs[k].vq) /\ Row(state[n].nbrs[k], Awaited(state[n].queue))
      BY <2>1 DEF Table, Rows, RowsOn
    <3> QED  BY <1>1, <3>1
  <2>3. \A n \in Node : \A k, l \in DOMAIN state[n].nbrs :
          k # l => ToSet(state[n].nbrs[k].vq) \cap ToSet(state[n].nbrs[l].vq) = {}
    BY <2>1 DEF Table, Rows, RowsOn
  <2> QED  BY <2>2, <2>3 DEF NoDanglingPointer
<1> QED  BY <1>2, Invariance, PTL

\* As long as a coded native waits for its ack the retransmission timer runs.
THEOREM UnackedTimed == Spec => []UnackedIsTimed
<1>1. Inv => UnackedIsTimed
  BY DEF Inv, UnackedIsTimed, Timed
<1> QED  BY <1>1, Invariance, PTL

-----------------------------------------------------------------------------
(* What a reception adds, when a coded frame holds what Recv asserts of it. *)

\* A frame with finitely many next hops has finitely many natives.
LEMMA NativesFinite ==
    ASSUME NEW f, IsFiniteSet(f.ids)
    PROVE  IsFiniteSet(Natives(f))
<1> DEFINE g == [id \in f.ids |-> id.pid]
<1>1. g \in Surjection(f.ids, Natives(f))
  BY DEF Surjection, Natives
<1> HIDE DEF g
<1> QED  BY <1>1, FS_Surjection

\* A finite set with at most one member is empty or a singleton.
LEMMA AtMostOne ==
    ASSUME NEW S, IsFiniteSet(S), ~ (Cardinality(S) > 1)
    PROVE  S = {} \/ \E x : S = {x}
<1>1. Cardinality(S) \in Nat
  BY FS_CardinalityType
<1>2. Cardinality(S) = 0 \/ Cardinality(S) = 1
  BY <1>1
<1> QED  BY <1>2, FS_EmptySet, FS_Singleton

\* Reception keeps nothing, or the native that the pool lacks.
LEMMA GotIs ==
    ASSUME NEW n \in Node, NEW m, NEW L, NEW J, NEW f \in DataSendable(m, L, J), Decodes(f), NEW s
    PROVE  Keeps(s, f, Got(n, s, f))
<1>1. IdsOk(f.ids, f.pkt, J)
  BY DEF DataSendable
<1>2. IsFiniteSet(f.ids) /\ f.ids # {}
  BY <1>1 DEF IdsOk
<1>3. CASE Cardinality(f.ids) > 1
  <2>1. ~ IsBroadcast(f)
    <3> SUFFICES ASSUME NEW id \in f.ids, id.mac = Broadcast PROVE FALSE
      BY DEF IsBroadcast
    <3>1. f.ids = {id}
      BY <1>1 DEF IdsOk
    <3>2. Cardinality(f.ids) = 1
      BY <3>1, FS_Singleton
    <3> QED  BY <1>3, <3>2
  <2>2. CASE Decode(s, f) < 0
    BY <1>3, <2>2 DEF Got, Keeps
  <2>3. CASE ~ (Decode(s, f) < 0)
    <3> DEFINE M == MissingNatives(s, f)
    <3>1. M # {} /\ ~ (Cardinality(M) > 1)
      BY <2>3 DEF Decode
    <3>2. M \subseteq Natives(f) /\ Natives(f) \ M \subseteq s.pool
          /\ Natives(f) \cap s.pool = Natives(f) \ M
      BY DEF MissingNatives
    <3>3. DecodedId(s, f) = CHOOSE pid \in M : TRUE
      BY DEF DecodedId
    <3>4. DecodedPacket(s, f) = Without(f.pkt, Natives(f) \cap s.pool)
      BY Zenon DEF DecodedPacket, Without
    <3> HIDE DEF M
    <3>5. IsFiniteSet(M)
      <4>1. IsFiniteSet(Natives(f))
        BY <1>2, NativesFinite
      <4> QED  BY <3>2, <4>1, FS_Subset
    <3>6. PICK p : M = {p}
      BY <3>1, <3>5, AtMostOne
    <3>7. p \in Natives(f) /\ Natives(f) \ {p} \subseteq s.pool /\ DecodedId(s, f) = p
      BY <3>2, <3>3, <3>6
    <3>8. DecodedPacket(s, f) = p
      <4>1. PICK id \in f.ids : id.pid = p
        BY <3>7 DEF Natives
      <4>2. Without(f.pkt, Natives(f) \ {p}) = p
        BY <2>1, <4>1 DEF Decodes
      <4>3. Natives(f) \cap s.pool = Natives(f) \ {p}
        BY <3>2, <3>6
      <4> QED  BY <3>4, <4>2, <4>3
    <3>9. Got(n, s, f) = {p}
      BY <1>3, <2>3, <3>7, <3>8 DEF Got
    <3> QED  BY <2>1, <3>7, <3>9 DEF Keeps
  <2> QED  BY <2>2, <2>3
<1>4. CASE ~ (Cardinality(f.ids) > 1)
  <2>1. CASE IsBroadcast(f)
    BY <1>4, <2>1 DEF Got, Keeps
  <2>2. CASE ~ IsBroadcast(f)
    <3>1. PICK id : f.ids = {id}
      BY <1>2, <1>4, AtMostOne
    <3>2. f.pkt = id.pid /\ Natives(f) = {id.pid}
      BY <1>1, <3>1 DEF IdsOk, Natives
    <3>3. Got(n, s, f) = {id.pid}
      BY <1>4, <2>2, <3>2 DEF Got
    <3> QED  BY <2>2, <3>2, <3>3 DEF Keeps
  <2> QED  BY <2>1, <2>2
<1> QED  BY <1>3, <1>4

\* XOR with one packet, and with none.
LEMMA WithoutOne ==
    ASSUME NEW pkt, NEW p
    PROVE  Without(pkt, {p}) = XOR(p, pkt) /\ Without(pkt, {}) = pkt
<1> DEFINE G(it, S) == [s \in SUBSET S |-> IF s = {} THEN pkt
                          ELSE XOR(CHOOSE x \in s : TRUE, it[s \ {CHOOSE x \in s : TRUE}])]
           g == [s \in SUBSET {p} |-> IF s = {} THEN pkt ELSE XOR(p, pkt)]
           e == [s \in SUBSET {} |-> pkt]
<1>1. \A s \in SUBSET {p} : s # {} => s = {p} /\ (CHOOSE x \in s : TRUE) = p
  OBVIOUS
<1>2. g = G(g, {p})
  <2> SUFFICES ASSUME NEW s \in SUBSET {p}, s # {}
               PROVE  g[s] = XOR(CHOOSE x \in s : TRUE, g[s \ {CHOOSE x \in s : TRUE}])
    OBVIOUS
  <2>1. s \ {p} = {} /\ s = {p} /\ (CHOOSE x \in s : TRUE) = p
    BY <1>1
  <2>2. g[{}] = pkt /\ g[s] = XOR(p, pkt)
    OBVIOUS
  <2> QED  BY <2>1, <2>2
<1>3. e = G(e, {})
  OBVIOUS
<1>4. \E it : it = G(it, {p})
  BY Zenon, <1>2
<1>5. \E it : it = G(it, {})
  BY Zenon, <1>3
<1>6. PICK it : it = G(it, {p}) /\ Without(pkt, {p}) = it[{p}]
  BY Zenon, <1>4 DEF Without, FoldSet, MapThenFoldSet
<1>7. PICK no : no = G(no, {}) /\ Without(pkt, {}) = no[{}]
  BY Zenon, <1>5 DEF Without, FoldSet, MapThenFoldSet
<1>8. it[{}] = pkt /\ it[{p}] = XOR(p, pkt)
  <2>1. it = G(it, {p})
    BY Zenon, <1>6
  <2>2. \A s \in SUBSET {p} : it[s] = G(it, {p})[s]
    BY Zenon, <2>1
  <2>3. it[{}] = pkt
    BY <2>2
  <2>4. it[{p}] = XOR(CHOOSE x \in {p} : TRUE, it[{p} \ {CHOOSE x \in {p} : TRUE}])
    BY <2>2
  <2>5. (CHOOSE x \in {p} : TRUE) = p /\ {p} \ {p} = {}
    OBVIOUS
  <2> QED  BY <2>3, <2>4, <2>5
<1>9. no[{}] = pkt
  BY <1>7
<1> QED  BY Zenon, <1>6, <1>7, <1>8, <1>9

\* With one or two natives the assertion of Recv holds: what is left after the
\* XOR with the other native is the native.
LEMMA PairDecodes ==
    ASSUME NEW m, NEW L, NEW J, NEW f \in DataSendable(m, L, J), ~ (Cardinality(f.ids) > 2)
    PROVE  Decodes(f)
<1>1. IdsOk(f.ids, f.pkt, J)
  BY DEF DataSendable
<1>2. IsFiniteSet(f.ids)
  BY <1>1 DEF IdsOk
<1> SUFFICES ASSUME NEW id \in f.ids PROVE Without(f.pkt, Natives(f) \ {id.pid}) = id.pid
  BY DEF Decodes
<1>3. IsFiniteSet(f.ids \ {id}) /\ ~ (Cardinality(f.ids \ {id}) > 1)
  <2>1. Cardinality(f.ids) \in Nat
    BY <1>2, FS_CardinalityType
  <2>2. IsFiniteSet(f.ids \ {id}) /\ Cardinality(f.ids \ {id}) = Cardinality(f.ids) - 1
    BY <1>2, FS_RemoveElement
  <2> QED  BY <2>1, <2>2
<1>4. CASE f.ids \ {id} = {}
  <2>1. f.ids = {id}
    BY <1>4
  <2>2. f.pkt = id.pid /\ Natives(f) \ {id.pid} = {}
    BY <1>1, <2>1 DEF IdsOk, Natives
  <2> QED  BY <2>2, WithoutOne
<1>5. CASE \E y : f.ids \ {id} = {y}
  <2>1. PICK y : f.ids \ {id} = {y}
    BY <1>5
  <2>2. y \in f.ids /\ y # id /\ f.ids = {id, y}
    BY <2>1
  <2>3. f.pkt = XOR(id.pid, y.pid) /\ id.pid # y.pid
    BY <1>1, <2>2 DEF IdsOk
  <2>4. Natives(f) = {id.pid, y.pid}
    BY <2>2 DEF Natives
  <2>5. Natives(f) \ {id.pid} = {y.pid}
    BY <2>3, <2>4
  <2>6. XOR(y.pid, XOR(id.pid, y.pid)) = id.pid
    BY DEF XOR
  <2> QED  BY <2>3, <2>5, <2>6, WithoutOne
<1> QED  BY <1>3, <1>4, <1>5, AtMostOne

-----------------------------------------------------------------------------
(* Beliefs are true, and coded frames can be decoded. *)

\* A data frame in a transmit queue is one that its node could send, and if it
\* can be decoded it is one that Decodes.
LEMMA DataFrameIs ==
    ASSUME Inv, Alive, NEW m \in Node, NEW f \in DataFramesOf(m)
    PROVE  /\ f \in DataSendable(m, state[m].pool, state[m].info)
           /\ DecodedIsNative => Decodes(f)
<1>1. PICK i \in DOMAIN Devices(m) : f \in ToSet(state[m].mac[i])
  BY DEF DataFramesOf, FramesOf
<1>2. f.type = "data"
  BY DEF DataFramesOf
<1>3. Sound(m, state[m].pool, state[m])
  BY DEF Inv
<1>4. f \in Sendable(m, state[m].pool, state[m].info)
  BY <1>1, <1>3, FrameIs
<1>5. f \in DataSendable(m, state[m].pool, state[m].info)
  BY <1>2, <1>4 DEF Sendable
<1>6. DecodedIsNative => Decodes(f)
  BY Zenon DEF DecodedIsNative, Decodes, Without
<1> QED  BY <1>5, <1>6

\* The natives, the reports and the acks of a frame are in the pool.
LEMMA FrameHas ==
    ASSUME NEW m, NEW K, NEW J, NEW f \in DataSendable(m, K, J)
    PROVE  Reports(f) \subseteq K /\ Natives(f) \subseteq K \cap Packet /\ f.recps \subseteq K
<1>1. f.recps \subseteq K /\ f.acks \subseteq [ip : Nat, pid : K] /\ f.ids \subseteq Ids(K)
  BY DEF DataSendable
<1>2. Reports(f) \subseteq K
  BY <1>1 DEF Reports
<1>3. Natives(f) \subseteq K \cap Packet
  BY <1>1 DEF Natives, Ids
<1> QED  BY <1>1, <1>2, <1>3

\* What a node learns from a frame is true.
LEMMA LearnsTruth ==
    ASSUME Inv, Truth, Alive, DecodedIsNative, NEW n \in Node, NEW got, NEW news, Hears(n, got, news)
    PROVE  got \subseteq Packet /\ \A known \in news : Backed(known)
<1>1. PICK m \in Node \ {n} : \E f \in DataFramesOf(m) : Learns(n, m, state[n], f, got, news)
  BY DEF Hears
<1>0. PICK f \in DataFramesOf(m) : Learns(n, m, state[n], f, got, news)
  BY <1>1
<1> DEFINE K == state[m].pool
<1>2. f \in DataSendable(m, K, state[m].info) /\ Decodes(f)
  BY <1>0, DataFrameIs
<1>3. K \subseteq Packet
  BY DEF Truth
<1> HIDE DEF K
<1>4. CASE got = {} /\ news = {}
  BY <1>4
<1>5. CASE /\ got = Got(n, state[n], f)
           /\ \E mac \in Macs(m) : news = (Reports(f) \cup got) \X {mac}
  <2>1. Keeps(state[n], f, got)
    BY <1>2, <1>5, GotIs
  <2>2. got \subseteq Natives(f)
    BY <2>1 DEF Keeps
  <2>3. Reports(f) \cup got \subseteq K /\ got \subseteq Packet
    BY <1>2, <2>2, FrameHas
  <2>4. PICK mac \in Macs(m) : news = (Reports(f) \cup got) \X {mac}
    BY <1>5
  <2>5. ASSUME NEW known \in news PROVE Backed(known)
    <3>1. PICK p \in Reports(f) \cup got : known = <<p, mac>>
      BY <2>4
    <3>2. p \in Packet /\ p \in state[m].pool
      BY <1>3, <2>3, <3>1 DEF K
    <3> QED  BY <3>1, <3>2 DEF Backed
  <2> QED  BY <2>3, <2>5
<1> QED  BY <1>0, <1>4, <1>5 DEF Learns

\* A node that gains packets and true beliefs keeps all beliefs true.
LEMMA SteppedTruth ==
    ASSUME Inv, Truth, Alive, NEW n \in Node, NEW got, NEW news, Stepped(n, got, news),
           got \subseteq Packet, \A known \in news : Backed(known)
    PROVE  Truth'
<1> SUFFICES ASSUME Alive'
             PROVE  \A m \in Node : /\ state'[m].pool \subseteq Packet
                                    /\ \A known \in state'[m].info : Backed(known)'
  BY DEF Truth
<1>1. /\ \A m \in Node \ {n} : state'[m] = state[m]
      /\ Moves(n, state[n], state'[n], got, news)
  BY SteppedInv
<1>2. state'[n].pool = state[n].pool \cup got /\ state'[n].info = state[n].info \cup news
  BY <1>1 DEF Moves
<1>3. \A m \in Node : state[m].pool \subseteq state'[m].pool
  BY <1>1, <1>2
<1>4. \A known : Backed(known) => Backed(known)'
  BY <1>3 DEF Backed
<1>5. \A m \in Node : state[m].pool \subseteq Packet /\ \A known \in state[m].info : Backed(known)
  BY DEF Truth
<1> QED  BY <1>1, <1>2, <1>4, <1>5

\* Every step keeps the beliefs true.
LEMMA NextTruth == Inv /\ Truth /\ Decoding /\ [Next]_vars => Truth'
<1> SUFFICES ASSUME Inv, Truth, Decoding, [Next]_vars PROVE Truth'
  OBVIOUS
<1>1. CASE UNCHANGED vars
  BY <1>1 DEF vars, Truth, Alive, Backed
<1>2. CASE Next
  <2>1. Alive /\ DecodedIsNative
    BY <1>2 DEF Next, Decoding
  <2>2. Sent \/ Ticked \/ Offered \/ Delivered
    BY <1>2, NextIs
  <2>3. CASE Sent
    <3>1. \A m \in Node : state'[m].pool = state[m].pool /\ state'[m].info = state[m].info
      BY <2>1, <2>3, SentInv DEF Sent
    <3>2. \A known : Backed(known) => Backed(known)'
      BY <3>1 DEF Backed
    <3> QED  BY <2>1, <3>1, <3>2 DEF Truth
  <2>4. CASE Ticked
    BY <2>1, <2>4, SteppedTruth DEF Ticked
  <2>5. CASE Offered
    BY <2>1, <2>5, SteppedTruth DEF Offered
  <2>6. CASE Delivered
    BY <2>1, <2>6, LearnsTruth, SteppedTruth DEF Delivered
  <2> QED  BY <2>2, <2>3, <2>4, <2>5, <2>6
<1> QED  BY <1>1, <1>2

\* Nobody has or believes anything at the start.
LEMMA InitTruth == Init => Truth
<1> SUFFICES ASSUME Init, NEW n \in Node PROVE state[n].pool = {} /\ state[n].info = {}
  BY DEF Truth
<1>1. state[n] = EmptyNode(n)
  BY DEF Init
<1> QED  BY <1>1, EmptyOk

\* What is believed of a node is in its pool.
LEMMA BeliefIs ==
    ASSUME Truth, Alive, NEW n \in Node, NEW m \in Node, NEW mac \in Macs(m), NEW p,
           <<p, mac>> \in state[n].info
    PROVE  p \in state[m].pool
<1>1. Backed(<<p, mac>>)
  BY DEF Truth
<1>2. PICK k \in Node : mac \in Macs(k) /\ p \in state[k].pool
  BY <1>1 DEF Backed
<1>3. k = m
  BY <1>2, Apart
<1> QED  BY <1>2, <1>3

\* True beliefs are what KnowledgeTruthful says.
LEMMA TruthTells ==
    ASSUME Truth, Alive PROVE KnowledgeTruthful
<1> SUFFICES ASSUME NEW n \in Node, NEW known \in state[n].info
             PROVE  known[1] \in state[Owner[known[2]]].pool
  BY DEF KnowledgeTruthful
<1>1. Backed(known)
  BY DEF Truth
<1>2. PICK m \in Node : \E mac \in Macs(m) : \E p \in Packet :
          known = <<p, mac>> /\ p \in state[m].pool
  BY <1>1 DEF Backed
<1>3. PICK mac \in Macs(m) : \E p \in Packet : known = <<p, mac>> /\ p \in state[m].pool
  BY <1>2
<1>4. Owner[mac] = m
  BY OwnerOf
<1> QED  BY <1>3, <1>4

\* A next hop of a frame with several natives is an address of some node.
LEMMA NextHopIs ==
    ASSUME NEW m, NEW K, NEW J, NEW f \in DataSendable(m, K, J), NEW x \in f.ids, ~ IsBroadcast(f)
    PROVE  Owner[x.mac] \in Node /\ x.mac \in Macs(Owner[x.mac])
<1>1. x \in Ids(K) /\ x.mac # Broadcast
  BY DEF DataSendable, IsBroadcast
<1>2. PICK k \in Node : x.mac \in Macs(k)
  BY <1>1 DEF Ids, Address
<1> QED  BY <1>2, OwnerOf

\* A frame with several natives is no broadcast.
LEMMA CodedIs ==
    ASSUME NEW m, NEW K, NEW J, NEW f \in DataSendable(m, K, J), NEW x \in f.ids, NEW y \in f.ids, x # y
    PROVE  ~ IsBroadcast(f) /\ Believes(J, x.pid, Owner[y.mac]) /\ x.pid # y.pid
<1>1. IdsOk(f.ids, f.pkt, J)
  BY DEF DataSendable
<1> QED  BY <1>1 DEF IdsOk, IsBroadcast

\* Each next hop of a coded frame has the natives of the other ones: that is
\* what the sender believes, and it is true.
LEMMA TruthDecodes ==
    ASSUME Inv, Truth, Alive PROVE CodedFrameDecodable
<1> SUFFICES ASSUME NEW n \in Node, NEW f \in DataFramesOf(n), NEW mine \in f.ids, NEW other \in f.ids,
                    other # mine
             PROVE  other.pid \in state[Owner[mine.mac]].pool
  BY DEF CodedFrameDecodable
<1>1. f \in DataSendable(n, state[n].pool, state[n].info)
  BY DataFrameIs
<1>2. ~ IsBroadcast(f) /\ Believes(state[n].info, other.pid, Owner[mine.mac])
  BY <1>1, CodedIs
<1>3. Owner[mine.mac] \in Node
  BY <1>1, <1>2, NextHopIs
<1>4. PICK mac \in Macs(Owner[mine.mac]) : <<other.pid, mac>> \in state[n].info
  BY <1>2 DEF Believes
<1> QED  BY <1>3, <1>4, BeliefIs

\* Then every coded frame holds what Recv asserts of it.
LEMMA PairsDecode ==
    ASSUME Inv, Alive => CodedInPairs PROVE Decoding
<1> SUFFICES ASSUME Alive, NEW n \in Node, NEW f \in DataFramesOf(n) PROVE Decodes(f)
  BY Zenon DEF Decoding, DecodedIsNative, Decodes, Without
<1>1. f \in DataSendable(n, state[n].pool, state[n].info)
  BY DataFrameIs
<1> QED  BY <1>1, PairDecodes DEF CodedInPairs

\* A relay between two neighbors codes their packets in pairs, since a frame has at
\* most one native for each next hop (AddIdNexthop, mync-protocol.cc:869).
THEOREM PairsOnly == TwoNextHops /\ Spec => [](Alive => CodedInPairs)
<1>1. ASSUME TwoNextHops, Inv, Alive, NEW n \in Node, NEW f \in DataFramesOf(n)
      PROVE  ~ (Cardinality(f.ids) > 2)
  <2> DEFINE hops == NextHops(n) \ {Broadcast}
  <2>1. f \in DataSendable(n, state[n].pool, state[n].info)
    BY <1>1, DataFrameIs
  <2>2. IdsOk(f.ids, f.pkt, state[n].info) /\ HopsOk(n, f.ids)
    BY <2>1 DEF DataSendable
  <2>3. IsFiniteSet(f.ids) /\ Cardinality(f.ids) \in Nat
    BY <2>2, FS_CardinalityType DEF IdsOk
  <2>4. CASE \E id \in f.ids : id.mac = Broadcast
    <3>1. PICK id \in f.ids : f.ids = {id}
      BY <2>2, <2>4 DEF IdsOk
    <3> QED  BY <3>1, FS_Singleton
  <2>5. CASE \A id \in f.ids : id.mac # Broadcast
    <3> DEFINE g == [id \in f.ids |-> id.mac]
    <3>1. g \in Injection(f.ids, hops)
      BY <2>2, <2>5 DEF Injection, IsInjective, HopsOk
    <3>2. IsFiniteSet(hops) /\ ~ (Cardinality(hops) > 2)
      BY <1>1, FS_Subset DEF TwoNextHops
    <3> HIDE DEF g, hops
    <3>3. Cardinality(f.ids) <= Cardinality(hops)
      BY <3>1, <3>2, FS_Injection
    <3> QED  BY <2>3, <3>2, <3>3, FS_CardinalityType
  <2> QED  BY <2>4, <2>5
<1>2. TwoNextHops => (Inv => (Alive => CodedInPairs))
  BY <1>1 DEF CodedInPairs
<1>3. CASE TwoNextHops
  <2>1. Inv => (Alive => CodedInPairs)
    BY <1>2, <1>3
  <2> QED  BY <2>1, Invariance, PTL
<1>4. CASE ~ TwoNextHops
  BY <1>4
<1> QED  BY <1>3, <1>4

\* Beliefs are true as long as coded frames hold what Recv asserts of them.
LEMMA TruthHolds == Spec /\ []Decoding => []Truth
BY Invariance, InitTruth, NextTruth, PTL DEF Spec

\* As long as no frame holds more than two natives, what m_packetInfo says of
\* another node is true, however late, lost or overtaken the reports are.
THEOREM BeliefsTrue == Spec /\ [](Alive => CodedInPairs) => [](Alive => KnowledgeTruthful)
<1>1. Inv /\ (Alive => CodedInPairs) => Decoding
  BY PairsDecode
<1>2. Truth => (Alive => KnowledgeTruthful)
  BY TruthTells
<1> QED  BY <1>1, <1>2, Invariance, TruthHolds, PTL

\* As long as no frame holds more than two natives, every next hop of a coded
\* frame has the natives of the other ones, whenever the frame arrives.
THEOREM NextHopsDecode == Spec /\ [](Alive => CodedInPairs) => [](Alive => CodedFrameDecodable)
<1>1. Inv /\ (Alive => CodedInPairs) => Decoding
  BY PairsDecode
<1>2. Inv /\ Truth => (Alive => CodedFrameDecodable)
  BY TruthDecodes
<1> QED  BY <1>1, <1>2, Invariance, TruthHolds, PTL

\* The same for frames of any size, on the assertion of Recv that fails when a
\* frame codes three natives.
THEOREM AssertionSuffices ==
    Spec /\ []DecodedIsNative => [](Alive => KnowledgeTruthful /\ CodedFrameDecodable)
<1>1. DecodedIsNative => Decoding
  BY DEF Decoding
<1>2. Inv /\ Truth => (Alive => KnowledgeTruthful /\ CodedFrameDecodable)
  BY TruthTells, TruthDecodes
<1> QED  BY <1>1, <1>2, Invariance, TruthHolds, PTL

-----------------------------------------------------------------------------
(* Types *)

\* A medium in which the nodes R have heard device i of node n.
LEMMA OutsideHeard ==
    ASSUME HeardOk, NEW n \in Node, NEW i \in DOMAIN Devices(n), NEW R, R \subseteq Node \ {n},
           heard' = [heard EXCEPT ![n][i] = R]
    PROVE  HeardOk'
<1> DEFINE new == [heard[n] EXCEPT ![i] = R]
<1>1. heard' = [heard EXCEPT ![n] = new]
  OBVIOUS
<1>2. heard = [m \in Node |-> [j \in DOMAIN Devices(m) |-> heard[m][j]]]
  BY DEF HeardOk
<1>3. \A m \in Node : heard[m] = [j \in DOMAIN Devices(m) |-> heard[m][j]]
  BY <1>2
<1>4. new = [j \in DOMAIN Devices(n) |-> new[j]]
      /\ \A j \in DOMAIN Devices(n) : new[j] = IF j = i THEN R ELSE heard[n][j]
  BY <1>3
<1> HIDE DEF new
<1>5. \A m \in Node : heard'[m] = IF m = n THEN new ELSE heard[m]
  BY <1>1, <1>2
<1>6. \A m \in Node : heard'[m] = [j \in DOMAIN Devices(m) |-> heard'[m][j]]
  BY <1>3, <1>4, <1>5
<1>7. DOMAIN heard' = Node /\ heard' = [m \in Node |-> heard'[m]]
  BY <1>1, <1>2
<1>8. heard' = [m \in Node |-> [j \in DOMAIN Devices(m) |-> heard'[m][j]]]
  BY <1>6, <1>7
<1>9. \A m \in Node : \A j \in DOMAIN Devices(m) : heard'[m][j] \subseteq Node \ {m}
  BY <1>4, <1>5 DEF HeardOk
<1> QED  BY <1>8, <1>9 DEF HeardOk

\* A frame is heard by other nodes only, and hello rounds are counted down.
LEMMA NextOutside == Outside /\ [Next]_vars => Outside'
<1> SUFFICES ASSUME Outside, [Next]_vars PROVE Outside'
  OBVIOUS
<1>1. CASE UNCHANGED vars
  BY <1>1 DEF vars, Outside, HeardOk
<1>2. ASSUME NEW t \in Traffic, Offer(t) PROVE Outside'
  <2>1. heard' = heard /\ hellos' = hellos /\ offered' = offered \cup {t}
    BY <1>2 DEF Offer
  <2> QED  BY <2>1 DEF Outside, HeardOk
<1>3. ASSUME NEW n \in Node, TryTimer(n) \/ RetransmitTimer(n) PROVE Outside'
  <2>1. heard' = heard /\ hellos' = hellos /\ offered' = offered
    BY <1>3 DEF TryTimer, RetransmitTimer
  <2> QED  BY <2>1 DEF Outside, HeardOk
<1>4. ASSUME NEW n \in Node, HelloTimer(n) PROVE Outside'
  <2>1. heard' = heard /\ offered' = offered /\ hellos[n] > 0
        /\ hellos' = [hellos EXCEPT ![n] = hellos[n] - 1]
    BY <1>4 DEF HelloTimer
  <2>2. hellos \in [Node -> 0..HelloRounds] /\ HelloRounds \in Nat
    BY TrafficAssumption DEF Outside
  <2>3. hellos' \in [Node -> 0..HelloRounds]
    BY <2>1, <2>2
  <2> QED  BY <2>1, <2>3 DEF Outside, HeardOk
<1>5. ASSUME NEW n \in Node, NEW m \in Node, NEW i \in DOMAIN Devices(n), NEW j \in DOMAIN Devices(m),
             Deliver(n, i, m, j)
      PROVE  Outside'
  <2>1. offered' = offered /\ hellos' = hellos /\ m # n
        /\ heard' = [heard EXCEPT ![n][i] = heard[n][i] \cup {m}]
    BY <1>5 DEF Deliver
  <2>2. heard[n][i] \cup {m} \subseteq Node \ {n}
    BY <2>1 DEF Outside, HeardOk
  <2>3. HeardOk'
    <3>1. HeardOk
      BY DEF Outside
    <3> QED  BY <2>1, <2>2, <3>1, OutsideHeard
  <2> QED  BY <2>1, <2>3 DEF Outside
<1>6. ASSUME NEW n \in Node, NEW i \in DOMAIN Devices(n), MacDone(n, i) PROVE Outside'
  <2>1. offered' = offered /\ hellos' = hellos /\ heard' = [heard EXCEPT ![n][i] = {}]
    BY <1>6 DEF MacDone
  <2>2. HeardOk'
    <3> DEFINE nobody == {}
    <3>1. HeardOk /\ nobody \subseteq Node \ {n} /\ heard' = [heard EXCEPT ![n][i] = nobody]
      BY <2>1 DEF Outside
    <3> HIDE DEF nobody
    <3> QED  BY <3>1, OutsideHeard
  <2> QED  BY <2>1, <2>2 DEF Outside
<1> QED  BY <1>1, <1>2, <1>3, <1>4, <1>5, <1>6 DEF Next

\* Nothing was heard or asked for at the start.
LEMMA InitOutside == Init => Outside
BY TrafficAssumption DEF Init, Outside, HeardOk

\* A queue of a sound node is one of TypeOK.
LEMMA QueueType ==
    ASSUME NEW n \in Node, NEW K, NEW q, QueueOk(n, q, K)
    PROVE  QueueTyped(n, q)
<1>1. q \in Seq(Entry) /\ Len(q) <= QueueMax /\ Distinct(q) /\ \A i \in DOMAIN q : EntryOk(n, K, q[i])
  BY DEF QueueOk
<1>2. \A i \in DOMAIN q : q[i] \in Entry /\ q[i].iface \in DOMAIN Devices(n)
  BY <1>1 DEF EntryOk
<1>3. IsInjective([i \in DOMAIN q |-> q[i].pid])
  BY <1>1 DEF Distinct, IsInjective
<1> QED  BY <1>1, <1>2, <1>3 DEF QueueTyped

\* Sound nodes with true beliefs are of the right types.
LEMMA TypesOk ==
    ASSUME Inv, Truth, Outside, Alive PROVE TypeOK
<1> SUFFICES ASSUME NEW n \in Node
             PROVE  /\ \A q \in {state[n].queue, state[n].rtq} : QueueTyped(n, q)
                    /\ state[n].pool \subseteq {t.req.pid : t \in Traffic}
                    /\ ToSet(state[n].recps) \subseteq state[n].pool
                    /\ \A i \in DOMAIN Devices(n) : heard[n][i] \subseteq Node \ {n}
                    /\ offered \subseteq Traffic /\ hellos[n] \in 0..HelloRounds
  BY DEF TypeOK, QueueTyped
<1> DEFINE V == state[n].pool
           recps == state[n].recps
<1>1. Sound(n, V, state[n])
  BY DEF Inv
<1>2. QueueOk(n, state[n].queue, V \cap Packet) /\ QueueOk(n, state[n].rtq, V \cap Packet)
  BY <1>1 DEF Sound, RtqOk
<1>3. V \subseteq {t.req.pid : t \in Traffic}
  BY DEF Truth, Packet
<1>4. recps \in Seq(V)
  BY <1>1 DEF Sound
<1> HIDE DEF V, recps
<1>5. ToSet(recps) \subseteq V
  BY <1>4, SetOf
<1>6. /\ \A i \in DOMAIN Devices(n) : heard[n][i] \subseteq Node \ {n}
      /\ offered \subseteq Traffic /\ hellos[n] \in 0..HelloRounds
  BY DEF Outside, HeardOk
<1>7. \A q \in {state[n].queue, state[n].rtq} : QueueTyped(n, q)
  BY <1>2, QueueType
<1> QED  BY <1>3, <1>5, <1>6, <1>7 DEF V, recps

\* Queues stay bounded and free of duplicate ids, entries are not retransmitted
\* too often, and nothing is pooled or reported but what IP handed over, as
\* long as coded frames hold what Recv asserts of them.
THEOREM TypeCorrect == Spec /\ []DecodedIsNative => [](Alive => TypeOK)
<1>1. DecodedIsNative => Decoding
  BY DEF Decoding
<1>2. Spec => []Outside
  BY InitOutside, NextOutside, PTL DEF Spec
<1>3. Inv /\ Truth /\ Outside => (Alive => TypeOK)
  BY TypesOk
<1> QED  BY <1>1, <1>2, <1>3, Invariance, TruthHolds, PTL

-----------------------------------------------------------------------------
(* Refinement *)

\* What is on its way, with the frame of Coding by its name.
LEMMA OnAirIs == \A n : OnAir(n) = {Seen(n, f) : f \in DataFramesOf(n)}
BY DEF OnAir, Seen

\* The natives of a frame, for nodes that are asked to pass them on.
LEMMA HopsAre ==
    ASSUME NEW m, NEW f
    PROVE  /\ Seen(m, f).src = m /\ Seen(m, f).ids = Hops(f) /\ Seen(m, f).recps = Reports(f)
           /\ Abstract!Natives(Seen(m, f)) = IF IsBroadcast(f) THEN {} ELSE Natives(f)
<1>1. Seen(m, f).src = m /\ Seen(m, f).ids = Hops(f) /\ Seen(m, f).recps = Reports(f)
  BY DEF Seen
<1>2. CASE IsBroadcast(f)
  <2>1. Hops(f) = {}
    BY <1>2 DEF Hops
  <2> QED  BY <1>1, <1>2, <2>1 DEF Abstract!Natives
<1>3. CASE ~ IsBroadcast(f)
  <2>1. Hops(f) = {[to |-> Owner[id.mac], pid |-> id.pid] : id \in f.ids}
    BY <1>3 DEF Hops
  <2> DEFINE hop(id) == [to |-> Owner[id.mac], pid |-> id.pid]
  <2>2. {x.pid : x \in Hops(f)} = {id.pid : id \in f.ids}
    <3>1. \A id : hop(id).pid = id.pid
      OBVIOUS
    <3>2. Hops(f) = {hop(id) : id \in f.ids}
      BY <2>1
    <3> HIDE DEF hop
    <3> QED  BY <3>1, <3>2
  <2> QED  BY <1>1, <1>3, <2>2 DEF Abstract!Natives, Natives
<1> QED  BY <1>1, <1>2, <1>3

\* A frame that may be sent is one of Coding, and legal.
LEMMA SeenLegal ==
    ASSUME Truth, Alive, NEW m \in Node, NEW f \in DataSendable(m, state[m].pool, state[m].info)
    PROVE  /\ Seen(m, f) \in Abstract!Frame
           /\ Abstract!LegalFor(Seen(m, f), Pools, Beliefs)
<1> DEFINE K == state[m].pool
           J == state[m].info
           a == Seen(m, f)
<1>1. /\ a.src = m /\ a.ids = Hops(f) /\ a.recps = Reports(f)
      /\ Abstract!Natives(a) = IF IsBroadcast(f) THEN {} ELSE Natives(f)
  BY HopsAre
<1>2. /\ Reports(f) \subseteq K /\ Natives(f) \subseteq K \cap Packet /\ K \subseteq Packet
      /\ Pools[m] = K
  BY FrameHas DEF Truth, Pools
<1>3. Beliefs[m] = {<<known[1], Owner[known[2]]>> : known \in J}
  BY DEF Beliefs
<1>4. ASSUME NEW x \in Hops(f) PROVE x \in [to : Node, pid : Packet]
  <2>1. ~ IsBroadcast(f) /\ x \in {[to |-> Owner[id.mac], pid |-> id.pid] : id \in f.ids}
    BY <1>4 DEF Hops
  <2>2. PICK id \in f.ids : x = [to |-> Owner[id.mac], pid |-> id.pid]
    BY <2>1
  <2>3. Owner[id.mac] \in Node
    BY <2>1, NextHopIs
  <2>4. id.pid \in Packet
    BY <1>2 DEF Natives
  <2> QED  BY <2>2, <2>3, <2>4
<1>5. a \in Abstract!Frame
  BY <1>2, <1>4 DEF Abstract!Frame, Seen
<1>6. ASSUME NEW x \in Hops(f), NEW y \in Hops(f), x # y PROVE <<x.pid, y.to>> \in Beliefs[m]
  <2>1. Hops(f) = {[to |-> Owner[id.mac], pid |-> id.pid] : id \in f.ids}
    BY <1>6 DEF Hops
  <2>2. PICK i \in f.ids : x = [to |-> Owner[i.mac], pid |-> i.pid]
    BY <1>6, <2>1
  <2>3. PICK j \in f.ids : y = [to |-> Owner[j.mac], pid |-> j.pid]
    BY <1>6, <2>1
  <2>4. i # j
    BY <1>6, <2>2, <2>3
  <2>5. Believes(J, i.pid, Owner[j.mac]) /\ ~ IsBroadcast(f)
    BY <2>4, CodedIs
  <2>6. Owner[j.mac] \in Node
    BY <2>5, NextHopIs
  <2>7. PICK mac \in Macs(Owner[j.mac]) : <<i.pid, mac>> \in J
    BY <2>5 DEF Believes
  <2>8. Owner[mac] = Owner[j.mac]
    BY <2>6, OwnerOf
  <2>9. <<i.pid, Owner[mac]>> \in Beliefs[m]
    BY <1>3, <2>7
  <2> QED  BY <2>2, <2>3, <2>8, <2>9
<1> HIDE DEF a, K, J
<1>7. Abstract!LegalFor(a, Pools, Beliefs)
  <2>1. Abstract!Natives(a) \subseteq K
    BY <1>1, <1>2
  <2> QED  BY <1>1, <1>2, <1>6, <2>1 DEF Abstract!LegalFor
<1> QED  BY <1>5, <1>7 DEF a

\* Sound nodes with true beliefs have sent legal frames only.
LEMMA AirIs ==
    ASSUME Inv, Truth, Alive PROVE AirLegal
<1> SUFFICES ASSUME NEW a \in Air
             PROVE  a \in Abstract!Frame /\ Abstract!LegalFor(a, Pools, Beliefs)
  BY DEF AirLegal
<1>1. PICK m \in Node : a \in OnAir(m)
  BY DEF Air
<1>2. PICK f \in DataFramesOf(m) : a = Seen(m, f)
  BY <1>1, OnAirIs
<1>3. f \in DataSendable(m, state[m].pool, state[m].info)
  BY DataFrameIs
<1> QED  BY <1>2, <1>3, SeenLegal

\* A step of a node as a step of Coding: it may gain packets and beliefs, and
\* its devices may get frames.
LEMMA SteppedMoves ==
    ASSUME Inv, Alive, Alive', NEW n \in Node, NEW got, NEW news, Stepped(n, got, news)
    PROVE  /\ Pools' = [Pools EXCEPT ![n] = Pools[n] \cup got]
           /\ Beliefs' = [Beliefs EXCEPT ![n] = Beliefs[n] \cup Pairs(news)]
           /\ \A m \in Node : OnAir(m) \subseteq OnAir(m)'
           /\ \A m \in Node \ {n} : OnAir(m)' = OnAir(m)
<1>1. /\ \A m \in Node \ {n} : state'[m] = state[m]
      /\ Moves(n, state[n], state'[n], got, news)
  BY SteppedInv
<1>2. /\ state'[n].pool = state[n].pool \cup got /\ state'[n].info = state[n].info \cup news
      /\ \A i \in DOMAIN Devices(n) : ToSet(state[n].mac[i]) \subseteq ToSet(state'[n].mac[i])
  BY <1>1 DEF Moves
<1>3. Pools' = [Pools EXCEPT ![n] = Pools[n] \cup got]
  BY <1>1, <1>2 DEF Pools
<1>4. Beliefs' = [Beliefs EXCEPT ![n] = Beliefs[n] \cup Pairs(news)]
  <2>1. Beliefs' = [m \in Node |-> Pairs(state'[m].info)] /\ Beliefs = [m \in Node |-> Pairs(state[m].info)]
    BY DEF Beliefs, Pairs
  <2>2. Pairs(state'[n].info) = Pairs(state[n].info) \cup Pairs(news)
    BY <1>2 DEF Pairs
  <2> QED  BY <1>1, <2>1, <2>2
<1>5. \A m \in Node \ {n} : DataFramesOf(m)' = DataFramesOf(m)
  BY <1>1 DEF DataFramesOf, FramesOf
<1>6. DataFramesOf(n) \subseteq DataFramesOf(n)'
  BY <1>2 DEF DataFramesOf, FramesOf
<1>7. \A m \in Node \ {n} : OnAir(m)' = OnAir(m)
  BY <1>5 DEF OnAir
<1>8. OnAir(n) \subseteq OnAir(n)'
  BY <1>6 DEF OnAir
<1> QED  BY <1>3, <1>4, <1>7, <1>8

\* A step after which only node n may have sent is one of its Sends.
LEMMA SendsIs ==
    ASSUME NEW n \in Node, AirLegal',
           \A m \in Node : OnAir(m) \subseteq OnAir(m)',
           \A m \in Node \ {n} : OnAir(m)' = OnAir(m)
    PROVE  Abstract!Sends(n)
<1>1. Air' \subseteq Abstract!Frame
  BY DEF AirLegal
<1>2. Air \subseteq Air'
  BY DEF Air
<1>3. ASSUME NEW a \in Air' \ Air PROVE a.src = n /\ Abstract!LegalFor(a, Pools', Beliefs')
  <2>1. PICK m \in Node : a \in OnAir(m)'
    BY DEF Air
  <2>2. m = n
    BY <2>1 DEF Air
  <2>3. a.src = n
    BY <2>1, <2>2 DEF OnAir
  <2> QED  BY <2>3 DEF AirLegal
<1> QED  BY <1>1, <1>2, <1>3 DEF Abstract!Sends

\* What node n keeps of a frame it can take out of it, and it notes for itself
\* who has what.
LEMMA HearsReceives ==
    ASSUME Inv, Truth, Alive, DecodedIsNative, NEW n \in Node, NEW got, NEW news, Hears(n, got, news),
           Pools' = [Pools EXCEPT ![n] = Pools[n] \cup got],
           Beliefs' = [Beliefs EXCEPT ![n] = Beliefs[n] \cup Pairs(news)]
    PROVE  UNCHANGED <<Pools, Beliefs>> \/ \E a \in Air : Abstract!Receive(n, a)
<1>1. PICK m \in Node \ {n} : \E f \in DataFramesOf(m) : Learns(n, m, state[n], f, got, news)
  BY DEF Hears
<1>2. PICK f \in DataFramesOf(m) : Learns(n, m, state[n], f, got, news)
  BY <1>1
<1>3. CASE got = {} /\ news = {}
  <2>1. Pairs(news) = {}
    BY <1>3 DEF Pairs
  <2>2. Pools[n] \cup got = Pools[n] /\ Beliefs[n] \cup Pairs(news) = Beliefs[n]
    BY <1>3, <2>1
  <2>3. Pools' = Pools /\ Beliefs' = Beliefs
    BY <2>2 DEF Pools, Beliefs
  <2> QED  BY <2>3
<1>4. CASE /\ got = Got(n, state[n], f)
           /\ \E mac \in Macs(m) : news = (Reports(f) \cup got) \X {mac}
  <2> DEFINE a == Seen(m, f)
  <2>1. a \in Air
    <3>1. a \in OnAir(m)
      BY <1>2, OnAirIs
    <3> HIDE DEF a
    <3> QED  BY <3>1 DEF Air
  <2>2. f \in DataSendable(m, state[m].pool, state[m].info) /\ Decodes(f)
    BY <1>2, DataFrameIs
  <2>3. Keeps(state[n], f, got)
    BY <1>4, <2>2, GotIs
  <2>4. /\ a.src = m /\ a.recps = Reports(f)
        /\ Abstract!Natives(a) = IF IsBroadcast(f) THEN {} ELSE Natives(f)
    BY HopsAre
  <2>5. PICK mac \in Macs(m) : news = (Reports(f) \cup got) \X {mac}
    BY <1>4
  <2>6. Pairs(news) = (a.recps \cup got) \X {a.src}
    <3>1. Owner[mac] = m
      BY <1>1, OwnerOf
    <3> DEFINE R == Reports(f) \cup got
    <3>2. news = R \X {mac}
      BY <2>5
    <3> HIDE DEF R
    <3>3. ASSUME NEW x \in Pairs(news) PROVE x \in R \X {m}
      <4>1. PICK known \in news : x = <<known[1], Owner[known[2]]>>
        BY DEF Pairs
      <4>2. known[1] \in R /\ known[2] = mac
        BY <3>2
      <4> QED  BY <3>1, <4>1, <4>2
    <3>4. ASSUME NEW x \in R \X {m} PROVE x \in Pairs(news)
      <4>1. PICK p \in R : x = <<p, m>>
        OBVIOUS
      <4>2. <<p, mac>> \in news
        BY <3>2
      <4>3. x = <<<<p, mac>>[1], Owner[<<p, mac>>[2]]>>
        BY <3>1, <4>1
      <4> QED  BY <4>2, <4>3 DEF Pairs
    <3>5. Pairs(news) = R \X {m}
      BY <3>3, <3>4
    <3> QED  BY <2>4, <3>5 DEF R
  <2> HIDE DEF a
  <2>7. got \in {{}} \cup {{p} : p \in Abstract!Decodable(n, a)}
    <3>1. CASE got = {}
      BY <3>1
    <3>2. CASE /\ ~ IsBroadcast(f)
               /\ \E p \in Natives(f) : got = {p} /\ Natives(f) \ {p} \subseteq state[n].pool
      <4>1. PICK p \in Natives(f) : got = {p} /\ Natives(f) \ {p} \subseteq state[n].pool
        BY <3>2
      <4>2. Abstract!Natives(a) = Natives(f) /\ Pools[n] = state[n].pool
        BY <2>4, <3>2 DEF Pools
      <4>3. p \in Abstract!Decodable(n, a)
        BY <4>1, <4>2 DEF Abstract!Decodable
      <4> QED  BY <4>1, <4>3
    <3> QED  BY <2>3, <3>1, <3>2 DEF Keeps
  <2>8. Beliefs' = [Beliefs EXCEPT ![n] = Beliefs[n] \cup ((a.recps \cup got) \X {a.src})]
    BY <2>6
  <2>9. n # a.src
    BY <1>1, <2>4
  <2>10. Abstract!Receive(n, a)
    BY <2>7, <2>8, <2>9 DEF Abstract!Receive
  <2> QED  BY <2>1, <2>10
<1> QED  BY <1>2, <1>3, <1>4 DEF Learns

\* A step of a node is a step of Coding.
LEMMA SteppedIs ==
    ASSUME Inv, Truth, Alive, Alive', AirLegal', DecodedIsNative, NEW n \in Node, NEW got, NEW news,
           Stepped(n, got, news),
           \/ got = {} /\ news = {}
           \/ \E p \in Packet : got = {p} /\ news = {}
           \/ Hears(n, got, news)
    PROVE  Abstract!Next
<1>1. /\ Pools' = [Pools EXCEPT ![n] = Pools[n] \cup got]
      /\ Beliefs' = [Beliefs EXCEPT ![n] = Beliefs[n] \cup Pairs(news)]
      /\ \A m \in Node : OnAir(m) \subseteq OnAir(m)'
      /\ \A m \in Node \ {n} : OnAir(m)' = OnAir(m)
  BY SteppedMoves
<1>2. Abstract!Sends(n)
  BY <1>1, SendsIs
<1>3. news = {} => Beliefs' = Beliefs
  <2> HAVE news = {}
  <2>1. Beliefs[n] \cup Pairs(news) = Beliefs[n]
    BY DEF Pairs
  <2> QED  BY <1>1, <2>1 DEF Beliefs
<1>4. CASE got = {} /\ news = {}
  <2>1. Pools[n] \cup got = Pools[n]
    BY <1>4
  <2>2. Pools' = Pools /\ Beliefs' = Beliefs
    BY <1>1, <1>3, <1>4, <2>1 DEF Pools
  <2> QED  BY <1>2, <2>2 DEF Abstract!Event, Abstract!Next
<1>5. CASE \E p \in Packet : got = {p} /\ news = {}
  <2>1. PICK p \in Packet : got = {p} /\ news = {}
    BY <1>5
  <2>2. Abstract!Originate(n, p)
    BY <1>1, <1>3, <2>1 DEF Abstract!Originate
  <2> QED  BY <1>2, <2>2 DEF Abstract!Event, Abstract!Next
<1>6. CASE Hears(n, got, news)
  <2>1. UNCHANGED <<Pools, Beliefs>> \/ \E a \in Air : Abstract!Receive(n, a)
    BY <1>1, <1>6, HearsReceives
  <2> QED  BY <1>2, <2>1 DEF Abstract!Event, Abstract!Next
<1> QED  BY <1>4, <1>5, <1>6

\* Every step is a step of Coding, or none.
LEMMA NextCoding ==
    Inv /\ Truth /\ DecodedIsNative /\ Alive /\ Alive' /\ AirLegal' /\ [Next]_vars
      => [Abstract!Next]_(Abstract!vars)
<1> SUFFICES ASSUME Inv, Truth, DecodedIsNative, Alive, Alive', AirLegal', [Next]_vars
             PROVE  [Abstract!Next]_(Abstract!vars)
  OBVIOUS
<1>1. CASE UNCHANGED vars
  <2>1. UNCHANGED <<Pools, Beliefs, Air>>
    BY <1>1 DEF vars, Pools, Beliefs, Air, OnAir, DataFramesOf, FramesOf
  <2> QED  BY <2>1 DEF Abstract!vars
<1>2. CASE Next
  <2>1. Sent \/ Ticked \/ Offered \/ Delivered
    BY <1>2, NextIs
  <2>2. CASE Sent
    <3>1. \A m \in Node : /\ state'[m].pool = state[m].pool /\ state'[m].info = state[m].info
                          /\ FramesOf(m)' \subseteq FramesOf(m)
      BY <2>2, SentInv DEF Sent
    <3>2. Pools' = Pools /\ Beliefs' = Beliefs
      BY <3>1 DEF Pools, Beliefs
    <3>3. \A m \in Node : DataFramesOf(m)' \subseteq DataFramesOf(m)
      BY <3>1 DEF DataFramesOf
    <3>4. Air' \subseteq Air
      BY <3>3 DEF Air, OnAir
    <3> QED  BY <3>2, <3>4 DEF Abstract!Expire, Abstract!Next
  <2>3. CASE Ticked
    BY <2>3, SteppedIs DEF Ticked
  <2>4. CASE Offered
    BY <2>4, SteppedIs DEF Offered
  <2>5. CASE Delivered
    BY <2>5, SteppedIs DEF Delivered
  <2> QED  BY <2>1, <2>2, <2>3, <2>4, <2>5
<1> QED  BY <1>1, <1>2

\* At the start nobody has anything.
LEMMA InitCoding == Init => Abstract!Init
<1> SUFFICES ASSUME Init PROVE Abstract!Init
  OBVIOUS
<1>1. ASSUME NEW n \in Node
      PROVE  /\ state[n].pool = {} /\ state[n].info = {}
             /\ \A i \in DOMAIN Devices(n) : state[n].mac[i] = <<>>
  <2>1. state[n] = EmptyNode(n)
    BY DEF Init
  <2> QED  BY <2>1, EmptyOk
<1>2. Pools = [n \in Node |-> {}] /\ Beliefs = [n \in Node |-> {}]
  BY <1>1 DEF Pools, Beliefs
<1>3. \A n \in Node : DataFramesOf(n) = {}
  BY <1>1 DEF DataFramesOf, FramesOf, ToSet
<1>4. Air = {}
  BY <1>3 DEF Air, OnAir
<1> QED  BY <1>2, <1>4 DEF Abstract!Init

\* As long as no assertion fails and coded frames hold what Recv asserts of
\* them, the protocol does what Coding promises.
THEOREM ProtocolImplementsCoding ==
    Spec /\ []Alive /\ []DecodedIsNative => ImplementsCoding
<1>1. DecodedIsNative => Decoding
  BY DEF Decoding
<1>2. Inv /\ Truth /\ Alive => AirLegal
  BY AirIs
<1>3. Spec /\ []Alive /\ []DecodedIsNative => []AirLegal
  BY <1>1, <1>2, Invariance, TruthHolds, PTL
<1>4. Init => Abstract!Init
  BY InitCoding
<1>5. Inv /\ Truth /\ DecodedIsNative /\ Alive /\ Alive' /\ AirLegal' /\ [Next]_vars
        => [Abstract!Next]_(Abstract!vars)
  BY NextCoding
<1> QED  BY <1>1, <1>3, <1>4, <1>5, Invariance, TruthHolds, PTL
         DEF Spec, ImplementsCoding, Abstract!Spec

-----------------------------------------------------------------------------
(* What a node acks, it handed to IP. *)

\* Acks that were there before are kept by what sends none.
LEMMA StillKept ==
    ASSUME NEW n, NEW s, NEW t, Still(s, t)
    PROVE  AckKept(n, s, t)
BY DEF Still, AckKept, AcksIn

\* Handlers follow one another.
LEMMA KeptOn ==
    ASSUME NEW n, NEW s, NEW t, NEW u, AckKept(n, s, t), AckKept(n, t, u)
    PROVE  AckKept(n, s, u)
BY DEF AckKept

\* A native that joins the frame is not sent yet.
LEMMA TakeNativeStill ==
    ASSUME NEW n, NEW s, NEW acc, AccStill(s, acc), NEW i, NEW usable
    PROVE  AccStill(s, TakeNative(n, acc, i, usable))
<1> DEFINE nbr == acc.s.nbrs[i]
           e == QueueEntry(acc.s, Head(nbr.vq))
           last == CHOOSE c \in usable : \A d \in usable : d <= c
           r == TakeNative(n, acc, i, usable)
           stop == Abort(acc.s, "IdNexthop not added")
           left == LeaveQueues(acc.s, i, e)
<1>1. \/ r = [acc EXCEPT !.s = stop]
      \/ r = [acc EXCEPT !.s = left, !.nexthops = @ \cup {GetMac(nbr)}, !.natives = @ \cup {e.pid},
                !.ids = AddIdNexthop(@, e.dest, e.pid), !.iface = Index(n, last),
                !.pkt = XOR(acc.first.pid, e.pid), !.encoded = TRUE]
  BY Zenon DEF TakeNative
<1>2. Still(acc.s, stop)
  BY Zenon, AbortStill
<1>3. Still(acc.s, left)
  BY DEF LeaveQueues, Still
<1> HIDE DEF stop, left, r, e, last
<1>4. AccShape(r) /\ (r.s = stop \/ r.s = left)
  <2>1. AccShape(acc)
    BY DEF AccStill
  <2>2. CASE r = [acc EXCEPT !.s = stop]
    BY <2>1, <2>2 DEF AccShape
  <2>3. CASE r = [acc EXCEPT !.s = left, !.nexthops = @ \cup {GetMac(nbr)}, !.natives = @ \cup {e.pid},
                !.ids = AddIdNexthop(@, e.dest, e.pid), !.iface = Index(n, last),
                !.pkt = XOR(acc.first.pid, e.pid), !.encoded = TRUE]
    BY <2>1, <2>3 DEF AccShape
  <2> QED  BY <1>1, <2>2, <2>3
<1> QED  BY <1>2, <1>3, <1>4, StillOn DEF AccStill, r

\* Nor is it in any turn of the loop.
LEMMA EncodeNeighborStill ==
    ASSUME NEW n, NEW active, NEW s, NEW acc, AccStill(s, acc), NEW i
    PROVE  AccStill(s, EncodeNeighbor(n, active, acc, i))
<1> DEFINE nbr == acc.s.nbrs[i]
           common == acc.channels \cap GetChannels(nbr)
           usable == {c \in IF common = {} THEN acc.channels ELSE common : Index(n, c) \in active}
           r == EncodeNeighbor(n, active, acc, i)
           u == [acc EXCEPT !.channels = common]
           stop == Abort(acc.s, "I think we should be able to index")
           f == [acc EXCEPT !.s = stop]
<1>1. r = acc \/ r = f \/ r = u \/ r = TakeNative(n, u, i, usable)
  BY Zenon DEF EncodeNeighbor
<1>2. Still(acc.s, stop)
  BY Zenon, AbortStill
<1> HIDE DEF r, common, usable, stop
<1>3. AccStill(s, u)
  BY DEF AccStill, AccShape
<1>4. AccStill(s, f)
  <2>1. AccShape(f) /\ f.s = stop
    BY DEF AccStill, AccShape
  <2> QED  BY <1>2, <2>1, StillOn DEF AccStill
<1>5. AccStill(s, TakeNative(n, u, i, usable))
  BY <1>3, TakeNativeStill
<1> QED  BY <1>1, <1>3, <1>4, <1>5 DEF r

\* Nor is it in the loop.
LEMMA EncodeLoopStill ==
    ASSUME NEW n, NEW active, NEW s, NEW start, AccStill(s, start), NEW N \in Nat
    PROVE  AccStill(s, Coded(n, active, start, N))
<1> DEFINE out == Coded(n, active, start, N)
           seq == [i \in 1..N |-> i]
<1>1. PICK v : IsRun(v, "Encode", <<n, active>>, start, seq, N, out)
  BY EncodeLoop
<1> HIDE DEF out
<1>2. /\ v[0] = start
      /\ \A k \in 0..N - 1 : v[k + 1] = EncodeNeighbor(n, active, v[k], k + 1)
      /\ out = v[N]
  <2> DEFINE c == <<n, active>>
  <2>1. \A acc, e : Turn("Encode", c, acc, e) = EncodeNeighbor(n, active, acc, e)
    BY DEF Turn
  <2>2. \A k \in 0..N - 1 : seq[k + 1] = k + 1
    OBVIOUS
  <2> HIDE DEF c, seq
  <2> QED  BY <1>1, <2>1, <2>2 DEF IsRun, c
<1> DEFINE T == {k \in 0..N : AccStill(s, v[k])}
<1>3. 0 \in T
  BY <1>2
<1>4. ASSUME NEW k \in 0..N - 1, k \in T PROVE k + 1 \in T
  BY <1>2, <1>4, EncodeNeighborStill
<1> HIDE DEF T
<1>5. N \in T
  <2>1. \A k \in 0..N : k \in T
    BY <1>3, <1>4, Upto
  <2> QED  BY <2>1
<1> QED  BY <1>2, <1>5 DEF T, out

\* Encode sends and acks nothing.
LEMMA EncodeStill ==
    ASSUME NEW n, NEW active, NEW s, s.nbrs \in Seq(Neighbor), NEW entry
    PROVE  Still(s, Encode(n, s, active, entry).s)
<1> DEFINE k == SearchMac(s.nbrs, entry.dest)
           nbr == s.nbrs[k]
           N == Len(s.nbrs)
           start == [s |-> s, first |-> entry, nexthops |-> {GetMac(nbr)},
                  natives |-> {entry.pid}, channels |-> GetChannels(nbr),
                  iface |-> entry.iface, pkt |-> entry.pid, encoded |-> FALSE,
                  ids |-> AddIdNexthop({}, entry.dest, entry.pid)]
           done == Coded(n, active, start, N)
           r == Encode(n, s, active, entry)
<1>1. N \in Nat /\ DOMAIN s.nbrs = 1..N /\ [i \in DOMAIN s.nbrs |-> i] = [i \in 1..N |-> i]
  OBVIOUS
<1>2. r = done \/ r = [done EXCEPT !.s.rtq = EnqueueBack(@, entry)]
  BY Zenon, <1>1 DEF Encode, Coded
<1>3. AccStill(s, start)
  BY DEF AccStill, AccShape, Still
<1> HIDE DEF start
<1>4. AccStill(s, done)
  BY <1>1, <1>3, EncodeLoopStill
<1> HIDE DEF done, r
<1>5. CASE r = [done EXCEPT !.s.rtq = EnqueueBack(@, entry)]
  <2> DEFINE d == done.s
             t == [d EXCEPT !.rtq = EnqueueBack(d.rtq, entry)]
  <2>1. r = [done EXCEPT !.s = t]
    BY <1>4, <1>5 DEF AccStill, AccShape
  <2>2. r.s = t
    BY <1>4, <2>1 DEF AccStill, AccShape
  <2>3. Still(d, t)
    BY DEF Still
  <2> QED  BY <1>4, <2>2, <2>3, StillOn DEF AccStill, r
<1> QED  BY <1>2, <1>4, <1>5 DEF AccStill, r

\* A frame that joins a device keeps the acks within U when its own are.
LEMMA ForwardKept ==
    ASSUME NEW V, NEW n, NEW s, Sound(n, V, s), NEW i \in DOMAIN Devices(n),
           NEW f \in Sendable(n, V, s.info), NEW U, AcksIn(n, s, U), FrameIn(f, U),
           NEW t, t = ForwardDown(s, i, f)
    PROVE  AcksIn(n, t, U) /\ t.up = s.up
<1> DEFINE S == Sendable(n, V, s.info)
           line == s.mac[i]
<1>1. t = [s EXCEPT !.mac = [s.mac EXCEPT ![i] = Append(line, f)]]
  BY DEF ForwardDown, Sound, Shape
<1>2. t.mac = [s.mac EXCEPT ![i] = Append(line, f)] /\ t.acks = s.acks /\ t.up = s.up
  BY <1>1 DEF Sound, Shape
<1>3. s.mac \in [DOMAIN Devices(n) -> Seq(S)] /\ line \in Seq(S)
  BY DEF Sound
<1> HIDE DEF S, line
<1>4. ToSet(Append(line, f)) = {f} \cup ToSet(line)
  BY <1>3, AppendIs DEF S
<1>5. \A j \in DOMAIN Devices(n) : t.mac[j] = IF j = i THEN Append(line, f) ELSE s.mac[j]
  BY <1>2, <1>3
<1>6. ASSUME NEW j \in DOMAIN Devices(n), NEW g \in ToSet(t.mac[j])
      PROVE  FrameIn(g, U)
  <2>1. \A h \in ToSet(s.mac[j]) : FrameIn(h, U)
    BY DEF AcksIn
  <2>2. CASE j # i
    <3>1. t.mac[j] = s.mac[j]
      BY <1>5, <2>2
    <3> QED  BY <2>1, <3>1
  <2>3. CASE j = i
    <3>1. t.mac[j] = Append(line, f)
      BY <1>5, <2>3
    <3>2. g = f \/ g \in ToSet(s.mac[j])
      BY <1>4, <2>3, <3>1 DEF line
    <3> QED  BY <2>1, <2>3, <3>2
  <2> QED  BY <2>2, <2>3
<1> QED  BY <1>2, <1>6 DEF AcksIn

\* The acks a frame carries and the ones that stay are those there were.
LEMMA AcksOf ==
    ASSUME NEW A, NEW list \in Seq(A), NEW k \in Nat, k <= Len(list)
    PROVE  /\ \A i \in Len(list) - k + 1 .. Len(list) : i \in DOMAIN list
           /\ \A i \in DOMAIN SubSeq(list, 1, Len(list) - k) :
                 i \in DOMAIN list /\ SubSeq(list, 1, Len(list) - k)[i] = list[i]
<1> DEFINE N == Len(list)
           M == N - k
           r == SubSeq(list, 1, M)
<1>1. N \in Nat /\ DOMAIN list = 1..N /\ M \in Nat /\ M <= N
  OBVIOUS
<1>2. \A i \in M + 1 .. N : i \in DOMAIN list
  BY <1>1
<1>3. \A i \in 1..M : list[i] \in A
  BY <1>1
<1> HIDE DEF N, M
<1>4. r \in Seq(A) /\ Len(r) = M /\ \A i \in 1..M : r[i] = list[i]
  <2>1. 1 \in Int /\ M \in Int /\ \A i \in 1..M : list[i] \in A
    BY <1>1, <1>3
  <2>2. /\ r \in Seq(A) /\ Len(r) = IF 1 <= M THEN M - 1 + 1 ELSE 0
        /\ \A i \in 1 .. M - 1 + 1 : r[i] = list[1 + i - 1]
    BY <2>1, SubSeqProperties
  <2>3. M - 1 + 1 = M /\ (~ 1 <= M => M = 0) /\ \A i \in 1..M : 1 + i - 1 = i
    BY <1>1
  <2> QED  BY <2>2, <2>3
<1> HIDE DEF r
<1>5. DOMAIN r = 1..M /\ 1..M \subseteq DOMAIN list
  BY <1>1, <1>4
<1> QED  BY <1>2, <1>4, <1>5 DEF N, M, r

\* Transmit acks what waited to be acked.
LEMMA TransmitKept ==
    ASSUME NEW V, NEW n \in Node, NEW s, NEW out, OutOk(n, V, s, out),
           NEW addr \in Int, AddrOk(n, out.ids, addr)
    PROVE  AckKept(n, out.s, Transmit(n, out.s, addr, out))
<1> DEFINE r == out.s
           f == DataFrame(n, r, addr, out)
           a == Attached(r.acks, r)
           rep == SubSeq(r.recps, Attached(r.recps, r) + 1, Len(r.recps))
           ack == SubSeq(r.acks, 1, Len(r.acks) - a)
           B == [ip : Nat, pid : V]
<1>1. Sound(n, V, r) /\ out.iface \in DOMAIN Devices(n) /\ s.info = r.info
  BY DEF OutOk
<1>2. /\ r.nbrs \in Seq(Neighbor) /\ Shape(r)
      /\ r.acks \in Seq(B) /\ r.mac \in [DOMAIN Devices(n) -> Seq(Sendable(n, V, r.info))]
  BY <1>1 DEF Sound, Table, Rows
<1>3. f \in Sendable(n, V, r.info)
  BY <1>1, FrameSendable
<1>4. f.type = "data" /\ f.acks = {r.acks[i] : i \in Len(r.acks) - a + 1 .. Len(r.acks)}
  BY DEF DataFrame
<1> HIDE DEF B
<1>5. a \in Nat /\ a <= Len(r.acks)
  BY <1>2, AttachedIs
<1> HIDE DEF a
<1>6. /\ \A i \in Len(r.acks) - a + 1 .. Len(r.acks) : i \in DOMAIN r.acks
      /\ \A i \in DOMAIN ack : i \in DOMAIN r.acks /\ ack[i] = r.acks[i]
  BY <1>2, <1>5, AcksOf
<1>7. ASSUME NEW U, AcksIn(n, r, U) PROVE FrameIn(f, U)
  <2>1. f.acks \subseteq U
    BY <1>4, <1>6, <1>7 DEF AcksIn
  <2> QED  BY <2>1 DEF FrameIn
<1> DEFINE u == Transmit(n, r, addr, out)
           t == [r EXCEPT !.recps = rep, !.acks = ack]
           d == ForwardDown(t, out.iface, f)
<1>8. u = DoSendEnd(d)
  BY Zenon DEF Transmit, a
<1> HIDE DEF f, ack, rep, u
<1>9. t.acks = ack /\ t.mac = r.mac /\ t.up = r.up /\ d.up = r.up /\ d.acks = ack
      /\ d.mac = [r.mac EXCEPT ![out.iface] = Append(r.mac[out.iface], f)]
  BY <1>2 DEF Shape, ForwardDown
<1>10. u.acks = d.acks /\ u.mac = d.mac /\ u.up = d.up
  BY <1>8 DEF DoSendEnd
<1> DEFINE e == ForwardDown(r, out.iface, f)
<1>11. ASSUME NEW U, AcksIn(n, r, U) PROVE AcksIn(n, e, U)
  <2>1. e = ForwardDown(r, out.iface, f) /\ FrameIn(f, U)
    BY <1>7, <1>11
  <2> HIDE DEF e, r
  <2> QED  BY <1>1, <1>3, <1>11, <2>1, ForwardKept
<1>12. e.mac = [r.mac EXCEPT ![out.iface] = Append(r.mac[out.iface], f)]
  BY <1>2 DEF Shape, ForwardDown
<1> HIDE DEF t, d, e
<1>13. u.acks = ack /\ u.up = r.up /\ u.mac = e.mac
  BY <1>9, <1>10, <1>12
<1>14. ASSUME NEW U, AcksIn(n, r, U) PROVE AcksIn(n, u, U)
  <2>1. \A i \in DOMAIN ack : ack[i] \in U
    BY <1>6, <1>14 DEF AcksIn
  <2>2. AcksIn(n, e, U)
    BY <1>11, <1>14
  <2> QED  BY <1>13, <2>1, <2>2 DEF AcksIn
<1> HIDE DEF r
<1> QED  BY <1>13, <1>14 DEF AckKept, u, r

\* PutBack acks nothing.
LEMMA PutBackStill ==
    ASSUME NEW s, NEW e
    PROVE  Still(s, PutBack(s, e))
<1> DEFINE back == [s EXCEPT !.queue = EnqueueFront(@, e)]
           t == IF e.dest = Broadcast THEN back
                ELSE WithNeighbors(back, AddVirtualQueueEntryFront(s.nbrs,
                         SearchMac(s.nbrs, e.dest), e.pid))
<1>1. PutBack(s, e) = DoSendEnd(t)
  BY Zenon DEF PutBack
<1>2. Still(s, back)
  BY DEF Still
<1> HIDE DEF back
<1>3. Still(back, t)
  <2>1. Still(back, back)
    BY DEF Still
  <2> QED  BY <2>1, NeighborsStill
<1> HIDE DEF t
<1>4. Still(t, DoSendEnd(t))
  BY TimerStill
<1> QED  BY <1>1, <1>2, <1>3, <1>4, StillOn

\* SendEntry acks what waited to be acked.
LEMMA SendEntryKept ==
    ASSUME NEW V, NEW n \in Node, NEW active, active \subseteq DOMAIN Devices(n),
           NEW s, Sound(n, V, s), NEW e, Leaves(n, V, s, e),
           e.dest # Broadcast => SearchMac(s.nbrs, e.dest) # 0
    PROVE  AckKept(n, s, SendEntry(n, s, active, e))
<1> DEFINE coded == s.queue # <<>> /\ e.dest # Broadcast
           out == IF coded THEN Encode(n, s, active, e) ELSE PlainSend(s, e)
           r == SendEntry(n, s, active, e)
           addr == RealSendAddr(s, e)
<1>1. \/ r = out.s
      \/ r = PutBack(out.s, e)
      \/ Running(out.s) /\ r = Transmit(n, out.s, addr, out)
  BY Zenon DEF SendEntry
<1>2. e \in Entry /\ e.type = "data" /\ s.nbrs \in Seq(Neighbor) /\ Requested(n, e)
  BY DEF Leaves, EntryOk, Sound, Table, Rows
<1>3. (Running(out.s) => OutOk(n, V, s, out) /\ First(e) \in out.ids) /\ Still(s, out.s)
  <2>1. CASE coded
    <3>1. out = Encode(n, s, active, e)
      BY <2>1
    <3>2. Unicast(e) /\ SearchMac(s.nbrs, e.dest) # 0
      BY <1>2, <2>1 DEF Unicast
    <3> HIDE DEF out
    <3> QED  BY <1>2, <3>1, <3>2, EncodeGood, EncodeStill
  <2>2. CASE ~ coded
    <3>1. out = PlainSend(s, e)
      BY <2>2
    <3>2. out.s = s
      BY <3>1 DEF PlainSend
    <3> QED  BY <3>1, <3>2, PlainGood DEF Still
  <2> QED  BY <2>1, <2>2
<1>4. addr \in Int /\ \A ids : First(e) \in ids => AddrOk(n, ids, addr)
  BY <1>2, AddrIn
<1> HIDE DEF out, r, addr
<1>5. AckKept(n, s, out.s)
  BY <1>3, StillKept
<1>6. AckKept(n, out.s, PutBack(out.s, e))
  BY PutBackStill, StillKept
<1>7. Running(out.s) => AckKept(n, out.s, Transmit(n, out.s, addr, out))
  BY <1>3, <1>4, TransmitKept
<1> QED  BY <1>1, <1>5, <1>6, <1>7, KeptOn DEF r

\* SendUnicast acks what waited to be acked.
LEMMA SendUnicastKept ==
    ASSUME NEW V, NEW n \in Node, NEW active, active \subseteq DOMAIN Devices(n),
           NEW s, Sound(n, V, s), s.queue # <<>>, NEW e, e = Head(s.queue), Unicast(e)
    PROVE  AckKept(n, s, SendUnicast(n, s, active, e))
<1> DEFINE k == SearchMac(s.nbrs, e.dest)
           B == RemoveVirtualQueueEntry(s.nbrs, k, e.pid)
           left == [s EXCEPT !.queue = Tail(s.queue), !.nbrs = B]
           r == SendUnicast(n, s, active, e)
<1>1. \/ \E why : r = Abort(s, why)
      \/ k # 0 /\ Contains(s.nbrs[k].vq, e.pid)
         /\ (r = DoSendEnd(left) \/ r = SendEntry(n, left, active, e))
  BY Zenon DEF SendUnicast
<1>2. Still(s, left)
  BY DEF Still
<1> HIDE DEF r
<1>3. CASE \E why : r = Abort(s, why)
  BY <1>3, AbortStill, StillKept DEF r
<1>4. CASE r = DoSendEnd(left)
  <2>1. Still(left, r)
    BY <1>4, TimerStill
  <2> HIDE DEF left
  <2> QED  BY <1>2, <2>1, StillOn, StillKept DEF r
<1>5. CASE k # 0 /\ Contains(s.nbrs[k].vq, e.pid) /\ r = SendEntry(n, left, active, e)
  <2>1. Sound(n, V, left) /\ Leaves(n, V, left, e) /\ SearchMac(left.nbrs, e.dest) # 0
    <3>1. /\ B = RemoveVirtualQueueEntry(s.nbrs, k, e.pid) /\ k = SearchMac(s.nbrs, e.dest)
          /\ left = Left(s, B)
      BY DEF Left
    <3> HIDE DEF B, left, k
    <3> QED  BY <1>5, <3>1, UnicastLeft
  <2> HIDE DEF left
  <2>2. AckKept(n, left, SendEntry(n, left, active, e))
    BY <2>1, SendEntryKept
  <2> QED  BY <1>2, <1>5, <2>2, StillKept, KeptOn DEF r
<1> QED  BY <1>1, <1>3, <1>4, <1>5

\* Any attempt to send acks what waited to be acked.
LEMMA DoSendKept ==
    ASSUME NEW V, NEW n \in Node, NEW active, active \subseteq DOMAIN Devices(n),
           NEW s, Sound(n, V, s), s.queue # <<>>
    PROVE  AckKept(n, s, DoSend(n, s, active))
<1> DEFINE e == Head(s.queue)
           left == [s EXCEPT !.queue = Tail(s.queue)]
           r == DoSend(n, s, active)
           f == [type |-> "hello", src |-> Devices(n)[e.iface].mac, dst |-> Broadcast,
                 pairs |-> Devices(n)]
<1>1. /\ e.type = "hello" => r = DoSendEnd(s) \/ r = DoSendEnd(ForwardDown(left, e.iface, f))
      /\ e.type = "data" /\ e.dest # Broadcast => r = SendUnicast(n, s, active, e)
      /\ e.type = "data" /\ e.dest = Broadcast => r = SendEntry(n, left, active, e)
  <2>1. "hello" # "data"
    OBVIOUS
  <2> QED  BY Zenon, <2>1 DEF DoSend, SendHelloEntry
<1>2. e \in Entry /\ e.iface \in DOMAIN Devices(n)
  <2>1. QueueOk(n, s.queue, V \cap Packet) /\ s.queue \in Seq(Entry)
    BY DEF Sound, QueueOk
  <2>2. 1 \in DOMAIN s.queue /\ s.queue[1] = e /\ e \in Entry
    BY <2>1, TailIs
  <2> QED  BY <2>1, <2>2 DEF QueueOk, EntryOk
<1>3. left = Left(s, s.nbrs)
  BY DEF Sound, Shape, Left
<1>4. Still(s, left)
  BY DEF Still
<1> HIDE DEF r, left, e, f
<1>5. e = Head(s.queue)
  BY DEF e
<1>6. ~ Unicast(e) => Sound(n, V, left) /\ (e.type = "data" => Leaves(n, V, left, e))
  BY <1>3, <1>5, LeftOther, LeftSound
<1>7. CASE e.type = "hello"
  <2>1. Still(s, DoSendEnd(s))
    BY TimerStill
  <2>2. Sound(n, V, left)
    BY <1>6, <1>7 DEF Unicast
  <2>3. f \in Sendable(n, V, left.info) /\ \A U : FrameIn(f, U)
    <3>1. Devices(n)[e.iface].mac \in Macs(n)
      BY <1>2 DEF Macs
    <3> QED  BY <3>1 DEF f, Sendable, FrameIn
  <2> DEFINE d == ForwardDown(left, e.iface, f)
  <2>4. \A U : AcksIn(n, left, U) => AcksIn(n, d, U) /\ d.up = left.up
    <3>1. d = ForwardDown(left, e.iface, f)
      OBVIOUS
    <3> HIDE DEF d
    <3> QED  BY <1>2, <2>2, <2>3, <3>1, ForwardKept
  <2>5. d.up = left.up
    BY <2>2 DEF ForwardDown, Sound, Shape
  <2> HIDE DEF d
  <2>6. AckKept(n, left, d) /\ Still(d, DoSendEnd(d))
    BY <2>4, <2>5, TimerStill DEF AckKept
  <2>7. AckKept(n, s, DoSendEnd(d)) /\ AckKept(n, s, DoSendEnd(s))
    BY <1>4, <2>1, <2>6, StillKept, KeptOn
  <2> QED  BY <1>1, <1>7, <2>7 DEF d, r
<1>8. CASE e.type = "data" /\ e.dest # Broadcast
  BY <1>1, <1>5, <1>8, SendUnicastKept DEF r, Unicast
<1>9. CASE e.type = "data" /\ e.dest = Broadcast
  <2>1. Sound(n, V, left) /\ Leaves(n, V, left, e)
    BY <1>6, <1>9 DEF Unicast
  <2>2. AckKept(n, left, SendEntry(n, left, active, e))
    BY <1>9, <2>1, SendEntryKept
  <2> QED  BY <1>1, <1>4, <1>9, <2>2, StillKept, KeptOn DEF r
<1> QED  BY <1>2, <1>7, <1>8, <1>9 DEF Entry

\* So does the try timer, after what leaves the node sound while it runs.
LEMMA TrySendKept ==
    ASSUME NEW V, NEW n \in Node, NEW s, Running(s) => Sound(n, V, s)
    PROVE  AckKept(n, s, TrySend(n, s))
<1>1. CASE TrySend(n, s) = s
  BY <1>1 DEF AckKept
<1>2. CASE Running(s) /\ s.queue # <<>> /\ TrySend(n, s) = DoSend(n, s, ActiveDevices(n, s))
  <2>1. ActiveDevices(n, s) \subseteq DOMAIN Devices(n)
    BY DEF ActiveDevices
  <2> QED  BY <1>2, <2>1, DoSendKept
<1> QED  BY Zenon, <1>1, <1>2 DEF TrySend

\* A request sends, and acks with it, but hands nothing up.
LEMMA EnqueueDataKept ==
    ASSUME NEW V, NEW n \in Node, NEW s, Sound(n, V, s), NEW req, Asked(n, req), req.pid \in V
    PROVE  AckKept(n, s, EnqueueData(n, s, req))
<1> DEFINE t == StoreData(n, s, req)
           entry == [type |-> "data", pid |-> req.pid, dest |-> req.dest,
                     iface |-> req.iface, proto |-> req.proto, retry |-> 0]
           stored == [s EXCEPT !.queue = EnqueueBack(@, entry), !.pool = @ \cup {req.pid}]
<1>1. EnqueueData(n, s, req) = TrySend(n, t)
  BY DEF EnqueueData, Sound
<1>2. t = s \/ Fine(n, V, s, t, {req.pid}, {})
  BY StoreDataOk
<1>3. t = s \/ t = stored \/ \E B : t = WithNeighbors(stored, B)
  BY Zenon DEF StoreData
<1>4. Still(s, stored) /\ Still(s, s)
  BY DEF Still
<1> HIDE DEF t, stored
<1>5. AckKept(n, s, t)
  BY <1>3, <1>4, NeighborsStill, StillOn, StillKept
<1>6. Running(t) => Sound(n, V, t)
  BY <1>2 DEF Fine
<1> QED  BY <1>1, <1>5, <1>6, TrySendKept, KeptOn DEF t

\* So does a hello.
LEMMA EnqueueHelloKept ==
    ASSUME NEW V, NEW n \in Node, NEW s, NEW t, Fine(n, V, s, t, {}, {}), NEW i \in DOMAIN Devices(n),
           NEW garbage \in SUBSET STRING
    PROVE  AckKept(n, t, EnqueueHello(n, t, i, garbage))
<1> DEFINE e == [type |-> "hello", pid |-> garbage, dest |-> Broadcast,
                 iface |-> i, proto |-> "other", retry |-> 0]
           q == EnqueueFront(t.queue, e)
           u == [t EXCEPT !.queue = q]
<1>1. EnqueueHello(n, t, i, garbage) = TrySend(n, u)
  BY Zenon DEF EnqueueHello
<1>2. Still(t, u) /\ u.abort = t.abort
  BY DEF Still
<1>3. Running(u) => Sound(n, V, u)
  <2> SUFFICES ASSUME Running(u) PROVE Sound(n, V, u)
    OBVIOUS
  <2>1. Sound(n, V, t)
    BY <1>2 DEF Fine, Running
  <2>2. e \in Entry /\ e.type = "hello" /\ e.iface = i
    <3>1. i \in Nat /\ 0 \in 0..MaxRetry /\ Broadcast \in Int
      BY DeviceAt, QueueAssumption DEF Broadcast
    <3> QED  BY <3>1 DEF Entry
  <2>3. u = Grown(t, q, {})
    BY <2>1 DEF Sound, Shape, Grown
  <2> HIDE DEF e, q, u
  <2>4. EntryOk(n, V \cap Packet, e)
    BY <2>2 DEF EntryOk
  <2>5. CASE Accepts(t.queue, e)
    <3>1. Joins(t.queue, e, q)
      BY <2>5 DEF Joins, EnqueueFront, q
    <3> QED  BY <2>1, <2>2, <2>3, <2>4, <2>5, <3>1, QueueGrows
  <2>6. CASE ~ Accepts(t.queue, e)
    <3>1. q = t.queue
      BY <2>6 DEF EnqueueFront, q
    <3>2. u = t
      BY <2>1, <2>3, <3>1 DEF Sound, Shape, Grown
    <3> QED  BY <2>1, <3>2
  <2> QED  BY <2>5, <2>6
<1> HIDE DEF u
<1> QED  BY <1>1, <1>2, <1>3, TrySendKept, StillKept, KeptOn

\* So do all hellos.
LEMMA SendHelloKept ==
    ASSUME NEW V, NEW n \in Node, NEW s, Sound(n, V, s),
           NEW garbage \in [DOMAIN Devices(n) -> SUBSET STRING]
    PROVE  AckKept(n, s, SendHello(n, s, garbage))
<1> DEFINE N == Len(Devices(n))
           out == SendHello(n, s, garbage)
           seq == [i \in 1..N |-> i]
<1>1. N \in Nat /\ DOMAIN Devices(n) = 1..N
  BY DeviceAt
<1> HIDE DEF N
<1>2. PICK v : IsRun(v, "SendHello", <<n, garbage>>, s, seq, N, out)
  BY <1>1, SendHelloLoop
<1> HIDE DEF out
<1>3. /\ v[0] = s
      /\ \A k \in 0..N - 1 : v[k + 1] = EnqueueHello(n, v[k], k + 1, garbage[k + 1])
      /\ out = v[N]
  <2> DEFINE c == <<n, garbage>>
  <2>1. \A acc, e : Turn("SendHello", c, acc, e) = EnqueueHello(n, acc, e, garbage[e])
    BY DEF Turn
  <2>2. \A k \in 0..N - 1 : seq[k + 1] = k + 1
    BY <1>1
  <2> HIDE DEF c, seq
  <2> QED  BY <1>2, <2>1, <2>2 DEF IsRun, c
<1> DEFINE T == {k \in 0..N : Fine(n, V, s, v[k], {}, {}) /\ AckKept(n, s, v[k])}
<1>4. 0 \in T
  BY <1>1, <1>3 DEF Fine, Moves, AckKept
<1>5. ASSUME NEW k \in 0..N - 1, k \in T PROVE k + 1 \in T
  <2>1. Fine(n, V, s, v[k], {}, {}) /\ AckKept(n, s, v[k]) /\ k + 1 \in 0..N /\ k + 1 \in DOMAIN Devices(n)
    BY <1>1, <1>5
  <2>2. garbage[k + 1] \in SUBSET STRING
    BY <2>1
  <2>3. Fine(n, V, s, EnqueueHello(n, v[k], k + 1, garbage[k + 1]), {}, {})
    BY <2>1, <2>2, EnqueueHelloOk
  <2>4. AckKept(n, v[k], EnqueueHello(n, v[k], k + 1, garbage[k + 1]))
    BY <2>1, <2>2, EnqueueHelloKept
  <2> QED  BY <1>3, <2>1, <2>3, <2>4, KeptOn
<1> HIDE DEF T
<1>6. N \in T
  <2>1. \A k \in 0..N : k \in T
    BY <1>1, <1>4, <1>5, Upto
  <2> QED  BY <1>1, <2>1
<1> QED  BY <1>3, <1>6 DEF T, out

\* Retransmit acks nothing before it sends.
LEMMA RetransmitKept ==
    ASSUME NEW V, NEW n \in Node, NEW s, Sound(n, V, s)
    PROVE  AckKept(n, s, Retransmit(n, s))
<1> DEFINE off == [s EXCEPT !.timer = FALSE]
<1>1. s.rtq = <<>> => Retransmit(n, s) = off
  BY Zenon DEF Retransmit
<1>2. Still(s, off)
  BY DEF Still
<1> HIDE DEF off
<1>3. CASE s.rtq = <<>>
  BY <1>1, <1>2, <1>3, StillKept
<1>4. CASE s.rtq # <<>>
  <2>1. PICK again : /\ Retransmit(n, s) = TrySend(n, DoSendEnd(again))
                     /\ Fine(n, V, s, DoSendEnd(again), {}, {}) /\ Still(s, again)
    BY <1>4, RetransmitSends
  <2> DEFINE t == DoSendEnd(again)
  <2>2. Still(s, t)
    BY <2>1, TimerStill, StillOn
  <2>3. Running(t) => Sound(n, V, t)
    BY <2>1 DEF Fine
  <2> HIDE DEF t
  <2>4. AckKept(n, t, TrySend(n, t))
    BY <2>3, TrySendKept
  <2> QED  BY <2>1, <2>2, <2>4, StillKept, KeptOn DEF t
<1> QED  BY <1>3, <1>4

\* A packet for this device, a group or everybody is handed to IP, whose answer is
\* sent with acks for what was there.
LEMMA ForwardUpKept ==
    ASSUME NEW V, NEW n \in Node, NEW s, Sound(n, V, s), NEW i, NEW dst,
           NEW pid, Unforwarded(pid) \/ pid \in V \cap Packet,
           NEW r, r = ForwardUp(n, s, i, pid, dst)
    PROVE  /\ AckKept(n, s, r)
           /\ dst \in {Devices(n)[i].mac, Group} => pid \in r.up
<1> DEFINE answer == IpForward(n, pid)
           handed == [s EXCEPT !.up = s.up \cup {pid}]
           req == Head(answer)
<1>1. \/ dst \notin {Devices(n)[i].mac, Group} /\ r = s
      \/ r = handed
      \/ answer # <<>> /\ r = EnqueueData(n, handed, req)
  BY DEF ForwardUp
<1>2. Sound(n, V, handed)
  <2>1. handed = Handed(s, s.up \cup {pid}, s.acks)
    BY DEF Sound, Shape, Handed
  <2>2. s.acks \in Seq([ip : Nat, pid : V])
    BY DEF Sound
  <2> HIDE DEF handed
  <2> QED  BY <2>1, <2>2, HandedOk
<1>3. AckKept(n, s, handed) /\ pid \in handed.up
  BY DEF AckKept, AcksIn, Sound, Shape
<1>4. AckKept(n, s, s)
  BY DEF AckKept
<1> HIDE DEF handed
<1>5. CASE answer # <<>> /\ r = EnqueueData(n, handed, req)
  <2>1. pid \in V \cap Packet
    BY <1>5 DEF Unforwarded
  <2>2. PICK t \in Traffic : pid = t.req.pid
    BY <2>1 DEF Packet
  <2>3. req \in Request(n) /\ req.pid = pid /\ req.dest # Broadcast
    BY Zenon, <1>5, <2>2, TrafficAssumption
  <2>6. req \in Asking(n)
    BY <1>5, <2>2 DEF Asking
  <2>4. Asked(n, req) /\ req.pid \in V
    BY <2>1, <2>3, <2>6 DEF Asked
  <2> HIDE DEF req
  <2>5. AckKept(n, handed, EnqueueData(n, handed, req))
    BY <1>2, <2>4, EnqueueDataKept
  <2>7. AckKept(n, s, r)
    BY <1>3, <1>5, <2>5, KeptOn
  <2> QED  BY <1>3, <1>5, <2>5, <2>7 DEF AckKept
<1> QED  BY <1>1, <1>3, <1>4, <1>5

\* What is noted about a reception is no ack.
LEMMA ReceptionStill ==
    ASSUME NEW s, NEW p, NEW mac
    PROVE  Still(s, NoteReception(s, p, mac))
BY DEF Still, NoteReception

\* Nor is what is learned from acks.
LEMMA HeedReportsStill ==
    ASSUME NEW n, NEW s, NEW f, NEW mac
    PROVE  Still(s, HeedReports(n, s, f, mac))
BY DEF Still, HeedReports

\* A frame with one native is never acked.
LEMMA RecvPlainKept ==
    ASSUME NEW V, NEW n \in Node, NEW s, Sound(n, V, s), NEW i, NEW mac, NEW f,
           NEW m, NEW L, NEW J, f \in DataSendable(m, L, J), ~ (Cardinality(f.ids) > 1),
           Got(n, s, f) \subseteq V
    PROVE  AckKept(n, s, RecvPlain(n, s, i, f, mac))
<1> DEFINE r == RecvPlain(n, s, i, f, mac)
           pid == MyNative(n, f)
           p == f.pkt
           t == ForwardUp(n, s, i, pid, f.dst)
           u == ForwardUp(n, s, i, p, Broadcast)
<1>1. IdsOk(f.ids, f.pkt, J) /\ f.ids \in SUBSET Ids(L)
  BY DEF DataSendable
<1>2. PICK id \in f.ids : f.ids = {id}
  <2>1. IsFiniteSet(f.ids) /\ f.ids # {}
    BY <1>1 DEF IdsOk
  <2>2. Cardinality(f.ids) = 1
    BY <2>1, FS_CardinalityType, FS_EmptySet
  <2> QED  BY <2>1, <2>2, FS_Singleton
<1>3. p = id.pid /\ p \in Packet
  BY <1>1, <1>2 DEF IdsOk, Ids
<1>4. \/ IsBroadcast(f) /\ r = u
      \/ r = NoteReception(s, p, mac)
      \/ \E why : r = Abort(s, why)
      \/ ~ IsBroadcast(f) /\ AmINext(n, f) /\ r = NoteReception(t, pid, mac)
  BY Zenon DEF RecvPlain
<1> HIDE DEF r
<1>5. CASE IsBroadcast(f) /\ r = u
  <2>1. Unforwarded(p)
    BY <1>1, <1>2, <1>3, <1>5 DEF IsBroadcast, IdsOk
  <2> HIDE DEF p, u
  <2>2. AckKept(n, s, u)
    BY <2>1, ForwardUpKept DEF u
  <2> QED  BY <1>5, <2>2 DEF r
<1>6. CASE r = NoteReception(s, p, mac)
  BY <1>6, ReceptionStill, StillKept DEF r
<1>7. CASE \E why : r = Abort(s, why)
  BY <1>7, AbortStill, StillKept DEF r
<1>8. CASE ~ IsBroadcast(f) /\ AmINext(n, f) /\ r = NoteReception(t, pid, mac)
  <2>1. pid = p
    <3>1. pid \in Natives(f)
      BY <1>8, MyNativeIs
    <3> QED  BY <1>2, <1>3, <3>1 DEF Natives
  <2>2. Got(n, s, f) = {p}
    BY <1>8 DEF Got
  <2>3. pid \in V \cap Packet
    BY <1>3, <2>1, <2>2
  <2> HIDE DEF pid, t
  <2>4. AckKept(n, s, t)
    BY <2>3, ForwardUpKept DEF t
  <2>5. Still(t, r)
    BY <1>8, ReceptionStill
  <2> QED  BY <2>4, <2>5, StillKept, KeptOn DEF r
<1> QED  BY <1>4, <1>5, <1>6, <1>7, <1>8

\* A handler that acks nothing may follow one that does, or come before it.
LEMMA GainedOn ==
    ASSUME NEW n, NEW s, NEW t, NEW u, NEW P
    PROVE  /\ AckKept(n, s, t) => AckGained(n, s, t, P)
           /\ AckKept(n, s, t) /\ AckGained(n, t, u, P) => AckGained(n, s, u, P)
           /\ AckGained(n, s, t, P) /\ AckKept(n, t, u) => AckGained(n, s, u, P)
<1>1. ASSUME AckKept(n, s, t) PROVE AckGained(n, s, t, P)
  <2> DEFINE A == {}
  <2>1. \A U : U \cup A = U
    OBVIOUS
  <2>2. \A U : AcksIn(n, s, U) => AcksIn(n, t, U \cup A)
    BY <1>1, <2>1 DEF AckKept
  <2>3. \A x \in A : FALSE
    OBVIOUS
  <2> HIDE DEF A
  <2> QED  BY <1>1, <2>2, <2>3 DEF AckGained, Gained, AckKept
<1>2. ASSUME AckKept(n, s, t), AckGained(n, t, u, P) PROVE AckGained(n, s, u, P)
  BY <1>2 DEF AckGained, Gained, AckKept
<1>3. ASSUME AckGained(n, s, t, P), AckKept(n, t, u) PROVE AckGained(n, s, u, P)
  BY <1>3 DEF AckGained, Gained, AckKept
<1> QED  BY <1>1, <1>2, <1>3

\* A next hop acks what it decoded and hands it up in the same event, unless the
\* frame was led away.
LEMMA RecvEncodedGained ==
    ASSUME NEW V, NEW n \in Node, NEW s, Sound(n, V, s), NEW i, NEW mac, NEW f,
           NEW m \in Node, NEW L, NEW J, f \in DataSendable(m, L, J), Cardinality(f.ids) > 1,
           Got(n, s, f) \subseteq V
    PROVE  AckGained(n, s, RecvEncoded(n, s, i, f, mac), LedAway(m, f, Devices(n)[i].mac))
<1> DEFINE r == RecvEncoded(n, s, i, f, mac)
           P == LedAway(m, f, Devices(n)[i].mac)
           pid == MyNative(n, f)
           p == DecodedPacket(s, f)
           ack == [ip |-> f.ip, pid |-> pid]
           acked == AddAck(s, f.ip, pid)
           t == ForwardUp(n, acked, i, pid, f.dst)
<1>1. \/ r = s
      \/ r = NoteReception(s, p, mac)
      \/ \E why : r = Abort(s, why)
      \/ /\ ~ (Decode(s, f) < 0) /\ AmINext(n, f)
         /\ DecodedId(s, f) = pid /\ r = NoteReception(t, pid, mac)
  BY Zenon DEF RecvEncoded
<1> HIDE DEF r, P
<1>0. CASE r = s
  BY <1>0, GainedOn DEF r, AckKept
<1>2. CASE r = NoteReception(s, p, mac)
  BY <1>2, ReceptionStill, StillKept, GainedOn DEF r
<1>3. CASE \E why : r = Abort(s, why)
  BY <1>3, AbortStill, StillKept, GainedOn DEF r
<1>4. CASE /\ ~ (Decode(s, f) < 0) /\ AmINext(n, f)
           /\ DecodedId(s, f) = pid /\ r = NoteReception(t, pid, mac)
  <2>1. Got(n, s, f) = {pid}
    BY <1>4 DEF Got
  <2>2. pid \in V \cap Packet
    <3>1. pid \in Natives(f)
      BY <1>4, MyNativeIs
    <3>2. f.ids \in SUBSET Ids(L)
      BY DEF DataSendable
    <3> QED  BY <2>1, <3>1, <3>2 DEF Natives, Ids
  <2>3. f.ip \in Nat
    <3>1. f.ip = GetIP(m)
      BY DEF DataSendable
    <3> QED  BY <3>1, OwnIp, Numbers
  <2> DEFINE B == [ip : Nat, pid : V]
  <2>4. ack \in B /\ s.acks \in Seq(B)
    BY <2>2, <2>3 DEF Sound
  <2>5. acked = Handed(s, s.up, Append(s.acks, ack))
    BY DEF AddAck, Handed, Sound, Shape
  <2>6. acked.acks = Append(s.acks, ack) /\ acked.mac = s.mac /\ acked.up = s.up
    BY DEF AddAck, Sound, Shape
  <2>7. ack.pid = pid
    OBVIOUS
  <2> HIDE DEF acked, pid, ack, B
  <2>8. Append(s.acks, ack) \in Seq(B)
        /\ \A j \in DOMAIN Append(s.acks, ack) :
              Append(s.acks, ack)[j] = ack \/ (j \in DOMAIN s.acks /\ Append(s.acks, ack)[j] = s.acks[j])
    BY <2>4
  <2>9. Sound(n, V, acked)
    BY <2>5, <2>8, HandedOk DEF B
  <2>10. ASSUME NEW U, AcksIn(n, s, U) PROVE AcksIn(n, acked, U \cup {ack})
    <3> DEFINE W == U \cup {ack}
    <3>1. \A j \in DOMAIN acked.acks : acked.acks[j] \in W
      BY <2>6, <2>8, <2>10 DEF AcksIn
    <3>2. \A g : FrameIn(g, U) => FrameIn(g, W)
      BY DEF FrameIn
    <3> HIDE DEF W
    <3> QED  BY <2>6, <2>10, <3>1, <3>2 DEF AcksIn, W
  <2> HIDE DEF t
  <2>11. AckKept(n, acked, t) /\ (f.dst \in {Devices(n)[i].mac, Group} => pid \in t.up)
    BY <2>2, <2>9, ForwardUpKept DEF t
  <2>12. Still(t, r)
    BY <1>4, ReceptionStill
  <2>13. AckKept(n, acked, r)
    BY <2>11, <2>12, StillKept, KeptOn
  <2>14. pid \in r.up \/ pid \in P
    <3>1. AddrOk(m, f.ids, f.dst) /\ pid \in Natives(f)
      BY <1>4, MyNativeIs DEF DataSendable, pid
    <3> QED  BY <2>11, <2>12, <3>1 DEF Still, AddrOk, LedAway, P
  <2> DEFINE A == {ack}
  <2>15. \A U : AcksIn(n, s, U) => AcksIn(n, r, U \cup A)
    BY <2>10, <2>13 DEF AckKept
  <2>16. s.up \subseteq r.up
    BY <2>6, <2>13 DEF AckKept
  <2>17. \A x \in A : x.pid \in r.up \/ x.pid \in P
    BY <2>7, <2>14
  <2> HIDE DEF A
  <2>18. Gained(n, s, r, P)
    BY <2>15, <2>17 DEF Gained
  <2> QED  BY <2>16, <2>18 DEF AckGained, r, P
<1> QED  BY <1>0, <1>1, <1>2, <1>3, <1>4 DEF r, P

\* So with every data frame.
LEMMA RecvDataGained ==
    ASSUME NEW n \in Node, NEW m \in Node, NEW s, Sound(n, s.pool, s), NEW i \in DOMAIN Devices(n),
           NEW L, NEW J, NEW f, f \in DataSendable(m, L, J), OnChannel(f.src, Devices(n)[i].ch),
           NEW P, P = LedAway(m, f, Devices(n)[i].mac)
    PROVE  AckGained(n, s, RecvData(n, s, i, f), P)
<1> DEFINE G == Got(n, s, f)
           V == s.pool \cup G
           t == [ip |-> f.ip, mac |-> f.src, ch |-> Devices(n)[i].ch]
           B == SMNeighbors(s.nbrs, t)
           met == WithNeighbors(s, B)
           mac == GetMac(met.nbrs[SearchIp(met.nbrs, f.ip)])
           told == HeedReports(n, met, f, mac)
           out == IF Cardinality(f.ids) > 1 THEN RecvEncoded(n, told, i, f, mac)
                  ELSE RecvPlain(n, told, i, f, mac)
           r == RecvData(n, s, i, f)
<1>1. /\ ~ Running(met) => r = met
      /\ Running(met) => r = TrySend(n, out)
  BY Zenon DEF RecvData
<1> HIDE DEF r
<1>2. f.ip \in Ips(m) /\ f.src \in Macs(m)
  BY OwnIp DEF DataSendable
<1>3. t \in Trinity /\ t.mac = f.src /\ t.ip = f.ip
  <2>1. Devices(n)[i] \in Device
    BY DeviceAt
  <2> QED  BY <1>2, <2>1, OwnerOf, Numbers DEF Device, Trinity
<1>4. Sound(n, V, s)
  BY SoundMono
<1> HIDE DEF t, V, G
<1>5. Rows(B, Awaited(s.queue)) /\ \E k \in DOMAIN B : HasIP(B[k], f.ip)
  <2>1. Table(s.nbrs, Awaited(s.queue))
    BY <1>4 DEF Sound
  <2> QED  BY <1>2, <1>3, <2>1, SMNeighborsOk
<1> HIDE DEF B
<1>6. Fine(n, V, s, met, {}, {})
  BY <1>4, <1>5, TableSet
<1>7. AckKept(n, s, met)
  BY NeighborsStill, StillKept
<1> HIDE DEF met
<1>8. CASE Running(met)
  <2>1. Sound(n, V, met) /\ met.pool = s.pool
    BY <1>6, <1>8 DEF Fine, Moves
  <2> HIDE DEF mac
  <2>2. Sound(n, V, told) /\ Moves(n, met, told, {}, Reports(f) \X {mac})
    BY <2>1, HeedReportsOk
  <2>3. AckKept(n, s, told)
    BY <1>7, HeedReportsStill, StillKept, KeptOn
  <2>4. told.pool = s.pool
    BY <2>1, <2>2 DEF Moves
  <2> HIDE DEF told
  <2>5. G = Got(n, told, f) /\ G \subseteq V
    BY <2>4, GotSame DEF V, G
  <2>6. Fine(n, V, told, out, G, G \X {mac}) /\ AckGained(n, s, out, P)
    <3>1. CASE Cardinality(f.ids) > 1
      <4>1. out = RecvEncoded(n, told, i, f, mac)
        BY Zenon, <3>1
      <4> HIDE DEF out
      <4>2. Fine(n, V, told, RecvEncoded(n, told, i, f, mac), G, G \X {mac})
        BY <2>2, <2>5, <3>1, RecvEncodedOk
      <4>3. Got(n, told, f) \subseteq V
        BY <2>5
      <4>4. AckGained(n, told, RecvEncoded(n, told, i, f, mac), P)
        BY <2>2, <3>1, <4>3, RecvEncodedGained
      <4> QED  BY <2>3, <4>1, <4>2, <4>4, GainedOn
    <3>2. CASE ~ (Cardinality(f.ids) > 1)
      <4>1. out = RecvPlain(n, told, i, f, mac)
        BY Zenon, <3>2
      <4> HIDE DEF out
      <4>2. Fine(n, V, told, RecvPlain(n, told, i, f, mac), G, G \X {mac})
        BY <2>2, <2>5, <3>2, RecvPlainOk
      <4>3. Got(n, told, f) \subseteq V
        BY <2>5
      <4>4. AckKept(n, told, RecvPlain(n, told, i, f, mac))
        BY <2>2, <3>2, <4>3, RecvPlainKept
      <4> QED  BY <2>3, <4>1, <4>2, <4>4, KeptOn, GainedOn
    <3> QED  BY <3>1, <3>2
  <2> HIDE DEF out
  <2>7. Running(out) => Sound(n, V, out)
    BY <2>6 DEF Fine
  <2>8. AckKept(n, out, TrySend(n, out))
    BY <2>7, TrySendKept
  <2> QED  BY <1>1, <1>8, <2>6, <2>8, GainedOn DEF r
<1> QED  BY <1>1, <1>7, <1>8, GainedOn DEF r

\* And with every frame.
LEMMA RecvGained ==
    ASSUME NEW n \in Node, NEW m \in Node, NEW s, Sound(n, s.pool, s), NEW i \in DOMAIN Devices(n),
           NEW L, NEW J, NEW f \in Sendable(m, L, J),
           f.type = "data" => OnChannel(f.src, Devices(n)[i].ch),
           NEW P, P = LedAway(m, f, Devices(n)[i].mac)
    PROVE  AckGained(n, s, Recv(n, s, i, f), P)
<1> DEFINE B == NeighborLearn(s.nbrs, f.pairs)
           t == WithNeighbors(s, B)
           r == Recv(n, s, i, f)
<1>1. \/ r = s
      \/ f.type = "hello" /\ r = TrySend(n, t)
      \/ f.type # "hello" /\ r = RecvData(n, s, i, f)
  BY Zenon DEF Recv
<1> HIDE DEF r
<1>2. CASE f.type = "hello" /\ r = TrySend(n, t)
  <2>1. f.pairs = Devices(m)
    BY <1>2 DEF Sendable, DataSendable
  <2>2. Rows(s.nbrs, Awaited(s.queue))
    BY DEF Sound, Table
  <2>3. Rows(B, Awaited(s.queue))
    BY <2>1, <2>2, NeighborLearnOk
  <2> DEFINE V == s.pool \cup {}
  <2>4. Sound(n, V, s)
    BY SoundMono
  <2> HIDE DEF B, V
  <2>5. Fine(n, V, s, t, {}, {})
    BY <2>3, <2>4, TableSet
  <2>6. AckKept(n, s, t)
    BY NeighborsStill, StillKept
  <2> HIDE DEF t
  <2>7. Running(t) => Sound(n, V, t)
    BY <2>5 DEF Fine
  <2>8. AckKept(n, t, TrySend(n, t))
    BY <2>7, TrySendKept
  <2> QED  BY <1>2, <2>6, <2>8, KeptOn, GainedOn DEF r
<1>3. CASE f.type # "hello" /\ r = RecvData(n, s, i, f)
  <2>1. f \in DataSendable(m, L, J) /\ f.type = "data"
    BY <1>3 DEF Sendable, DataSendable
  <2>2. AckGained(n, s, RecvData(n, s, i, f), P)
    BY <2>1, RecvDataGained
  <2> QED  BY <1>3, <2>2 DEF r
<1>4. AckKept(n, s, s)
  BY DEF AckKept
<1> QED  BY <1>1, <1>2, <1>3, <1>4, GainedOn DEF r

\* A device that finishes with a frame acks nothing.
LEMMA FrameDoneKept ==
    ASSUME NEW V, NEW n \in Node, NEW s, Sound(n, V, s), NEW i \in DOMAIN Devices(n), s.mac[i] # <<>>,
           Timed(s)
    PROVE  AckKept(n, s, FrameDone(s, i))
<1> DEFINE t == FrameDone(s, i)
<1>1. t = FrameDone(s, i)
  OBVIOUS
<1>2. t.acks = s.acks /\ t.up = s.up
  BY DEF FrameDone, Sound, Shape
<1> HIDE DEF t
<1>3. \A j \in DOMAIN Devices(n) : ToSet(t.mac[j]) \subseteq ToSet(s.mac[j])
  BY <1>1, FrameDoneOk DEF Emptier
<1>4. AckKept(n, s, t)
  BY <1>2, <1>3 DEF AckKept, AcksIn
<1> QED  BY <1>4 DEF t

\* New acks are among those gained.
LEMMA GainedAcks ==
    ASSUME NEW n \in Node, NEW P, AckGained(n, state[n], state'[n], P), NEW ack \in Acks(n)' \ Acks(n)
    PROVE  ack.pid \in state'[n].up \/ ack.pid \in P
<1>1. PICK A : /\ \A U : AcksIn(n, state[n], U) => AcksIn(n, state'[n], U \cup A)
               /\ \A x \in A : x.pid \in state'[n].up \/ x.pid \in P
  BY DEF AckGained, Gained
<1> DEFINE U == Acks(n)
           W == U \cup A
<1>2. AcksIn(n, state[n], U)
  BY DEF AcksIn, FrameIn, Acks, DataFramesOf, FramesOf, ToSet
<1>3. AcksIn(n, state'[n], W)
  BY <1>1, <1>2
<1> HIDE DEF U, W
<1>4. ack \in W
  BY <1>3 DEF AcksIn, FrameIn, Acks, DataFramesOf, FramesOf, ToSet
<1> QED  BY <1>1, <1>4 DEF U, W

\* Every event delivers what it acks.
LEMMA NextDelivers == Inv /\ [Next]_vars => [\A n \in Node : AcksDelivered(n)]_vars
<1> DEFINE All == \A n \in Node : AcksDelivered(n)
<1> SUFFICES ASSUME Inv, Next PROVE All
  OBVIOUS
<1>2. Next
  OBVIOUS
<1> HIDE DEF All
<1> QED
  <2>1. Alive /\ \A n \in Node : Sound(n, state[n].pool, state[n]) /\ Timed(state[n])
    BY <1>2 DEF Inv, Next
  <2>2. ASSUME NEW n \in Node, NEW s, Update(n, s), NEW P, AckGained(n, state[n], s, P),
               \A p \in P : \E m \in Node : \E i \in DOMAIN Devices(m), j \in DOMAIN Devices(n) :
                   /\ Deliver(m, i, n, j)
                   /\ p \in LedAway(m, Head(state[m].mac[i]), Devices(n)[j].mac)
        PROVE  All
    <3>1. \A m \in Node : state'[m] = IF m = n THEN s ELSE state[m]
      BY <2>2 DEF Inv, Update
    <3>2. AcksDelivered(n)
      BY <2>2, <3>1, GainedAcks DEF AcksDelivered
    <3>3. ASSUME NEW m \in Node, m # n PROVE AcksDelivered(m)
      <4>1. state'[m] = state[m]
        BY <3>1, <3>3
      <4> QED  BY <4>1 DEF AcksDelivered, Acks, DataFramesOf, FramesOf
    <3> QED  BY <3>2, <3>3 DEF All
  <2>3. ASSUME NEW n \in Node, NEW s, Update(n, s), AckKept(n, state[n], s) PROVE All
    <3> DEFINE P == {}
    <3>1. AckGained(n, state[n], s, P)
      BY <2>3, GainedOn
    <3> QED  BY <2>2, <2>3, <3>1
  <2>4. ASSUME NEW t \in Traffic, Offer(t) PROVE All
    <3> DEFINE n == t.node
               s == state[n]
               p == t.req.pid
               V == s.pool \cup {p}
    <3>1. Update(n, EnqueueData(n, s, t.req))
      BY <2>4 DEF Offer
    <3>2. n \in Node /\ t.req \in Request(n) /\ p \in Packet
      BY TrafficAssumption DEF Packet
    <3>3. Asked(n, t.req)
      <4>1. t.req.dest = Broadcast => Unforwarded(p)
        BY Zenon, TrafficAssumption DEF Unforwarded
      <4>2. t.req \in Asking(n)
        BY DEF Asking
      <4> QED  BY <3>2, <4>1, <4>2 DEF Asked
    <3>4. Sound(n, s.pool, s)
      BY <2>1, <3>2
    <3>5. s.pool \subseteq V /\ p \in V
      OBVIOUS
    <3> HIDE DEF V, s, n
    <3>6. Sound(n, V, s)
      BY <3>4, <3>5, SoundMono
    <3>7. AckKept(n, s, EnqueueData(n, s, t.req))
      BY <3>2, <3>3, <3>5, <3>6, EnqueueDataKept
    <3> QED  BY <2>3, <3>1, <3>2, <3>7 DEF s
  <2>5. ASSUME NEW n \in Node, TryTimer(n) PROVE All
    <3> DEFINE s == state[n]
               V == s.pool
    <3>1. Running(s) => Sound(n, V, s)
      BY <2>1
    <3> HIDE DEF s, V
    <3>2. AckKept(n, s, TrySend(n, s))
      BY <3>1, TrySendKept
    <3> QED  BY <2>3, <2>5, <3>2 DEF TryTimer, s
  <2>6. ASSUME NEW n \in Node, RetransmitTimer(n) PROVE All
    <3>1. AckKept(n, state[n], Retransmit(n, state[n]))
      BY <2>1, RetransmitKept
    <3> QED  BY <2>3, <2>6, <3>1 DEF RetransmitTimer
  <2>7. ASSUME NEW n \in Node, HelloTimer(n) PROVE All
    <3>1. PICK garbage \in [DOMAIN Devices(n) -> HelloIds] : Update(n, SendHello(n, state[n], garbage))
      BY <2>7 DEF HelloTimer
    <3>2. garbage \in [DOMAIN Devices(n) -> SUBSET STRING]
      BY <3>1, TrafficAssumption
    <3>3. AckKept(n, state[n], SendHello(n, state[n], garbage))
      BY <2>1, <3>2, SendHelloKept
    <3> QED  BY <2>3, <3>1, <3>3
  <2>8. ASSUME NEW m \in Node, NEW n \in Node, NEW i \in DOMAIN Devices(m), NEW j \in DOMAIN Devices(n),
               Deliver(m, i, n, j)
        PROVE  All
    <3> DEFINE f == Head(state[m].mac[i])
    <3>1. state[m].mac[i] # <<>> /\ Update(n, Recv(n, state[n], j, f))
      BY <2>8 DEF Deliver
    <3>2. f \in ToSet(state[m].mac[i])
      <4> DEFINE S == Sendable(m, state[m].pool, state[m].info)
                 q == state[m].mac[i]
      <4>1. q \in Seq(S) /\ q # <<>>
        BY <2>1, <3>1 DEF Sound
      <4> HIDE DEF S, q
      <4>2. Head(q) \in ToSet(q)
        BY <4>1, TailIs
      <4> QED  BY <4>2 DEF q
    <3> HIDE DEF f
    <3>3. f \in Sendable(m, state[m].pool, state[m].info) /\ f \in FramesOf(m)
      BY <2>1, <3>2, FrameIs
    <3>6. f.type = "data" => OnChannel(f.src, Devices(n)[j].ch)
      BY <2>1, <2>8, <3>2, HeardOn
    <3> DEFINE P == LedAway(m, f, Devices(n)[j].mac)
    <3>5. AckGained(n, state[n], Recv(n, state[n], j, f), P)
      BY <2>1, <3>3, <3>6, RecvGained
    <3>7. \A p \in P : p \in LedAway(m, Head(state[m].mac[i]), Devices(n)[j].mac)
      BY DEF f
    <3> HIDE DEF P
    <3> QED  BY <2>2, <2>8, <3>1, <3>5, <3>7
  <2>9. ASSUME NEW n \in Node, NEW i \in DOMAIN Devices(n), MacDone(n, i) PROVE All
    <3>1. Update(n, FrameDone(state[n], i)) /\ state[n].mac[i] # <<>>
      BY <2>9 DEF MacDone, FrameDone
    <3>2. AckKept(n, state[n], FrameDone(state[n], i))
      BY <2>1, <3>1, FrameDoneKept
    <3> QED  BY <2>3, <3>1, <3>2
  <2> QED  BY <1>2, <2>4, <2>5, <2>6, <2>7, <2>8, <2>9 DEF Next

\* A node acks a native only after it handed it to IP, or when the frame that
\* brought it was led to another address by a UDP packet or an ETOX message.
THEOREM AcksTrue == Spec => AckMeansDelivered
BY NextDelivers, Invariance, PTL DEF Spec, AckMeansDelivered

-----------------------------------------------------------------------------
(* The neighbor table loses no address of a neighbor whose radios are on channels of *)
(* their own.                                                              *)

\* A node has one address on a channel.
LEMMA SameRadio ==
    ASSUME RadiosApart, NEW m \in Node, NEW x \in Macs(m), NEW y \in Macs(m), NEW ch,
           OnChannel(x, ch), OnChannel(y, ch)
    PROVE  x = y
<1>1. ASSUME NEW z \in Macs(m), OnChannel(z, ch)
      PROVE  \E i \in DOMAIN Devices(m) : Devices(m)[i].mac = z /\ Devices(m)[i].ch = ch
  <2>1. PICK k \in Node : \E i \in DOMAIN Devices(k) : Devices(k)[i].mac = z /\ Devices(k)[i].ch = ch
    BY <1>1 DEF OnChannel
  <2>2. z \in Macs(k)
    BY <2>1 DEF Macs
  <2>3. k = m
    BY Zenon, <1>1, <2>2, Apart
  <2> QED  BY <2>1, <2>3
<1>2. PICK i \in DOMAIN Devices(m) : Devices(m)[i].mac = x /\ Devices(m)[i].ch = ch
  BY <1>1
<1>3. PICK j \in DOMAIN Devices(m) : Devices(m)[j].mac = y /\ Devices(m)[j].ch = ch
  BY <1>1
<1> QED  BY <1>2, <1>3 DEF RadiosApart

\* AddTrinity drops only what the new trinity replaces.
LEMMA AddTrinityKeeps ==
    ASSUME NEW tri \in Seq(Trinity), NEW t \in Trinity, NEW j \in DOMAIN tri, ~ Replaces(t, tri[j])
    PROVE  \E i \in DOMAIN AddTrinity(tri, t) : AddTrinity(tri, t)[i] = tri[j]
<1> DEFINE N == Len(tri)
           r == AddTrinity(tri, t)
<1>1. N \in Nat /\ DOMAIN tri = 1..N
  OBVIOUS
<1>2. PICK v : /\ IsRun(v, "AddTrinity", t, <<>>, tri, N, v[N])
               /\ AddTrinity(tri, t) = Append(v[N], t)
  BY Zenon, <1>1, AddTrinityLoop
<1>3. /\ v[0] = <<>>
      /\ \A k \in 0..N - 1 : v[k + 1] = IF Replaces(t, tri[k + 1]) THEN v[k]
                                        ELSE Append(v[k], tri[k + 1])
  BY <1>2 DEF IsRun, Turn
<1> HIDE DEF N
<1> DEFINE Good(k) == v[k] \in Seq(Trinity) /\ (k >= j => \E i \in DOMAIN v[k] : v[k][i] = tri[j])
<1>4. Good(0)
  BY <1>1, <1>3
<1>5. ASSUME NEW k \in 0..N - 1, Good(k) PROVE Good(k + 1)
  <2> DEFINE w == v[k]
             e == tri[k + 1]
             u == v[k + 1]
  <2>1. k + 1 \in DOMAIN tri /\ e \in Trinity
    BY <1>1
  <2>2. (Replaces(t, e) /\ u = w) \/ u = Append(w, e)
    BY <1>3
  <2>3. w \in Seq(Trinity) /\ (k >= j => \E i \in DOMAIN w : w[i] = tri[j])
    BY <1>5
  <2>4. k + 1 = j => e = tri[j] /\ ~ Replaces(t, e)
    OBVIOUS
  <2>7. k + 1 >= j => k >= j \/ k + 1 = j
    BY <1>1
  <2> HIDE DEF w, e, u
  <2>5. CASE u = Append(w, e)
    <3>1. /\ u \in Seq(Trinity) /\ DOMAIN u = 1..Len(w) + 1 /\ DOMAIN w = 1..Len(w) /\ Len(w) \in Nat
          /\ \A i \in 1..Len(w) + 1 : u[i] = IF i = Len(w) + 1 THEN e ELSE w[i]
      BY <2>1, <2>3, <2>5, AppendIs
    <3>2. \A i \in DOMAIN w : i \in DOMAIN u /\ u[i] = w[i]
      BY <3>1
    <3>3. u[Len(w) + 1] = e /\ Len(w) + 1 \in DOMAIN u
      BY <3>1
    <3> QED  BY <2>3, <2>4, <2>7, <3>1, <3>2, <3>3 DEF u
  <2>6. CASE Replaces(t, e) /\ u = w
    BY <2>3, <2>4, <2>6, <2>7 DEF u
  <2> QED  BY <2>2, <2>5, <2>6
<1> HIDE DEF Good
<1> DEFINE T == {k \in 0..N : Good(k)}
<1>6. 0 \in T /\ \A k \in 0..N - 1 : k \in T => k + 1 \in T
  BY <1>1, <1>4, <1>5
<1> HIDE DEF T
<1>7. N \in T
  BY <1>1, <1>6, Upto
<1> DEFINE w == v[N]
<1>8. w \in Seq(Trinity) /\ \E i \in DOMAIN w : w[i] = tri[j]
  BY <1>1, <1>7 DEF T, Good
<1>9. r = Append(w, t)
  BY <1>2
<1> HIDE DEF w, r
<1>10. /\ DOMAIN r = 1..Len(w) + 1 /\ DOMAIN w = 1..Len(w) /\ Len(w) \in Nat
       /\ \A i \in 1..Len(w) + 1 : r[i] = IF i = Len(w) + 1 THEN t ELSE w[i]
  BY <1>8, <1>9, AppendIs
<1>11. PICK i \in DOMAIN w : w[i] = tri[j]
  BY <1>8
<1>12. i \in DOMAIN r /\ r[i] = w[i]
  BY <1>10
<1> QED  BY <1>11, <1>12 DEF r

\* And no address that the neighbor has on a channel of its own.
LEMMA AddTrinityNames ==
    ASSUME RadiosApart, RoutesOnLink, NEW m \in Node, NEW tri \in Seq(Trinity),
           \A j \in DOMAIN tri : tri[j].mac \in Macs(m), NEW t \in Trinity, t.mac \in Macs(m),
           \A j \in DOMAIN tri : tri[j].ip = t.ip => tri[j].mac = t.mac
    PROVE  /\ Names(AddTrinity(tri, t), t.mac)
           /\ \A mac : Names(tri, mac) => Names(AddTrinity(tri, t), mac)
<1>1. Names(AddTrinity(tri, t), t.mac)
  BY AddTrinityIs DEF Names
<1>2. ASSUME NEW j \in DOMAIN tri, Replaces(t, tri[j]) PROVE tri[j].mac = t.mac
  <2>1. tri[j] \in Trinity
    OBVIOUS
  <2>2. OnChannel(tri[j].mac, tri[j].ch) /\ OnChannel(t.mac, t.ch)
    BY <2>1 DEF Trinity
  <2>3. tri[j].ch = t.ch => tri[j].mac = t.mac
    BY <2>2, SameRadio
  <2> QED  BY <1>2, <2>3 DEF Replaces
<1>3. ASSUME NEW mac, Names(tri, mac) PROVE Names(AddTrinity(tri, t), mac)
  <2>1. PICK j \in DOMAIN tri : tri[j].mac = mac
    BY <1>3 DEF Names
  <2>2. CASE Replaces(t, tri[j])
    BY <1>1, <1>2, <2>1, <2>2
  <2>3. CASE ~ Replaces(t, tri[j])
    BY <2>1, <2>3, AddTrinityKeeps DEF Names
  <2> QED  BY <2>2, <2>3
<1> QED  BY <1>1, <1>3

\* A concatenation of lists that have nothing in common.
LEMMA ConcatInjective ==
    ASSUME NEW S, NEW q \in Seq(S), NEW r \in Seq(S), IsInjective(q), IsInjective(r),
           ToSet(q) \cap ToSet(r) = {}
    PROVE  IsInjective(q \o r)
<1> DEFINE z == q \o r
<1>1. /\ Len(q) \in Nat /\ Len(r) \in Nat /\ DOMAIN q = 1..Len(q) /\ DOMAIN r = 1..Len(r)
      /\ DOMAIN z = 1..Len(q) + Len(r)
      /\ \A i \in 1..Len(q) + Len(r) : z[i] = IF i <= Len(q) THEN q[i] ELSE r[i - Len(q)]
  OBVIOUS
<1> HIDE DEF z
<1>2. \A i \in DOMAIN z : \/ i \in DOMAIN q /\ z[i] = q[i]
                          \/ i \notin DOMAIN q /\ i - Len(q) \in DOMAIN r /\ z[i] = r[i - Len(q)]
  BY <1>1
<1>3. ASSUME NEW i \in DOMAIN z, NEW j \in DOMAIN z, z[i] = z[j] PROVE i = j
  <2>1. CASE i \in DOMAIN q /\ j \in DOMAIN q
    BY <1>2, <1>3, <2>1 DEF IsInjective
  <2>2. CASE i \notin DOMAIN q /\ j \notin DOMAIN q
    <3>1. i - Len(q) = j - Len(q)
      BY <1>2, <1>3, <2>2 DEF IsInjective
    <3> QED  BY <1>1, <3>1
  <2>3. CASE i \in DOMAIN q /\ j \notin DOMAIN q
    <3>1. z[i] \in ToSet(q) /\ z[j] \in ToSet(r)
      BY <1>2, <2>3 DEF ToSet
    <3> QED  BY <1>3, <3>1
  <2>4. CASE i \notin DOMAIN q /\ j \in DOMAIN q
    <3>1. z[j] \in ToSet(q) /\ z[i] \in ToSet(r)
      BY <1>2, <2>4 DEF ToSet
    <3> QED  BY <1>3, <3>1
  <2> QED  BY <2>1, <2>2, <2>3, <2>4
<1> QED  BY <1>3 DEF IsInjective, z

\* Absorb takes what waits for the neighbor that it removes.
LEMMA AbsorbGathers ==
    ASSUME NEW acc, NEW m \in Node, NEW w, LearnOk(acc, m, w), NEW old, Gathers(acc, old, m),
           NEW k \in DOMAIN acc.nbrs, k # 0,
           \/ \E mac \in Macs(m) : HasMac(acc.nbrs[k], mac)
           \/ \E ip \in Ips(m) : HasIP(acc.nbrs[k], ip)
    PROVE  /\ Gathers(Absorb(acc, k), old, m)
           /\ Absorb(acc, k).new.tri = acc.new.tri
           /\ \A l \in DOMAIN Absorb(acc, k).nbrs :
                 \E j \in DOMAIN acc.nbrs \ {k} : Absorb(acc, k).nbrs[l] = acc.nbrs[j]
<1> DEFINE nbrs == acc.nbrs
           new == acc.new
           r == RemoveAt(nbrs, k)
           vq == new.vq \o nbrs[k].vq
           grown == [new EXCEPT !.vq = vq]
<1>1. k \in DOMAIN nbrs /\ Rows(nbrs, w) /\ nbrs \in Seq(Neighbor) /\ new \in Neighbor
  BY DEF LearnOk, Rows
<1>2. nbrs[k] \in Neighbor /\ Row(nbrs[k], w)
  BY <1>1 DEF Rows, RowsOn
<1>3. Belongs(nbrs[k], m)
  BY <1>1, <1>2, RowOwner
<1>4. RowsOn(nbrs, DOMAIN nbrs \ {k}, w)
  BY <1>1 DEF Rows, RowsOn
<1>5. /\ \A i \in DOMAIN r : \E j \in DOMAIN nbrs \ {k} : r[i] = nbrs[j]
      /\ \A j \in DOMAIN nbrs \ {k} : \E i \in DOMAIN r : r[i] = nbrs[j]
  BY <1>1, <1>4, RowsRemove
<1>6. new.vq \in Seq(Packet) /\ nbrs[k].vq \in Seq(Packet)
  BY <1>1, <1>2 DEF Neighbor
<1>7. ToSet(vq) = ToSet(new.vq) \cup ToSet(nbrs[k].vq)
  BY <1>6, ConcatIs
<1>8. ToSet(new.vq) \cap ToSet(nbrs[k].vq) = {}
  BY DEF LearnOk
<1>9. IsInjective(vq)
  BY <1>1, <1>6, <1>8, ConcatInjective DEF Gathers, NoneTwice
<1>10. grown.tri = new.tri /\ grown.vq = vq
  BY <1>1 DEF Neighbor
<1>11. Absorb(acc, k) = [nbrs |-> r, new |-> grown]
  BY DEF Absorb
<1> HIDE DEF r, vq, grown
<1>12. NoneTwice(r)
  BY <1>5 DEF Gathers, NoneTwice
<1>13. ASSUME NEW i \in DOMAIN old
       PROVE  \/ \E l \in DOMAIN r : r[l] = old[i]
              \/ Belongs(old[i], m) /\ ToSet(old[i].vq) \subseteq ToSet(vq)
  <2>1. CASE Belongs(old[i], m) /\ ToSet(old[i].vq) \subseteq ToSet(new.vq)
    BY <1>7, <2>1
  <2>2. CASE \E l \in DOMAIN nbrs : nbrs[l] = old[i]
    <3>1. PICK l \in DOMAIN nbrs : nbrs[l] = old[i]
      BY <2>2
    <3>2. CASE l = k
      BY <1>3, <1>7, <3>1, <3>2
    <3>3. CASE l # k
      BY <1>5, <3>1, <3>3
    <3> QED  BY <3>2, <3>3
  <2> QED  BY <2>1, <2>2 DEF Gathers
<1>14. Gathers([nbrs |-> r, new |-> grown], old, m)
  BY <1>9, <1>10, <1>12, <1>13 DEF Gathers
<1> QED  BY <1>5, <1>10, <1>11, <1>14

\* The search for an address and what Absorb makes of it.
LEMMA AbsorbFound ==
    ASSUME NEW acc, NEW m \in Node, NEW w, LearnOk(acc, m, w), NEW old, Gathers(acc, old, m),
           NEW mac \in Macs(m), NEW ip \in Ips(m),
           NEW k, MacAt(acc.nbrs, mac, k) \/ IpAt(acc.nbrs, ip, k)
    PROVE  /\ LearnOk(Absorb(acc, k), m, w)
           /\ Gathers(Absorb(acc, k), old, m)
           /\ Absorb(acc, k).new.tri = acc.new.tri
           /\ RowsOf(Absorb(acc, k).nbrs, acc.nbrs)
           /\ MacAt(acc.nbrs, mac, k) => \A l \in DOMAIN Absorb(acc, k).nbrs : ~ HasMac(Absorb(acc, k).nbrs[l], mac)
           /\ IpAt(acc.nbrs, ip, k) => \A l \in DOMAIN Absorb(acc, k).nbrs : ~ HasIP(Absorb(acc, k).nbrs[l], ip)
<1>1. acc.nbrs \in Seq(Neighbor) /\ Rows(acc.nbrs, w) /\ 0 \notin DOMAIN acc.nbrs
  BY DEF LearnOk, Rows
<1>2. CASE k = 0
  <2>1. Absorb(acc, k) = acc
    BY <1>2 DEF Absorb
  <2>2. MacAt(acc.nbrs, mac, k) => \A l \in DOMAIN acc.nbrs : ~ HasMac(acc.nbrs[l], mac)
    BY <1>2 DEF MacAt
  <2>3. IpAt(acc.nbrs, ip, k) => \A l \in DOMAIN acc.nbrs : ~ HasIP(acc.nbrs[l], ip)
    BY <1>2 DEF IpAt
  <2> QED  BY <2>1, <2>2, <2>3 DEF RowsOf
<1>3. CASE k # 0
  <2> DEFINE r == Absorb(acc, k)
  <2>1. k \in DOMAIN acc.nbrs
    BY <1>3 DEF MacAt, IpAt
  <2>2. /\ MacAt(acc.nbrs, mac, k) => HasMac(acc.nbrs[k], mac)
        /\ IpAt(acc.nbrs, ip, k) => HasIP(acc.nbrs[k], ip)
    BY <1>3 DEF MacAt, IpAt
  <2>3. \/ \E x \in Macs(m) : HasMac(acc.nbrs[k], x)
        \/ \E x \in Ips(m) : HasIP(acc.nbrs[k], x)
    BY <2>2
  <2>4. LearnOk(r, m, w)
    BY <2>1, <2>3, AbsorbOk
  <2>5. /\ Gathers(r, old, m) /\ r.new.tri = acc.new.tri
        /\ \A l \in DOMAIN r.nbrs : \E j \in DOMAIN acc.nbrs \ {k} : r.nbrs[l] = acc.nbrs[j]
    BY <1>3, <2>1, <2>3, AbsorbGathers
  <2> HIDE DEF r
  <2>6. ip # ZeroIp
    BY Numbers DEF ZeroIp
  <2>7. ASSUME NEW j \in DOMAIN acc.nbrs \ {k}
        PROVE  /\ MacAt(acc.nbrs, mac, k) => ~ HasMac(acc.nbrs[j], mac)
               /\ IpAt(acc.nbrs, ip, k) => ~ HasIP(acc.nbrs[j], ip)
    <3>1. ~ ShareAddress(acc.nbrs[k], acc.nbrs[j])
      BY <1>1, <2>1 DEF Rows, RowsOn
    <3>2. HasMac(acc.nbrs[k], mac) => ~ HasMac(acc.nbrs[j], mac)
      BY <3>1 DEF ShareAddress, HasMac
    <3>3. HasIP(acc.nbrs[k], ip) => ~ HasIP(acc.nbrs[j], ip)
      BY <2>6, <3>1 DEF ShareAddress, HasIP
    <3> QED  BY <2>2, <3>2, <3>3
  <2>8. /\ MacAt(acc.nbrs, mac, k) => \A l \in DOMAIN r.nbrs : ~ HasMac(r.nbrs[l], mac)
        /\ IpAt(acc.nbrs, ip, k) => \A l \in DOMAIN r.nbrs : ~ HasIP(r.nbrs[l], ip)
    BY <2>5, <2>7
  <2>9. RowsOf(r.nbrs, acc.nbrs)
    BY <2>5 DEF RowsOf
  <2> QED  BY <2>4, <2>5, <2>8, <2>9 DEF r
<1> QED  BY <1>2, <1>3

\* A pair of a hello.
LEMMA LearnPairMet ==
    ASSUME RadiosApart, RoutesOnLink, NEW acc, NEW m \in Node, NEW w, LearnOk(acc, m, w),
           NEW old, Gathers(acc, old, m),
           NEW k \in Nat, k + 1 \in DOMAIN Devices(m), Met(acc, m, k)
    PROVE  /\ Gathers(LearnPair(acc, Devices(m)[k + 1]), old, m)
           /\ Met(LearnPair(acc, Devices(m)[k + 1]), m, k + 1)
<1> DEFINE pair == Devices(m)[k + 1]
           byMac == Absorb(acc, SearchMac(acc.nbrs, pair.mac))
           byIp == Absorb(byMac, SearchIp(byMac.nbrs, pair.ip))
           r == LearnPair(acc, pair)
<1>1. pair \in Device /\ pair.mac \in Macs(m) /\ pair.ip \in Ips(m)
  BY DeviceAt
<1>2. pair \in Trinity
  <2>1. pair.mac \in Address
    BY <1>1, OwnerOf
  <2>2. OnChannel(pair.mac, pair.ch)
    BY DEF OnChannel
  <2> QED  BY <1>1, <2>1, <2>2 DEF Device, Trinity
<1>3. r = [byIp EXCEPT !.new.tri = AddTrinity(@, pair)]
  BY DEF LearnPair
<1>4. pair = Devices(m)[k + 1]
  OBVIOUS
<1> HIDE DEF pair, r
<1>5. MacAt(acc.nbrs, pair.mac, SearchMac(acc.nbrs, pair.mac))
  BY SearchMacIn DEF LearnOk, Rows
<1>6. /\ LearnOk(byMac, m, w) /\ Gathers(byMac, old, m) /\ byMac.new.tri = acc.new.tri
      /\ RowsOf(byMac.nbrs, acc.nbrs) /\ \A l \in DOMAIN byMac.nbrs : ~ HasMac(byMac.nbrs[l], pair.mac)
  BY <1>1, <1>5, AbsorbFound
<1> HIDE DEF byMac
<1>7. IpAt(byMac.nbrs, pair.ip, SearchIp(byMac.nbrs, pair.ip))
  BY <1>6, SearchIpIn DEF LearnOk, Rows
<1>8. /\ LearnOk(byIp, m, w) /\ Gathers(byIp, old, m) /\ byIp.new.tri = byMac.new.tri
      /\ RowsOf(byIp.nbrs, byMac.nbrs) /\ \A l \in DOMAIN byIp.nbrs : ~ HasIP(byIp.nbrs[l], pair.ip)
  BY <1>1, <1>6, <1>7, AbsorbFound
<1> HIDE DEF byIp
<1> DEFINE tri == AddTrinity(byIp.new.tri, pair)
           new == [byIp.new EXCEPT !.tri = tri]
<1>9. byIp.new \in Neighbor /\ byIp.new.tri \in Seq(Trinity)
      /\ byIp = [nbrs |-> byIp.nbrs, new |-> byIp.new]
  BY <1>8 DEF LearnOk, Neighbor
<1>10. r.nbrs = byIp.nbrs /\ r.new = new /\ new.tri = tri /\ new.vq = byIp.new.vq
  BY <1>3, <1>9 DEF Neighbor
<1>11. Gathers(r, old, m)
  BY <1>8, <1>10 DEF Gathers
<1>12. \A l \in DOMAIN r.nbrs : Clear(r.nbrs[l], pair)
  BY <1>6, <1>8, <1>10 DEF RowsOf, Clear
<1>13. ASSUME NEW j \in 1..k, NEW l \in DOMAIN r.nbrs PROVE Clear(r.nbrs[l], Devices(m)[j])
  BY <1>6, <1>8, <1>10 DEF RowsOf, Met
<1>14. \A i \in DOMAIN byIp.new.tri : \E j \in 1..k : byIp.new.tri[i] = Devices(m)[j]
  BY <1>6, <1>8 DEF Met
<1>15. \A i \in DOMAIN tri : tri[i] = pair \/ \E l \in DOMAIN byIp.new.tri : tri[i] = byIp.new.tri[l]
  BY <1>2, <1>9, AddTrinityIs
<1>16. /\ Names(tri, pair.mac)
       /\ \A mac : Names(byIp.new.tri, mac) => Names(tri, mac)
  <2>1. \A j \in DOMAIN byIp.new.tri : byIp.new.tri[j].mac \in Macs(m)
    BY <1>8 DEF LearnOk
  <2>2. \A j \in DOMAIN byIp.new.tri : byIp.new.tri[j].ip = pair.ip => byIp.new.tri[j].mac = pair.mac
    <3> SUFFICES ASSUME NEW j \in DOMAIN byIp.new.tri, byIp.new.tri[j].ip = pair.ip
                 PROVE  byIp.new.tri[j].mac = pair.mac
      OBVIOUS
    <3>1. PICK x \in 1..k : byIp.new.tri[j] = Devices(m)[x]
      BY <1>14
    <3>2. x \in DOMAIN Devices(m) /\ k + 1 \in DOMAIN Devices(m)
      BY DeviceAt
    <3>3. Devices(m)[x].ip = Devices(m)[k + 1].ip
      BY <1>4, <3>1
    <3>4. x = k + 1
      BY <3>2, <3>3, DevicesAssumption
    <3> QED  BY <3>4
  <2> HIDE DEF tri
  <2> QED  BY <1>1, <1>2, <1>9, <2>1, <2>2, AddTrinityNames DEF tri
<1> HIDE DEF tri, new
<1>17. Met(r, m, k + 1)
  <2>1. \A j \in 1..k + 1 : j \in 1..k \/ j = k + 1
    OBVIOUS
  <2>2. k + 1 \in 1..k + 1 /\ \A j \in 1..k : j \in 1..k + 1
    OBVIOUS
  <2>3. \A j \in 1..k : Names(tri, Devices(m)[j].mac)
    BY <1>6, <1>8, <1>16 DEF Met
  <2>4. ASSUME NEW i \in DOMAIN tri PROVE \E j \in 1..k + 1 : tri[i] = Devices(m)[j]
    BY <1>4, <1>14, <1>15, <2>2
  <2>5. \A j \in 1..k + 1 : Names(tri, Devices(m)[j].mac) /\ \A l \in DOMAIN r.nbrs : Clear(r.nbrs[l], Devices(m)[j])
    BY <1>4, <1>12, <1>13, <1>16, <2>1, <2>3
  <2> HIDE DEF tri
  <2> QED  BY <1>10, <2>4, <2>5 DEF Met
<1> QED  BY <1>4, <1>11, <1>17 DEF r

\* A hello keeps every address and every id of a virtual queue.
LEMMA NeighborLearnCovers ==
    ASSUME RadiosApart, RoutesOnLink, NEW nbrs, NEW w, Table(nbrs, w), NEW m \in Node
    PROVE  /\ Table(NeighborLearn(nbrs, Devices(m)), w)
           /\ Covers(nbrs, NeighborLearn(nbrs, Devices(m)))
<1> DEFINE pairs == Devices(m)
           N == Len(pairs)
           start == [nbrs |-> nbrs, new |-> NewNeighbor]
           out == FoldLeft(LearnPair, start, pairs)
           r == NeighborLearn(nbrs, pairs)
<1>1. N \in Nat \ {0} /\ DOMAIN pairs = 1..N
  BY DeviceAt
<1>2. r = AddNeighbor(out.nbrs, out.new)
  <2>1. pairs # <<>>
    BY <1>1
  <2> QED  BY Zenon, <2>1 DEF NeighborLearn
<1>a. Rows(r, w)
  BY NeighborLearnOk DEF Table
<1> HIDE DEF pairs, N, r
<1>3. PICK v : IsRun(v, "NeighborLearn", 0, start, pairs, N, out)
  <2>1. N \in Nat
    BY <1>1
  <2> QED  BY Zenon, <1>1, <2>1, LearnLoop
<1> HIDE DEF out
<1>4. /\ v[0] = start /\ v[N] = out
      /\ \A k \in 0..N - 1 : v[k + 1] = LearnPair(v[k], pairs[k + 1])
  BY <1>3 DEF IsRun, Turn
<1>5. LearnOk(start, m, w) /\ Gathers(start, nbrs, m) /\ Met(start, m, 0)
  <2>1. /\ NewNeighbor \in Neighbor /\ DOMAIN NewNeighbor.tri = {} /\ ToSet(NewNeighbor.vq) = {}
        /\ IsInjective(NewNeighbor.vq)
    BY DEF NewNeighbor, Neighbor, ToSet, IsInjective
  <2>2. start.nbrs = nbrs /\ start.new = NewNeighbor
    OBVIOUS
  <2>3. LearnOk(start, m, w)
    BY <2>1 DEF LearnOk, Table
  <2>4. Gathers(start, nbrs, m)
    BY <2>1, <2>2 DEF Gathers, NoneTwice, Table
  <2>5. Met(start, m, 0)
    BY <2>1, <2>2 DEF Met
  <2> QED  BY <2>3, <2>4, <2>5
<1> HIDE DEF start
<1> DEFINE T == {k \in 0..N : LearnOk(v[k], m, w) /\ Gathers(v[k], nbrs, m) /\ Met(v[k], m, k)}
<1>6. 0 \in T
  BY <1>1, <1>4, <1>5
<1>7. ASSUME NEW k \in 0..N - 1, k \in T PROVE k + 1 \in T
  <2>1. k + 1 \in DOMAIN Devices(m) /\ v[k + 1] = LearnPair(v[k], Devices(m)[k + 1]) /\ k \in Nat
    BY <1>1, <1>4 DEF pairs
  <2>2. LearnOk(v[k], m, w) /\ Gathers(v[k], nbrs, m) /\ Met(v[k], m, k)
    BY <1>7
  <2>3. LearnOk(LearnPair(v[k], Devices(m)[k + 1]), m, w)
    BY <2>1, <2>2, LearnPairOk
  <2>4. /\ Gathers(LearnPair(v[k], Devices(m)[k + 1]), nbrs, m)
        /\ Met(LearnPair(v[k], Devices(m)[k + 1]), m, k + 1)
    BY <2>1, <2>2, LearnPairMet
  <2>5. k + 1 \in 0..N
    BY <1>1
  <2> QED  BY <2>1, <2>3, <2>4, <2>5
<1> HIDE DEF T
<1>8. N \in T
  <2>1. \A k \in 0..N : k \in T
    BY <1>1, <1>6, <1>7, Upto
  <2> QED  BY <1>1, <2>1
<1>9. LearnOk(out, m, w) /\ Gathers(out, nbrs, m) /\ Met(out, m, N)
  BY <1>1, <1>4, <1>8 DEF T
<1>10. \A k \in DOMAIN out.nbrs : ~ ShareAddress(out.new, out.nbrs[k])
  <2> SUFFICES ASSUME NEW k \in DOMAIN out.nbrs, NEW i \in DOMAIN out.new.tri
               PROVE  ~ HasIP(out.nbrs[k], out.new.tri[i].ip) /\ ~ HasMac(out.nbrs[k], out.new.tri[i].mac)
    BY DEF ShareAddress
  <2>1. PICK j \in 1..N : out.new.tri[i] = Devices(m)[j]
    BY <1>9 DEF Met
  <2>2. Clear(out.nbrs[k], Devices(m)[j])
    BY <1>9 DEF Met
  <2> QED  BY <2>1, <2>2 DEF Clear
<1>11. r = Append(out.nbrs, out.new)
  BY <1>2, <1>10 DEF AddNeighbor
<1> DEFINE rows == out.nbrs
           new == out.new
<1>12. /\ DOMAIN rows = 1..Len(rows) /\ Len(rows) \in Nat /\ DOMAIN r = 1..Len(rows) + 1
       /\ \A i \in 1..Len(rows) + 1 : r[i] = IF i = Len(rows) + 1 THEN new ELSE rows[i]
  <2>1. rows \in Seq(Neighbor) /\ new \in Neighbor
    BY <1>9 DEF LearnOk, Rows
  <2> HIDE DEF rows, new
  <2> QED  BY <1>11, <2>1, AppendIs DEF rows, new
<1> HIDE DEF rows, new
<1>13. Len(rows) + 1 \in DOMAIN r /\ r[Len(rows) + 1] = new
  BY <1>12
<1>14. /\ \A i \in DOMAIN rows : i \in DOMAIN r /\ r[i] = rows[i]
       /\ \A i \in DOMAIN r : i = Len(rows) + 1 \/ (i \in DOMAIN rows /\ r[i] = rows[i])
  BY <1>12
<1>15. NoneTwice(r)
  <2>1. IsInjective(new.vq) /\ \A i \in DOMAIN rows : IsInjective(rows[i].vq)
    BY <1>9 DEF Gathers, NoneTwice, rows, new
  <2> QED  BY <1>13, <1>14, <2>1 DEF NoneTwice
<1>16. ASSUME NEW i \in DOMAIN nbrs PROVE \E l \in DOMAIN r : RowCovered(nbrs[i], r[l])
  <2>1. CASE \E l \in DOMAIN rows : rows[l] = nbrs[i]
    <3>1. PICK l \in DOMAIN rows : rows[l] = nbrs[i]
      BY <2>1
    <3>2. l \in DOMAIN r /\ r[l] = nbrs[i]
      BY <1>14, <3>1
    <3> QED  BY <3>2 DEF RowCovered
  <2>2. CASE Belongs(nbrs[i], m) /\ ToSet(nbrs[i].vq) \subseteq ToSet(new.vq)
    <3>1. ASSUME NEW mac, HasMac(nbrs[i], mac) PROVE HasMac(new, mac)
      <4>1. mac \in Macs(m)
        BY <2>2, <3>1 DEF HasMac, Belongs
      <4>2. PICK j \in 1..N : Devices(m)[j].mac = mac
        BY <1>1, <4>1 DEF Macs, pairs
      <4>3. Names(new.tri, mac)
        BY <1>9, <4>2 DEF Met, new
      <4> QED  BY <4>3 DEF Names, HasMac
    <3>2. RowCovered(nbrs[i], new)
      BY <2>2, <3>1 DEF RowCovered
    <3> QED  BY <1>13, <3>2
  <2> QED  BY <1>9, <2>1, <2>2 DEF Gathers, rows, new
<1>17. Table(r, w)
  BY <1>a, <1>15 DEF Table, NoneTwice
<1> QED  BY <1>16, <1>17 DEF Covers, r, pairs

\* A row whose trinities grow is covered.
LEMMA RetriCovers ==
    ASSUME NEW nbrs \in Seq(Neighbor), NEW k \in DOMAIN nbrs, NEW tri,
           \A mac : Names(nbrs[k].tri, mac) => Names(tri, mac),
           NEW r, r = Retri(nbrs, k, tri), NoneTwice(nbrs)
    PROVE  Covers(nbrs, r) /\ NoneTwice(r)
<1>1. nbrs[k] \in Neighbor
  OBVIOUS
<1>2. /\ DOMAIN r = DOMAIN nbrs /\ r[k].tri = tri /\ r[k].vq = nbrs[k].vq
      /\ \A l \in DOMAIN nbrs : l # k => r[l] = nbrs[l]
  BY <1>1 DEF Retri, Neighbor
<1>3. \A l \in DOMAIN nbrs : RowCovered(nbrs[l], r[l])
  <2> TAKE l \in DOMAIN nbrs
  <2>1. CASE l # k
    BY <1>2, <2>1 DEF RowCovered
  <2>2. CASE l = k
    <3>1. \A mac : HasMac(nbrs[k], mac) => HasMac(r[k], mac)
      BY <1>2 DEF Names, HasMac
    <3> QED  BY <1>2, <2>2, <3>1 DEF RowCovered
  <2> QED  BY <2>1, <2>2
<1>4. NoneTwice(r)
  BY <1>2 DEF NoneTwice
<1> QED  BY <1>2, <1>3, <1>4 DEF Covers

\* So does a data frame.
LEMMA SMNeighborsCovers ==
    ASSUME RadiosApart, RoutesOnLink, NEW nbrs, NEW w, Table(nbrs, w), NEW m \in Node,
           NEW t \in Trinity, t.mac \in Macs(m), t.ip \in Ips(m)
    PROVE  Table(SMNeighbors(nbrs, t), w) /\ Covers(nbrs, SMNeighbors(nbrs, t))
<1> DEFINE a == SearchIp(nbrs, t.ip)
           b == SearchMac(nbrs, t.mac)
           r == SMNeighbors(nbrs, t)
<1>1. nbrs \in Seq(Neighbor) /\ Rows(nbrs, w) /\ 0 \notin DOMAIN nbrs /\ NoneTwice(nbrs)
      /\ \A k \in DOMAIN nbrs : nbrs[k] \in Neighbor /\ Row(nbrs[k], w)
  <2>1. nbrs \in Seq(Neighbor) /\ Rows(nbrs, w) /\ \A k \in DOMAIN nbrs : Row(nbrs[k], w)
    BY DEF Table, Rows, RowsOn
  <2>2. 0 \notin DOMAIN nbrs /\ \A k \in DOMAIN nbrs : nbrs[k] \in Neighbor
    BY <2>1
  <2>3. NoneTwice(nbrs)
    BY DEF Table, NoneTwice
  <2> QED  BY <2>1, <2>2, <2>3
<1>2. IpAt(nbrs, t.ip, a) /\ MacAt(nbrs, t.mac, b)
  BY <1>1, SearchIpIn, SearchMacIn
<1>3. r = CASE a # 0 /\ b = 0 -> [nbrs EXCEPT ![a].tri = AddSoftTrinity(@, t)]
            [] a = 0 /\ b # 0 -> [nbrs EXCEPT ![b].tri = AddTrinity(@, t)]
            [] a # 0 /\ b # 0 -> IF a = b THEN nbrs ELSE MergeNeighbors(nbrs, a, b, t)
            [] OTHER          -> AddNeighbor(nbrs, [NewNeighbor EXCEPT !.tri = AddTrinity(@, t)])
  BY DEF SMNeighbors
<1>a. Rows(r, w)
  BY SMNeighborsOk
<1> SUFFICES Covers(nbrs, r) /\ NoneTwice(r)
  BY <1>a DEF Table, NoneTwice
<1> HIDE DEF a, b, r
<1>4. a # 0 => a \in DOMAIN nbrs /\ HasIP(nbrs[a], t.ip)
  BY <1>2 DEF IpAt
<1>5. b # 0 => b \in DOMAIN nbrs /\ HasMac(nbrs[b], t.mac) /\ Belongs(nbrs[b], m)
  <2> HAVE b # 0
  <2>1. b \in DOMAIN nbrs /\ HasMac(nbrs[b], t.mac)
    BY <1>2 DEF MacAt
  <2> QED  BY <1>1, <2>1, RowOwner
<1>6. ASSUME b # 0, a # b
      PROVE  \A mac : Names(nbrs[b].tri, mac) => Names(AddTrinity(nbrs[b].tri, t), mac)
  <2>1. b \in DOMAIN nbrs /\ nbrs[b].tri \in Seq(Trinity)
    BY <1>1, <1>5, <1>6 DEF Neighbor
  <2>2. \A j \in DOMAIN nbrs[b].tri : nbrs[b].tri[j].mac \in Macs(m)
    BY <1>5, <1>6 DEF Belongs
  <2>3. ~ HasIP(nbrs[b], t.ip)
    <3>1. CASE a = 0
      BY <1>2, <2>1, <3>1 DEF IpAt
    <3>2. CASE a # 0
      <4>1. ~ ShareAddress(nbrs[a], nbrs[b]) /\ HasIP(nbrs[a], t.ip)
        BY <1>1, <1>4, <1>6, <2>1, <3>2 DEF Rows, RowsOn
      <4>2. t.ip # ZeroIp
        BY Numbers DEF ZeroIp
      <4> QED  BY <4>1, <4>2 DEF ShareAddress, HasIP
    <3> QED  BY <3>1, <3>2
  <2>4. \A j \in DOMAIN nbrs[b].tri : nbrs[b].tri[j].ip = t.ip => nbrs[b].tri[j].mac = t.mac
    BY <2>3 DEF HasIP
  <2> DEFINE tri == nbrs[b].tri
  <2> HIDE DEF tri
  <2>5. \A mac : Names(tri, mac) => Names(AddTrinity(tri, t), mac)
    BY <2>1, <2>2, <2>4, AddTrinityNames DEF tri
  <2> QED  BY <2>5 DEF tri
<1>7. CASE a # 0 /\ b = 0
  <2> DEFINE old == nbrs[a].tri
             tri == Append(old, t)
  <2>1. r = Retri(nbrs, a, tri)
    BY <1>3, <1>7 DEF AddSoftTrinity, Retri
  <2>2. old \in Seq(Trinity) /\ a \in DOMAIN nbrs
    BY <1>1, <1>4, <1>7 DEF Neighbor
  <2> HIDE DEF old
  <2>3. /\ DOMAIN tri = 1..Len(old) + 1 /\ DOMAIN old = 1..Len(old) /\ Len(old) \in Nat
        /\ \A i \in 1..Len(old) + 1 : tri[i] = IF i = Len(old) + 1 THEN t ELSE old[i]
    BY <2>2, AppendIs
  <2> HIDE DEF tri
  <2>4. \A i \in DOMAIN old : i \in DOMAIN tri /\ tri[i] = old[i]
    BY <2>3
  <2>5. \A mac : Names(old, mac) => Names(tri, mac)
    BY <2>4 DEF Names
  <2> QED  BY <1>1, <2>1, <2>2, <2>5, RetriCovers DEF old
<1>8. CASE a = 0 /\ b # 0
  <2> DEFINE tri == AddTrinity(nbrs[b].tri, t)
  <2>1. r = Retri(nbrs, b, tri)
    BY <1>3, <1>8 DEF Retri
  <2>2. b \in DOMAIN nbrs /\ \A mac : Names(nbrs[b].tri, mac) => Names(tri, mac)
    BY <1>5, <1>6, <1>8
  <2> HIDE DEF tri
  <2> QED  BY <1>1, <2>1, <2>2, RetriCovers
<1>9. CASE a # 0 /\ b # 0 /\ a = b
  <2>1. r = nbrs
    BY <1>3, <1>9
  <2> QED  BY <1>1, <2>1 DEF Covers, RowCovered
<1>10. CASE a # 0 /\ b # 0 /\ a # b
  <2> DEFINE added == AddTrinity(nbrs[b].tri, t)
             tri == nbrs[a].tri \o added
             vq == nbrs[a].vq \o nbrs[b].vq
             nbr == [tri |-> tri, vq |-> vq]
             merged == [nbrs EXCEPT ![a] = nbr]
  <2>1. a \in DOMAIN nbrs /\ b \in DOMAIN nbrs
    BY <1>4, <1>5, <1>10
  <2>2. r = RemoveAt(merged, b)
    BY <1>3, <1>10 DEF MergeNeighbors
  <2>3. /\ nbrs[a].tri \in Seq(Trinity) /\ nbrs[a].vq \in Seq(Packet)
        /\ nbrs[b].tri \in Seq(Trinity) /\ nbrs[b].vq \in Seq(Packet)
    BY <1>1, <2>1 DEF Neighbor
  <2>4. added \in Seq(Trinity) /\ \A mac : Names(nbrs[b].tri, mac) => Names(added, mac)
    BY <1>6, <1>10, <2>3, AddTrinityIs
  <2> HIDE DEF added
  <2>5. tri \in Seq(Trinity) /\ ToSet(tri) = ToSet(nbrs[a].tri) \cup ToSet(added)
    BY <2>3, <2>4, ConcatIs
  <2>6. /\ vq \in Seq(Packet) /\ ToSet(vq) = ToSet(nbrs[a].vq) \cup ToSet(nbrs[b].vq)
        /\ IsInjective(vq)
    <3>1. ToSet(nbrs[a].vq) \cap ToSet(nbrs[b].vq) = {}
      BY <1>1, <1>10, <2>1 DEF Rows, RowsOn
    <3>2. IsInjective(nbrs[a].vq) /\ IsInjective(nbrs[b].vq)
      BY <1>1, <2>1 DEF NoneTwice
    <3> QED  BY <2>3, <3>1, <3>2, ConcatIs, ConcatInjective
  <2>7. \A q, mac : Names(q, mac) <=> \E x \in ToSet(q) : x.mac = mac
    BY DEF Names, ToSet
  <2>8. /\ \A mac : Names(nbrs[a].tri, mac) => Names(tri, mac)
        /\ \A mac : Names(nbrs[b].tri, mac) => Names(tri, mac)
    <3> HIDE DEF tri
    <3>1. \A mac : Names(added, mac) => Names(tri, mac)
      BY <2>5, <2>7
    <3> QED  BY <2>4, <2>5, <2>7, <3>1
  <2> HIDE DEF tri, vq
  <2>9. nbr \in Neighbor /\ nbr.tri = tri /\ nbr.vq = vq
    BY <2>5, <2>6 DEF Neighbor
  <2> HIDE DEF nbr
  <2>10. RowCovered(nbrs[a], nbr) /\ RowCovered(nbrs[b], nbr)
    <3>1. \A x, mac : HasMac(x, mac) <=> Names(x.tri, mac)
      BY DEF HasMac, Names
    <3> QED  BY <2>6, <2>8, <2>9, <3>1 DEF RowCovered
  <2>11. /\ merged \in Seq(Neighbor) /\ DOMAIN merged = DOMAIN nbrs /\ merged[a] = nbr
         /\ \A k \in DOMAIN nbrs \ {a} : merged[k] = nbrs[k]
    BY <1>1, <2>1, <2>9
  <2> HIDE DEF merged
  <2>12. /\ Len(r) = Len(nbrs) - 1 /\ DOMAIN nbrs = 1..Len(nbrs) /\ Len(nbrs) \in Nat
         /\ DOMAIN r = 1..Len(r)
         /\ \A i \in 1..Len(nbrs) - 1 : r[i] = merged[IF i < b THEN i ELSE i + 1]
    <3>1. /\ r \in Seq(Neighbor) /\ Len(r) = Len(merged) - 1
          /\ \A i \in 1..Len(merged) - 1 : r[i] = merged[IF i < b THEN i ELSE i + 1]
      BY <2>1, <2>2, <2>11, RemoveAtIs
    <3>2. Len(merged) = Len(nbrs)
      BY <1>1, <2>11
    <3> QED  BY <1>1, <3>1, <3>2
  <2>13. /\ \A i \in DOMAIN r : \E j \in DOMAIN nbrs \ {b} : r[i] = merged[j]
         /\ \A j \in DOMAIN nbrs \ {b} : \E i \in DOMAIN r : r[i] = merged[j]
    <3>1. ASSUME NEW i \in DOMAIN r PROVE \E j \in DOMAIN nbrs \ {b} : r[i] = merged[j]
      <4>1. (IF i < b THEN i ELSE i + 1) \in DOMAIN nbrs \ {b}
        BY <2>1, <2>12
      <4> QED  BY <2>12, <4>1
    <3>2. ASSUME NEW j \in DOMAIN nbrs \ {b} PROVE \E i \in DOMAIN r : r[i] = merged[j]
      <4>1. CASE j < b
        <5>1. j \in DOMAIN r /\ r[j] = merged[j]
          BY <2>1, <2>12, <4>1
        <5> QED  BY <5>1
      <4>2. CASE j > b
        <5>1. j - 1 \in DOMAIN r /\ r[j - 1] = merged[j]
          BY <2>1, <2>12, <4>2
        <5> QED  BY <5>1
      <4> QED  BY <2>1, <2>12, <4>1, <4>2
    <3> QED  BY <3>1, <3>2
  <2>14. NoneTwice(r)
    <3>1. \A j \in DOMAIN nbrs \ {b} : IsInjective(merged[j].vq)
      BY <1>1, <2>6, <2>9, <2>11 DEF NoneTwice
    <3> QED  BY <2>13, <3>1 DEF NoneTwice
  <2>15. ASSUME NEW j \in DOMAIN nbrs PROVE \E i \in DOMAIN r : RowCovered(nbrs[j], r[i])
    <3>1. PICK i \in DOMAIN r : r[i] = nbr
      BY <1>10, <2>1, <2>11, <2>13
    <3>2. CASE j = a \/ j = b
      BY <2>10, <3>1, <3>2
    <3>3. CASE j # a /\ j # b
      <4>1. PICK l \in DOMAIN r : r[l] = merged[j]
        BY <2>13, <3>3
      <4>2. r[l] = nbrs[j]
        BY <2>11, <3>3, <4>1
      <4> QED  BY <4>2 DEF RowCovered
    <3> QED  BY <3>2, <3>3
  <2> QED  BY <2>14, <2>15 DEF Covers
<1>11. CASE a = 0 /\ b = 0
  <2> DEFINE nbr == [NewNeighbor EXCEPT !.tri = AddTrinity(<<>>, t)]
  <2>1. r = AddNeighbor(nbrs, nbr)
    BY <1>3, <1>11 DEF NewNeighbor
  <2>2. nbr \in Neighbor /\ IsInjective(nbr.vq)
    <3>1. AddTrinity(<<>>, t) \in Seq(Trinity)
      <4>1. <<>> \in Seq(Trinity)
        OBVIOUS
      <4> QED  BY <4>1, AddTrinityIs
    <3>2. nbr = [tri |-> AddTrinity(<<>>, t), vq |-> <<>>]
      BY DEF NewNeighbor
    <3>3. <<>> \in Seq(Packet)
      OBVIOUS
    <3> HIDE DEF nbr
    <3>4. nbr.vq = <<>> /\ nbr \in Neighbor
      BY <3>1, <3>2, <3>3 DEF Neighbor
    <3>5. IsInjective(<<>>)
      BY DEF IsInjective
    <3> QED  BY <3>4, <3>5
  <2> HIDE DEF nbr
  <2>3. CASE r = nbrs
    BY <1>1, <2>3 DEF Covers, RowCovered
  <2>4. CASE r = Append(nbrs, nbr)
    <3>1. /\ DOMAIN r = 1..Len(nbrs) + 1 /\ DOMAIN nbrs = 1..Len(nbrs) /\ Len(nbrs) \in Nat
          /\ \A i \in 1..Len(nbrs) + 1 : r[i] = IF i = Len(nbrs) + 1 THEN nbr ELSE nbrs[i]
      BY <1>1, <2>2, <2>4, AppendIs
    <3>2. \A i \in DOMAIN nbrs : i \in DOMAIN r /\ r[i] = nbrs[i]
      BY <3>1
    <3>3. \A i \in DOMAIN r : r[i] = nbr \/ (i \in DOMAIN nbrs /\ r[i] = nbrs[i])
      BY <3>1
    <3> QED  BY <1>1, <2>2, <3>2, <3>3 DEF Covers, RowCovered, NoneTwice
  <2> QED  BY <2>1, <2>3, <2>4 DEF AddNeighbor
<1> QED  BY <1>7, <1>8, <1>9, <1>10, <1>11

-----------------------------------------------------------------------------
(* Everything that waits is filed under its next hop.                      *)

\* Then the one is filed as the other is.
LEMMA AlikeGoes ==
    ASSUME NEW H, NEW s, NEW t, Alike(s, t), Goes(H, s)
    PROVE  Goes(H, t)
BY DEF Alike, Goes, Running, Filed

\* What a running node is.
LEMMA FiledGoes ==
    ASSUME NEW H, NEW s, Filed(s), Running(s)
    PROVE  Goes(H, s)
BY DEF Goes

\* A failed assertion of H.
LEMMA AbortGoes ==
    ASSUME NEW H, NEW s, Shape(s), Running(s), NEW why, why # None, why \in H
    PROVE  Goes(H, Abort(s, why))
<1>1. Abort(s, why) = [s EXCEPT !.abort = why]
  BY DEF Abort, Running
<1>2. Abort(s, why).abort = why
  BY <1>1 DEF Shape
<1> QED  BY <1>2 DEF Goes, Running

\* The timer changes nothing else.
LEMMA TimerAlike ==
    ASSUME NEW s
    PROVE  Alike(s, DoSendEnd(s))
BY DEF Alike, DoSendEnd

\* Whatever is filed in a table is filed in one that covers it.
LEMMA CoversFiled ==
    ASSUME NEW old, NEW new, Covers(old, new), NEW q
    PROVE  /\ Listed(old, q) => Listed(new, q)
           /\ Reachable(old, q) => Reachable(new, q)
<1>1. ASSUME Listed(old, q) PROVE Listed(new, q)
  <2> SUFFICES ASSUME NEW i \in DOMAIN q, Unicast(q[i])
               PROVE  \E k \in DOMAIN new : HasMac(new[k], q[i].dest) /\ q[i].pid \in ToSet(new[k].vq)
    BY DEF Listed
  <2>1. PICK k \in DOMAIN old : HasMac(old[k], q[i].dest) /\ q[i].pid \in ToSet(old[k].vq)
    BY <1>1 DEF Listed
  <2>2. PICK l \in DOMAIN new : RowCovered(old[k], new[l])
    BY DEF Covers
  <2> QED  BY <2>1, <2>2 DEF RowCovered
<1>2. ASSUME Reachable(old, q) PROVE Reachable(new, q)
  <2> SUFFICES ASSUME NEW i \in DOMAIN q PROVE \E k \in DOMAIN new : HasMac(new[k], q[i].dest)
    BY DEF Reachable
  <2>1. PICK k \in DOMAIN old : HasMac(old[k], q[i].dest)
    BY <1>2 DEF Reachable
  <2>2. PICK l \in DOMAIN new : RowCovered(old[k], new[l])
    BY DEF Covers
  <2> QED  BY <2>1, <2>2 DEF RowCovered
<1> QED  BY <1>1, <1>2

\* Fewer entries.
LEMMA FewerFiled ==
    ASSUME NEW nbrs, NEW q, NEW r
    PROVE  /\ Listed(nbrs, q) /\ (\A i \in DOMAIN r : \E j \in DOMAIN q : r[i] = q[j]) => Listed(nbrs, r)
           /\ Reachable(nbrs, q) /\ (\A i \in DOMAIN r : \E j \in DOMAIN q : r[i] = q[j]) => Reachable(nbrs, r)
<1>1. Listed(nbrs, q) /\ (\A i \in DOMAIN r : \E j \in DOMAIN q : r[i] = q[j]) => Listed(nbrs, r)
  BY DEF Listed
<1>2. Reachable(nbrs, q) /\ (\A i \in DOMAIN r : \E j \in DOMAIN q : r[i] = q[j]) => Reachable(nbrs, r)
  BY DEF Reachable
<1> QED  BY <1>1, <1>2

\* An address is in one row.
LEMMA OneRow ==
    ASSUME NEW nbrs, NEW w, Rows(nbrs, w), NEW mac, NEW k \in DOMAIN nbrs, NEW l \in DOMAIN nbrs,
           HasMac(nbrs[k], mac), HasMac(nbrs[l], mac)
    PROVE  k = l
<1>1. k # l => ~ ShareAddress(nbrs[k], nbrs[l])
  BY DEF Rows, RowsOn
<1>2. ShareAddress(nbrs[k], nbrs[l])
  BY DEF ShareAddress, HasMac
<1> QED  BY <1>1, <1>2

\* SearchMac finds it.
LEMMA RowFound ==
    ASSUME NEW nbrs, NEW w, Rows(nbrs, w), NEW mac, NEW k \in DOMAIN nbrs, HasMac(nbrs[k], mac)
    PROVE  SearchMac(nbrs, mac) = k /\ k # 0
<1> DEFINE l == SearchMac(nbrs, mac)
<1>1. nbrs \in Seq(Neighbor)
  BY DEF Rows
<1>2. MacAt(nbrs, mac, l)
  BY <1>1, SearchMacIn
<1> HIDE DEF l
<1>3. l \in DOMAIN nbrs /\ HasMac(nbrs[l], mac)
  BY <1>2 DEF MacAt
<1>4. l = k
  BY <1>3, OneRow
<1>5. 0 \notin DOMAIN nbrs
  BY <1>1
<1> QED  BY <1>4, <1>5 DEF l

\* Then they have the same addresses.
LEMMA SameMacs ==
    ASSUME NEW a, NEW b, SameRows(a, b)
    PROVE  /\ \A k \in DOMAIN a : GetMac(b[k]) = GetMac(a[k])
           /\ \A k \in DOMAIN a : \A mac : HasMac(b[k], mac) <=> HasMac(a[k], mac)
           /\ \A q : Reachable(a, q) => Reachable(b, q)
<1>1. \A k \in DOMAIN a : b[k].tri = a[k].tri
  BY DEF SameRows
<1>2. \A k \in DOMAIN a : GetMac(b[k]) = GetMac(a[k])
  BY ONLY <1>1 DEF GetMac
<1>3. \A k \in DOMAIN a : \A mac : HasMac(b[k], mac) <=> HasMac(a[k], mac)
  BY ONLY Zenon, <1>1 DEF HasMac
<1>4. \A q : Reachable(a, q) => Reachable(b, q)
  BY <1>3 DEF Reachable, SameRows
<1> QED  BY <1>2, <1>3, <1>4

\* Another virtual queue is no other row.
LEMMA QueuedSame ==
    ASSUME NEW nbrs \in Seq(Neighbor), NEW k \in DOMAIN nbrs, NEW vq, NEW b, b = Queued(nbrs, k, vq)
    PROVE  /\ SameRows(nbrs, b) /\ b[k].vq = vq
           /\ \A l \in DOMAIN nbrs : l # k => b[l] = nbrs[l]
<1>1. nbrs[k] \in Neighbor
  OBVIOUS
<1>2. DOMAIN b = DOMAIN nbrs /\ b[k].tri = nbrs[k].tri /\ b[k].vq = vq
      /\ \A l \in DOMAIN nbrs : l # k => b[l] = nbrs[l]
  BY <1>1 DEF Queued, Neighbor
<1>3. \A l \in DOMAIN nbrs : b[l].tri = nbrs[l].tri
  BY <1>2
<1> QED  BY <1>2, <1>3 DEF SameRows

\* An id leaves a virtual queue and the output queue together.
LEMMA ListedLess ==
    ASSUME NEW nbrs \in Seq(Neighbor), NEW k \in DOMAIN nbrs, NEW q, Listed(nbrs, q),
           NEW pid, NEW vq, Minus(nbrs[k].vq, pid, vq), NEW r, Dropped(q, pid, r),
           NEW b, b = Queued(nbrs, k, vq)
    PROVE  Listed(b, r)
<1>1. /\ SameRows(nbrs, b) /\ b[k].vq = vq
      /\ \A l \in DOMAIN nbrs : l # k => b[l] = nbrs[l]
  BY QueuedSame
<1>2. DOMAIN b = DOMAIN nbrs /\ \A l \in DOMAIN nbrs : \A mac : HasMac(b[l], mac) <=> HasMac(nbrs[l], mac)
  BY <1>1, SameMacs DEF SameRows
<1> SUFFICES ASSUME NEW i \in DOMAIN r, Unicast(r[i])
             PROVE  \E l \in DOMAIN b : HasMac(b[l], r[i].dest) /\ r[i].pid \in ToSet(b[l].vq)
  BY DEF Listed
<1>3. PICK j \in DOMAIN q : r[i] = q[j] /\ q[j].pid # pid
  BY DEF Dropped
<1>4. PICK l \in DOMAIN nbrs : HasMac(nbrs[l], q[j].dest) /\ q[j].pid \in ToSet(nbrs[l].vq)
  BY <1>3 DEF Listed
<1>5. r[i].pid \in ToSet(b[l].vq)
  <2>1. CASE l = k
    BY <1>1, <1>3, <1>4, <2>1 DEF Minus
  <2>2. CASE l # k
    BY <1>1, <1>3, <1>4, <2>2
  <2> QED  BY <2>1, <2>2
<1> QED  BY <1>2, <1>3, <1>4, <1>5

\* An id joins a virtual queue and the output queue together.
LEMMA ListedMore ==
    ASSUME NEW nbrs \in Seq(Neighbor), NEW k \in DOMAIN nbrs, NEW q, Listed(nbrs, q),
           NEW e, HasMac(nbrs[k], e.dest), NEW vq, Plus(nbrs[k].vq, e.pid, vq), NEW r, Added(q, e, r),
           NEW b, b = Queued(nbrs, k, vq)
    PROVE  Listed(b, r)
<1>1. /\ SameRows(nbrs, b) /\ b[k].vq = vq
      /\ \A l \in DOMAIN nbrs : l # k => b[l] = nbrs[l]
  BY QueuedSame
<1>2. DOMAIN b = DOMAIN nbrs /\ \A l \in DOMAIN nbrs : \A mac : HasMac(b[l], mac) <=> HasMac(nbrs[l], mac)
  BY <1>1, SameMacs DEF SameRows
<1> SUFFICES ASSUME NEW i \in DOMAIN r, Unicast(r[i])
             PROVE  \E l \in DOMAIN b : HasMac(b[l], r[i].dest) /\ r[i].pid \in ToSet(b[l].vq)
  BY DEF Listed
<1>3. CASE r[i] = e
  BY <1>1, <1>2, <1>3 DEF Plus
<1>4. CASE \E j \in DOMAIN q : r[i] = q[j]
  <2>1. PICK j \in DOMAIN q : r[i] = q[j]
    BY <1>4
  <2>2. PICK l \in DOMAIN nbrs : HasMac(nbrs[l], q[j].dest) /\ q[j].pid \in ToSet(nbrs[l].vq)
    BY <2>1 DEF Listed
  <2>3. r[i].pid \in ToSet(b[l].vq)
    <3>1. CASE l = k
      BY <1>1, <2>1, <2>2, <3>1 DEF Plus
    <3>2. CASE l # k
      BY <1>1, <2>1, <2>2, <3>2
    <3> QED  BY <3>1, <3>2
  <2> QED  BY <1>2, <2>1, <2>2, <2>3
<1> QED  BY <1>3, <1>4 DEF Added

\* An entry for a neighbor joins the retransmission queue.
LEMMA ReachableMore ==
    ASSUME NEW nbrs, NEW q \in Seq(Entry), Reachable(nbrs, q), NEW e \in Entry,
           NEW k \in DOMAIN nbrs, HasMac(nbrs[k], e.dest), NEW r, r = EnqueueBack(q, e)
    PROVE  Reachable(nbrs, r)
<1>1. CASE r = q
  BY <1>1
<1>2. CASE r = Append(q, e)
  <2>1. /\ Len(q) \in Nat /\ DOMAIN q = 1..Len(q) /\ DOMAIN r = 1..Len(q) + 1
        /\ \A i \in 1..Len(q) + 1 : r[i] = IF i = Len(q) + 1 THEN e ELSE q[i]
    BY <1>2, AppendIs
  <2>2. \A i \in DOMAIN r : r[i] = e \/ (i \in DOMAIN q /\ r[i] = q[i])
    BY <2>1
  <2> QED  BY <2>2 DEF Reachable
<1> QED  BY <1>1, <1>2 DEF EnqueueBack

\* The front of the virtual queue at i goes to an address of its row.
LEMMA FrontHome ==
    ASSUME NEW V, NEW n, NEW s, Sound(n, V, s), Listed(s.nbrs, s.queue),
           NEW i \in DOMAIN s.nbrs, s.nbrs[i].vq # <<>>,
           NEW m \in Node, NEW j \in DOMAIN s.queue, FrontIs(s, s.nbrs[i], m, j)
    PROVE  HasMac(s.nbrs[i], s.queue[j].dest)
<1>1. Unicast(s.queue[j]) /\ s.queue[j].pid \in ToSet(s.nbrs[i].vq)
  BY FrontOf DEF FrontIs
<1>2. PICK k \in DOMAIN s.nbrs : HasMac(s.nbrs[k], s.queue[j].dest) /\ s.queue[j].pid \in ToSet(s.nbrs[k].vq)
  BY <1>1 DEF Listed
<1>3. k # i => ToSet(s.nbrs[k].vq) \cap ToSet(s.nbrs[i].vq) = {}
  BY DEF Sound, Table, Rows, RowsOn
<1>4. k = i
  BY <1>1, <1>2, <1>3
<1> QED  BY <1>2, <1>4

\* A native that is taken leaves the node filed.
LEMMA TakenFiled ==
    ASSUME NEW V, NEW n, NEW s, Sound(n, V, s), Filed(s), NEW i \in DOMAIN s.nbrs, s.nbrs[i].vq # <<>>,
           NEW m \in Node, NEW j \in DOMAIN s.queue, FrontIs(s, s.nbrs[i], m, j),
           NEW R, R = s.rtq \/ R = EnqueueBack(s.rtq, s.queue[j]),
           NEW t, t = Taken(s, i, j, R)
    PROVE  Filed(t) /\ SameRows(s.nbrs, t.nbrs) /\ t.abort = s.abort
<1> DEFINE e == s.queue[j]
           vq == Tail(s.nbrs[i].vq)
           B == Queued(s.nbrs, i, vq)
           Q == Erase(s.queue, e.pid)
<1>1. t.queue = Q /\ t.rtq = R /\ t.nbrs = B /\ t.abort = s.abort
  BY DEF Sound, Shape, Taken, Queued
<1>2. /\ s.queue \in Seq(Entry) /\ Distinct(s.queue) /\ s.rtq \in Seq(Entry)
      /\ s.nbrs \in Seq(Neighbor) /\ IsInjective(s.nbrs[i].vq)
  BY DEF Sound, QueueOk, RtqOk, Table, Rows
<1>3. \A y \in DOMAIN Q : \E x \in DOMAIN s.queue : Q[y] = s.queue[x] /\ s.queue[x].pid # e.pid
  BY <1>2, EraseThins
<1>4. ToSet(vq) = ToSet(s.nbrs[i].vq) \ {e.pid}
  <2> DEFINE old == s.nbrs[i].vq
  <2>1. s.nbrs[i] \in Neighbor
    BY <1>2
  <2>2. old \in Seq(Packet) /\ old # <<>> /\ IsInjective(old) /\ Head(old) = e.pid
    BY <1>2, <2>1 DEF Neighbor, FrontIs
  <2> HIDE DEF old
  <2>3. ToSet(Tail(old)) = ToSet(old) \ {Head(old)}
    BY <2>2, TailInjective
  <2> QED  BY <2>2, <2>3 DEF old
<1>5. e \in Entry /\ HasMac(s.nbrs[i], e.dest)
  BY <1>2, FrontHome DEF Filed
<1> HIDE DEF B, Q, vq, e
<1>6. B = Queued(s.nbrs, i, vq)
  BY DEF B
<1>7. Listed(B, Q)
  <2>1. Listed(s.nbrs, s.queue)
    BY DEF Filed
  <2>2. Minus(s.nbrs[i].vq, e.pid, vq) /\ Dropped(s.queue, e.pid, Q)
    BY <1>3, <1>4 DEF Minus, Dropped
  <2> QED  BY <1>2, <1>6, <2>1, <2>2, ListedLess
<1>8. SameRows(s.nbrs, B)
  BY <1>2, <1>6, QueuedSame
<1>9. Reachable(s.nbrs, R)
  <2>1. Reachable(s.nbrs, s.rtq)
    BY DEF Filed
  <2>2. CASE R = s.rtq
    BY <2>1, <2>2
  <2>3. CASE R = EnqueueBack(s.rtq, e)
    BY <1>2, <1>5, <2>1, <2>3, ReachableMore
  <2> QED  BY <2>2, <2>3 DEF e
<1>10. Reachable(B, R)
  BY <1>8, <1>9, SameMacs
<1> QED  BY <1>1, <1>7, <1>8, <1>10 DEF Filed

\* One more native.
LEMMA HomedMore ==
    ASSUME NEW acc, Homed(acc), NEW e, NEW i \in DOMAIN acc.s.nbrs, HasMac(acc.s.nbrs[i], e.dest),
           NEW u, Filed(u.s), SameRows(acc.s.nbrs, u.s.nbrs), u.ids = acc.ids \cup {First(e)},
           u.nexthops = acc.nexthops \cup {GetMac(acc.s.nbrs[i])}
    PROVE  Homed(u)
<1>1. /\ \A k \in DOMAIN acc.s.nbrs : GetMac(u.s.nbrs[k]) = GetMac(acc.s.nbrs[k])
      /\ \A k \in DOMAIN acc.s.nbrs : \A mac : HasMac(u.s.nbrs[k], mac) <=> HasMac(acc.s.nbrs[k], mac)
      /\ DOMAIN u.s.nbrs = DOMAIN acc.s.nbrs
  <2> DEFINE a == acc.s.nbrs
             b == u.s.nbrs
  <2>1. SameRows(a, b) /\ DOMAIN b = DOMAIN a
    BY DEF SameRows
  <2> HIDE DEF a, b
  <2>2. /\ \A k \in DOMAIN a : GetMac(b[k]) = GetMac(a[k])
        /\ \A k \in DOMAIN a : \A mac : HasMac(b[k], mac) <=> HasMac(a[k], mac)
    BY Zenon, <2>1, SameMacs
  <2> QED  BY <2>1, <2>2 DEF a, b
<1> SUFFICES ASSUME NEW id \in u.ids
             PROVE  \E k \in DOMAIN u.s.nbrs : HasMac(u.s.nbrs[k], id.mac) /\ GetMac(u.s.nbrs[k]) \in u.nexthops
  BY DEF Homed
<1>2. CASE id \in acc.ids
  <2>1. PICK k \in DOMAIN acc.s.nbrs : HasMac(acc.s.nbrs[k], id.mac) /\ GetMac(acc.s.nbrs[k]) \in acc.nexthops
    BY <1>2 DEF Homed
  <2> QED  BY <1>1, <2>1
<1>3. CASE id = First(e)
  <2>1. id.mac = e.dest
    BY <1>3 DEF First
  <2> QED  BY <1>1, <2>1
<1> QED  BY <1>2, <1>3

\* A native that joins the frame goes to no next hop the frame already has.
LEMMA TakeNativeGoes ==
    ASSUME NEW H, NEW V, NEW n \in Node, NEW s, NEW entry, NEW acc, EncodeOk(n, V, s, entry, acc),
           Running(acc.s), EncodeGoes(H, acc),
           NEW i \in DOMAIN acc.s.nbrs, acc.s.nbrs[i].vq # <<>>, GetMac(acc.s.nbrs[i]) \notin acc.nexthops,
           NEW usable
    PROVE  EncodeGoes(H, TakeNative(n, acc, i, usable))
<1> DEFINE nbr == acc.s.nbrs[i]
           pid == Head(nbr.vq)
           e == QueueEntry(acc.s, pid)
           last == CHOOSE c \in usable : \A d \in usable : d <= c
           r == TakeNative(n, acc, i, usable)
<1>1. AccShape(acc) /\ Sound(n, V, acc.s) /\ Shape(acc.s)
  BY DEF EncodeOk, Encoding, Sound
<1>2. Homed(acc) /\ Filed(acc.s)
  BY DEF EncodeGoes, Homed
<1>3. PICK m \in Node, j \in DOMAIN acc.s.queue : FrontIs(acc.s, nbr, m, j)
  BY <1>1, FrontOf
<1>4. e = acc.s.queue[j]
  BY <1>3 DEF FrontIs
<1>5. HasMac(nbr, acc.s.queue[j].dest)
  BY <1>1, <1>2, <1>3, FrontHome DEF Filed
<1>6. ~ \E id \in acc.ids : id.mac = e.dest
  <2> SUFFICES ASSUME NEW id \in acc.ids, id.mac = e.dest PROVE FALSE
    OBVIOUS
  <2>1. PICK k \in DOMAIN acc.s.nbrs : HasMac(acc.s.nbrs[k], id.mac) /\ GetMac(acc.s.nbrs[k]) \in acc.nexthops
    BY <1>2 DEF Homed
  <2>2. Rows(acc.s.nbrs, Awaited(acc.s.queue)) /\ HasMac(acc.s.nbrs[k], acc.s.queue[j].dest)
    <3>1. id.mac = acc.s.queue[j].dest
      BY <1>4
    <3> QED  BY ONLY <1>1, <2>1, <3>1 DEF Sound, Table
  <2>3. k = i
    BY <1>5, <2>2, OneRow
  <2> QED  BY <2>1, <2>3
<1> DEFINE d == acc.s.queue[j]
           R == IF HitMax(d) THEN acc.s.rtq ELSE EnqueueBack(acc.s.rtq, d)
           t == Taken(acc.s, i, j, R)
           u == [s |-> t, first |-> acc.first, nexthops |-> acc.nexthops \cup {GetMac(nbr)},
                 natives |-> acc.natives \cup {e.pid}, channels |-> acc.channels,
                 iface |-> Index(n, last), pkt |-> XOR(acc.first.pid, e.pid),
                 encoded |-> TRUE, ids |-> acc.ids \cup {First(d)}]
<1>7. r = u
  <2>1. r = [acc EXCEPT
               !.s        = LeaveQueues(@, i, e),
               !.nexthops = @ \cup {GetMac(nbr)},
               !.natives  = @ \cup {e.pid},
               !.ids      = AddIdNexthop(@, e.dest, e.pid),
               !.iface    = Index(n, last),
               !.pkt      = XOR(acc.first.pid, e.pid),
               !.encoded  = TRUE]
    BY Zenon, <1>6 DEF TakeNative
  <2>2. e = d
    BY <1>4
  <2>3. AddIdNexthop(acc.ids, e.dest, e.pid) = acc.ids \cup {First(d)}
    BY <1>4 DEF AddIdNexthop, First
  <2> HIDE DEF e, r, last, d, R
  <2>4. t = LeaveQueues(acc.s, i, e)
    BY <1>1, <2>2 DEF Shape, R, Taken, d, LeaveQueues
  <2> HIDE DEF t
  <2> QED  BY <1>1, <2>1, <2>3, <2>4 DEF AccShape
<1>8. R = acc.s.rtq \/ R = EnqueueBack(acc.s.rtq, d)
  OBVIOUS
<1> HIDE DEF R, e, last, r
<1>9. Filed(t) /\ SameRows(acc.s.nbrs, t.nbrs) /\ t.abort = acc.s.abort
  BY <1>1, <1>2, <1>3, <1>8, TakenFiled
<1> HIDE DEF t
<1>10. u.s = t /\ u.ids = acc.ids \cup {First(d)} /\ u.nexthops = acc.nexthops \cup {GetMac(acc.s.nbrs[i])}
  OBVIOUS
<1> HIDE DEF u
<1>11. Homed(u)
  BY <1>2, <1>5, <1>9, <1>10, HomedMore
<1>12. Running(u.s)
  BY <1>9, <1>10 DEF Running
<1> QED  BY <1>7, <1>11, <1>12 DEF EncodeGoes, r

\* With one channel a neighbor has every channel of the node.
LEMMA AlwaysIndexable ==
    ASSUME OneChannel, RoutesOnLink, NEW n \in Node, NEW nbr \in Neighbor, NEW w, Row(nbr, w),
           NEW c, Index(n, c) \in DOMAIN Devices(n)
    PROVE  Indexable(nbr, c)
<1>1. Index(n, c) # 0
  BY DeviceAt
<1>2. Devices(n)[Index(n, c)].ch = c
  BY <1>1, IndexIs
<1>3. nbr.tri \in Seq(Trinity) /\ nbr.tri # <<>>
  BY DEF Neighbor, Row, Belongs
<1>4. 1 \in DOMAIN nbr.tri /\ nbr.tri[1] \in Trinity
  BY <1>3
<1>5. OnChannel(nbr.tri[1].mac, nbr.tri[1].ch)
  BY <1>4 DEF Trinity
<1>6. nbr.tri[1].ch = c
  BY <1>2, <1>5 DEF OnChannel, OneChannel
<1> QED  BY <1>4, <1>6 DEF Indexable

\* A turn of the loop.
LEMMA EncodeNeighborGoes ==
    ASSUME NEW H, MayLose(H), RoutesOnLink, NEW V, NEW n \in Node,
           NEW active, active \subseteq DOMAIN Devices(n),
           NEW s, NEW entry, NEW acc, EncodeOk(n, V, s, entry, acc), EncodeGoes(H, acc),
           NEW i, Running(acc.s) => i \in DOMAIN acc.s.nbrs
    PROVE  EncodeGoes(H, EncodeNeighbor(n, active, acc, i))
<1> DEFINE nbr == acc.s.nbrs[i]
           common == acc.channels \cap GetChannels(nbr)
           usable == {c \in IF common = {} THEN acc.channels ELSE common : Index(n, c) \in active}
           r == EncodeNeighbor(n, active, acc, i)
           u == [acc EXCEPT !.channels = common]
           stop == Abort(acc.s, "I think we should be able to index")
           f == [acc EXCEPT !.s = stop]
<1> SUFFICES EncodeGoes(H, r)
  OBVIOUS
<1>1. CASE ~ Running(acc.s) \/ nbr.vq = <<>> \/ GetMac(nbr) \in acc.nexthops \/ r = acc
  <2>1. r = acc
    BY Zenon, <1>1 DEF EncodeNeighbor
  <2> QED  BY <2>1
<1>2. CASE Running(acc.s) /\ nbr.vq # <<>> /\ GetMac(nbr) \notin acc.nexthops /\ r # acc
  <2>1. (r = f /\ \E c \in usable : ~ Indexable(nbr, c)) \/ r = u \/ r = TakeNative(n, u, i, usable)
    BY Zenon, <1>2 DEF EncodeNeighbor
  <2> HIDE DEF r
  <2>2. EncodeOk(n, V, s, entry, u) /\ u.s = acc.s /\ u.nexthops = acc.nexthops /\ u.natives = acc.natives
    BY OtherChannels
  <2>3. u.ids = acc.ids
    BY DEF EncodeOk, AccShape
  <2>4. EncodeGoes(H, u)
    <3>1. Homed(acc)
      BY <1>2 DEF EncodeGoes
    <3> HIDE DEF u
    <3>2. Homed(u)
      BY <2>2, <2>3, <3>1 DEF Homed
    <3> QED  BY <1>2, <2>2, <3>2 DEF EncodeGoes
  <2>5. CASE r = f /\ \E c \in usable : ~ Indexable(nbr, c)
    <3>1. AccShape(acc) /\ Sound(n, V, acc.s)
      BY <1>2 DEF EncodeOk, Encoding
    <3>2. nbr \in Neighbor /\ Row(nbr, Awaited(acc.s.queue))
      BY <1>2, <3>1 DEF Sound, Table, Rows, RowsOn
    <3>3. ~ OneChannel
      <4> SUFFICES ASSUME OneChannel PROVE FALSE
        OBVIOUS
      <4>1. PICK c \in usable : ~ Indexable(nbr, c)
        BY Zenon, <2>5
      <4>2. Index(n, c) \in DOMAIN Devices(n)
        BY <4>1
      <4> HIDE DEF usable, nbr
      <4> QED  BY <3>2, <4>1, <4>2, AlwaysIndexable
    <3>4. "I think we should be able to index" \in H
      BY Zenon, <3>3 DEF MayLose
    <3>5. Shape(acc.s) /\ "I think we should be able to index" # None
      BY Zenon, <3>1 DEF Sound, None
    <3>6. Goes(H, stop)
      BY Zenon, <1>2, <3>4, <3>5, AbortGoes
    <3>7. ~ Running(stop)
      BY Zenon, <3>5, Aborted
    <3> HIDE DEF stop
    <3>8. f.s = stop
      BY <3>1 DEF AccShape
    <3> QED  BY <2>5, <3>6, <3>7, <3>8 DEF Goes, EncodeGoes
  <2>6. CASE r = TakeNative(n, u, i, usable)
    <3>1. Running(u.s) /\ i \in DOMAIN u.s.nbrs /\ u.s.nbrs[i].vq # <<>> /\ GetMac(u.s.nbrs[i]) \notin u.nexthops
      BY <1>2, <2>2
    <3> HIDE DEF usable, u, common
    <3> QED  BY <2>2, <2>4, <2>6, <3>1, TakeNativeGoes
  <2>7. CASE r = u
    BY <2>4, <2>7
  <2> QED  BY Zenon, <2>1, <2>5, <2>6, <2>7
<1> QED  BY <1>1, <1>2 DEF r

\* The loop.
LEMMA EncodeLoopGoes ==
    ASSUME NEW H, MayLose(H), RoutesOnLink, NEW V, NEW n \in Node,
           NEW active, active \subseteq DOMAIN Devices(n),
           NEW s, NEW entry, NEW start, EncodeOk(n, V, s, entry, start), EncodeGoes(H, start),
           NEW N \in Nat, DOMAIN s.nbrs = 1..N
    PROVE  EncodeGoes(H, Coded(n, active, start, N))
<1> DEFINE out == Coded(n, active, start, N)
           seq == [i \in 1..N |-> i]
<1>1. PICK v : IsRun(v, "Encode", <<n, active>>, start, seq, N, out)
  BY EncodeLoop
<1> HIDE DEF out
<1>2. /\ v[0] = start
      /\ \A k \in 0..N - 1 : v[k + 1] = EncodeNeighbor(n, active, v[k], k + 1)
      /\ out = v[N]
  <2> DEFINE c == <<n, active>>
  <2>1. \A acc, e : Turn("Encode", c, acc, e) = EncodeNeighbor(n, active, acc, e)
    BY DEF Turn
  <2>2. \A k \in 0..N - 1 : seq[k + 1] = k + 1
    OBVIOUS
  <2> HIDE DEF c, seq
  <2> QED  BY <1>1, <2>1, <2>2 DEF IsRun, c
<1> DEFINE T == {k \in 0..N : EncodeOk(n, V, s, entry, v[k]) /\ EncodeGoes(H, v[k])}
<1>3. 0 \in T
  BY <1>2
<1>4. ASSUME NEW k \in 0..N - 1, k \in T PROVE k + 1 \in T
  <2>1. EncodeOk(n, V, s, entry, v[k]) /\ EncodeGoes(H, v[k]) /\ k + 1 \in 1..N
    BY <1>4
  <2>2. Running(v[k].s) => k + 1 \in DOMAIN v[k].s.nbrs
    BY <2>1 DEF EncodeOk, Encoding
  <2>3. EncodeOk(n, V, s, entry, EncodeNeighbor(n, active, v[k], k + 1))
    BY <2>1, <2>2, EncodeNeighborOk
  <2>4. EncodeGoes(H, EncodeNeighbor(n, active, v[k], k + 1))
    BY <2>1, <2>2, EncodeNeighborGoes
  <2> QED  BY <1>2, <2>1, <2>3, <2>4
<1> HIDE DEF T
<1>5. N \in T
  <2>1. \A k \in 0..N : k \in T
    BY <1>3, <1>4, Upto
  <2> QED  BY <2>1
<1> QED  BY <1>2, <1>5 DEF T, out

\* Encode ends with everything filed, or in a failed assertion of H.
LEMMA EncodeEnds ==
    ASSUME NEW H, MayLose(H), RoutesOnLink, NEW V, NEW n \in Node,
           NEW active, active \subseteq DOMAIN Devices(n),
           NEW s, Sound(n, V, s), Filed(s), NEW entry, Leaves(n, V, s, entry), Unicast(entry),
           SearchMac(s.nbrs, entry.dest) # 0
    PROVE  Goes(H, Encode(n, s, active, entry).s)
<1> DEFINE k == SearchMac(s.nbrs, entry.dest)
           nbr == s.nbrs[k]
           g == GetMac(nbr)
           C == GetChannels(nbr)
           N == Len(s.nbrs)
           start == [s |-> s, first |-> entry, nexthops |-> {g},
                  natives |-> {entry.pid}, channels |-> C,
                  iface |-> entry.iface, pkt |-> entry.pid, encoded |-> FALSE,
                  ids |-> AddIdNexthop({}, entry.dest, entry.pid)]
           done == Coded(n, active, start, N)
           r == Encode(n, s, active, entry)
<1>1. s.nbrs \in Seq(Neighbor) /\ Rows(s.nbrs, Awaited(s.queue)) /\ entry.dest \in Address
      /\ entry \in Entry
  BY DEF Sound, Table, Rows, Leaves, EntryOk, Unicast
<1>2. N \in Nat /\ DOMAIN s.nbrs = 1..N
  BY <1>1
<1>3. [i \in DOMAIN s.nbrs |-> i] = [i \in 1..N |-> i]
  BY <1>2
<1>4. r = done \/ r = [done EXCEPT !.s.rtq = EnqueueBack(@, entry)]
  BY Zenon, <1>3 DEF Encode, Coded
<1>5. k \in DOMAIN s.nbrs /\ HasMac(nbr, entry.dest)
  <2>1. MacAt(s.nbrs, entry.dest, k)
    BY <1>1, SearchMacIn
  <2> QED  BY <2>1 DEF MacAt
<1>6. g \in Macs(Owner[entry.dest])
  <2>1. nbr \in Neighbor /\ Row(nbr, Awaited(s.queue))
    BY <1>1, <1>5 DEF Rows, RowsOn
  <2>2. PICK m \in Node : Belongs(nbr, m)
    BY <2>1 DEF Row
  <2>3. g \in Macs(m)
    BY <2>1, <2>2, GetMacIn
  <2>4. entry.dest \in Macs(m)
    BY <1>5, <2>2 DEF HasMac, Belongs
  <2> QED  BY <2>3, <2>4, OwnerOf
<1>7. EncodeOk(n, V, s, entry, start)
  <2> HIDE DEF g, C
  <2> SUFFICES ASSUME NEW u, u = [s |-> s, first |-> entry, nexthops |-> {g},
                  natives |-> {entry.pid}, channels |-> C,
                  iface |-> entry.iface, pkt |-> entry.pid, encoded |-> FALSE,
                  ids |-> AddIdNexthop({}, entry.dest, entry.pid)]
               PROVE  EncodeOk(n, V, s, entry, u)
    BY DEF g, C
  <2> QED  BY <1>6, EncodeStart
<1>8. EncodeGoes(H, start)
  <2>1. start.s = s /\ start.nexthops = {g} /\ start.ids = {First(entry)}
    BY DEF AddIdNexthop, First
  <2> HIDE DEF start
  <2>2. First(entry).mac = entry.dest
    BY DEF First
  <2>3. Homed(start)
    BY <1>5, <2>1, <2>2 DEF Homed
  <2>4. Running(s)
    BY DEF Sound
  <2> QED  BY <2>1, <2>3, <2>4 DEF EncodeGoes
<1> HIDE DEF start
<1>9. EncodeOk(n, V, s, entry, done) /\ EncodeGoes(H, done)
  BY <1>2, <1>7, <1>8, EncodeLoopOk, EncodeLoopGoes
<1> SUFFICES Goes(H, r.s)
  OBVIOUS
<1> HIDE DEF done, r, N
<1>10. AccShape(done)
  BY <1>9 DEF EncodeOk
<1>11. CASE r = done
  BY <1>9, <1>11 DEF EncodeGoes, Goes, Homed
<1>12. CASE r = [done EXCEPT !.s.rtq = EnqueueBack(@, entry)]
  <2> DEFINE d == done.s
             R == EnqueueBack(d.rtq, entry)
             t == [d EXCEPT !.rtq = R]
  <2>1. r = [done EXCEPT !.s = t]
    BY <1>10, <1>12 DEF AccShape
  <2>2. r.s = t /\ t.abort = d.abort
    BY <1>10, <2>1 DEF AccShape
  <2>3. CASE ~ Running(d)
    <3> HIDE DEF t, d
    <3> QED  BY <1>9, <2>2, <2>3 DEF EncodeGoes, Goes, Running, d
  <2>4. CASE Running(d)
    <3>1. Homed(done) /\ Encoding(n, V, s, entry, done)
      BY <1>9, <2>4 DEF EncodeGoes, EncodeOk
    <3>2. Sound(n, V, d) /\ First(entry) \in done.ids /\ Filed(d)
      BY <3>1 DEF Encoding, Built, Homed
    <3>3. PICK l \in DOMAIN d.nbrs : HasMac(d.nbrs[l], entry.dest)
      BY <3>1, <3>2 DEF Homed, First
    <3>4. d.rtq \in Seq(Entry) /\ Shape(d)
      BY <3>2 DEF Sound, RtqOk, QueueOk
    <3>5. t.queue = d.queue /\ t.nbrs = d.nbrs /\ t.rtq = R
      BY <3>4 DEF Shape
    <3> HIDE DEF t, d, R
    <3>6. Reachable(d.nbrs, d.rtq)
      BY <3>2 DEF Filed
    <3>7. Reachable(d.nbrs, R)
      BY <1>1, <3>3, <3>4, <3>6, ReachableMore DEF R
    <3>8. Filed(t)
      BY <3>2, <3>5, <3>7 DEF Filed
    <3>9. Running(t)
      BY <2>2, <2>4 DEF Running
    <3> QED  BY <2>2, <3>8, <3>9 DEF Goes
  <2> QED  BY <2>3, <2>4
<1> QED  BY <1>4, <1>11, <1>12

\* What a frame tells does not matter for what waits.
LEMMA TransmitAlike ==
    ASSUME NEW n, NEW s, NEW addr, NEW out
    PROVE  Alike(s, Transmit(n, s, addr, out))
<1> DEFINE sent == [s EXCEPT !.recps = SubSeq(@, Attached(@, s) + 1, Len(@)),
                             !.acks  = SubSeq(@, 1, Len(@) - Attached(@, s))]
           f == DataFrame(n, s, addr, out)
           down == ForwardDown(sent, out.iface, f)
<1>1. Transmit(n, s, addr, out) = DoSendEnd(down)
  BY Zenon DEF Transmit
<1>2. sent.queue = s.queue /\ sent.rtq = s.rtq /\ sent.nbrs = s.nbrs /\ sent.abort = s.abort
  OBVIOUS
<1> HIDE DEF sent, f
<1>3. down.queue = sent.queue /\ down.rtq = sent.rtq /\ down.nbrs = sent.nbrs /\ down.abort = sent.abort
  BY DEF ForwardDown
<1> HIDE DEF down
<1> QED  BY <1>1, <1>2, <1>3, TimerAlike DEF Alike

\* A table without an id twice in one virtual queue is taken over.
LEMMA NeighborsTaken ==
    ASSUME NEW s, Shape(s), NEW nbrs, NoneTwice(nbrs), NEW t, t = WithNeighbors(s, nbrs)
    PROVE  t.nbrs = nbrs /\ t.queue = s.queue /\ t.rtq = s.rtq /\ t.abort = s.abort
<1>1. ~ DuplicateVirtualEntry(nbrs)
  BY DEF DuplicateVirtualEntry, NoneTwice
<1>2. t = [s EXCEPT !.nbrs = nbrs]
  BY Zenon, <1>1 DEF WithNeighbors
<1> QED  BY <1>2 DEF Shape

\* An id that the queue accepts is in no virtual queue.
LEMMA NotFiledYet ==
    ASSUME NEW V, NEW n, NEW s, Sound(n, V, s), NEW e, Accepts(s.queue, e), NEW k \in DOMAIN s.nbrs
    PROVE  e.pid \notin ToSet(s.nbrs[k].vq)
<1>1. Row(s.nbrs[k], Awaited(s.queue))
  BY DEF Sound, Table, Rows, RowsOn
<1>2. PICK m \in Node : \A p \in ToSet(s.nbrs[k].vq) : <<p, m>> \in Awaited(s.queue)
  BY <1>1 DEF Row
<1>3. <<e.pid, m>> \notin Awaited(s.queue)
  BY AwaitedNot
<1> QED  BY <1>2, <1>3

\* An entry that is not unicast is in no virtual queue.
LEMMA ListedOther ==
    ASSUME NEW nbrs, NEW q, Listed(nbrs, q), NEW e, ~ Unicast(e), NEW r, Added(q, e, r)
    PROVE  Listed(nbrs, r)
BY DEF Listed, Added

\* A unicast entry joins the output queue and a virtual queue.
LEMMA JoinsFiled ==
    ASSUME NEW V, NEW n, NEW s, Sound(n, V, s), Filed(s), NEW got, NEW e \in Entry,
           EntryOk(n, V \cap Packet, e), Accepts(s.queue, e),
           NEW q, Joins(s.queue, e, q), NEW k, k # 0, MacAt(s.nbrs, e.dest, k),
           NEW vq, Plus(s.nbrs[k].vq, e.pid, vq), IsInjective(vq),
           NEW b, b = Grown(s, q, got),
           NEW t, t = WithNeighbors(b, Queued(s.nbrs, k, vq))
    PROVE  Running(t) /\ Filed(t)
<1> DEFINE B == Queued(s.nbrs, k, vq)
<1>1. s.nbrs \in Seq(Neighbor) /\ NoneTwice(s.nbrs) /\ Shape(s) /\ Running(s)
      /\ QueueOk(n, s.queue, V \cap Packet)
  BY DEF Sound, Table, Rows, NoneTwice
<1>2. k \in DOMAIN s.nbrs /\ HasMac(s.nbrs[k], e.dest)
  BY DEF MacAt
<1>3. Shape(b) /\ b.queue = q /\ b.rtq = s.rtq /\ b.abort = s.abort
  BY <1>1 DEF Grown, Shape
<1>4. Added(s.queue, e, q)
  BY <1>1, Enqueued DEF Added
<1>5. Listed(s.nbrs, s.queue) /\ Reachable(s.nbrs, s.rtq)
  BY DEF Filed
<1>6. B = Queued(s.nbrs, k, vq)
  OBVIOUS
<1> HIDE DEF B
<1>7. /\ SameRows(s.nbrs, B) /\ B[k].vq = vq
      /\ \A l \in DOMAIN s.nbrs : l # k => B[l] = s.nbrs[l]
  BY <1>1, <1>2, <1>6, QueuedSame
<1>8. NoneTwice(B)
  BY <1>1, <1>7 DEF NoneTwice, SameRows
<1>9. Listed(B, q)
  BY <1>1, <1>2, <1>4, <1>5, <1>6, ListedMore
<1>10. Reachable(B, s.rtq)
  BY <1>5, <1>7, SameMacs
<1>11. t.nbrs = B /\ t.queue = q /\ t.rtq = s.rtq /\ t.abort = s.abort
  BY <1>3, <1>6, <1>8, NeighborsTaken
<1> QED  BY <1>1, <1>9, <1>10, <1>11 DEF Filed, Running

\* PutBack files the entry again.
LEMMA PutBackGoes ==
    ASSUME NEW H, NEW V, NEW n \in Node, NEW s, Sound(n, V, s), Filed(s), NEW e, Leaves(n, V, s, e),
           e.dest # Broadcast => SearchMac(s.nbrs, e.dest) # 0
    PROVE  Goes(H, PutBack(s, e))
<1> DEFINE q == EnqueueFront(s.queue, e)
           b == [s EXCEPT !.queue = q]
           k == SearchMac(s.nbrs, e.dest)
           B == AddVirtualQueueEntryFront(s.nbrs, k, e.pid)
           t == IF e.dest = Broadcast THEN b ELSE WithNeighbors(b, B)
<1>1. PutBack(s, e) = DoSendEnd(t)
  BY Zenon DEF PutBack
<1>2. /\ e \in Entry /\ EntryOk(n, V \cap Packet, e) /\ Accepts(s.queue, e)
      /\ e.type = "data"
  BY DEF Leaves
<1>3. Joins(s.queue, e, q) /\ EntryOk(n, V \cap Packet, e)
  BY <1>2 DEF Joins, EnqueueFront
<1>4. Shape(s) /\ Running(s) /\ s.nbrs \in Seq(Neighbor) /\ QueueOk(n, s.queue, V \cap Packet)
      /\ NoneTwice(s.nbrs)
  BY DEF Sound, Table, Rows, NoneTwice
<1>5. b = Grown(s, q, {})
  BY <1>4 DEF Shape, Grown
<1> HIDE DEF b, q
<1>6. Goes(H, t)
  <2>1. CASE e.dest = Broadcast
    <3>1. b.queue = q /\ b.rtq = s.rtq /\ b.nbrs = s.nbrs /\ b.abort = s.abort
      BY <1>4, <1>5 DEF Shape, Grown
    <3>2. Added(s.queue, e, q)
      BY <1>2, <1>3, <1>4, Enqueued DEF Added
    <3>3. ~ Unicast(e) /\ Listed(s.nbrs, s.queue)
      BY <2>1 DEF Unicast, Filed
    <3>4. Listed(s.nbrs, q)
      BY <3>2, <3>3, ListedOther
    <3>5. Filed(b) /\ Running(b)
      BY <1>4, <3>1, <3>4 DEF Filed, Running
    <3> QED  BY <2>1, <3>5 DEF Goes
  <2>2. CASE e.dest # Broadcast
    <3> DEFINE old == s.nbrs[k].vq
               vq == <<e.pid>> \o old
    <3>1. k # 0 /\ MacAt(s.nbrs, e.dest, k)
      BY <1>4, <2>2, SearchMacIn
    <3> HIDE DEF k
    <3>2. k \in DOMAIN s.nbrs
      BY <3>1 DEF MacAt
    <3>3. s.nbrs[k] \in Neighbor /\ IsInjective(old)
      BY <1>4, <3>2 DEF NoneTwice
    <3>4. old \in Seq(Packet) /\ e.pid \in Packet /\ e.pid \notin ToSet(old)
      BY <1>2, <3>2, <3>3, NotFiledYet DEF EntryOk, Neighbor
    <3> HIDE DEF old
    <3>5. ToSet(vq) = {e.pid} \cup ToSet(old) /\ IsInjective(vq)
      BY <3>3, <3>4, ConsIs, ConsInjective
    <3>6. B = Queued(s.nbrs, k, vq)
      BY DEF AddVirtualQueueEntryFront, Queued, old
    <3> HIDE DEF vq, B
    <3>7. t = WithNeighbors(b, Queued(s.nbrs, k, vq))
      BY <2>2, <3>6
    <3>8. Plus(s.nbrs[k].vq, e.pid, vq)
      BY <3>5 DEF Plus, old
    <3> HIDE DEF t
    <3>9. Running(t) /\ Filed(t)
      BY <1>2, <1>3, <1>5, <3>1, <3>5, <3>7, <3>8, JoinsFiled
    <3> QED  BY <3>9 DEF Goes
  <2> QED  BY <2>1, <2>2
<1> HIDE DEF t
<1> QED  BY <1>1, <1>6, TimerAlike, AlikeGoes

\* An entry is sent, coded or put back with everything filed.
LEMMA SendEntryGoes ==
    ASSUME NEW H, MayLose(H), RoutesOnLink, NEW V, NEW n \in Node,
           NEW active, active \subseteq DOMAIN Devices(n),
           NEW s, Sound(n, V, s), Filed(s), NEW e, Leaves(n, V, s, e),
           e.dest # Broadcast => SearchMac(s.nbrs, e.dest) # 0
    PROVE  Goes(H, SendEntry(n, s, active, e))
<1> DEFINE coded == s.queue # <<>> /\ e.dest # Broadcast
           out == IF coded THEN Encode(n, s, active, e) ELSE PlainSend(s, e)
           r == SendEntry(n, s, active, e)
           addr == RealSendAddr(s, e)
<1>1. /\ ~ Running(out.s) => r = out.s
      /\ Running(out.s) /\ ~ out.encoded /\ e.iface \notin active => r = PutBack(out.s, e)
      /\ Running(out.s) /\ ~ (~ out.encoded /\ e.iface \notin active) =>
            r = Transmit(n, out.s, addr, out)
  BY Zenon DEF SendEntry
<1>2. e \in Entry /\ e.type = "data"
  BY DEF Leaves
<1>3. (Running(out.s) => OutOk(n, V, s, out)) /\ Goes(H, out.s)
  <2>1. CASE coded
    <3>1. out = Encode(n, s, active, e)
      BY <2>1
    <3>2. Unicast(e) /\ SearchMac(s.nbrs, e.dest) # 0
      BY <1>2, <2>1 DEF Unicast
    <3> HIDE DEF out
    <3> QED  BY <3>1, <3>2, EncodeGood, EncodeEnds
  <2>2. CASE ~ coded
    <3>1. out = PlainSend(s, e)
      BY <2>2
    <3>2. out.s = s
      BY <3>1 DEF PlainSend
    <3>3. Running(s)
      BY DEF Sound
    <3> HIDE DEF out
    <3> QED  BY <3>1, <3>2, <3>3, PlainGood, FiledGoes
  <2> QED  BY <2>1, <2>2
<1> HIDE DEF out, r, addr
<1>5. CASE ~ Running(out.s)
  BY <1>1, <1>3, <1>5 DEF r
<1>6. CASE Running(out.s) /\ ~ out.encoded /\ e.iface \notin active
  <2>1. out.s = s /\ r = PutBack(s, e)
    BY <1>1, <1>3, <1>6 DEF OutOk
  <2> QED  BY <2>1, PutBackGoes DEF r
<1>7. CASE Running(out.s) /\ ~ (~ out.encoded /\ e.iface \notin active)
  <2>1. r = Transmit(n, out.s, addr, out)
    BY <1>1, <1>7
  <2>2. Alike(out.s, r)
    BY <2>1, TransmitAlike
  <2> QED  BY <1>3, <2>2, AlikeGoes DEF r
<1> QED  BY <1>5, <1>6, <1>7

\* The output queue loses its head.
LEMMA LeftFiled ==
    ASSUME NEW V, NEW n, NEW s, Sound(n, V, s), Filed(s), s.queue # <<>>,
           NEW t, t = Left(s, s.nbrs)
    PROVE  Filed(t) /\ Running(t)
<1>1. s.queue \in Seq(Entry) /\ Distinct(s.queue) /\ Shape(s) /\ Running(s)
  BY DEF Sound, QueueOk
<1>2. t.queue = Tail(s.queue) /\ t.nbrs = s.nbrs /\ t.rtq = s.rtq /\ t.abort = s.abort
  BY <1>1 DEF Left, Shape
<1>3. \A i \in DOMAIN Tail(s.queue) : \E j \in DOMAIN s.queue : Tail(s.queue)[i] = s.queue[j]
  BY <1>1, TailThins DEF Thinned
<1>4. Listed(s.nbrs, Tail(s.queue))
  BY <1>3 DEF Filed, Listed
<1> QED  BY <1>1, <1>2, <1>4 DEF Filed, Running

\* The next hop of the head of the output queue is a neighbor, and the head is in
\* its virtual queue.
LEMMA HeadHome ==
    ASSUME NEW V, NEW n, NEW s, Sound(n, V, s), Filed(s), s.queue # <<>>,
           NEW e, e = Head(s.queue), Unicast(e)
    PROVE  /\ SearchMac(s.nbrs, e.dest) # 0 /\ SearchMac(s.nbrs, e.dest) \in DOMAIN s.nbrs
           /\ Contains(s.nbrs[SearchMac(s.nbrs, e.dest)].vq, e.pid)
<1>1. /\ s.queue \in Seq(Entry) /\ s.nbrs \in Seq(Neighbor)
      /\ Rows(s.nbrs, Awaited(s.queue))
  BY DEF Sound, QueueOk, Table, Rows
<1>2. 1 \in DOMAIN s.queue /\ s.queue[1] = e
  BY <1>1, TailIs
<1>3. PICK k \in DOMAIN s.nbrs : HasMac(s.nbrs[k], e.dest) /\ e.pid \in ToSet(s.nbrs[k].vq)
  BY <1>2 DEF Filed, Listed
<1>4. SearchMac(s.nbrs, e.dest) = k /\ k # 0
  BY <1>1, <1>3, RowFound
<1>5. Contains(s.nbrs[k].vq, e.pid)
  <2> DEFINE old == s.nbrs[k].vq
  <2>1. s.nbrs[k] \in Neighbor
    BY <1>1
  <2>2. old \in Seq(Packet)
    BY <2>1 DEF Neighbor
  <2>3. e.pid \in ToSet(old)
    BY <1>3
  <2> HIDE DEF old
  <2>4. Contains(old, e.pid)
    BY <2>2, <2>3 DEF Contains, ToSet
  <2> QED  BY <2>4 DEF old
<1> QED  BY <1>4, <1>5

\* It leaves both queues together.
LEMMA UnicastLeftFiled ==
    ASSUME NEW V, NEW n \in Node, NEW s, Sound(n, V, s), Filed(s), s.queue # <<>>,
           NEW e, e = Head(s.queue), Unicast(e),
           NEW k, k = SearchMac(s.nbrs, e.dest), k \in DOMAIN s.nbrs, Contains(s.nbrs[k].vq, e.pid),
           NEW B, B = RemoveVirtualQueueEntry(s.nbrs, k, e.pid),
           NEW left, left = Left(s, B)
    PROVE  Filed(left) /\ Running(left)
<1>0. k \in DOMAIN s.nbrs /\ Contains(s.nbrs[k].vq, e.pid) /\ s.queue # <<>> /\ e = Head(s.queue)
      /\ Filed(s)
  OBVIOUS
<1>1. /\ s.queue \in Seq(Entry) /\ Distinct(s.queue) /\ Shape(s) /\ Running(s)
      /\ s.nbrs \in Seq(Neighbor) /\ IsInjective(s.nbrs[k].vq)
  BY DEF Sound, QueueOk, Table, Rows
<1>2. left.queue = Tail(s.queue) /\ left.nbrs = B /\ left.rtq = s.rtq /\ left.abort = s.abort
  BY <1>1 DEF Left, Shape
<1> DEFINE old == s.nbrs[k].vq
           vq == RemoveFirst(old, e.pid)
<1>3. ToSet(vq) = ToSet(old) \ {e.pid}
  <2>1. s.nbrs[k] \in Neighbor
    BY ONLY <1>0, <1>1
  <2>2. old \in Seq(Packet) /\ IsInjective(old) /\ Contains(old, e.pid)
    BY ONLY <1>0, <1>1, <2>1 DEF Neighbor
  <2> HIDE DEF old
  <2>3. e.pid \in ToSet(old)
    BY ONLY <2>2 DEF Contains, ToSet
  <2> QED  BY ONLY <2>2, <2>3, RemoveFirstIs
<1>4. Minus(s.nbrs[k].vq, e.pid, vq)
  BY ONLY <1>3 DEF Minus
<1>5. B = Queued(s.nbrs, k, vq)
  BY Zenon DEF RemoveVirtualQueueEntry, Queued
<1>6. Dropped(s.queue, e.pid, Tail(s.queue))
  <2>1. /\ \A i \in DOMAIN Tail(s.queue) : \E j \in DOMAIN s.queue : Tail(s.queue)[i] = s.queue[j]
        /\ \A i \in DOMAIN Tail(s.queue) : Tail(s.queue)[i].pid # e.pid
    BY ONLY <1>0, <1>1, TailThins DEF Thinned
  <2> QED  BY <2>1 DEF Dropped
<1> HIDE DEF vq, old
<1>7. Listed(B, Tail(s.queue))
  <2>1. Listed(s.nbrs, s.queue)
    BY DEF Filed
  <2> QED  BY ONLY <1>0, <1>1, <1>4, <1>5, <1>6, <2>1, ListedLess
<1>8. Reachable(B, s.rtq)
  <2>1. SameRows(s.nbrs, B)
    BY ONLY <1>0, <1>1, <1>5, QueuedSame
  <2> QED  BY ONLY <1>0, <2>1, SameMacs DEF Filed
<1> QED  BY ONLY <1>1, <1>2, <1>7, <1>8 DEF Filed, Running

\* A unicast entry is sent with everything filed.
LEMMA SendUnicastGoes ==
    ASSUME NEW H, MayLose(H), RoutesOnLink, NEW V, NEW n \in Node,
           NEW active, active \subseteq DOMAIN Devices(n),
           NEW s, Sound(n, V, s), Filed(s), s.queue # <<>>, NEW e, e = Head(s.queue), Unicast(e)
    PROVE  Goes(H, SendUnicast(n, s, active, e))
<1> DEFINE k == SearchMac(s.nbrs, e.dest)
           B == RemoveVirtualQueueEntry(s.nbrs, k, e.pid)
           left == [s EXCEPT !.queue = Tail(s.queue), !.nbrs = B]
           r == SendUnicast(n, s, active, e)
<1>1. k # 0 /\ k \in DOMAIN s.nbrs /\ Contains(s.nbrs[k].vq, e.pid)
  BY HeadHome
<1>2. r = DoSendEnd(left) \/ r = SendEntry(n, left, active, e)
  BY Zenon, <1>1 DEF SendUnicast
<1> HIDE DEF r
<1>3. /\ B = RemoveVirtualQueueEntry(s.nbrs, k, e.pid) /\ left = Left(s, B)
      /\ k = SearchMac(s.nbrs, e.dest)
  BY DEF Left
<1> HIDE DEF B, left, k
<1>4. /\ Sound(n, V, left) /\ Leaves(n, V, left, e) /\ SearchMac(left.nbrs, e.dest) # 0
  BY <1>1, <1>3, UnicastLeft
<1>5. Filed(left) /\ Running(left)
  BY <1>1, <1>3, UnicastLeftFiled
<1>6. CASE r = DoSendEnd(left)
  BY <1>5, <1>6, FiledGoes, TimerAlike, AlikeGoes DEF r
<1>7. CASE r = SendEntry(n, left, active, e)
  BY <1>4, <1>5, <1>7, SendEntryGoes DEF r
<1> QED  BY <1>2, <1>6, <1>7

\* So is a hello.
LEMMA SendHelloEntryGoes ==
    ASSUME NEW H, NEW V, NEW n \in Node, NEW active, NEW s, Sound(n, V, s), Filed(s), s.queue # <<>>, NEW e
    PROVE  Goes(H, SendHelloEntry(n, s, active, e))
<1> DEFINE left == [s EXCEPT !.queue = Tail(s.queue)]
           f == [type |-> "hello", src |-> Devices(n)[e.iface].mac, dst |-> Broadcast,
                 pairs |-> Devices(n)]
           r == SendHelloEntry(n, s, active, e)
           down == ForwardDown(left, e.iface, f)
<1>1. r = DoSendEnd(s) \/ r = DoSendEnd(down)
  BY Zenon DEF SendHelloEntry
<1>2. left = Left(s, s.nbrs)
  BY DEF Sound, Shape, Left
<1> HIDE DEF left, f, r
<1>3. Goes(H, left)
  BY <1>2, LeftFiled, FiledGoes
<1>4. Alike(left, down)
  BY DEF Alike, ForwardDown
<1>5. Running(s)
  BY DEF Sound
<1> HIDE DEF down
<1>6. Goes(H, DoSendEnd(s)) /\ Goes(H, DoSendEnd(down))
  <2>1. Goes(H, s) /\ Goes(H, down)
    BY <1>3, <1>4, <1>5, FiledGoes, AlikeGoes
  <2> QED  BY <2>1, TimerAlike, AlikeGoes
<1> QED  BY <1>1, <1>6 DEF r

\* So is whatever is at the head of the queue.
LEMMA DoSendGoes ==
    ASSUME NEW H, MayLose(H), RoutesOnLink, NEW V, NEW n \in Node,
           NEW active, active \subseteq DOMAIN Devices(n),
           NEW s, Sound(n, V, s), Filed(s), s.queue # <<>>
    PROVE  Goes(H, DoSend(n, s, active))
<1> DEFINE e == Head(s.queue)
           left == [s EXCEPT !.queue = Tail(s.queue)]
           r == DoSend(n, s, active)
<1>1. /\ e.type = "hello" => r = SendHelloEntry(n, s, active, e)
      /\ e.type = "data" /\ e.dest # Broadcast => r = SendUnicast(n, s, active, e)
      /\ e.type = "data" /\ e.dest = Broadcast => r = SendEntry(n, left, active, e)
  <2>1. "hello" # "data"
    OBVIOUS
  <2> QED  BY Zenon, <2>1 DEF DoSend
<1>2. e \in Entry
  <2>1. s.queue \in Seq(Entry)
    BY DEF Sound, QueueOk
  <2> QED  BY <2>1, TailIs
<1>3. left = Left(s, s.nbrs)
  BY DEF Sound, Shape, Left
<1> HIDE DEF r, left, e
<1>4. e = Head(s.queue)
  BY DEF e
<1>5. CASE e.type = "hello"
  BY <1>1, <1>4, <1>5, SendHelloEntryGoes DEF r
<1>6. CASE e.type = "data" /\ e.dest # Broadcast
  <2>1. Unicast(e)
    BY <1>6 DEF Unicast
  <2> QED  BY <1>1, <1>4, <1>6, <2>1, SendUnicastGoes DEF r
<1>7. CASE e.type = "data" /\ e.dest = Broadcast
  <2>1. Table(s.nbrs, Awaited(Tail(s.queue)))
    BY <1>4, <1>7, LeftOther DEF Unicast
  <2>2. Sound(n, V, left) /\ (e.type = "data" => Leaves(n, V, left, e))
    BY <1>3, <1>4, <2>1, LeftSound
  <2>3. Filed(left)
    BY <1>3, LeftFiled
  <2>4. Goes(H, SendEntry(n, left, active, e))
    BY <1>7, <2>2, <2>3, SendEntryGoes
  <2> QED  BY <1>1, <1>7, <2>4 DEF r
<1> QED  BY <1>2, <1>5, <1>6, <1>7 DEF Entry

\* And whatever the try timer finds.
LEMMA TrySendGoes ==
    ASSUME NEW H, MayLose(H), RoutesOnLink, NEW V, NEW n \in Node, NEW s, Sound(n, V, s), Filed(s)
    PROVE  Goes(H, TrySend(n, s))
<1>1. CASE TrySend(n, s) = s
  BY <1>1, FiledGoes DEF Sound
<1>2. CASE s.queue # <<>> /\ TrySend(n, s) = DoSend(n, s, ActiveDevices(n, s))
  <2>1. ActiveDevices(n, s) \subseteq DOMAIN Devices(n)
    BY DEF ActiveDevices
  <2> QED  BY <1>2, <2>1, DoSendGoes
<1> QED  BY Zenon, <1>1, <1>2 DEF TrySend

\* A handler may end in an attempt to send.
LEMMA ThenTryGoes ==
    ASSUME NEW H, MayLose(H), RoutesOnLink, NEW V, NEW n \in Node, NEW s, NEW t, NEW got, NEW news,
           Fine(n, V, s, t, got, news), Goes(H, t)
    PROVE  Goes(H, TrySend(n, t))
<1>1. CASE Running(t)
  <2>1. Sound(n, V, t) /\ Filed(t)
    BY <1>1 DEF Fine, Goes
  <2> QED  BY <2>1, TrySendGoes
<1>2. CASE ~ Running(t)
  <2>1. TrySend(n, t) = t
    BY Zenon, <1>2 DEF TrySend
  <2> QED  BY <2>1
<1> QED  BY <1>1, <1>2

\* A packet from IP is filed under its next hop, who may be a stranger.
LEMMA StoreDataFiled ==
    ASSUME NEW V, NEW n \in Node, NEW s, Sound(n, V, s), Filed(s), NEW req, Asked(n, req), req.pid \in V
    PROVE  Running(StoreData(n, s, req)) /\ Filed(StoreData(n, s, req))
<1> DEFINE e == NewEntry(req)
           got == {req.pid}
           q == EnqueueBack(s.queue, e)
           k == SearchMac(s.nbrs, req.dest)
           stored == [s EXCEPT !.queue = q, !.pool = s.pool \cup got]
           stranger == [tri |-> <<[mac |-> req.dest, ip |-> ZeroIp,
                                   ch |-> Devices(n)[req.iface].ch]>>,
                        vq |-> <<req.pid>>]
           far == WithNeighbors(stored, AddNeighbor(s.nbrs, stranger))
           near == WithNeighbors(stored, AddVirtualQueueEntry(s.nbrs, k, req.pid))
           r == StoreData(n, s, req)
<1>1. /\ ~ Accepts(s.queue, e) => r = s
      /\ Accepts(s.queue, e) /\ req.dest = Broadcast => r = stored
      /\ Accepts(s.queue, e) /\ req.dest # Broadcast /\ k = 0 => r = far
      /\ Accepts(s.queue, e) /\ req.dest # Broadcast /\ k # 0 => r = near
  BY Zenon DEF StoreData, NewEntry
<1>2. /\ e \in Entry /\ EntryOk(n, V \cap Packet, e)
      /\ e.pid = req.pid /\ e.dest = req.dest /\ e.type = "data"
      /\ (req.dest # Broadcast => Unicast(e)) /\ req.pid \in Packet
  BY NewEntryOk DEF Asked
<1>3. stored = Grown(s, q, got)
  BY DEF Grown
<1>4. /\ s.nbrs \in Seq(Neighbor) /\ Shape(s) /\ Running(s) /\ NoneTwice(s.nbrs)
      /\ QueueOk(n, s.queue, V \cap Packet) /\ Listed(s.nbrs, s.queue) /\ Reachable(s.nbrs, s.rtq)
  BY DEF Sound, Table, Rows, NoneTwice, Filed
<1>5. Shape(stored) /\ stored.queue = q /\ stored.rtq = s.rtq /\ stored.nbrs = s.nbrs
      /\ stored.abort = s.abort
  <2> HIDE DEF stored, q, got
  <2> QED  BY <1>3, <1>4 DEF Grown, Shape
<1>6. Accepts(s.queue, e) => Joins(s.queue, e, q)
  BY DEF Joins, EnqueueBack
<1> SUFFICES Running(r) /\ Filed(r)
  OBVIOUS
<1>7. MacAt(s.nbrs, e.dest, k)
  BY <1>2, <1>4, SearchMacIn
<1> HIDE DEF e, got, q, stored, far, near, r, k
<1>8. CASE ~ Accepts(s.queue, e)
  BY <1>1, <1>4, <1>8
<1>9. CASE Accepts(s.queue, e)
  <2>1. Joins(s.queue, e, q)
    BY <1>6, <1>9
  <2>2. Added(s.queue, e, q)
    BY <1>2, <1>4, <1>9, <2>1, Enqueued DEF Added
  <2>3. CASE req.dest = Broadcast
    <3>1. ~ Unicast(e)
      BY <1>2, <2>3 DEF Unicast
    <3>2. Listed(s.nbrs, q)
      BY <1>4, <2>2, <3>1, ListedOther
    <3> QED  BY <1>1, <1>4, <1>5, <1>9, <2>3, <3>2 DEF Filed, Running
  <2>4. CASE req.dest # Broadcast /\ k = 0
    <3> DEFINE B == AddNeighbor(s.nbrs, stranger)
    <3>1. HasMac(stranger, req.dest) /\ stranger.vq = <<req.pid>> /\ ToSet(stranger.vq) = {req.pid}
          /\ IsInjective(stranger.vq)
      BY DEF HasMac, ToSet, IsInjective
    <3>2. \A l \in DOMAIN s.nbrs : ~ ShareAddress(stranger, s.nbrs[l])
      <4>1. \A l \in DOMAIN s.nbrs : ~ HasMac(s.nbrs[l], req.dest)
        BY <1>2, <1>4, <1>7, <2>4 DEF MacAt
      <4>2. DOMAIN stranger.tri = {1} /\ stranger.tri[1].mac = req.dest /\ stranger.tri[1].ip = ZeroIp
        OBVIOUS
      <4> HIDE DEF stranger
      <4> QED  BY <4>1, <4>2 DEF ShareAddress
    <3>3. B = Append(s.nbrs, stranger)
      BY <3>2 DEF AddNeighbor
    <3>4. r = WithNeighbors(stored, B)
      BY <1>1, <1>9, <2>4 DEF far
    <3> HIDE DEF stranger, B
    <3> DEFINE N == Len(s.nbrs)
    <3>5. /\ N \in Nat /\ DOMAIN s.nbrs = 1..N /\ DOMAIN B = 1..N + 1
          /\ \A l \in 1..N : B[l] = s.nbrs[l]
          /\ B[N + 1] = stranger
      BY <1>4, <3>3
    <3> HIDE DEF N
    <3>6. DOMAIN s.nbrs \subseteq DOMAIN B /\ (\A l \in DOMAIN s.nbrs : B[l] = s.nbrs[l])
          /\ N + 1 \in DOMAIN B /\ \A l \in DOMAIN B : l \in DOMAIN s.nbrs \/ l = N + 1
      BY <3>5
    <3>7. NoneTwice(B)
      BY <1>4, <3>1, <3>5, <3>6 DEF NoneTwice
    <3>8. Reachable(B, s.rtq)
      BY <1>4, <3>6 DEF Reachable
    <3>9. Listed(B, q)
      <4> SUFFICES ASSUME NEW i \in DOMAIN q, Unicast(q[i])
                   PROVE  \E l \in DOMAIN B : HasMac(B[l], q[i].dest) /\ q[i].pid \in ToSet(B[l].vq)
        BY DEF Listed
      <4>1. CASE q[i] = e
        BY <1>2, <3>1, <3>5, <3>6, <4>1
      <4>2. CASE \E j \in DOMAIN s.queue : q[i] = s.queue[j]
        <5>1. PICK j \in DOMAIN s.queue : q[i] = s.queue[j]
          BY <4>2
        <5>2. PICK l \in DOMAIN s.nbrs : HasMac(s.nbrs[l], q[i].dest) /\ q[i].pid \in ToSet(s.nbrs[l].vq)
          BY <1>4, <5>1 DEF Listed
        <5> QED  BY <3>6, <5>2
      <4> QED  BY <2>2, <4>1, <4>2 DEF Added
    <3>10. r.nbrs = B /\ r.queue = q /\ r.rtq = s.rtq /\ r.abort = s.abort
      BY <1>5, <3>4, <3>7, NeighborsTaken
    <3> QED  BY <1>4, <3>8, <3>9, <3>10 DEF Filed, Running
  <2>5. CASE req.dest # Broadcast /\ k # 0
    <3> DEFINE old == s.nbrs[k].vq
               vq == Append(old, req.pid)
               B == AddVirtualQueueEntry(s.nbrs, k, req.pid)
    <3>1. k \in DOMAIN s.nbrs
      BY <1>7, <2>5 DEF MacAt
    <3>2. s.nbrs[k] \in Neighbor /\ IsInjective(old)
      BY <1>4, <3>1 DEF NoneTwice
    <3>3. e.pid \notin ToSet(old)
      BY <1>9, <3>1, NotFiledYet
    <3>4. old \in Seq(Packet) /\ req.pid \in Packet /\ req.pid \notin ToSet(old)
      BY <1>2, <3>2, <3>3 DEF Neighbor
    <3> HIDE DEF old
    <3>5. ToSet(vq) = {e.pid} \cup ToSet(old) /\ IsInjective(vq)
      BY <1>2, <3>2, <3>4, AppendIs, AppendInjective1
    <3>6. B = Queued(s.nbrs, k, vq)
      BY DEF AddVirtualQueueEntry, Queued, old
    <3> HIDE DEF vq, B
    <3>7. r = WithNeighbors(stored, Queued(s.nbrs, k, vq))
      BY <1>1, <1>9, <2>5, <3>6 DEF near, B
    <3>8. Plus(s.nbrs[k].vq, e.pid, vq)
      BY <3>5 DEF Plus, old
    <3> QED  BY <1>2, <1>3, <1>7, <1>9, <2>1, <2>5, <3>5, <3>7, <3>8, JoinsFiled
  <2> QED  BY <2>3, <2>4, <2>5
<1> QED  BY <1>8, <1>9

\* Enqueue for a data packet.
LEMMA EnqueueDataGoes ==
    ASSUME NEW H, MayLose(H), RoutesOnLink, NEW V, NEW n \in Node, NEW s, Sound(n, V, s), Filed(s),
           NEW req, Asked(n, req), req.pid \in V
    PROVE  Goes(H, EnqueueData(n, s, req))
<1> DEFINE t == StoreData(n, s, req)
           got == {req.pid}
<1>1. EnqueueData(n, s, req) = TrySend(n, t)
  BY DEF EnqueueData, Sound
<1>2. t = s \/ Fine(n, V, s, t, got, {})
  BY StoreDataOk
<1>3. Running(t) /\ Filed(t)
  BY StoreDataFiled
<1> HIDE DEF t, got
<1>4. Sound(n, V, t)
  BY <1>2, <1>3 DEF Fine
<1> QED  BY <1>1, <1>3, <1>4, TrySendGoes

\* A hello joins the front of the queue.
LEMMA EnqueueHelloGoes ==
    ASSUME NEW H, MayLose(H), RoutesOnLink, NEW V, NEW n \in Node, NEW s, NEW t, Fine(n, V, s, t, {}, {}),
           Goes(H, t), NEW i \in DOMAIN Devices(n), NEW garbage \in SUBSET STRING
    PROVE  Goes(H, EnqueueHello(n, t, i, garbage))
<1> DEFINE e == [type |-> "hello", pid |-> garbage, dest |-> Broadcast,
                 iface |-> i, proto |-> "other", retry |-> 0]
           q == EnqueueFront(t.queue, e)
           u == [t EXCEPT !.queue = q]
<1>1. EnqueueHello(n, t, i, garbage) = TrySend(n, u)
  BY Zenon DEF EnqueueHello
<1>2. CASE ~ Running(t)
  <2>1. u.abort = t.abort
    OBVIOUS
  <2>2. ~ Running(u)
    BY <1>2, <2>1 DEF Running
  <2> HIDE DEF u
  <2>3. Fine(n, V, s, u, {}, {})
    BY <2>2 DEF Fine
  <2>4. Goes(H, u)
    BY <1>2, <2>1, <2>2 DEF Goes
  <2> QED  BY <1>1, <2>3, <2>4, ThenTryGoes
<1>3. CASE Running(t)
  <2>1. Sound(n, V, t) /\ Filed(t) /\ QueueOk(n, t.queue, V \cap Packet)
    BY <1>3 DEF Fine, Goes, Sound
  <2>2. e \in Entry /\ e.type = "hello" /\ e.iface = i
    <3>1. i \in Nat /\ 0 \in 0..MaxRetry /\ Broadcast \in Int
      BY DeviceAt, QueueAssumption DEF Broadcast
    <3> QED  BY <3>1 DEF Entry
  <2>3. u = Grown(t, q, {})
    BY <2>1 DEF Sound, Shape, Grown
  <2>31. u.queue = q /\ u.nbrs = t.nbrs /\ u.rtq = t.rtq /\ u.abort = t.abort
    BY <2>1 DEF Sound, Shape
  <2> HIDE DEF e, q, u
  <2>4. EntryOk(n, V \cap Packet, e)
    BY <2>2 DEF EntryOk
  <2>5. CASE Accepts(t.queue, e)
    <3>1. Joins(t.queue, e, q)
      BY <2>5 DEF Joins, EnqueueFront, q
    <3>2. Sound(n, V, u) /\ Moves(n, t, u, {}, {})
      BY <2>1, <2>2, <2>3, <2>4, <2>5, <3>1, QueueGrows
    <3>3. Added(t.queue, e, q)
      BY <2>1, <2>2, <2>4, <2>5, <3>1, Enqueued DEF Added
    <3>4. ~ Unicast(e) /\ Listed(t.nbrs, t.queue)
      BY <2>1, <2>2 DEF Unicast, Filed
    <3>5. Listed(t.nbrs, q)
      BY <3>3, <3>4, ListedOther
    <3>6. Filed(u)
      BY <2>1, <2>31, <3>5 DEF Filed
    <3> QED  BY <1>1, <3>2, <3>6, TrySendGoes
  <2>6. CASE ~ Accepts(t.queue, e)
    <3>1. q = t.queue
      BY <2>6 DEF EnqueueFront, q
    <3>2. u = t
      BY <2>1, <2>3, <3>1 DEF Sound, Shape, Grown
    <3> QED  BY <1>1, <2>1, <3>2, TrySendGoes
  <2> QED  BY <2>5, <2>6
<1> QED  BY <1>2, <1>3

\* SendHello keeps a node filed.
LEMMA SendHelloGoes ==
    ASSUME NEW H, MayLose(H), RoutesOnLink, NEW V, NEW n \in Node, NEW s, Sound(n, V, s), Filed(s),
           NEW garbage \in [DOMAIN Devices(n) -> SUBSET STRING]
    PROVE  Goes(H, SendHello(n, s, garbage))
<1> DEFINE N == Len(Devices(n))
           out == SendHello(n, s, garbage)
           seq == [i \in 1..N |-> i]
<1>1. N \in Nat /\ DOMAIN Devices(n) = 1..N
  BY DeviceAt
<1> HIDE DEF N
<1>2. PICK v : IsRun(v, "SendHello", <<n, garbage>>, s, seq, N, out)
  BY <1>1, SendHelloLoop
<1> HIDE DEF out
<1>3. /\ v[0] = s
      /\ \A k \in 0..N - 1 : v[k + 1] = EnqueueHello(n, v[k], k + 1, garbage[k + 1])
      /\ out = v[N]
  <2> DEFINE c == <<n, garbage>>
  <2>1. \A acc, e : Turn("SendHello", c, acc, e) = EnqueueHello(n, acc, e, garbage[e])
    BY DEF Turn
  <2>2. \A k \in 0..N - 1 : seq[k + 1] = k + 1
    BY <1>1
  <2> HIDE DEF c, seq
  <2> QED  BY <1>2, <2>1, <2>2 DEF IsRun, c
<1> DEFINE T == {k \in 0..N : Fine(n, V, s, v[k], {}, {}) /\ Goes(H, v[k])}
<1>4. 0 \in T
  <2>1. Goes(H, s)
    BY FiledGoes DEF Sound
  <2> QED  BY <1>1, <1>3, <2>1 DEF Fine, Moves
<1>5. ASSUME NEW k \in 0..N - 1, k \in T PROVE k + 1 \in T
  <2>1. Fine(n, V, s, v[k], {}, {}) /\ Goes(H, v[k]) /\ k + 1 \in 0..N /\ k + 1 \in DOMAIN Devices(n)
    BY <1>1, <1>5
  <2>2. garbage[k + 1] \in SUBSET STRING
    BY <2>1
  <2>3. Fine(n, V, s, EnqueueHello(n, v[k], k + 1, garbage[k + 1]), {}, {})
    BY <2>1, <2>2, EnqueueHelloOk
  <2>4. Goes(H, EnqueueHello(n, v[k], k + 1, garbage[k + 1]))
    BY <2>1, <2>2, EnqueueHelloGoes
  <2> QED  BY <1>3, <2>1, <2>3, <2>4
<1> HIDE DEF T
<1>6. N \in T
  <2>1. \A k \in 0..N : k \in T
    BY <1>1, <1>4, <1>5, Upto
  <2> QED  BY <1>1, <2>1
<1> QED  BY <1>3, <1>6 DEF T, out

\* Fewer entries wait for their acks.
LEMMA RtqLessFiled ==
    ASSUME NEW s, Shape(s), Filed(s), NEW q, Thinned(s.rtq, q), NEW t, t = [s EXCEPT !.rtq = q]
    PROVE  Filed(t) /\ t.queue = s.queue /\ t.nbrs = s.nbrs /\ t.rtq = q /\ t.abort = s.abort
<1>1. t.queue = s.queue /\ t.nbrs = s.nbrs /\ t.rtq = q /\ t.abort = s.abort
  BY DEF Shape
<1>2. \A i \in DOMAIN q : \E j \in DOMAIN s.rtq : q[i] = s.rtq[j]
  BY DEF Thinned
<1>3. Reachable(s.nbrs, q)
  BY <1>2 DEF Filed, Reachable
<1> QED  BY <1>1, <1>3 DEF Filed

\* The next hop of an entry to be sent again is a neighbor, so the entry is filed again.
LEMMA RequeuedFiled ==
    ASSUME NEW V, NEW n \in Node, NEW s, Sound(n, V, s), Filed(s), s.rtq # <<>>,
           NEW again, Requeued(s, again)
    PROVE  Running(again) /\ Filed(again)
<1> DEFINE q == Tail(s.rtq)
           h == Head(s.rtq)
           e == Retry(h)
           rest == [s EXCEPT !.rtq = q]
           k == SearchMac(s.nbrs, e.dest)
           front == EnqueueFront(s.queue, e)
           b == [rest EXCEPT !.queue = front]
           B == AddVirtualQueueEntryFront(s.nbrs, k, e.pid)
           gone == Abort(rest, "neighborPos >= 0")
<1>1. \/ again = rest
      \/ k = 0 /\ again = gone
      \/ Accepts(s.queue, e) /\ k # 0 /\ again = WithNeighbors(b, B)
  BY Zenon DEF Requeued
<1>2. Shape(s) /\ Running(s) /\ s.nbrs \in Seq(Neighbor) /\ RtqOk(n, s.rtq, V \cap Packet)
      /\ s.rtq \in Seq(Entry) /\ Distinct(s.rtq) /\ NoneTwice(s.nbrs)
      /\ Rows(s.nbrs, Awaited(s.queue)) /\ QueueOk(n, s.queue, V \cap Packet)
  BY DEF Sound, Table, Rows, RtqOk, QueueOk, NoneTwice
<1>3. Thinned(s.rtq, q)
  BY <1>2, TailThins
<1>4. e \in Entry /\ EntryOk(n, V \cap Packet, e) /\ Unicast(e)
  BY <1>2, RetryOk
<1>5. e.dest = h.dest /\ 1 \in DOMAIN s.rtq /\ s.rtq[1] = h
  <2>1. h \in Entry /\ 1 \in DOMAIN s.rtq /\ s.rtq[1] = h
    BY <1>2, TailIs
  <2> HIDE DEF h
  <2>2. e.dest = h.dest
    BY <2>1 DEF Retry, Entry
  <2> QED  BY <2>1, <2>2
<1>6. rest = [s EXCEPT !.rtq = q]
  OBVIOUS
<1>7. k = SearchMac(s.nbrs, e.dest)
  OBVIOUS
<1> HIDE DEF q, e, h, rest, B, k, gone
<1>8. Filed(rest) /\ rest.queue = s.queue /\ rest.nbrs = s.nbrs /\ rest.abort = s.abort
  <2> SUFFICES ASSUME NEW t, t = [s EXCEPT !.rtq = q]
               PROVE  Filed(t) /\ t.queue = s.queue /\ t.nbrs = s.nbrs /\ t.abort = s.abort
    BY <1>6
  <2>1. Shape(s) /\ Filed(s) /\ Thinned(s.rtq, q)
    BY <1>2, <1>3
  <2> QED  BY ONLY <2>1, t = [s EXCEPT !.rtq = q], RtqLessFiled
<1>9. k # 0
  <2>1. PICK l \in DOMAIN s.nbrs : HasMac(s.nbrs[l], e.dest)
    BY <1>5 DEF Filed, Reachable
  <2> QED  BY <1>2, <1>7, <2>1, RowFound
<1>10. CASE again = rest
  BY <1>2, <1>8, <1>10 DEF Running
<1>11. CASE Accepts(s.queue, e) /\ again = WithNeighbors(b, B)
  <2> DEFINE old == rest.nbrs[k].vq
             vq == <<e.pid>> \o old
  <2>0. RtqOk(n, q, V \cap Packet) /\ (q # <<>> => s.rtq # <<>>)
    BY <1>2, <1>3, ThinnedOk
  <2>1. Sound(n, V, rest)
    BY <1>6, <2>0, RtqShrinks
  <2>2. MacAt(rest.nbrs, e.dest, k)
    BY <1>2, <1>7, <1>8, SearchMacIn
  <2>3. k \in DOMAIN s.nbrs
    BY <1>8, <1>9, <2>2 DEF MacAt
  <2>4. s.nbrs[k] \in Neighbor /\ IsInjective(old)
    BY <1>2, <1>8, <2>3 DEF NoneTwice
  <2>5. e.pid \notin ToSet(old)
    BY <1>8, <1>11, <2>1, <2>3, NotFiledYet
  <2>6. old \in Seq(Packet) /\ e.pid \in Packet
    BY <1>4, <1>8, <2>4 DEF Neighbor, EntryOk, Unicast
  <2> HIDE DEF old
  <2>7. ToSet(vq) = {e.pid} \cup ToSet(old) /\ IsInjective(vq)
    BY <2>4, <2>5, <2>6, ConsIs, ConsInjective
  <2>8. B = Queued(rest.nbrs, k, vq)
    BY <1>8 DEF B, AddVirtualQueueEntryFront, Queued, old
  <2>9. b = Grown(rest, front, {})
    BY <2>1 DEF Sound, Shape, Grown
  <2>10. Joins(rest.queue, e, front) /\ Accepts(rest.queue, e)
    BY <1>8, <1>11 DEF Joins, EnqueueFront
  <2> HIDE DEF b, front, vq
  <2>11. Plus(rest.nbrs[k].vq, e.pid, vq)
    BY <2>7 DEF Plus, old
  <2>12. again = WithNeighbors(b, Queued(rest.nbrs, k, vq))
    BY <1>11, <2>8
  <2> QED  BY <1>4, <1>8, <1>9, <2>1, <2>2, <2>7, <2>9, <2>10, <2>11, <2>12, JoinsFiled
<1> QED  BY <1>1, <1>9, <1>10, <1>11

\* Retransmit keeps a node filed.
LEMMA RetransmitGoes ==
    ASSUME NEW H, MayLose(H), RoutesOnLink, NEW V, NEW n \in Node, NEW s, Sound(n, V, s), Filed(s)
    PROVE  Goes(H, Retransmit(n, s))
<1> DEFINE off == [s EXCEPT !.timer = FALSE]
<1>1. s.rtq = <<>> => Retransmit(n, s) = off
  BY Zenon DEF Retransmit
<1>2. CASE s.rtq = <<>>
  <2>1. Alike(s, off)
    BY DEF Alike
  <2>2. Goes(H, s)
    BY FiledGoes DEF Sound
  <2> HIDE DEF off
  <2> QED  BY <1>1, <1>2, <2>1, <2>2, AlikeGoes
<1>3. CASE s.rtq # <<>>
  <2>1. PICK again : /\ Retransmit(n, s) = TrySend(n, DoSendEnd(again))
                     /\ Fine(n, V, s, DoSendEnd(again), {}, {}) /\ Requeued(s, again)
    BY <1>3, RetransmitSends
  <2>2. Goes(H, again)
    BY <1>3, <2>1, RequeuedFiled, FiledGoes
  <2> DEFINE t == DoSendEnd(again)
  <2>3. Goes(H, t)
    BY <2>2, TimerAlike, AlikeGoes
  <2> HIDE DEF t
  <2>4. Goes(H, TrySend(n, t))
    BY <2>1, <2>3, ThenTryGoes DEF t
  <2> QED  BY <2>1, <2>4 DEF t
<1> QED  BY <1>2, <1>3

\* What IP answers is filed.
LEMMA ForwardUpGoes ==
    ASSUME NEW H, MayLose(H), RoutesOnLink, NEW V, NEW n \in Node, NEW s, Sound(n, V, s), Filed(s),
           NEW i, NEW dst, NEW pid, Unforwarded(pid) \/ pid \in V \cap Packet
    PROVE  Goes(H, ForwardUp(n, s, i, pid, dst))
<1> DEFINE answer == IpForward(n, pid)
           handed == [s EXCEPT !.up = s.up \cup {pid}]
           r == ForwardUp(n, s, i, pid, dst)
           req == Head(answer)
<1>1. \/ r = s
      \/ r = handed
      \/ answer # <<>> /\ r = EnqueueData(n, handed, req)
  BY DEF ForwardUp
<1>2. Goes(H, s) /\ Running(s)
  BY FiledGoes DEF Sound
<1>3. Alike(s, handed)
  BY DEF Alike
<1>4. Sound(n, V, handed)
  <2>1. handed = Handed(s, s.up \cup {pid}, s.acks)
    BY DEF Sound, Shape, Handed
  <2>2. s.acks \in Seq([ip : Nat, pid : V])
    BY DEF Sound
  <2> HIDE DEF handed
  <2> QED  BY <2>1, <2>2, HandedOk
<1> HIDE DEF handed, r
<1>5. Goes(H, handed) /\ Filed(handed)
  <2>1. Goes(H, handed)
    BY <1>2, <1>3, AlikeGoes
  <2> QED  BY <1>4, <2>1 DEF Goes, Sound
<1>6. ASSUME answer # <<>>, pid \in V \cap Packet
      PROVE  Goes(H, EnqueueData(n, handed, req))
  <2>1. PICK t \in Traffic : pid = t.req.pid
    BY <1>6 DEF Packet
  <2>2. req \in Request(n) /\ req.pid = pid /\ req.dest # Broadcast
    BY Zenon, <1>6, <2>1, TrafficAssumption
  <2>3. req \in Asking(n)
    BY <1>6, <2>1 DEF Asking
  <2>4. Asked(n, req) /\ req.pid \in V
    BY <1>6, <2>2, <2>3 DEF Asked
  <2> HIDE DEF req
  <2> QED  BY <1>4, <1>5, <2>4, EnqueueDataGoes
<1>7. Unforwarded(pid) => answer = <<>>
  BY DEF Unforwarded
<1> QED  BY <1>1, <1>2, <1>5, <1>6, <1>7 DEF r

\* A reception changes nothing that waits.
LEMMA NoteReceptionGoes ==
    ASSUME NEW H, NEW t, Goes(H, t), NEW p, NEW mac
    PROVE  Goes(H, NoteReception(t, p, mac))
<1> DEFINE u == NoteReception(t, p, mac)
<1>1. Alike(t, u)
  BY DEF NoteReception, Alike
<1> HIDE DEF u
<1> QED  BY <1>1, AlikeGoes DEF u

\* Acks only take entries away.
LEMMA HeedReportsFiled ==
    ASSUME NEW V, NEW n, NEW s, Sound(n, V, s), Filed(s), NEW f, NEW mac,
           NEW t, t = HeedReports(n, s, f, mac)
    PROVE  Filed(t)
<1> DEFINE mine == {a.pid : a \in {b \in f.acks : b.ip = GetIP(n)}}
           q == EraseAll(s.rtq, mine)
           I == s.info \cup (Reports(f) \X {mac})
           u == [s EXCEPT !.rtq = q]
<1>1. t = [s EXCEPT !.rtq = q, !.info = I]
  BY DEF HeedReports, Reports
<1>2. Shape(s) /\ s.rtq \in Seq(Entry) /\ Distinct(s.rtq)
  BY DEF Sound, RtqOk, QueueOk
<1> HIDE DEF mine, I
<1>3. Thinned(s.rtq, q)
  BY <1>2, EraseAllThins
<1> HIDE DEF q
<1>4. u = [s EXCEPT !.rtq = q]
  OBVIOUS
<1>5. t.queue = s.queue /\ t.rtq = q /\ t.nbrs = s.nbrs
  BY <1>1, <1>2 DEF Shape
<1> HIDE DEF u
<1>6. Filed(u) /\ u.queue = s.queue /\ u.nbrs = s.nbrs /\ u.rtq = q
  BY <1>2, <1>3, <1>4, RtqLessFiled
<1> QED  BY <1>5, <1>6 DEF Filed

\* A frame with one native is filed when IP sends it on, whatever the assertions.
LEMMA RecvPlainGoes ==
    ASSUME NEW H, MayLose(H), RoutesOnLink, NEW V, NEW n \in Node, NEW s, Sound(n, V, s), Filed(s),
           NEW i, NEW mac, NEW f,
           NEW m, NEW L, NEW J, f \in DataSendable(m, L, J), ~ (Cardinality(f.ids) > 1),
           Got(n, s, f) \subseteq V
    PROVE  Goes(H, RecvPlain(n, s, i, f, mac))
<1> DEFINE r == RecvPlain(n, s, i, f, mac)
           pid == MyNative(n, f)
           p == f.pkt
<1>1. IdsOk(f.ids, f.pkt, J) /\ f.ids \in SUBSET Ids(L)
  BY DEF DataSendable
<1>2. PICK id \in f.ids : f.ids = {id}
  <2>1. IsFiniteSet(f.ids) /\ f.ids # {}
    BY <1>1 DEF IdsOk
  <2>2. Cardinality(f.ids) = 1
    BY <2>1, FS_CardinalityType, FS_EmptySet
  <2> QED  BY <2>1, <2>2, FS_Singleton
<1>3. p = id.pid /\ p \in Packet
  BY <1>1, <1>2 DEF IdsOk, Ids
<1>4. CASE IsBroadcast(f)
  <2>1. Unforwarded(p)
    BY <1>1, <1>2, <1>3, <1>4 DEF IsBroadcast, IdsOk
  <2>2. r = ForwardUp(n, s, i, p, Broadcast)
    BY <1>4 DEF RecvPlain
  <2> HIDE DEF r, p
  <2> QED  BY <2>1, <2>2, ForwardUpGoes DEF r
<1>5. CASE ~ IsBroadcast(f) /\ ~ AmINext(n, f)
  <2>1. r = NoteReception(s, p, mac)
    BY <1>5 DEF RecvPlain
  <2>2. Goes(H, s)
    BY FiledGoes DEF Sound
  <2> HIDE DEF r, p
  <2> QED  BY <2>1, <2>2, NoteReceptionGoes DEF r
<1>6. CASE ~ IsBroadcast(f) /\ AmINext(n, f)
  <2>1. pid = p
    <3>1. pid \in Natives(f)
      BY <1>6, MyNativeIs
    <3> QED  BY <1>2, <1>3, <3>1 DEF Natives
  <2>2. r = NoteReception(ForwardUp(n, s, i, p, f.dst), p, mac)
    BY Zenon, <1>6, <2>1 DEF RecvPlain
  <2>3. p \in V \cap Packet
    BY <1>3, <1>6 DEF Got
  <2> HIDE DEF r, p, pid
  <2>4. Goes(H, ForwardUp(n, s, i, p, f.dst))
    BY <2>3, ForwardUpGoes
  <2> QED  BY <2>2, <2>4, NoteReceptionGoes DEF r
<1> QED  BY <1>4, <1>5, <1>6

\* In a legible frame the native that the pool lacks is the node's own.
LEMMA LegibleIs ==
    ASSUME NEW n \in Node, NEW s, NEW m, NEW L, NEW J, NEW f \in DataSendable(m, L, J),
           Legible(n, s, f), Cardinality(f.ids) > 1, ~ (Decode(s, f) < 0), AmINext(n, f)
    PROVE  DecodedId(s, f) = MyNative(n, f) /\ DecodedPacket(s, f) = MyNative(n, f)
<1> DEFINE M == MissingNatives(s, f)
           p == MyNative(n, f)
<1>1. IdsOk(f.ids, f.pkt, J) /\ IsFiniteSet(f.ids)
  BY DEF DataSendable, IdsOk
<1>2. ~ IsBroadcast(f)
  <2> SUFFICES ASSUME NEW id \in f.ids, id.mac = Broadcast PROVE FALSE
    BY DEF IsBroadcast
  <2>1. f.ids = {id}
    BY <1>1 DEF IdsOk
  <2>2. Cardinality(f.ids) = 1
    BY <2>1, FS_Singleton
  <2> QED  BY <2>2
<1>3. M # {}
  BY DEF Decode
<1>4. p \in Natives(f)
  BY MyNativeIs
<1>5. Natives(f) \ {p} \subseteq s.pool
  BY DEF Legible
<1>6. M = {p} /\ Natives(f) \cap s.pool = Natives(f) \ {p}
  BY <1>3, <1>4, <1>5 DEF MissingNatives
<1>7. DecodedId(s, f) = p
  <2>1. DecodedId(s, f) = CHOOSE pid \in M : TRUE
    BY DEF DecodedId
  <2> QED  BY <1>6, <2>1
<1>8. DecodedPacket(s, f) = p
  <2>1. DecodedPacket(s, f) = Without(f.pkt, Natives(f) \cap s.pool)
    BY Zenon DEF DecodedPacket, Without
  <2>2. PICK id \in f.ids : id.pid = p
    BY <1>4 DEF Natives
  <2>3. Without(f.pkt, Natives(f) \ {p}) = p
    BY <1>2, <2>2 DEF Legible, Decodes
  <2> QED  BY <1>6, <2>1, <2>3
<1> QED  BY <1>7, <1>8

\* A coded frame fails no assertion but those of Recv, and a legible one not even them.
LEMMA RecvEncodedGoes ==
    ASSUME NEW H, MayLose(H), RoutesOnLink, NEW V, NEW n \in Node, NEW s, Sound(n, V, s), Filed(s),
           NEW i, NEW mac, NEW f,
           NEW m \in Node, NEW L, NEW J, f \in DataSendable(m, L, J), Cardinality(f.ids) > 1,
           Got(n, s, f) \subseteq V, Misread \subseteq H \/ Legible(n, s, f)
    PROVE  Goes(H, RecvEncoded(n, s, i, f, mac))
<1> DEFINE r == RecvEncoded(n, s, i, f, mac)
           pid == MyNative(n, f)
           p == DecodedPacket(s, f)
           acked == AddAck(s, f.ip, pid)
           t == ForwardUp(n, acked, i, pid, f.dst)
           lost == Abort(s, "isDecodable == pid")
           wrong == Abort(s, "pid == Hash(packet)")
<1>1. /\ Decode(s, f) < 0 => r = s
      /\ ~ (Decode(s, f) < 0) /\ ~ AmINext(n, f) => r = NoteReception(s, p, mac)
      /\ ~ (Decode(s, f) < 0) /\ AmINext(n, f) =>
            \/ DecodedId(s, f) # pid /\ r = lost
            \/ pid # p /\ r = wrong
            \/ DecodedId(s, f) = pid /\ r = NoteReception(t, pid, mac)
  BY Zenon DEF RecvEncoded
<1>2. Goes(H, s) /\ Shape(s) /\ Running(s)
  BY FiledGoes DEF Sound
<1>3. ~ (Decode(s, f) < 0) /\ AmINext(n, f) /\ Legible(n, s, f) => DecodedId(s, f) = pid /\ p = pid
  BY LegibleIs
<1>4. ASSUME Misread \subseteq H
      PROVE  Goes(H, lost) /\ Goes(H, wrong)
  <2> DEFINE one == "isDecodable == pid"
             two == "pid == Hash(packet)"
  <2>1. one # None /\ two # None
    BY Zenon DEF None
  <2>2. one \in Misread /\ two \in Misread
    BY Zenon DEF Misread
  <2>3. lost = Abort(s, one) /\ wrong = Abort(s, two)
    OBVIOUS
  <2> HIDE DEF one, two, lost, wrong
  <2>4. one \in H /\ two \in H
    BY <1>4, <2>2
  <2>5. Goes(H, Abort(s, one)) /\ Goes(H, Abort(s, two))
    BY Zenon, <1>2, <2>1, <2>4, AbortGoes
  <2> QED  BY <2>3, <2>5
<1>5. f.ip \in Nat
  <2>1. f.ip = GetIP(m)
    BY DEF DataSendable
  <2> QED  BY <2>1, OwnIp, Numbers
<1>6. Decode(s, f) < 0 => r = s
  BY Zenon, <1>1
<1>7. ~ (Decode(s, f) < 0) /\ ~ AmINext(n, f) => r = NoteReception(s, p, mac)
  BY Zenon, <1>1
<1>8. ~ (Decode(s, f) < 0) /\ AmINext(n, f) =>
            \/ DecodedId(s, f) # pid /\ r = lost
            \/ pid # p /\ r = wrong
            \/ DecodedId(s, f) = pid /\ r = NoteReception(t, pid, mac)
  BY Zenon, <1>1
<1>9. acked = Handed(s, s.up, Append(s.acks, [ip |-> f.ip, pid |-> pid]))
  BY DEF AddAck, Handed, Sound, Shape
<1>10. Alike(s, acked)
  BY DEF AddAck, Alike
<1>11. AmINext(n, f) => pid \in Packet
  <2>1. AmINext(n, f) => pid \in Natives(f)
    BY MyNativeIs
  <2>2. f.ids \in SUBSET Ids(L)
    BY DEF DataSendable
  <2> QED  BY <2>1, <2>2 DEF Natives, Ids
<1>12. ~ (Decode(s, f) < 0) /\ AmINext(n, f) => DecodedId(s, f) \in V
  BY DEF Got
<1> SUFFICES Goes(H, r)
  OBVIOUS
<1> HIDE DEF r, p, acked, t, lost, wrong, pid
<1>13. CASE Decode(s, f) < 0
  BY <1>2, <1>6, <1>13
<1>14. CASE ~ (Decode(s, f) < 0) /\ ~ AmINext(n, f)
  BY <1>2, <1>7, <1>14, NoteReceptionGoes
<1>15. CASE ~ (Decode(s, f) < 0) /\ AmINext(n, f)
  <2>1. CASE r = NoteReception(t, pid, mac) /\ DecodedId(s, f) = pid
    <3>1. pid \in V \cap Packet
      BY <1>11, <1>12, <1>15, <2>1
    <3>2. Append(s.acks, [ip |-> f.ip, pid |-> pid]) \in Seq([ip : Nat, pid : V])
      <4> DEFINE B == [ip : Nat, pid : V]
                 b == [ip |-> f.ip, pid |-> pid]
      <4>1. b \in B
        BY <1>5, <3>1
      <4>2. s.acks \in Seq(B)
        BY DEF Sound
      <4> HIDE DEF B, b
      <4>3. Append(s.acks, b) \in Seq(B)
        BY <4>1, <4>2
      <4> QED  BY <4>3 DEF B, b
    <3>3. Sound(n, V, acked)
      BY <1>9, <3>2, HandedOk
    <3>4. Filed(acked)
      BY <1>2, <1>10 DEF Alike, Goes, Running, Filed
    <3>5. Goes(H, t)
      BY <3>1, <3>3, <3>4, ForwardUpGoes DEF t
    <3> QED  BY <2>1, <3>5, NoteReceptionGoes
  <2>2. CASE DecodedId(s, f) # pid /\ r = lost
    BY <1>3, <1>4, <1>15, <2>2
  <2>3. CASE pid # p /\ r = wrong
    BY <1>3, <1>4, <1>15, <2>3
  <2> QED  BY <1>8, <1>15, <2>1, <2>2, <2>3
<1> QED  BY <1>13, <1>14, <1>15

\* What a data frame tells of its sender keeps everything filed, and so does what it
\* carries.
LEMMA RecvDataGoes ==
    ASSUME NEW H, MayLose(H), RoutesOnLink, RadiosApart,
           NEW n \in Node, NEW m \in Node, NEW s, Sound(n, s.pool, s), Filed(s), NEW i \in DOMAIN Devices(n),
           NEW L, NEW J, NEW f, f \in DataSendable(m, L, J), OnChannel(f.src, Devices(n)[i].ch),
           Misread \subseteq H \/ Legible(n, s, f)
    PROVE  Goes(H, RecvData(n, s, i, f))
<1> DEFINE G == Got(n, s, f)
           V == s.pool \cup G
           r == RecvData(n, s, i, f)
           t == [ip |-> f.ip, mac |-> f.src, ch |-> Devices(n)[i].ch]
           B == SMNeighbors(s.nbrs, t)
           met == WithNeighbors(s, B)
           mac == GetMac(met.nbrs[SearchIp(met.nbrs, f.ip)])
           told == HeedReports(n, met, f, mac)
           out == IF Cardinality(f.ids) > 1 THEN RecvEncoded(n, told, i, f, mac)
                  ELSE RecvPlain(n, told, i, f, mac)
<1>1. Running(met) => r = TrySend(n, out)
  BY Zenon DEF RecvData
<1>2. f.ip \in Ips(m) /\ f.src \in Macs(m)
  BY OwnIp DEF DataSendable
<1>3. t \in Trinity /\ t.mac = f.src /\ t.ip = f.ip
  <2>1. Devices(n)[i] \in Device
    BY DeviceAt
  <2> QED  BY <1>2, <2>1, OwnerOf, Numbers DEF Device, Trinity
<1>4. Sound(n, V, s) /\ Shape(s) /\ Running(s) /\ Table(s.nbrs, Awaited(s.queue))
  <2>1. Sound(n, V, s)
    BY SoundMono
  <2>2. Shape(s) /\ Running(s) /\ Table(s.nbrs, Awaited(s.queue))
    BY DEF Sound
  <2> QED  BY <2>1, <2>2
<1> HIDE DEF t, V
<1>5. Table(B, Awaited(s.queue)) /\ Covers(s.nbrs, B)
  BY <1>2, <1>3, <1>4, SMNeighborsCovers
<1> HIDE DEF B
<1>6. NoneTwice(B) /\ Rows(B, Awaited(s.queue))
  BY <1>5 DEF NoneTwice, Table
<1>7. met.nbrs = B /\ met.queue = s.queue /\ met.rtq = s.rtq /\ met.abort = s.abort
  BY <1>4, <1>6, NeighborsTaken
<1>8. Fine(n, V, s, met, {}, {})
  BY <1>4, <1>6, TableSet
<1> HIDE DEF met
<1>9. Running(met)
  BY <1>4, <1>7 DEF Running
<1>10. Sound(n, V, met) /\ Moves(n, s, met, {}, {})
  BY <1>8, <1>9 DEF Fine
<1>11. Filed(met)
  BY <1>5, <1>7, CoversFiled DEF Filed
<1> HIDE DEF mac
<1>12. Sound(n, V, told) /\ Moves(n, met, told, {}, Reports(f) \X {mac})
  BY <1>10, HeedReportsOk
<1>13. Filed(told)
  BY <1>10, <1>11, HeedReportsFiled
<1>14. told.pool = s.pool
  BY <1>10, <1>12 DEF Moves
<1> HIDE DEF told
<1>15. G = Got(n, told, f) /\ G \subseteq V
  BY <1>14, GotSame DEF V
<1>16. Misread \subseteq H \/ Legible(n, told, f)
  BY <1>14 DEF Legible
<1> HIDE DEF G
<1>17. Fine(n, V, told, out, G, G \X {mac}) /\ Goes(H, out)
  <2>1. CASE Cardinality(f.ids) > 1
    <3>1. out = RecvEncoded(n, told, i, f, mac)
      BY Zenon, <2>1
    <3> HIDE DEF out
    <3>2. Fine(n, V, told, RecvEncoded(n, told, i, f, mac), G, G \X {mac})
      BY <1>12, <1>15, <2>1, RecvEncodedOk
    <3>3. Got(n, told, f) \subseteq V
      BY <1>15
    <3>4. Goes(H, RecvEncoded(n, told, i, f, mac))
      BY <1>12, <1>13, <1>16, <2>1, <3>3, RecvEncodedGoes
    <3> QED  BY <3>1, <3>2, <3>4
  <2>2. CASE ~ (Cardinality(f.ids) > 1)
    <3>1. out = RecvPlain(n, told, i, f, mac)
      BY Zenon, <2>2
    <3> HIDE DEF out
    <3>2. Fine(n, V, told, RecvPlain(n, told, i, f, mac), G, G \X {mac})
      BY <1>12, <1>15, <2>2, RecvPlainOk
    <3>3. Got(n, told, f) \subseteq V
      BY <1>15
    <3>4. Goes(H, RecvPlain(n, told, i, f, mac))
      BY <1>12, <1>13, <2>2, <3>3, RecvPlainGoes
    <3> QED  BY <3>1, <3>2, <3>4
  <2> QED  BY <2>1, <2>2
<1> HIDE DEF out
<1>18. Goes(H, TrySend(n, out))
  BY <1>17, ThenTryGoes
<1> QED  BY <1>1, <1>9, <1>18

\* Every frame keeps everything filed.
LEMMA RecvGoes ==
    ASSUME NEW H, MayLose(H), RoutesOnLink, RadiosApart,
           NEW n \in Node, NEW m \in Node, NEW s, Sound(n, s.pool, s), Filed(s), NEW i \in DOMAIN Devices(n),
           NEW L, NEW J, NEW f \in Sendable(m, L, J),
           f.type = "data" => OnChannel(f.src, Devices(n)[i].ch),
           f.type = "data" => Misread \subseteq H \/ Legible(n, s, f)
    PROVE  Goes(H, Recv(n, s, i, f))
<1> DEFINE B == NeighborLearn(s.nbrs, f.pairs)
           t == WithNeighbors(s, B)
           r == Recv(n, s, i, f)
<1>1. \/ r = s
      \/ f.type = "hello" /\ r = TrySend(n, t)
      \/ f.type # "hello" /\ r = RecvData(n, s, i, f)
  BY Zenon DEF Recv
<1>2. Shape(s) /\ Running(s) /\ Table(s.nbrs, Awaited(s.queue))
  BY DEF Sound
<1> SUFFICES Goes(H, r)
  OBVIOUS
<1> HIDE DEF r
<1>3. CASE r = s
  BY <1>2, <1>3, FiledGoes
<1>4. CASE f.type = "hello" /\ r = TrySend(n, t)
  <2>1. f.pairs = Devices(m)
    BY <1>4 DEF Sendable, DataSendable
  <2>2. Table(B, Awaited(s.queue)) /\ Covers(s.nbrs, B)
    BY <1>2, <2>1, NeighborLearnCovers
  <2>3. NoneTwice(B) /\ Rows(B, Awaited(s.queue))
    BY <2>2 DEF NoneTwice, Table
  <2> DEFINE V == s.pool
  <2>4. Sound(n, V, s)
    OBVIOUS
  <2> HIDE DEF B, V
  <2>5. t.nbrs = B /\ t.queue = s.queue /\ t.rtq = s.rtq /\ t.abort = s.abort
    BY <1>2, <2>3, NeighborsTaken
  <2>6. Fine(n, V, s, t, {}, {})
    BY <2>3, <2>4, TableSet
  <2> HIDE DEF t
  <2>7. Filed(t) /\ Running(t)
    BY <1>2, <2>2, <2>5, CoversFiled DEF Filed, Running
  <2>8. Sound(n, V, t)
    BY <2>6, <2>7 DEF Fine
  <2> QED  BY <1>4, <2>7, <2>8, TrySendGoes
<1>5. CASE f.type # "hello" /\ r = RecvData(n, s, i, f)
  <2>1. f \in DataSendable(m, L, J) /\ f.type = "data"
    BY <1>5 DEF Sendable, DataSendable
  <2> QED  BY <1>5, <2>1, RecvDataGoes
<1> QED  BY <1>1, <1>3, <1>4, <1>5

-----------------------------------------------------------------------------
(* What waits is filed in every reachable state.                            *)

\* A frame that its next hops can decode is legible to them.
LEMMA DecodableLegible ==
    ASSUME CodedFrameDecodable, NEW m \in Node, NEW n \in Node, NEW f \in DataFramesOf(m), Decodes(f)
    PROVE  Legible(n, state[n], f)
<1> SUFFICES ASSUME AmINext(n, f)
             PROVE  Natives(f) \ {MyNative(n, f)} \subseteq state[n].pool
  BY DEF Legible
<1> DEFINE D == MyDevices(n, f)
           first == CHOOSE i \in D : \A j \in D : i <= j
           mac == Devices(n)[first].mac
           mine == CHOOSE id \in f.ids : id.mac = mac
<1>1. D # {} /\ D \subseteq Nat /\ D \subseteq DOMAIN Devices(n)
  BY DeviceAt DEF AmINext, MyDevices
<1>2. first \in D
  <2>1. \E i \in D : \A j \in D : i <= j
    BY <1>1, LeastElement
  <2> HIDE DEF D
  <2> QED  BY <2>1
<1>3. mac \in Macs(n) /\ \E id \in f.ids : id.mac = mac
  BY <1>1, <1>2 DEF MyDevices, Macs
<1>4. MyNative(n, f) = mine.pid
  BY Zenon DEF MyNative
<1> HIDE DEF mac
<1>5. mine \in f.ids /\ mine.mac = mac
  BY <1>3
<1> HIDE DEF mine
<1>6. Owner[mine.mac] = n
  BY <1>3, <1>5, OwnerOf
<1> SUFFICES ASSUME NEW other \in f.ids, other.pid # mine.pid
             PROVE  other.pid \in state[n].pool
  BY <1>4 DEF Natives
<1>7. other # mine
  OBVIOUS
<1>8. other.pid \in state[Owner[mine.mac]].pool
  BY <1>5, <1>7 DEF CodedFrameDecodable
<1> QED  BY <1>6, <1>8

\* The handler of a step keeps everything filed.
LEMMA NextKept ==
    ASSUME NEW H, MayLose(H), RoutesOnLink, RadiosApart, Inv, Kept(H), Next,
           Misread \subseteq H \/ (CodedFrameDecodable /\ DecodedIsNative)
    PROVE  Kept(H)'
<1>1. Alive /\ \A n \in Node : Sound(n, state[n].pool, state[n])
  BY DEF Inv, Next
<1>2. \A n \in Node : Filed(state[n])
  BY <1>1 DEF Kept, Goes, Alive
<1>3. ASSUME NEW n \in Node, NEW s, Update(n, s), Goes(H, s)
      PROVE  Kept(H)'
  <2>1. state' = [state EXCEPT ![n] = s] /\ state = [m \in Node |-> state[m]]
    BY <1>3 DEF Inv, Update
  <2>2. \A m \in Node : state'[m] = IF m = n THEN s ELSE state[m]
    BY <2>1
  <2> QED  BY <1>3, <2>2 DEF Kept
<1>4. ASSUME NEW t \in Traffic, Offer(t) PROVE Kept(H)'
  <2> DEFINE n == t.node
             s == state[n]
             r == EnqueueData(n, s, t.req)
             p == t.req.pid
             V == s.pool \cup {p}
  <2>1. Update(n, r)
    BY <1>4 DEF Offer
  <2>2. n \in Node /\ t.req \in Request(n) /\ p \in Packet
    BY TrafficAssumption DEF Packet
  <2>3. Asked(n, t.req)
    <3>1. t.req.dest = Broadcast => Unforwarded(p)
      BY Zenon, TrafficAssumption DEF Unforwarded
    <3>2. t.req \in Asking(n)
      BY DEF Asking
    <3> QED  BY <2>2, <3>1, <3>2 DEF Asked
  <2>4. Sound(n, V, s) /\ p \in V
    <3>1. Sound(n, s.pool, s)
      BY <1>1, <2>2
    <3>2. s.pool \subseteq V
      OBVIOUS
    <3> HIDE DEF V, s
    <3>3. Sound(n, V, s)
      BY <3>1, <3>2, SoundMono
    <3> QED  BY <3>3 DEF V
  <2>5. Filed(s)
    BY <1>2, <2>2
  <2>6. Goes(H, r)
    <3> HIDE DEF V, s, n
    <3> QED  BY <2>2, <2>3, <2>4, <2>5, EnqueueDataGoes
  <2> HIDE DEF r
  <2> QED  BY <1>3, <2>1, <2>2, <2>6
<1>5. ASSUME NEW n \in Node, TryTimer(n) PROVE Kept(H)'
  <2>1. Goes(H, TrySend(n, state[n]))
    BY <1>1, <1>2, TrySendGoes
  <2> QED  BY <1>3, <1>5, <2>1 DEF TryTimer
<1>6. ASSUME NEW n \in Node, RetransmitTimer(n) PROVE Kept(H)'
  <2>1. Goes(H, Retransmit(n, state[n]))
    BY <1>1, <1>2, RetransmitGoes
  <2> QED  BY <1>3, <1>6, <2>1 DEF RetransmitTimer
<1>7. ASSUME NEW n \in Node, HelloTimer(n) PROVE Kept(H)'
  <2>1. PICK garbage \in [DOMAIN Devices(n) -> HelloIds] : Update(n, SendHello(n, state[n], garbage))
    BY <1>7 DEF HelloTimer
  <2>2. garbage \in [DOMAIN Devices(n) -> SUBSET STRING]
    BY <2>1, TrafficAssumption
  <2>3. Goes(H, SendHello(n, state[n], garbage))
    BY <1>1, <1>2, <2>2, SendHelloGoes
  <2> QED  BY <1>3, <2>1, <2>3
<1>8. ASSUME NEW m \in Node, NEW n \in Node, NEW i \in DOMAIN Devices(m), NEW j \in DOMAIN Devices(n),
             Deliver(m, i, n, j)
      PROVE  Kept(H)'
  <2> DEFINE f == Head(state[m].mac[i])
             r == Recv(n, state[n], j, f)
  <2>1. state[m].mac[i] # <<>> /\ Update(n, r)
    BY <1>8 DEF Deliver
  <2>2. f \in ToSet(state[m].mac[i])
    <3> DEFINE S == Sendable(m, state[m].pool, state[m].info)
               q == state[m].mac[i]
    <3>1. q \in Seq(S) /\ q # <<>>
      BY <1>1, <2>1 DEF Sound
    <3> HIDE DEF S, q
    <3>2. Head(q) \in ToSet(q)
      BY <3>1, TailIs
    <3> QED  BY <3>2 DEF q
  <2> HIDE DEF f
  <2>3. f \in Sendable(m, state[m].pool, state[m].info) /\ f \in FramesOf(m)
    BY <1>1, <2>2, FrameIs
  <2>4. f.type = "data" => OnChannel(f.src, Devices(n)[j].ch)
    BY <1>1, <1>8, <2>2, HeardOn
  <2>5. f.type = "data" => Misread \subseteq H \/ Legible(n, state[n], f)
    <3> SUFFICES ASSUME f.type = "data", CodedFrameDecodable, DecodedIsNative
                 PROVE  Legible(n, state[n], f)
      OBVIOUS
    <3>1. f \in DataFramesOf(m)
      BY <2>3 DEF DataFramesOf
    <3>2. Decodes(f)
      BY <1>1, <3>1, DataFrameIs
    <3> QED  BY <3>1, <3>2, DecodableLegible
  <2> DEFINE s == state[n]
  <2>6. Sound(n, s.pool, s) /\ Filed(s)
    BY <1>1, <1>2
  <2>7. Goes(H, Recv(n, s, j, f))
    <3> HIDE DEF s
    <3>1. f.type = "data" => Misread \subseteq H \/ Legible(n, s, f)
      BY <2>5 DEF s
    <3> QED  BY <2>3, <2>4, <2>6, <3>1, RecvGoes
  <2> HIDE DEF r
  <2> QED  BY <1>3, <2>1, <2>7 DEF r
<1>9. ASSUME NEW n \in Node, NEW i \in DOMAIN Devices(n), MacDone(n, i) PROVE Kept(H)'
  <2> DEFINE s == state[n]
             t == FrameDone(s, i)
  <2>1. Update(n, t)
    BY <1>9 DEF MacDone, FrameDone
  <2>2. Alike(s, t)
    BY DEF FrameDone, Alike
  <2>3. Goes(H, s)
    BY DEF Kept
  <2> HIDE DEF s, t
  <2>4. Goes(H, t)
    BY <2>2, <2>3, AlikeGoes
  <2> QED  BY <1>3, <2>1, <2>4
<1> QED  BY <1>4, <1>5, <1>6, <1>7, <1>8, <1>9 DEF Next

\* Nothing waits at the start.
LEMMA InitKept ==
    ASSUME NEW H, Init
    PROVE  Kept(H)
<1> SUFFICES ASSUME NEW n \in Node PROVE Goes(H, state[n])
  BY DEF Kept
<1>1. state[n] = EmptyNode(n)
  BY DEF Init
<1>2. /\ state[n].queue = <<>> /\ state[n].rtq = <<>> /\ state[n].abort = None
  BY <1>1 DEF EmptyNode
<1> QED  BY <1>2 DEF Goes, Filed, Listed, Reachable, Running

\* And nothing changes.
LEMMA SameKept ==
    ASSUME NEW H, Kept(H), UNCHANGED vars
    PROVE  Kept(H)'
BY DEF Kept, vars

\* What is filed once, and for the node it waits for, is what waits.
LEMMA FiledMirrors ==
    ASSUME NEW n, NEW V, NEW s, Sound(n, V, s), Filed(s), NEW k \in DOMAIN s.nbrs
    PROVE  IsInjective(s.nbrs[k].vq) /\ ToSet(s.nbrs[k].vq) = WaitingFor(s, k)
<1> DEFINE q == s.queue
           nbrs == s.nbrs
<1>1. /\ Rows(nbrs, Awaited(q)) /\ RowsOn(nbrs, DOMAIN nbrs, Awaited(q)) /\ Listed(nbrs, q)
      /\ IsInjective(nbrs[k].vq)
  BY DEF Sound, Table, Rows, Filed
<1>2. ASSUME NEW p \in ToSet(nbrs[k].vq)
      PROVE  p \in WaitingFor(s, k)
  <2>1. PICK m \in Node : <<p, m>> \in Awaited(q)
    BY <1>1, <1>2 DEF RowsOn, Row
  <2>2. PICK i \in DOMAIN q : Unicast(q[i]) /\ q[i].pid = p
    BY <2>1 DEF Awaited
  <2>3. PICK l \in DOMAIN nbrs : HasMac(nbrs[l], q[i].dest) /\ p \in ToSet(nbrs[l].vq)
    BY <1>1, <2>2 DEF Listed
  <2>4. l = k
    BY <1>1, <1>2, <2>3 DEF RowsOn
  <2>5. SearchMac(nbrs, q[i].dest) = k
    BY <1>1, <2>3, <2>4, RowFound
  <2> QED  BY <2>2, <2>5 DEF WaitingFor, Unicast
<1>3. ASSUME NEW p \in WaitingFor(s, k)
      PROVE  p \in ToSet(nbrs[k].vq)
  <2>1. PICK i \in DOMAIN q : Unicast(q[i]) /\ q[i].pid = p /\ SearchMac(nbrs, q[i].dest) = k
    BY <1>3 DEF WaitingFor, Unicast
  <2>2. PICK l \in DOMAIN nbrs : HasMac(nbrs[l], q[i].dest) /\ p \in ToSet(nbrs[l].vq)
    BY <1>1, <2>1 DEF Listed
  <2>3. l = k
    BY <1>1, <2>1, <2>2, RowFound
  <2> QED  BY <2>2, <2>3
<1> QED  BY <1>1, <1>2, <1>3

\* IP asks a node for packets to addresses of nodes, by a device of the node.
LEMMA AskingIs ==
    ASSUME NEW n \in Node, NEW req \in Asking(n)
    PROVE  req \in Request(n)
<1>1. CASE \E t \in {u \in Traffic : u.node = n} : req = t.req
  BY Zenon, <1>1, TrafficAssumption
<1>2. CASE \E t \in {u \in Traffic : IpForward(n, u.req.pid) # <<>>} : req = Head(IpForward(n, t.req.pid))
  BY Zenon, <1>2, TrafficAssumption
<1> QED  BY Zenon, <1>1, <1>2 DEF Asking

\* IP sends to addresses of nodes, so with one channel every route is on its link.
LEMMA OneChannelRoutes ==
    ASSUME OneChannel
    PROVE  RoutesOnLink
<1> SUFFICES ASSUME NEW n \in Node, NEW req \in Asking(n), req.dest # Broadcast
             PROVE  OnChannel(req.dest, Devices(n)[req.iface].ch)
  BY DEF RoutesOnLink
<1>1. req \in Request(n)
  BY AskingIs
<1>2. req.dest \in Address /\ req.iface \in DOMAIN Devices(n)
  BY <1>1 DEF Request
<1>3. PICK m \in Node : \E i \in DOMAIN Devices(m) : Devices(m)[i].mac = req.dest
  BY <1>2 DEF Address, Macs
<1> QED  BY <1>2, <1>3 DEF OnChannel, OneChannel

\* Everything that waits is filed as long as the program runs, and if it ends, it is by
\* one of those assertions.
LEMMA KeptAlways == RadiosApart /\ RoutesOnLink /\ Spec => []Kept(MayFail)
<1>1. CASE RadiosApart /\ RoutesOnLink
  <2>1. MayLose(MayFail) /\ Misread \subseteq MayFail
    BY Zenon DEF MayLose, MayFail
  <2>2. Init => Kept(MayFail)
    BY InitKept
  <2>3. Inv /\ Kept(MayFail) /\ [Next]_vars => Kept(MayFail)'
    BY <1>1, <2>1, NextKept, SameKept
  <2> QED  BY <2>2, <2>3, Invariance, PTL DEF Spec
<1>2. CASE ~ (RadiosApart /\ RoutesOnLink)
  BY <1>2
<1> QED  BY <1>1, <1>2

\* Virtual queues and output queue say the same, when the radios of a node are on
\* different channels and packets are routed over the link of their next hop: every
\* unicast entry is in the virtual queue of its next hop, once, through sends, coding,
\* retransmissions, entries put back and neighbors merged from whatever frames.
THEOREM QueuesMirrored == RadiosApart /\ RoutesOnLink /\ Spec => []VirtualQueueMirrorsQueue
<1>1. Inv /\ Kept(MayFail) => VirtualQueueMirrorsQueue
  <2> SUFFICES ASSUME Inv, Kept(MayFail), Alive, NEW n \in Node, NEW k \in DOMAIN state[n].nbrs
               PROVE  /\ IsInjective(state[n].nbrs[k].vq)
                      /\ ToSet(state[n].nbrs[k].vq) = WaitingFor(state[n], k)
    BY DEF VirtualQueueMirrorsQueue
  <2>1. Sound(n, state[n].pool, state[n])
    BY DEF Inv
  <2>2. Filed(state[n])
    BY DEF Kept, Goes, Alive
  <2> QED  BY <2>1, <2>2, FiledMirrors
<1> QED  BY <1>1, Invariance, KeptAlways, PTL

\* The tables hold what the program asserts of them, under the conditions of
\* QueuesMirrored, however many channels there are and whatever frames are lost.
THEOREM TablesNeverFail == RadiosApart /\ RoutesOnLink /\ Spec => []TablesHold
<1>1. Kept(MayFail) => TablesHold
  <2> SUFFICES ASSUME Kept(MayFail), NEW n \in Node
               PROVE  state[n].abort \notin {"neighborPos > -1", "Removed failed", "neighborPos >= 0",
                                           "duplicate virtual queue entry", "IdNexthop not added"}
    BY Zenon DEF TablesHold
  <2>1. state[n].abort = "none" \/ state[n].abort \in
          {"isDecodable == pid", "pid == Hash(packet)", "I think we should be able to index"}
    BY Zenon DEF Kept, Goes, Running, None, MayFail, Misread
  <2>2. "none" \notin {"neighborPos > -1", "Removed failed", "neighborPos >= 0",
                       "duplicate virtual queue entry", "IdNexthop not added"}
    BY Zenon
  <2>3. \A why \in {"isDecodable == pid", "pid == Hash(packet)", "I think we should be able to index"} :
          why \notin {"neighborPos > -1", "Removed failed", "neighborPos >= 0",
                      "duplicate virtual queue entry", "IdNexthop not added"}
    BY Zenon
  <2> QED  BY Zenon, <2>1, <2>2, <2>3
<1> QED  BY <1>1, KeptAlways, PTL

\* With one radio at each node, all on one channel, no assertion of the protocol fails
\* as long as no frame holds more than two natives: coding, retransmissions, overheard
\* and lost frames never bring a node to decode what is not its own.
THEOREM NeverAborts ==
    RadiosApart /\ OneChannel /\ Spec /\ [](Alive => CodedInPairs) => []Alive
<1> DEFINE K == Kept({})
<1>1. ASSUME RadiosApart, OneChannel
      PROVE  Inv /\ Truth /\ Decoding /\ K /\ [Next]_vars => K'
  <2>1. MayLose({}) /\ RoutesOnLink
    BY <1>1, OneChannelRoutes DEF MayLose
  <2> SUFFICES ASSUME Inv, Truth, Decoding, Kept({}), [Next]_vars
               PROVE  Kept({})'
    OBVIOUS
  <2>2. CASE UNCHANGED vars
    BY <2>2, SameKept
  <2>3. CASE Next
    <3>1. Alive
      BY <2>3 DEF Next
    <3>2. CodedFrameDecodable /\ DecodedIsNative
      BY <3>1, TruthDecodes DEF Decoding
    <3> QED  BY <1>1, <2>1, <2>3, <3>2, NextKept
  <2> QED  BY <2>2, <2>3
<1>2. Init => K
  BY InitKept
<1>3. K => Alive
  BY DEF Kept, Goes, Alive
<1>4. Inv /\ (Alive => CodedInPairs) => Decoding
  BY PairsDecode
<1> HIDE DEF K
<1>5. CASE RadiosApart /\ OneChannel
  <2>1. Inv /\ Truth /\ Decoding /\ K /\ [Next]_vars => K'
    BY <1>1, <1>5
  <2> QED  BY <1>2, <1>3, <1>4, <2>1, Invariance, TruthHolds, PTL DEF Spec
<1>6. CASE ~ (RadiosApart /\ OneChannel)
  BY <1>6
<1> QED  BY <1>5, <1>6

\* So a network in which every node sends to at most two next hops, such as a relay with
\* its two ends, never ends in a failed assertion or a fatal error.
THEOREM RelayNeverAborts == TwoNextHops /\ RadiosApart /\ OneChannel /\ Spec => []Alive
BY PairsOnly, NeverAborts, PTL

\* There the protocol is what it promises to be: next hops have what they need to decode
\* a coded frame, what a node believes of others is true, no assertion fails, and queues
\* and knowledge keep their types.
THEOREM RelaySafe ==
    TwoNextHops /\ RadiosApart /\ OneChannel /\ Spec
        => [](Alive /\ TypeOK /\ KnowledgeTruthful /\ CodedFrameDecodable)
<1>1. Inv /\ Alive /\ (Alive => CodedInPairs) => DecodedIsNative
  BY PairsDecode DEF Decoding
<1> QED  BY <1>1, Invariance, PairsOnly, RelayNeverAborts, AssertionSuffices, TypeCorrect, PTL

\* And every event at it is a step of Coding, with no condition on the run.
THEOREM RelayImplementsCoding ==
    TwoNextHops /\ RadiosApart /\ OneChannel /\ Spec => ImplementsCoding
<1>1. Inv /\ Alive /\ (Alive => CodedInPairs) => DecodedIsNative
  BY PairsDecode DEF Decoding
<1> QED  BY <1>1, Invariance, PairsOnly, RelayNeverAborts, ProtocolImplementsCoding, PTL

=============================================================================
