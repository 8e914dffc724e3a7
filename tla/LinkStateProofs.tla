---------------------------- MODULE LinkStateProofs ----------------------------
(***************************************************************************)
(* The nodes of an ETOX network, for every topology and whatever is lost,  *)
(* late or overtaken: their databases hold what was said and never go      *)
(* back, their tables lead to neighbors that were measured, each NF table  *)
(* is one of NFTable, and a flood of which nothing is lost reaches all.    *)
(***************************************************************************)
EXTENDS LinkState, LinkStateNodeProofs

IsSeq(s) == s \in Seq(Range(s))

\* What node n may hold when the hellos S were sent.
Database(n, db, S) ==
    /\ IsSeq(db) /\ Len(db) >= 1
    /\ db[1] = NewNode(n, 0, db[1].pairs)
    /\ \A i \in 2..Len(db) : db[i] \in S
    /\ Unique(db)

\* The hellos S are of nodes of the network.
Said(S) ==
    \A h \in S : /\ h = NewNode(h.address, h.time, h.pairs)
                 /\ h.address \in Node /\ h.time \in Nat

\* Database new knows whatever db knows, from the same time or a later one.
Newer(db, new) ==
    /\ Len(db) <= Len(new)
    /\ \A i \in 1..Len(db) : new[i].address = db[i].address /\ new[i].time >= db[i].time

\* A sequence and its range.
LEMMA SeqIsSeq ==
    ASSUME NEW S, NEW s \in Seq(S)
    PROVE  IsSeq(s)
<1>1. \A i \in 1..Len(s) : s[i] \in Range(s)
  BY DEF Range
<1> QED
  BY <1>1 DEF IsSeq

\* The times of a database are numbers.
LEMMA TimesAreNat ==
    ASSUME NEW n, NEW db, NEW S, Said(S), Database(n, db, S), NEW k \in 1..Len(db)
    PROVE  db[k].time \in Nat
<1>1. db[1].time = 0
  BY DEF Database, NewNode
<1>2. CASE k # 1
  <2>1. k \in 2..Len(db)
    BY <1>2 DEF Database, IsSeq
  <2> QED
    BY <2>1 DEF Database, Said
<1> QED
  BY <1>1, <1>2

\* Either a node is in the database, where Search finds it, or Search gives 0.
LEMMA SearchResult ==
    ASSUME NEW n, NEW db, NEW S, Database(n, db, S), NEW a
    PROVE  \/ /\ Search(db, a) \in 1..Len(db)
              /\ db[Search(db, a)].address = a
           \/ /\ Search(db, a) = 0
              /\ \A i \in 1..Len(db) : db[i].address # a
<1>1. db \in Seq(Range(db))
  BY DEF Database, IsSeq
<1>2. Found(db, a, Search(db, a))
  BY <1>1, SearchIs
<1> QED  BY <1>2 DEF Found, Addresses

\* Between a database and a newer one, nothing known is lost or taken back.
LEMMA NewerKeeps ==
    ASSUME NEW n, NEW db, NEW S, Database(n, db, S), NEW new, NEW T, Database(n, new, T),
           Newer(db, new), NEW a, Search(db, a) # 0
    PROVE  /\ Search(new, a) # 0
           /\ new[Search(new, a)].time >= db[Search(db, a)].time
<1> DEFINE i == Search(db, a)
<1>1. i \in 1..Len(db) /\ db[i].address = a
  BY SearchResult
<1>2. /\ db \in Seq(Range(db))
      /\ new \in Seq(Range(new)) /\ Unique(new)
  BY DEF Database, IsSeq
<1>3. i \in 1..Len(new) /\ new[i].address = a /\ new[i].time >= db[i].time
  BY <1>1, <1>2 DEF Newer
<1>4. Search(new, a) = i
  BY <1>2, <1>3, SearchFinds
<1> QED
  BY <1>1, <1>3, <1>4

\* A node that was not known gets a record of its own.
LEMMA AddNodeKeeps ==
    ASSUME NEW n, NEW db, NEW S, Said(S), Database(n, db, S), NEW hello \in S,
           \A i \in 1..Len(db) : db[i].address # hello.address
    PROVE  Database(n, AddNode(db, hello), S) /\ Newer(db, AddNode(db, hello))
<1> DEFINE new == AddNode(db, hello)
<1>1. db \in Seq(Range(db)) /\ Len(db) >= 1 /\ Unique(db)
  BY DEF Database, IsSeq
<1>2. new = Append(db, hello)
  BY DEF AddNode, Said
<1>3. new \in Seq(Range(db) \cup {hello})
  BY <1>1, <1>2
<1>4. /\ Len(new) = Len(db) + 1
      /\ \A i \in 1..Len(db) : new[i] = db[i]
      /\ new[Len(db) + 1] = hello
  BY <1>1, <1>2
<1>5. DOMAIN new = 1..Len(db) + 1 /\ DOMAIN db = 1..Len(db)
  BY <1>1, <1>3, <1>4
<1>6. Unique(new)
  BY <1>1, <1>4, <1>5 DEF Unique
<1>7. \A i \in 1..Len(db) : new[i].time >= db[i].time
  <2>1. \A i \in 1..Len(db) : db[i].time \in Nat
    BY TimesAreNat
  <2> QED
    BY <2>1, <1>4
<1>8. Database(n, new, S)
  BY <1>1, <1>3, <1>4, <1>6, SeqIsSeq DEF Database
<1> QED
  BY <1>1, <1>4, <1>7, <1>8 DEF Newer

\* A record of another node is replaced by what that node said later.
LEMMA UpdateKeeps ==
    ASSUME NEW n, NEW db, NEW S, Said(S), Database(n, db, S),
           NEW hello \in S, hello.address # n
    PROVE  Database(n, Update(db, hello), S) /\ Newer(db, Update(db, hello))
<1> DEFINE i == Search(db, hello.address)
           new == [db EXCEPT ![i] = UpdateNode(@, hello)]
<1>1. db \in Seq(Range(db)) /\ Len(db) >= 1 /\ Unique(db)
  BY DEF Database, IsSeq
<1>2. \A k \in 1..Len(db) : db[k].time \in Nat
  BY TimesAreNat
<1>3. CASE i = 0
  BY <1>1, <1>3, SearchResult, AddNodeKeeps DEF Update
<1>4. CASE i # 0 /\ ~(hello.time > db[i].time)
  BY <1>1, <1>2, <1>4 DEF Update, Newer
<1>5. CASE i # 0 /\ hello.time > db[i].time
  <2>1. i \in 1..Len(db) /\ db[i].address = hello.address
    BY <1>5, SearchResult
  <2>2. i # 1 /\ db[i] \in S
    BY <1>1, <2>1 DEF Database, NewNode
  <2>3. UpdateNode(db[i], hello) = hello
    <3>1. /\ db[i] = NewNode(db[i].address, db[i].time, db[i].pairs)
          /\ hello = NewNode(hello.address, hello.time, hello.pairs)
      BY <2>2 DEF Said
    <3> QED
      BY <2>1, <3>1 DEF UpdateNode, NewNode
  <2>4. new \in Seq(Range(db) \cup {hello}) /\ Len(new) = Len(db)
    BY <1>1, <2>1, <2>3
  <2>5. \A k \in 1..Len(db) : new[k] = IF k = i THEN hello ELSE db[k]
    BY <1>1, <2>1, <2>3
  <2>6. DOMAIN new = 1..Len(db) /\ DOMAIN db = 1..Len(db)
    BY <1>1, <2>4
  <2>7. \A k \in 1..Len(db) : new[k].address = db[k].address /\ new[k].time >= db[k].time
    BY <1>2, <1>5, <2>1, <2>5 DEF Said
  <2>8. Unique(new)
    BY <1>1, <2>6, <2>7 DEF Unique
  <2>9. new[1] = db[1] /\ \A k \in 2..Len(new) : new[k] \in S
    BY <1>1, <2>2, <2>4, <2>5 DEF Database
  <2>10. Database(n, new, S)
    BY <1>1, <2>4, <2>8, <2>9, SeqIsSeq DEF Database
  <2>11. Update(db, hello) = new
    BY <1>5 DEF Update
  <2> QED
    BY <2>4, <2>7, <2>10, <2>11 DEF Newer
<1> QED
  BY <1>3, <1>4, <1>5

\* What is measured changes only what a node holds of itself.
LEMMA MetricsKeep ==
    ASSUME NEW n, NEW db, NEW S, Said(S), Database(n, db, S), NEW c
    PROVE  Database(n, UpdateMetrics(db, c), S) /\ Newer(db, UpdateMetrics(db, c))
<1> DEFINE self == NewNode(n, 0, Measure(db[1].pairs, c))
           new == UpdateMetrics(db, c)
<1>1. db \in Seq(Range(db)) /\ Len(db) >= 1 /\ Unique(db)
  BY DEF Database, IsSeq
<1>2. db[1] = NewNode(n, 0, db[1].pairs)
  BY DEF Database
<1>3. [db[1] EXCEPT !.pairs = Measure(@, c)] = self
  BY <1>2 DEF NewNode
<1>4. new = [db EXCEPT ![1] = self]
  BY <1>3 DEF UpdateMetrics
<1>5. new \in Seq(Range(db) \cup {self}) /\ Len(new) = Len(db)
  BY <1>1, <1>4
<1>6. /\ \A k \in 1..Len(db) : new[k] = IF k = 1 THEN self ELSE db[k]
      /\ DOMAIN new = 1..Len(db) /\ DOMAIN db = 1..Len(db)
  BY <1>1, <1>4, <1>5
<1>7. \A k \in 1..Len(db) : new[k].address = db[k].address /\ new[k].time = db[k].time
  BY <1>2, <1>6 DEF NewNode
<1>8. Unique(new)
  BY <1>1, <1>6, <1>7 DEF Unique
<1>9. new[1] = NewNode(n, 0, new[1].pairs) /\ \A k \in 2..Len(new) : new[k] \in S
  BY <1>1, <1>5, <1>6 DEF Database, NewNode
<1>10. Database(n, new, S)
  BY <1>1, <1>5, <1>8, <1>9, SeqIsSeq DEF Database
<1>11. \A k \in 1..Len(db) : db[k].time \in Nat
  BY TimesAreNat
<1> QED
  BY <1>5, <1>7, <1>10, <1>11 DEF Newer

-----------------------------------------------------------------------------

\* The inductive invariant: the databases hold hellos that were sent, and so
\* do the hellos in the air, from which the databases are filled.
Inv ==
    /\ net = [n \in Node |-> net[n]]
    /\ \A n \in Node : Database(n, net[n], sent)
    /\ IsFiniteSet(sent) /\ Said(sent)
    /\ \A f \in air : f.to \in Node /\ (f.type = "hello" => f.hello \in sent)

\* No database loses or takes back what it holds.
NeverBackStep == \A n \in Node : Newer(net[n], net'[n])

LEMMA InitInv == Init => Inv
<1> SUFFICES ASSUME Init PROVE Inv
  OBVIOUS
<1>1. ASSUME NEW n \in Node PROVE Database(n, net[n], sent)
  <2>1. net[n] = <<NewNode(n, 0, <<>>)>>
    BY DEF Init
  <2>2. net[n] \in Seq({NewNode(n, 0, <<>>)}) /\ Len(net[n]) = 1
    BY <2>1
  <2>3. net[n][1] = NewNode(n, 0, net[n][1].pairs)
    BY <2>1 DEF NewNode
  <2>4. DOMAIN net[n] = {1}
    BY <2>2
  <2> QED
    BY <2>2, <2>3, <2>4, SeqIsSeq DEF Database, Unique
<1>2. IsFiniteSet(sent)
  BY FS_EmptySet DEF Init
<1> QED
  BY <1>1, <1>2 DEF Inv, Init, Said

\* The order of databases is reflexive and transitive.
LEMMA NewerItself ==
    ASSUME NEW n, NEW db, NEW S, Said(S), Database(n, db, S)
    PROVE  Newer(db, db)
<1>1. db \in Seq(Range(db)) /\ \A k \in 1..Len(db) : db[k].time \in Nat
  BY TimesAreNat DEF Database, IsSeq
<1> QED
  BY <1>1 DEF Newer

LEMMA NewerTransitive ==
    ASSUME NEW n, NEW S, Said(S), NEW a, NEW b, NEW c,
           Database(n, a, S), Database(n, b, S), Database(n, c, S), Newer(a, b), Newer(b, c)
    PROVE  Newer(a, c)
<1>1. Len(a) \in Nat /\ Len(b) \in Nat /\ Len(c) \in Nat
  BY DEF Database, IsSeq
<1>2. /\ \A k \in 1..Len(a) : a[k].time \in Nat
      /\ \A k \in 1..Len(b) : b[k].time \in Nat
      /\ \A k \in 1..Len(c) : c[k].time \in Nat
  BY TimesAreNat
<1>3. \A k \in 1..Len(a) : k \in 1..Len(b) /\ k \in 1..Len(c)
  BY <1>1 DEF Newer
<1> QED
  BY <1>1, <1>2, <1>3 DEF Newer

\* The frames of a hello that was sent are legal, whoever sends them.
LEMMA HelloFramesLegal ==
    ASSUME NEW n, NEW hello, NEW ttl, NEW f \in HelloFrames(n, hello, ttl)
    PROVE  f.to \in Node /\ f.hello = hello
<1>1. PICK m \in Receivers(n) :
          f = [type |-> "hello", from |-> n, to |-> m, hello |-> hello, ttl |-> ttl]
  BY DEF HelloFrames
<1> QED
  BY <1>1 DEF Receivers

LEMMA DataFramesLegal ==
    ASSUME NEW n, NEW gateway, NEW source, NEW dest,
           NEW f \in DataFrames(n, gateway, source, dest)
    PROVE  f.to \in Node /\ f.type = "data"
<1>1. PICK m \in Receivers(n) :
          f = [type |-> "data", from |-> n, to |-> m, gateway |-> gateway,
               source |-> source, dest |-> dest]
  BY DEF DataFrames
<1> QED
  BY <1>1 DEF Receivers

\* UpdateCodeNum with a database that the handler has so far.
LEMMA UpdateCodeNumInv ==
    ASSUME Inv, NEW n \in Node, NEW known, Database(n, known, sent), Newer(net[n], known),
           UpdateCodeNum(n, known), sent' = sent
    PROVE  /\ net' = [m \in Node |-> net'[m]]
           /\ \A m \in Node : Database(m, net'[m], sent')
           /\ NeverBackStep
<1> DEFINE new == UpdateMetrics(known, codeNum'[n])
<1>1. net' = [net EXCEPT ![n] = new]
  BY DEF UpdateCodeNum
<1>2. net' = [m \in Node |-> IF m = n THEN new ELSE net[m]]
  BY <1>1 DEF Inv
<1>3. Database(n, new, sent) /\ Newer(known, new)
  BY MetricsKeep DEF Inv
<1>4. Newer(net[n], new)
  BY <1>3, NewerTransitive DEF Inv
<1>5. \A m \in Node : Newer(net[m], net[m])
  BY NewerItself DEF Inv
<1> QED
  BY <1>2, <1>3, <1>4, <1>5 DEF Inv, NeverBackStep

\* A step that leaves databases and hellos alone and adds no hello frame.
LEMMA UnchangedInv ==
    ASSUME Inv, UNCHANGED <<net, sent>>,
           \A f \in air' : f \in air \/ (f.to \in Node /\ f.type = "data")
    PROVE  Inv' /\ NeverBackStep
<1>1. \A n \in Node : Newer(net[n], net[n])
  BY NewerItself DEF Inv
<1> QED
  BY <1>1 DEF Inv, NeverBackStep

LEMMA ReceiveInv ==
    ASSUME Inv, NEW f \in air, Receive(f)
    PROVE  Inv' /\ NeverBackStep
<1> DEFINE n == f.to
           known == Update(net[n], f.hello)
<1>1. n \in Node /\ f.hello \in sent /\ f.hello.address # n
  BY DEF Inv, Receive
<1>2. Database(n, known, sent) /\ Newer(net[n], known)
  BY <1>1, UpdateKeeps DEF Inv
<1>3. /\ net' = [m \in Node |-> net'[m]]
      /\ \A m \in Node : Database(m, net'[m], sent')
      /\ NeverBackStep
  BY <1>1, <1>2, UpdateCodeNumInv DEF Receive
<1>4. \A g \in air' : g.to \in Node /\ (g.type = "hello" => g.hello \in sent)
  BY <1>1, HelloFramesLegal DEF Receive, ForwardHello, Inv
<1> QED
  BY <1>3, <1>4 DEF Inv, Receive

LEMMA RouteInputInv ==
    ASSUME Inv, NEW f \in air, RouteInput(f)
    PROVE  Inv' /\ NeverBackStep
<1> DEFINE n == f.to
<1>1. n \in Node
  BY DEF Inv
<1>2. Newer(net[n], net[n])
  BY <1>1, NewerItself DEF Inv
<1>3. UpdateCodeNum(n, net[n]) /\ sent' = sent
  BY DEF RouteInput
<1>4. /\ net' = [m \in Node |-> net'[m]]
      /\ \A m \in Node : Database(m, net'[m], sent')
      /\ NeverBackStep
  BY <1>1, <1>2, <1>3, UpdateCodeNumInv DEF Inv
<1>5. \A g \in air' : g \in air \/ (g.to \in Node /\ g.type = "data")
  BY DataFramesLegal DEF RouteInput
<1> QED
  BY <1>3, <1>4, <1>5 DEF Inv

LEMMA LinkStateBroadcastInv ==
    ASSUME Inv, NEW n \in Node, LinkStateBroadcast(n)
    PROVE  Inv' /\ NeverBackStep
<1> DEFINE hello == [address |-> n, time |-> Cardinality(sent) + 1, pairs |-> net[n][1].pairs]
<1>1. sent' = sent \cup {hello} /\ net' = net
  BY DEF LinkStateBroadcast
<1>2. Cardinality(sent) + 1 \in Nat
  BY FS_CardinalityType DEF Inv
<1>3. IsFiniteSet(sent') /\ Said(sent')
  <2>1. IsFiniteSet(sent')
    BY <1>1, FS_AddElement DEF Inv
  <2>2. /\ hello = NewNode(hello.address, hello.time, hello.pairs)
        /\ hello.address \in Node /\ hello.time \in Nat
    BY <1>2 DEF NewNode
  <2> QED
    BY <1>1, <2>1, <2>2 DEF Inv, Said
<1>4. \A m \in Node : Database(m, net'[m], sent')
  BY <1>1 DEF Inv, Database
<1>5. \A f \in air' : f.to \in Node /\ (f.type = "hello" => f.hello \in sent')
  BY <1>1, HelloFramesLegal DEF LinkStateBroadcast, Inv
<1>6. \A m \in Node : Newer(net[m], net[m])
  BY NewerItself DEF Inv
<1> QED
  BY <1>1, <1>3, <1>4, <1>5, <1>6 DEF Inv, NeverBackStep

LEMMA NextInv == Inv /\ [Next]_vars => Inv' /\ NeverBackStep
<1> SUFFICES ASSUME Inv, [Next]_vars PROVE Inv' /\ NeverBackStep
  OBVIOUS
<1>1. ASSUME NEW f \in air, Receive(f) PROVE Inv' /\ NeverBackStep
  BY <1>1, ReceiveInv
<1>2. ASSUME NEW f \in air, ReceiveOwn(f) PROVE Inv' /\ NeverBackStep
  BY <1>2, UnchangedInv DEF ReceiveOwn
<1>3. ASSUME NEW f \in air, Overhear(f) PROVE Inv' /\ NeverBackStep
  BY <1>3, UnchangedInv DEF Overhear
<1>4. ASSUME NEW f \in air, RouteInput(f) PROVE Inv' /\ NeverBackStep
  BY <1>4, RouteInputInv
<1>5. ASSUME NEW n \in Node, LinkStateBroadcast(n) PROVE Inv' /\ NeverBackStep
  BY <1>5, LinkStateBroadcastInv
<1>6. ASSUME NEW n \in Node, NEW dest \in Node, RouteOutput(n, dest)
      PROVE  Inv' /\ NeverBackStep
  BY <1>6, UnchangedInv, DataFramesLegal DEF RouteOutput
<1>7. ASSUME NEW f \in air, Lose(f) PROVE Inv' /\ NeverBackStep
  BY <1>7, UnchangedInv DEF Lose
<1>8. CASE UNCHANGED vars
  BY <1>8, UnchangedInv DEF vars
<1> QED
  BY <1>1, <1>2, <1>3, <1>4, <1>5, <1>6, <1>7, <1>8 DEF Next, Arrive

LEMMA InvTruthful == Inv => DatabaseTruthful
<1> SUFFICES ASSUME Inv, NEW n \in Node
             PROVE  /\ net[n][1].address = n /\ net[n][1].time = 0
                    /\ \A i \in 2..Len(net[n]) : net[n][i] \in sent
                    /\ Unique(net[n])
  BY Zenon DEF DatabaseTruthful, Unique
<1>1. net[n][1] = NewNode(n, 0, net[n][1].pairs)
  BY DEF Inv, Database
<1>2. net[n][1].address = n /\ net[n][1].time = 0
  BY <1>1 DEF NewNode
<1> QED
  BY <1>2 DEF Inv, Database

\* Of every other node a database holds one record, and it is a hello which
\* that node sent, whatever was lost, late or forwarded in between
\* (LinkStateNetwork::Update and LinkStateRouting::Receive).
THEOREM Truthful == Spec => []DatabaseTruthful
<1>1. Inv /\ [Next]_vars => Inv'
  BY NextInv
<1> QED
  BY <1>1, InitInv, InvTruthful, PTL DEF Spec

\* A hello that comes late, by whatever way, never takes a database back.
THEOREM NeverBack == Spec => NeverOlder
<1> DEFINE Step == \A n, m \in Node :
                       Knows(n, m) => Knows(n, m)' /\ Record(n, m)'.time >= Record(n, m).time
<1>1. Inv /\ [Next]_vars => Inv'
  BY NextInv
<1>2. Inv /\ Inv' /\ NeverBackStep => Step
  BY NewerKeeps DEF Inv, NeverBackStep, Knows, Record
<1>3. Inv /\ [Next]_vars => Step
  BY <1>2, NextInv
<1> HIDE DEF Step
<1>4. Spec => [][Step]_vars
  BY <1>1, <1>3, InitInv, PTL DEF Spec
<1> QED
  BY <1>4 DEF Step, NeverOlder
-----------------------------------------------------------------------------
(* Metrics and tables *)

\* Those whom n hears, and the metrics that come from samples.
Heard(n) == {g \in Node : <<g, n>> \in Hears}
Metric == Metrics(Samples)

\* What node n noted of the frames it heard: samples c and last hops i.
Noted(n, c, i) ==
    /\ c \in Seq(InfoOf(Heard(n), Samples))
    /\ DOMAIN i \subseteq Node
    /\ \A d \in DOMAIN i : i[d] \in Addresses(c)

\* The first hops of its path table p have metrics among its own pairs,
Paths(n, pairs, p) ==
    /\ pairs \in Seq(PairOf(Heard(n), Metric))
    /\ DOMAIN p \subseteq Node
    /\ \A d \in DOMAIN p : p[d] \in Addresses(pairs)

\* and so have those of its NF table f, to which its chains lead.
Routes(pairs, f) ==
    /\ DOMAIN f \subseteq Node
    /\ IsForest(f, DOMAIN f)
    /\ \A d \in DOMAIN f : f[d] = d => d \in Addresses(pairs)

\* What the hellos say.
Told(S) ==
    \A h \in S : h.pairs \in Seq(PairOf(Node, Metric)) /\ h.time \in 0..Cardinality(S)

\* The invariant about the tables, in its parts.
NotedInv ==
    /\ codeNum = [n \in Node |-> codeNum[n]] /\ pathInfo = [n \in Node |-> pathInfo[n]]
    /\ \A n \in Node : Noted(n, codeNum[n], pathInfo[n])

PathsInv ==
    /\ ptable = [n \in Node |-> ptable[n]]
    /\ \A n \in Node : Paths(n, net[n][1].pairs, ptable[n])

RoutesInv ==
    /\ nftable = [n \in Node |-> nftable[n]]
    /\ \A n \in Node : Routes(net[n][1].pairs, nftable[n])

Sendable(f) == <<f.from, f.to>> \in Hears /\ (f.type = "data" => f.source \in Node)

FramesInv == \A f \in air : Sendable(f)

TableInv == NotedInv /\ PathsInv /\ RoutesInv /\ FramesInv /\ Told(sent)

\* More addresses keep what is said of fewer.
LEMMA AddressesGrow ==
    ASSUME NEW n, NEW pairs, NEW new \in Seq(PairOf(Heard(n), Metric)),
           Addresses(pairs) \subseteq Addresses(new)
    PROVE  /\ \A p : Paths(n, pairs, p) => Paths(n, new, p)
           /\ \A f : Routes(pairs, f) => Routes(new, f)
BY DEF Paths, Routes

\* One more frame is noted.
LEMMA NotedOn ==
    ASSUME NEW n \in Node, NEW c, NEW i, Noted(n, c, i), NEW g \in Heard(n),
           NEW s \in Samples, NEW source \in Node
    PROVE  /\ Noted(n, AddCodeNum(c, g, s), i)
           /\ Noted(n, AddCodeNum(c, g, s), AddPathInfo(i, source, g))
<1> DEFINE info == [address |-> g, sample |-> s]
           new == AddCodeNum(c, g, s)
           paths == AddPathInfo(i, source, g)
<1>1. c \in Seq(InfoOf(Heard(n), Samples)) /\ info \in InfoOf(Heard(n), Samples)
  BY DEF Noted, InfoOf
<1>2. Found(c, g, Search(c, g))
  BY <1>1, SearchIs
<1>3. /\ new \in Seq(InfoOf(Heard(n), Samples)) /\ g \in Addresses(new)
      /\ Addresses(c) \subseteq Addresses(new)
  <2>1. CASE Search(c, g) # 0
    BY <1>1, <1>2, <2>1 DEF AddCodeNum, Found, Addresses
  <2>2. CASE Search(c, g) = 0
    <3>1. new = Append(c, info)
      BY <2>2 DEF AddCodeNum
    <3> HIDE DEF info, new
    <3>2. /\ new \in Seq(InfoOf(Heard(n), Samples)) /\ Len(new) = Len(c) + 1
          /\ new[Len(c) + 1] = info /\ \A k \in 1..Len(c) : new[k] = c[k]
          /\ Len(c) + 1 \in 1..Len(new) /\ \A k \in 1..Len(c) : k \in 1..Len(new)
      BY <1>1, <3>1
    <3>3. info.address = g
      BY DEF info
    <3> QED  BY <3>2, <3>3 DEF Addresses
  <2> QED  BY <2>1, <2>2
<1> HIDE DEF new
<1>4. Noted(n, new, i)
  BY <1>3 DEF Noted
<1>5. Noted(n, new, paths)
  <2>1. CASE source \in DOMAIN i
    BY <1>4, <2>1 DEF AddPathInfo
  <2>2. CASE source \notin DOMAIN i
    <3>1. /\ DOMAIN paths = DOMAIN i \cup {source} /\ paths[source] = g
          /\ \A d \in DOMAIN i : paths[d] = i[d]
      BY <2>2 DEF AddPathInfo, Overwrite
    <3> HIDE DEF paths
    <3> QED  BY <1>3, <1>4, <3>1 DEF Noted
  <2> QED  BY <2>1, <2>2
<1> QED  BY <1>4, <1>5 DEF new

\* Note of a frame that is under way.
LEMMA NoteInv ==
    ASSUME TableInv, NEW f \in air, NEW source \in Node, Note(f, source)
    PROVE  NotedInv' /\ f.to \in Node
<1> DEFINE n == f.to
           g == f.from
<1>1. n \in Node /\ g \in Node /\ g \in Heard(n)
  BY LinkStateAssumption DEF TableInv, FramesInv, Sendable, Heard
<1>2. PICK s \in Samples : codeNum' = [codeNum EXCEPT ![n] = AddCodeNum(@, g, s)]
  BY DEF Note
<1> DEFINE c == AddCodeNum(codeNum[n], g, s)
           i == IF source = n THEN pathInfo[n] ELSE AddPathInfo(pathInfo[n], source, g)
<1>3. pathInfo' = [pathInfo EXCEPT ![n] = i]
  BY DEF Note
<1>4. Noted(n, c, i)
  BY <1>1, NotedOn DEF TableInv, NotedInv
<1> HIDE DEF c, i
<1>5. codeNum' = [codeNum EXCEPT ![n] = c]
  BY <1>2 DEF c
<1>6. /\ codeNum' = [m \in Node |-> IF m = n THEN c ELSE codeNum[m]]
      /\ pathInfo' = [m \in Node |-> IF m = n THEN i ELSE pathInfo[m]]
  BY <1>3, <1>5 DEF TableInv, NotedInv
<1> QED  BY <1>1, <1>4, <1>6 DEF TableInv, NotedInv

\* A hello of another node leaves what a node measured.
LEMMA UpdateFirst ==
    ASSUME NEW n, NEW db, NEW S, Database(n, db, S), NEW hello, hello.address # n
    PROVE  Update(db, hello)[1] = db[1]
<1> DEFINE i == Search(db, hello.address)
           new == [db EXCEPT ![i] = UpdateNode(@, hello)]
<1>1. db \in Seq(Range(db)) /\ Len(db) >= 1
  BY DEF Database, IsSeq
<1>2. i # 1
  <2>1. db[1].address = n
    BY DEF Database, NewNode
  <2> QED  BY <2>1, SearchResult
<1> HIDE DEF i
<1>3. new[1] = db[1] /\ AddNode(db, hello)[1] = db[1]
  BY <1>1, <1>2 DEF AddNode
<1>4. Update(db, hello) \in {db, new, AddNode(db, hello)}
  BY DEF Update, i
<1> QED  BY <1>3, <1>4

\* The addresses of a database are nodes.
LEMMA DatabaseAddresses ==
    ASSUME NEW n \in Node, NEW db, NEW S, Said(S), Database(n, db, S)
    PROVE  Addresses(db) \subseteq Node
<1>1. db[1].address = n
  BY DEF Database, NewNode
<1>2. \A k \in 1..Len(db) : k = 1 \/ k \in 2..Len(db)
  BY DEF Database, IsSeq
<1>3. \A k \in 2..Len(db) : db[k].address \in Node
  BY DEF Database, Said
<1> QED  BY <1>1, <1>2, <1>3 DEF Addresses

\* The metrics are numbers, and none is 0.
LEMMA MetricsAre == Metric \subseteq Nat \ {0} /\ Samples \in SUBSET (Nat \ {0, 1})
BY LinkStateAssumption DEF Metric, Metrics

\* A database can be calculated with.
LEMMA DatabaseIs ==
    ASSUME NEW n \in Node, NEW db, NEW S, Database(n, db, S), Told(S),
           db[1].pairs \in Seq(PairOf(Heard(n), Metric))
    PROVE  IsDatabase(db, Node, Metric)
<1>1. db \in Seq({db[k] : k \in 1..Len(db)}) /\ Len(db) >= 1 /\ Unique(db)
  BY DEF Database, IsSeq, Range
<1>2. ASSUME NEW k \in 1..Len(db) PROVE db[k].pairs \in Seq(PairOf(Node, Metric))
  <2>1. CASE k = 1
    <3>1. \A x \in PairOf(Heard(n), Metric) : x \in PairOf(Node, Metric)
      BY DEF PairOf, Heard
    <3> QED  BY <2>1, <3>1
  <2>2. CASE k # 1
    <3>1. k \in 2..Len(db)
      BY <1>1, <2>2
    <3> QED  BY <3>1 DEF Database, Told
  <2> QED  BY <2>1, <2>2
<1> QED  BY <1>1, <1>2 DEF IsDatabase

\* A calculation with database db.
LEMMA TableKeeps ==
    ASSUME NEW n \in Node, NEW db, IsDatabase(db, Node, Metric), Addresses(db) \subseteq Node,
           NEW f, Routes(db[1].pairs, f)
    PROVE  Routes(db[1].pairs, CalculateTable(db, f))
<1> DEFINE new == CalculateTable(db, f)
<1>1. PICK R : Calculated(db, f, new, R)
  BY MetricsAre, CalculateTableOk
<1> HIDE DEF new
<1>2. IsForest(new, DOMAIN new)
  BY <1>1, ForestGrows DEF Routes
<1>3. DOMAIN new = DOMAIN f \cup R /\ R \subseteq Node
  BY <1>1 DEF Calculated
<1>4. \A d \in DOMAIN new : new[d] = d => d \in Addresses(db[1].pairs)
  BY <1>1, <1>3 DEF Calculated, Routes
<1> QED  BY <1>2, <1>3, <1>4 DEF Routes, new

\* UpdateCodeNum with a database known that has the same first record, after
\* the frame was noted.
MetricsUpdated(n) ==
    /\ PathsInv'
    /\ \A m \in Node : Routes(net'[m][1].pairs, nftable[m])
    /\ net'[n][1].pairs \in Seq(PairOf(Heard(n), Metric))

LEMMA UpdateMetricsInv ==
    ASSUME Inv, TableInv, NotedInv', NEW n \in Node, NEW known, Database(n, known, sent),
           known[1] = net[n][1], UpdateCodeNum(n, known)
    PROVE  MetricsUpdated(n)
<1> DEFINE old == known[1].pairs
           new == Measure(old, codeNum'[n])
           db == UpdateMetrics(known, codeNum'[n])
<1>1. net' = [net EXCEPT ![n] = db] /\ ptable' = [ptable EXCEPT ![n] = pathInfo'[n]]
  BY DEF UpdateCodeNum
<1>2. /\ net' = [m \in Node |-> IF m = n THEN db ELSE net[m]]
      /\ ptable' = [m \in Node |-> IF m = n THEN pathInfo'[n] ELSE ptable[m]]
  BY <1>1 DEF Inv, TableInv, PathsInv
<1>3. Noted(n, codeNum'[n], pathInfo'[n])
  BY DEF NotedInv
<1>4. old \in Seq(PairOf(Heard(n), Metric)) /\ old = net[n][1].pairs
  BY DEF TableInv, PathsInv, Paths
<1>5. Measured(old, codeNum'[n], new, Heard(n), Samples)
  BY <1>3, <1>4, MetricsAre, MeasureOk DEF Noted, Metric
<1>6. db[1].pairs = new
  <2>1. known \in Seq(Range(known)) /\ Len(known) >= 1 /\ known[1] = NewNode(n, 0, old)
    BY DEF Database, IsSeq
  <2> HIDE DEF new, old
  <2>2. db = [known EXCEPT ![1] = [known[1] EXCEPT !.pairs = new]]
    BY Zenon DEF UpdateMetrics, new, old
  <2>3. [known[1] EXCEPT !.pairs = new].pairs = new
    BY <2>1 DEF NewNode
  <2> QED  BY <2>1, <2>2, <2>3
<1> HIDE DEF new, db, old
<1>7. /\ new \in Seq(PairOf(Heard(n), Metric))
      /\ Addresses(old) \subseteq Addresses(new)
      /\ Addresses(codeNum'[n]) \subseteq Addresses(new)
  BY <1>5 DEF Measured, Metric
<1>8. Paths(n, new, pathInfo'[n])
  BY <1>3, <1>7 DEF Paths, Noted
<1>9. Routes(new, nftable[n])
  <2>1. Routes(old, nftable[n])
    BY <1>4 DEF TableInv, RoutesInv
  <2> QED  BY <1>7, <2>1, AddressesGrow
<1>10. PathsInv'
  BY <1>2, <1>6, <1>8 DEF PathsInv, TableInv
<1>11. \A m \in Node : Routes(net'[m][1].pairs, nftable[m])
  BY <1>2, <1>6, <1>9 DEF RoutesInv, TableInv
<1> QED  BY <1>2, <1>6, <1>7, <1>10, <1>11 DEF MetricsUpdated

\* The frames that a node sends are sendable.
LEMMA HelloFramesSendable ==
    ASSUME NEW n, NEW hello, NEW ttl, NEW f \in HelloFrames(n, hello, ttl)
    PROVE  Sendable(f)
<1>1. PICK m \in Receivers(n) :
          f = [type |-> "hello", from |-> n, to |-> m, hello |-> hello, ttl |-> ttl]
  BY DEF HelloFrames
<1> QED
  BY <1>1 DEF Receivers, Sendable

LEMMA DataFramesSendable ==
    ASSUME NEW n, NEW gateway, NEW source \in Node, NEW dest,
           NEW f \in DataFrames(n, gateway, source, dest)
    PROVE  Sendable(f)
<1>1. PICK m \in Receivers(n) :
          f = [type |-> "data", from |-> n, to |-> m, gateway |-> gateway,
               source |-> source, dest |-> dest]
  BY DEF DataFrames
<1> QED
  BY <1>1 DEF Receivers, Sendable

\* Steps that leave tables and databases alone, and add only legal frames.
LEMMA TablesUnchanged ==
    ASSUME TableInv, UNCHANGED <<net, nftable, ptable, sent>>, NotedInv', FramesInv'
    PROVE  TableInv'
BY DEF TableInv, PathsInv, RoutesInv

LEMMA ReceiveTables ==
    ASSUME Inv, Inv', TableInv, NEW f \in air, Receive(f)
    PROVE  TableInv'
<1> DEFINE n == f.to
           known == Update(net[n], f.hello)
           db == net'[n]
<1>1. n \in Node /\ f.hello \in sent /\ f.hello.address # n /\ f.from \in Node
  BY LinkStateAssumption DEF Inv, Receive, TableInv, FramesInv, Sendable
<1>2. NotedInv'
  BY <1>1, NoteInv DEF Receive
<1>3. Database(n, known, sent) /\ known[1] = net[n][1]
  BY <1>1, UpdateKeeps, UpdateFirst DEF Inv
<1>4. UpdateCodeNum(n, known) /\ sent' = sent
  BY DEF Receive
<1> HIDE DEF known
<1>5. MetricsUpdated(n)
  BY <1>1, <1>2, <1>3, <1>4, UpdateMetricsInv
<1>6. Database(n, db, sent) /\ Said(sent)
  BY <1>1, <1>4 DEF Inv
<1>7. IsDatabase(db, Node, Metric) /\ Addresses(db) \subseteq Node
  BY <1>1, <1>5, <1>6, DatabaseIs, DatabaseAddresses DEF MetricsUpdated, TableInv
<1>8. Routes(db[1].pairs, nftable[n])
  BY <1>1, <1>5 DEF MetricsUpdated
<1> DEFINE new == CalculateTable(db, nftable[n])
<1>9. Routes(db[1].pairs, new)
  BY <1>1, <1>7, <1>8, TableKeeps
<1>10. nftable' = [nftable EXCEPT ![n] = new]
  BY DEF Receive
<1> HIDE DEF new
<1>11. nftable' = [m \in Node |-> IF m = n THEN new ELSE nftable[m]]
  BY <1>10 DEF TableInv, RoutesInv
<1>12. RoutesInv'
  BY <1>5, <1>9, <1>11 DEF RoutesInv, MetricsUpdated
<1>13. FramesInv'
  BY HelloFramesSendable DEF Receive, ForwardHello, TableInv, FramesInv
<1> QED  BY <1>2, <1>4, <1>5, <1>12, <1>13 DEF TableInv, MetricsUpdated

LEMMA RouteInputTables ==
    ASSUME Inv, TableInv, NEW f \in air, RouteInput(f)
    PROVE  TableInv'
<1> DEFINE n == f.to
<1>1. n \in Node /\ f.source \in Node
  BY DEF Inv, RouteInput, TableInv, FramesInv, Sendable
<1>2. NotedInv'
  BY <1>1, NoteInv DEF RouteInput
<1>3. Database(n, net[n], sent)
  BY <1>1 DEF Inv
<1>4. UpdateCodeNum(n, net[n]) /\ sent' = sent /\ nftable' = nftable
  BY DEF RouteInput
<1>5. MetricsUpdated(n)
  BY <1>1, <1>2, <1>3, <1>4, UpdateMetricsInv
<1>6. FramesInv'
  BY <1>1, DataFramesSendable DEF RouteInput, TableInv, FramesInv
<1> QED  BY <1>2, <1>4, <1>5, <1>6 DEF TableInv, MetricsUpdated, RoutesInv

LEMMA NotingTables ==
    ASSUME TableInv, NEW f \in air, ReceiveOwn(f) \/ Overhear(f)
    PROVE  TableInv'
<1>1. f.from \in Node
  BY LinkStateAssumption DEF TableInv, FramesInv, Sendable
<1>2. NotedInv'
  BY <1>1, NoteInv DEF ReceiveOwn, Overhear, TableInv, FramesInv, Sendable
<1>3. FramesInv'
  BY DEF ReceiveOwn, Overhear, TableInv, FramesInv
<1> QED  BY <1>2, <1>3, TablesUnchanged DEF ReceiveOwn, Overhear

LEMMA BroadcastTables ==
    ASSUME Inv, TableInv, NEW n \in Node, LinkStateBroadcast(n)
    PROVE  TableInv'
<1> DEFINE N == Cardinality(sent)
           hello == [address |-> n, time |-> N + 1, pairs |-> net[n][1].pairs]
<1>1. /\ sent' = sent \cup {hello}
      /\ UNCHANGED <<net, nftable, ptable, codeNum, pathInfo>>
  BY DEF LinkStateBroadcast
<1>2. IsFiniteSet(sent) /\ N \in Nat
  BY FS_CardinalityType DEF Inv
<1>3. hello.pairs \in Seq(PairOf(Node, Metric))
  <2>1. net[n][1].pairs \in Seq(PairOf(Heard(n), Metric))
    BY DEF TableInv, PathsInv, Paths
  <2>2. \A x \in PairOf(Heard(n), Metric) : x \in PairOf(Node, Metric)
    BY DEF PairOf, Heard
  <2> QED  BY <2>1, <2>2
<1>4. hello.time = N + 1
  OBVIOUS
<1> HIDE DEF hello, N
<1>5. hello \notin sent
  BY <1>2, <1>4 DEF TableInv, Told, N
<1>6. Cardinality(sent') = N + 1
  BY <1>1, <1>2, <1>5, FS_AddElement DEF N
<1>7. Told(sent')
  <2>1. \A h \in sent : h.pairs \in Seq(PairOf(Node, Metric)) /\ h.time \in 0..N + 1
    BY <1>2 DEF TableInv, Told, N
  <2> QED  BY <1>1, <1>2, <1>3, <1>4, <1>6, <2>1 DEF Told
<1>8. FramesInv'
  BY HelloFramesSendable DEF LinkStateBroadcast, TableInv, FramesInv
<1> QED  BY <1>1, <1>7, <1>8 DEF TableInv, NotedInv, PathsInv, RoutesInv

LEMMA InitTables == Init => TableInv
<1> SUFFICES ASSUME Init PROVE TableInv
  OBVIOUS
<1>1. ASSUME NEW n \in Node
      PROVE  /\ Noted(n, codeNum[n], pathInfo[n])
             /\ Paths(n, net[n][1].pairs, ptable[n])
             /\ Routes(net[n][1].pairs, nftable[n])
  <2>1. codeNum[n] = <<>> /\ pathInfo[n] = <<>> /\ ptable[n] = <<>> /\ nftable[n] = <<>>
    BY DEF Init
  <2>2. net[n][1].pairs = <<>>
    BY DEF Init, NewNode
  <2>3. IsForest(<<>>, DOMAIN <<>>)
    BY FS_EmptySet DEF IsForest
  <2>4. Noted(n, <<>>, <<>>)
    BY DEF Noted
  <2>5. Paths(n, <<>>, <<>>)
    BY DEF Paths
  <2>6. Routes(<<>>, <<>>)
    BY <2>3 DEF Routes
  <2> QED  BY <2>1, <2>2, <2>4, <2>5, <2>6
<1> QED  BY <1>1 DEF TableInv, NotedInv, PathsInv, RoutesInv, FramesInv, Told, Init

LEMMA NextTables == Inv /\ TableInv /\ [Next]_vars => TableInv'
<1> SUFFICES ASSUME Inv, TableInv, [Next]_vars PROVE TableInv'
  OBVIOUS
<1>1. Inv'
  BY NextInv
<1>2. ASSUME NEW f \in air, Receive(f) PROVE TableInv'
  BY <1>1, <1>2, ReceiveTables
<1>3. ASSUME NEW f \in air, ReceiveOwn(f) \/ Overhear(f) PROVE TableInv'
  BY <1>3, NotingTables
<1>4. ASSUME NEW f \in air, RouteInput(f) PROVE TableInv'
  BY <1>4, RouteInputTables
<1>5. ASSUME NEW n \in Node, LinkStateBroadcast(n) PROVE TableInv'
  BY <1>5, BroadcastTables
<1>6. ASSUME NEW n \in Node, NEW dest \in Node, RouteOutput(n, dest) PROVE TableInv'
  <2>1. FramesInv'
    BY <1>6, DataFramesSendable DEF RouteOutput, TableInv, FramesInv
  <2> QED  BY <1>6, <2>1, TablesUnchanged DEF RouteOutput, TableInv, NotedInv
<1>7. ASSUME NEW f \in air, Lose(f) PROVE TableInv'
  <2>1. FramesInv'
    BY <1>7 DEF Lose, TableInv, FramesInv
  <2> QED  BY <1>7, <2>1, TablesUnchanged DEF Lose, TableInv, NotedInv
<1>8. CASE UNCHANGED vars
  BY <1>8, TablesUnchanged DEF vars, TableInv, NotedInv, FramesInv
<1> QED  BY <1>2, <1>3, <1>4, <1>5, <1>6, <1>7, <1>8 DEF Next, Arrive

\* The inductive invariant of the theorems below.
THEOREM Invariance == Spec => [](Inv /\ TableInv)
<1>1. Init => Inv /\ TableInv
  BY InitInv, InitTables
<1>2. Inv /\ TableInv /\ [Next]_vars => (Inv /\ TableInv)'
  BY NextInv, NextTables
<1> QED  BY <1>1, <1>2, PTL DEF Spec

\* The state has its type: databases and tables name nodes of the network, and
\* no smoothed metric is 0 or beyond the samples (UpdateCodeNum,
\* link-state-routing-protocol.cc:229-260).
THEOREM TypeCorrect == Spec => []TypeOK
<1>1. ASSUME Inv, TableInv PROVE TypeOK
  <2>1. ASSUME NEW n \in Node, NEW i \in DOMAIN net[n]
        PROVE  /\ net[n][i].address \in Node /\ net[n][i].time \in 0..Cardinality(sent)
               /\ \A k \in DOMAIN net[n][i].pairs :
                      /\ net[n][i].pairs[k].address \in Node
                      /\ \E s \in Samples : net[n][i].pairs[k].nf_etox \in 1..s
    <3> DEFINE db == net[n]
               pairs == db[i].pairs
    <3>1. Database(n, db, sent) /\ Said(sent) /\ Told(sent) /\ IsFiniteSet(sent)
      BY <1>1 DEF Inv, TableInv
    <3>2. i \in 1..Len(db)
      BY <2>1, <3>1 DEF Database, IsSeq
    <3>3. IsDatabase(db, Node, Metric)
      BY <1>1, <3>1, DatabaseIs DEF TableInv, PathsInv, Paths
    <3>4. db[i].address \in Node
      BY <3>1, <3>2, DatabaseAddresses DEF Addresses
    <3>5. db[i].time \in 0..Cardinality(sent)
      <4>1. CASE i = 1
        <5>1. db[1].time = 0
          BY <3>1 DEF Database, NewNode
        <5> QED  BY <3>1, <4>1, <5>1, FS_CardinalityType
      <4>2. CASE i # 1
        <5>1. i \in 2..Len(db)
          BY <3>1, <3>2, <4>2 DEF Database, IsSeq
        <5> QED  BY <3>1, <5>1 DEF Database, Told
      <4> QED  BY <4>1, <4>2
    <3>6. pairs \in Seq(PairOf(Node, Metric))
      BY <3>2, <3>3 DEF IsDatabase
    <3> HIDE DEF pairs
    <3>7. \A k \in DOMAIN pairs : pairs[k] \in PairOf(Node, Metric)
      BY <3>6
    <3>8. ASSUME NEW k \in DOMAIN pairs
          PROVE  pairs[k].address \in Node /\ \E s \in Samples : pairs[k].nf_etox \in 1..s
      <4>1. pairs[k].address \in Node /\ pairs[k].nf_etox \in Metric
        BY <3>7 DEF PairOf
      <4> QED  BY <4>1 DEF Metric, Metrics
    <3> QED  BY <3>4, <3>5, <3>8 DEF pairs
  <2>2. ASSUME NEW n \in Node PROVE DOMAIN nftable[n] \cup Range(nftable[n]) \subseteq Node
    <3> DEFINE f == nftable[n]
    <3>1. DOMAIN f \subseteq Node /\ f \in [DOMAIN f -> DOMAIN f]
      BY <1>1 DEF TableInv, RoutesInv, Routes, IsForest
    <3> HIDE DEF f
    <3>2. DOMAIN f \cup Range(f) \subseteq Node
      BY <3>1 DEF Range
    <3> QED  BY <3>2 DEF f
  <2>3. ASSUME NEW n \in Node PROVE DOMAIN ptable[n] \cup Range(ptable[n]) \subseteq Node
    <3> DEFINE p == ptable[n]
               pairs == net[n][1].pairs
    <3>1. /\ pairs \in Seq(PairOf(Heard(n), Metric)) /\ DOMAIN p \subseteq Node
          /\ \A d \in DOMAIN p : p[d] \in Addresses(pairs)
      BY <1>1 DEF TableInv, PathsInv, Paths
    <3> HIDE DEF p, pairs
    <3>2. \A k \in 1..Len(pairs) : pairs[k] \in PairOf(Heard(n), Metric)
      BY <3>1
    <3>3. Addresses(pairs) \subseteq Node
      BY <3>2 DEF Addresses, PairOf, Heard
    <3>4. DOMAIN p \cup Range(p) \subseteq Node
      BY <3>1, <3>3 DEF Range
    <3> QED  BY <3>4 DEF p
  <2>4. ASSUME NEW f \in air PROVE <<f.from, f.to>> \in Hears
    <3>1. Sendable(f)
      BY <1>1 DEF TableInv, FramesInv
    <3> QED  BY <3>1 DEF Sendable
  <2> QED  BY <2>1, <2>2, <2>3, <2>4 DEF TypeOK
<1> QED  BY <1>1, Invariance, PTL

\* FindSendEntry comes to a first hop from every entry of the NF table, also
\* from one that an earlier calculation left, so RouteOutput never gets to its
\* fatal error (link-state-routing-protocol.cc:369-376 and 468-484).
THEOREM SendEntries == Spec => []SendEntriesFound
<1>1. TableInv => SendEntriesFound
  BY FindSendEntryOk DEF TableInv, RoutesInv, Routes, SendEntriesFound, SendEntryFound
<1> QED  BY <1>1, Invariance, PTL

\* No set of entries leads round in a circle, whatever the order of the
\* calculations and whatever nodes each of them reaches
\* (link-state-routing-protocol.cc:737-762).
THEOREM ChainsAlwaysEnd == Spec => []ChainsEnd
<1>1. ASSUME TableInv, NEW n \in Node PROVE Table(n)!ChainsEnd
  <2>1. IsForest(nftable[n], DOMAIN nftable[n])
    BY <1>1 DEF TableInv, RoutesInv, Routes
  <2> QED  BY <2>1 DEF IsForest, Table!ChainsEnd, Table!Leads
<1>2. TableInv => ChainsEnd
  BY <1>1 DEF ChainsEnd
<1> QED  BY <1>2, Invariance, PTL

\* A pair that is there has a metric.
LEMMA MetricThere ==
    ASSUME NEW n \in Node, NEW pairs \in Seq(PairOf(Heard(n), Metric)), NEW g \in Addresses(pairs)
    PROVE  <<g, n>> \in Hears /\ GetMetric(pairs, g) # 0
<1>1. \A k \in 1..Len(pairs) : pairs[k] \in PairOf(Heard(n), Metric)
  OBVIOUS
<1>2. \A k \in 1..Len(pairs) : pairs[k].address \in Heard(n) /\ pairs[k].nf_etox # 0
  BY <1>1, MetricsAre DEF PairOf
<1>3. MetricIs(pairs, g, GetMetric(pairs, g))
  BY GetMetricIs
<1>4. GetMetric(pairs, g) # 0
  BY <1>2, <1>3 DEF MetricIs
<1> QED  BY <1>2, <1>4 DEF Addresses, Heard

\* The first hops that either table gives were heard and have a metric: the
\* assertions of RouteOutput and RouteInput hold
\* (link-state-routing-protocol.cc:396-397 and 531-532).
THEOREM FirstHops == Spec => []FirstHopsHaveMetric
<1>1. ASSUME TableInv, NEW n \in Node, NEW d \in Node
      PROVE  /\ d \in DOMAIN nftable[n] =>
                  LET g == FindSendEntry(nftable[n], d)
                  IN  <<g, n>> \in Hears /\ GetMetric(net[n][1].pairs, g) # 0
             /\ d \in DOMAIN ptable[n] =>
                  LET g == ptable[n][d]
                  IN  <<g, n>> \in Hears /\ GetMetric(net[n][1].pairs, g) # 0
  <2> DEFINE pairs == net[n][1].pairs
             f == nftable[n]
             p == ptable[n]
  <2>1. pairs \in Seq(PairOf(Heard(n), Metric)) /\ Paths(n, pairs, p) /\ Routes(pairs, f)
    BY <1>1 DEF TableInv, PathsInv, RoutesInv, Paths
  <2> HIDE DEF pairs, f, p
  <2>2. ASSUME d \in DOMAIN f PROVE FindSendEntry(f, d) \in Addresses(pairs)
    BY <2>1, <2>2, FindSendEntryOk DEF Routes
  <2>3. ASSUME d \in DOMAIN p PROVE p[d] \in Addresses(pairs)
    BY <2>1, <2>3 DEF Paths
  <2>4. \A g \in Addresses(pairs) : <<g, n>> \in Hears /\ GetMetric(pairs, g) # 0
    BY <2>1, MetricThere
  <2> QED  BY <2>2, <2>3, <2>4 DEF pairs, f, p
<1>2. TableInv => FirstHopsHaveMetric
  BY <1>1 DEF FirstHopsHaveMetric
<1> QED  BY <1>2, Invariance, PTL

-----------------------------------------------------------------------------
(* The NF tables implement NFTable *)

\* A calculation is one of NFTable, with the addresses that it reaches.
LEMMA CalculationIs ==
    ASSUME Inv', TableInv, TableInv', NEW f \in air, f.to \in Node, Receive(f)
    PROVE  \A m \in Node : Table(m)!Next \/ nftable'[m] = nftable[m]
<1> DEFINE n == f.to
           db == net'[n]
           old == nftable[n]
           new == CalculateTable(db, old)
<1>1. IsDatabase(db, Node, Metric) /\ Addresses(db) \subseteq Node
  <2>1. Database(n, db, sent') /\ Said(sent') /\ Told(sent')
    BY DEF Inv, TableInv
  <2>2. db[1].pairs \in Seq(PairOf(Heard(n), Metric))
    BY DEF TableInv, PathsInv, Paths
  <2> QED  BY <2>1, <2>2, DatabaseIs, DatabaseAddresses
<1>2. PICK R : Calculated(db, old, new, R)
  BY <1>1, MetricsAre, CalculateTableOk
<1>3. nftable' = [nftable EXCEPT ![n] = new]
  BY DEF Receive
<1> HIDE DEF new
<1>4. nftable' = [m \in Node |-> IF m = n THEN new ELSE nftable[m]]
  BY <1>3 DEF TableInv, RoutesInv
<1>5. R \in SUBSET Node
  BY <1>1, <1>2 DEF Calculated
<1>6. new \in [DOMAIN old \cup R -> Node]
  <2>1. nftable'[n] = new
    BY <1>4
  <2>2. IsForest(new, DOMAIN new) /\ DOMAIN new \subseteq Node
    BY <2>1 DEF TableInv, RoutesInv, Routes
  <2>3. new \in [DOMAIN new -> Node]
    BY <2>2 DEF IsForest
  <2>4. DOMAIN new = DOMAIN old \cup R
    BY <1>2 DEF Calculated
  <2> QED  BY <2>3, <2>4
<1>7. Table(n)!Calculate(R)
  <2>1. nftable'[n] = new
    BY <1>4
  <2> QED  BY <1>2, <1>6, <2>1 DEF Calculated, Table!Calculate, Table!Leads
<1>8. Table(n)!Next
  BY <1>5, <1>7 DEF Table!Next
<1> QED  BY <1>4, <1>8

\* The table of every node is one of NFTable, whose entries the calculations
\* write and nothing else does (link-state-routing-protocol.cc:678-764).
THEOREM ImplementsTable == Spec => ImplementsNFTable
<1> DEFINE Step == \A n \in Node : Table(n)!Next \/ UNCHANGED nftable[n]
<1>1. Init => \A n \in Node : Table(n)!Init
  BY DEF Init, Table!Init
<1>2. ASSUME Inv, TableInv, Inv', TableInv', [Next]_vars PROVE Step \/ UNCHANGED nftable
  <2>1. ASSUME NEW f \in air, Receive(f) PROVE Step
    <3>1. f.to \in Node
      BY <1>2 DEF Inv
    <3> QED  BY <1>2, <2>1, <3>1, CalculationIs
  <2>2. CASE ~ \E f \in air : Receive(f)
    BY <1>2, <2>2 DEF Next, Arrive, vars, ReceiveOwn, Overhear, RouteInput,
                      LinkStateBroadcast, RouteOutput, Lose
  <2> QED  BY <2>1, <2>2
<1> HIDE DEF Step
<1>3. Spec => [][Step]_nftable
  BY <1>2, Invariance, PTL DEF Spec
<1>4. Spec => \A n \in Node : Table(n)!Init
  BY <1>1 DEF Spec
<1> QED  BY <1>3, <1>4 DEF Step, ImplementsNFTable

-----------------------------------------------------------------------------
(* A flood reaches all *)

\* Node n has what hello h says, or something later.
Has(n, h) == Knows(n, h.address) /\ Record(n, h.address).time >= h.time

\* A way of k hops from a to another node that does not come back to a.
IsWay(p, k, a) ==
    /\ p[0] = a
    /\ \A i \in 1..k : p[i] \in Receivers(p[i - 1]) /\ p[i] # a

\* The i-th frame that takes hello h along the way p.
WayFrame(p, h, i) ==
    [type |-> "hello", from |-> p[i - 1], to |-> p[i], hello |-> h, ttl |-> MaxTTL + 1 - i]

\* Either the end of the way has the hello or the hello is under way to it.
Served(p, k, h) == Has(p[k], h) \/ \E i \in 1..k : WayFrame(p, h, i) \in air

\* The invariant: as long as no frame is lost, every hello goes all the ways
\* that its time to live lets it go.
FloodInv ==
    /\ lost \in Nat
    /\ lost = 0 =>
           \A h \in sent : \A k \in 1..MaxTTL + 1 : \A p :
               IsWay(p, k, h.address) => Served(p, k, h)

\* After Update, the database has what the hello says, or something later.
LEMMA UpdateTells ==
    ASSUME NEW n, NEW db, NEW S, Said(S), Database(n, db, S), NEW h \in S, h.address # n
    PROVE  /\ Search(Update(db, h), h.address) # 0
           /\ Update(db, h)[Search(Update(db, h), h.address)].time >= h.time
<1> DEFINE i == Search(db, h.address)
           new == Update(db, h)
<1>1. Database(n, new, S) /\ Newer(db, new) /\ h.time \in Nat
  BY UpdateKeeps DEF Said
<1>2. new \in Seq(Range(new)) /\ Unique(new) /\ db \in Seq(Range(db))
  BY <1>1 DEF Database, IsSeq
<1>3. CASE i = 0
  <2>1. new = Append(db, h)
    BY <1>3 DEF Update, AddNode, Said
  <2>2. Len(db) + 1 \in 1..Len(new) /\ new[Len(db) + 1] = h
    BY <1>2, <2>1
  <2> HIDE DEF new
  <2>3. Search(new, h.address) = Len(db) + 1
    BY <1>2, <2>2, SearchFinds
  <2> QED  BY <1>1, <1>2, <2>2, <2>3 DEF new
<1>4. CASE i # 0
  <2>1. i \in 1..Len(db) /\ db[i].address = h.address /\ db[i].time \in Nat
    BY <1>4, SearchResult, TimesAreNat
  <2>2. i \in 1..Len(new) /\ new[i].address = h.address /\ new[i].time >= db[i].time
    BY <1>1, <1>2, <2>1 DEF Newer
  <2>3. new[i].time >= h.time
    <3>1. CASE h.time > db[i].time
      <4>1. new = [db EXCEPT ![i] = UpdateNode(@, h)]
        BY <1>4, <3>1 DEF Update
      <4>2. new[i] = UpdateNode(db[i], h)
        BY <1>2, <2>1, <4>1
      <4>3. db[i] = NewNode(db[i].address, db[i].time, db[i].pairs)
        <5>1. i = 1 \/ i \in 2..Len(db)
          BY <2>1, <1>2
        <5> QED  BY <2>1, <5>1 DEF Database, Said, NewNode
      <4>4. UpdateNode(db[i], h).time = h.time
        BY <4>3 DEF UpdateNode, NewNode
      <4> QED  BY <1>1, <4>2, <4>4
    <3>2. CASE ~ (h.time > db[i].time)
      BY <1>1, <1>4, <2>1, <3>2 DEF Update
    <3> QED  BY <3>1, <3>2
  <2> HIDE DEF new, i
  <2>4. Search(new, h.address) = i
    BY <1>2, <2>2, SearchFinds
  <2> QED  BY <1>4, <2>3, <2>4 DEF new
<1> QED  BY <1>3, <1>4

\* What is had stays.
LEMMA HasKeeps ==
    ASSUME Inv, Inv', NeverBackStep, NEW n \in Node, NEW h \in sent, Has(n, h)
    PROVE  Has(n, h)'
<1> DEFINE a == h.address
<1>1. Search(net[n], a) # 0 /\ net[n][Search(net[n], a)].time >= h.time
  BY DEF Has, Knows, Record
<1>2. Database(n, net[n], sent) /\ Database(n, net'[n], sent') /\ Newer(net[n], net'[n])
  BY DEF Inv, NeverBackStep
<1>3. /\ Search(net'[n], a) # 0
      /\ net'[n][Search(net'[n], a)].time >= net[n][Search(net[n], a)].time
  BY <1>1, <1>2, NewerKeeps
<1>4. /\ net[n][Search(net[n], a)].time \in Nat /\ h.time \in Nat
      /\ net'[n][Search(net'[n], a)].time \in Nat
  <2>1. Search(net[n], a) \in 1..Len(net[n])
    BY <1>1, <1>2, SearchResult
  <2>2. Search(net'[n], a) \in 1..Len(net'[n])
    BY <1>2, <1>3, SearchResult
  <2>3. Said(sent) /\ Said(sent')
    BY DEF Inv
  <2> QED  BY <1>2, <2>1, <2>2, <2>3, TimesAreNat DEF Said
<1>5. net'[n][Search(net'[n], a)].time >= h.time
  BY <1>1, <1>3, <1>4
<1> QED  BY <1>3, <1>5 DEF Has, Knows, Record

\* A hello that arrives is had.
LEMMA ReceiveTells ==
    ASSUME Inv, NEW f \in air, Receive(f)
    PROVE  Has(f.to, f.hello)'
<1> DEFINE n == f.to
           h == f.hello
           known == Update(net[n], h)
           new == UpdateMetrics(known, codeNum'[n])
<1>1. n \in Node /\ h \in sent /\ h.address # n
  BY DEF Inv, Receive
<1>2. Database(n, net[n], sent) /\ Said(sent) /\ h.time \in Nat
  BY <1>1 DEF Inv, Said
<1>3. /\ Search(known, h.address) # 0
      /\ known[Search(known, h.address)].time >= h.time
  BY <1>1, <1>2, UpdateTells
<1>4. Database(n, known, sent)
  BY <1>1, <1>2, UpdateKeeps
<1>5. net' = [net EXCEPT ![n] = new]
  BY DEF Receive, UpdateCodeNum
<1> HIDE DEF known
<1>6. Database(n, new, sent) /\ Newer(known, new)
  BY <1>2, <1>4, MetricsKeep
<1> HIDE DEF new
<1>7. net'[n] = new
  BY <1>1, <1>5 DEF Inv
<1>8. /\ Search(new, h.address) # 0
      /\ new[Search(new, h.address)].time >= known[Search(known, h.address)].time
  BY <1>3, <1>4, <1>6, NewerKeeps
<1>9. /\ known[Search(known, h.address)].time \in Nat
      /\ new[Search(new, h.address)].time \in Nat
  <2>1. Search(known, h.address) \in 1..Len(known)
    BY <1>3, <1>4, SearchResult
  <2>2. Search(new, h.address) \in 1..Len(new)
    BY <1>6, <1>8, SearchResult
  <2> QED  BY <1>2, <1>4, <1>6, <2>1, <2>2, TimesAreNat
<1>10. new[Search(new, h.address)].time >= h.time
  BY <1>2, <1>3, <1>8, <1>9
<1> QED  BY <1>7, <1>8, <1>10 DEF Has, Knows, Record


\* A hello on a way goes on: the way stays served while no frame is lost.
LEMMA ServedOn ==
    ASSUME Inv, Inv', NeverBackStep, [Next]_vars, lost = 0, lost' = 0,
           NEW h \in sent, NEW k \in 1..MaxTTL + 1, NEW p, IsWay(p, k, h.address),
           Served(p, k, h)
    PROVE  Served(p, k, h)'
<1>1. MaxTTL \in Nat
  BY LinkStateAssumption
<1>2. \A i \in 1..k : p[i] \in Receivers(p[i - 1]) /\ p[i] \in Node /\ p[i] # h.address
  BY DEF IsWay, Receivers
<1>3. CASE Has(p[k], h)
  <2>1. p[k] \in Node
    BY <1>1, <1>2
  <2>2. Has(p[k], h)'
    BY <1>3, <2>1, HasKeeps
  <2> QED  BY <2>2 DEF Served, Has, Knows, Record
<1>4. CASE \E i \in 1..k : WayFrame(p, h, i) \in air
  <2>1. PICK i \in 1..k : WayFrame(p, h, i) \in air
    BY <1>4
  <2> DEFINE g == WayFrame(p, h, i)
  <2>2. /\ g.type = "hello" /\ g.to = p[i] /\ g.hello = h /\ g.ttl = MaxTTL + 1 - i
        /\ g.hello.address # g.to
    BY <1>2 DEF WayFrame
  <2>3. CASE g \in air'
    BY <2>3 DEF Served
  <2>4. CASE g \notin air'
    <3>1. Receive(g)
      <4>1. g \in air
        BY <2>1
      <4> HIDE DEF g
      <4>2. ASSUME NEW f \in air, f # g, air \ {f} \subseteq air' PROVE FALSE
        BY <2>4, <4>1, <4>2
      <4>3. ASSUME NEW f \in air, Receive(f) PROVE Receive(g)
        BY <4>2, <4>3 DEF Receive
      <4>4. ASSUME NEW f \in air, ReceiveOwn(f) PROVE FALSE
        BY <2>2, <4>2, <4>4 DEF ReceiveOwn
      <4>5. ASSUME NEW f \in air, Overhear(f) PROVE FALSE
        BY <2>2, <4>2, <4>5 DEF Overhear
      <4>6. ASSUME NEW f \in air, RouteInput(f) PROVE FALSE
        BY <2>2, <4>2, <4>6 DEF RouteInput
      <4>7. ASSUME NEW n \in Node, LinkStateBroadcast(n) PROVE FALSE
        BY <2>4, <4>1, <4>7 DEF LinkStateBroadcast
      <4>8. ASSUME NEW n \in Node, NEW dest \in Node, RouteOutput(n, dest) PROVE FALSE
        BY <2>4, <4>1, <4>8 DEF RouteOutput
      <4>9. ASSUME NEW f \in air, Lose(f) PROVE FALSE
        BY <4>9 DEF Lose
      <4>10. CASE UNCHANGED vars
        BY <2>4, <4>1, <4>10 DEF vars
      <4> QED  BY <4>3, <4>4, <4>5, <4>6, <4>7, <4>8, <4>9, <4>10 DEF Next, Arrive
    <3>2. CASE i = k
      <4>1. Has(g.to, g.hello)'
        BY <2>1, <3>1, ReceiveTells
      <4>2. g.to = p[k] /\ g.hello = h
        BY <2>2, <3>2
      <4>3. Has(p[k], h)'
        <5> HIDE DEF g
        <5> QED  BY <4>1, <4>2 DEF Has, Knows, Record
      <4> QED  BY <4>3 DEF Served, Has, Knows, Record
    <3>3. CASE i # k
      <4> DEFINE j == i + 1
                 next == WayFrame(p, h, j)
      <4>1. j \in 1..k /\ j - 1 = i /\ g.ttl > 0 /\ g.ttl - 1 = MaxTTL + 1 - j
        BY <1>1, <2>2, <3>3
      <4>2. p[j] \in Receivers(p[i])
        BY <1>2, <4>1
      <4>3. next = [type |-> "hello", from |-> p[i], to |-> p[j], hello |-> h,
                    ttl |-> g.ttl - 1]
        BY <4>1 DEF WayFrame
      <4> HIDE DEF g, next, j
      <4>4. next \in HelloFrames(p[i], h, g.ttl - 1)
        BY <4>2, <4>3 DEF HelloFrames
      <4>5. ForwardHello(g) = HelloFrames(p[i], h, g.ttl - 1)
        BY <2>2, <4>1 DEF ForwardHello
      <4>6. next \in air'
        BY <3>1, <4>4, <4>5 DEF Receive
      <4> QED  BY <4>1, <4>6 DEF Served, next
    <3> QED  BY <3>2, <3>3
  <2> QED  BY <2>3, <2>4
<1> QED  BY <1>3, <1>4 DEF Served

\* A new hello sets out on every way.
LEMMA ServedFirst ==
    ASSUME NEW n \in Node, NEW h, h.address = n, HelloFrames(n, h, MaxTTL) \subseteq air',
           NEW k \in 1..MaxTTL + 1, NEW p, IsWay(p, k, n)
    PROVE  Served(p, k, h)'
<1>1. MaxTTL \in Nat
  BY LinkStateAssumption
<1>2. 1 \in 1..k /\ 1 - 1 = 0 /\ MaxTTL + 1 - 1 = MaxTTL
  BY <1>1
<1>3. p[1] \in Receivers(n) /\ p[0] = n
  BY <1>2 DEF IsWay
<1>4. WayFrame(p, h, 1) = [type |-> "hello", from |-> n, to |-> p[1], hello |-> h,
                           ttl |-> MaxTTL]
  BY <1>2, <1>3 DEF WayFrame
<1>5. WayFrame(p, h, 1) \in air'
  BY <1>3, <1>4 DEF HelloFrames
<1> QED  BY <1>2, <1>5 DEF Served

LEMMA NextFlood == Inv /\ FloodInv /\ [Next]_vars => FloodInv'
<1> SUFFICES ASSUME Inv, FloodInv, [Next]_vars PROVE FloodInv'
  OBVIOUS
<1>1. Inv' /\ NeverBackStep
  BY NextInv
<1>2. lost' \in Nat /\ (lost' = 0 => lost = 0)
  <2>1. lost \in Nat
    BY DEF FloodInv
  <2>2. lost' = lost \/ lost' = lost + 1
    BY DEF Next, Arrive, Receive, ReceiveOwn, Overhear, RouteInput, LinkStateBroadcast,
           RouteOutput, Lose, vars
  <2> QED  BY <2>1, <2>2
<1>3. ASSUME NEW h \in sent', h \notin sent
      PROVE  h.address \in Node /\ HelloFrames(h.address, h, MaxTTL) \subseteq air'
  <2>1. PICK n \in Node : LinkStateBroadcast(n)
    BY <1>3 DEF Next, Arrive, Receive, ReceiveOwn, Overhear, RouteInput, RouteOutput, Lose, vars
  <2> DEFINE hello == [address |-> n, time |-> Cardinality(sent) + 1,
                       pairs |-> net[n][1].pairs]
  <2>2. /\ sent' = sent \cup {hello} /\ air' = air \cup HelloFrames(n, hello, MaxTTL)
    BY <2>1 DEF LinkStateBroadcast
  <2>3. hello.address = n
    OBVIOUS
  <2> HIDE DEF hello
  <2> QED  BY <1>3, <2>2, <2>3
<1>4. ASSUME lost' = 0, NEW h \in sent', NEW k \in 1..MaxTTL + 1, NEW p,
             IsWay(p, k, h.address)
      PROVE  Served(p, k, h)'
  <2>1. CASE h \in sent
    BY <1>1, <1>2, <1>4, <2>1, ServedOn DEF FloodInv
  <2>2. CASE h \notin sent
    BY <1>3, <1>4, <2>2, ServedFirst
  <2> QED  BY <2>1, <2>2
<1> QED  BY <1>2, <1>4 DEF FloodInv, Served, Has, Knows, Record


\* The function of Reach.
IsWithin(w, m) ==
    w = [k \in 0..MaxTTL + 1 |->
            IF k = 0 THEN {m}
            ELSE w[k - 1] \cup UNION {Receivers(n) : n \in w[k - 1]}]

\* It exists.
LEMMA WithinExists ==
    ASSUME NEW m
    PROVE  \E w : IsWithin(w, m)
<1> DEFINE N == MaxTTL + 1
           c == [nodes |-> Node, hears |-> Hears]
           seq == [k \in 1..N |-> k]
<1>1. N \in Nat
  BY LinkStateAssumption
<1>2. PICK it : IsLoop(it, "Within", c, {m}, seq, N)
  BY <1>1, Iterates
<1>3. PICK r : IsRun(r, "Within", c, {m}, seq, N, it[1..N])
  BY <1>1, <1>2, Iteration
<1> DEFINE w == [k \in 0..N |-> r[k]]
<1>4. /\ r[0] = {m}
      /\ \A k \in 0..N - 1 : r[k + 1] = r[k] \cup UNION {Receivers(n) : n \in r[k]}
  <2>1. ASSUME NEW acc, NEW e
        PROVE  Turn("Within", c, acc, e) = acc \cup UNION {Receivers(n) : n \in acc}
    <3>1. Turn("Within", c, acc, e) = acc \cup {x \in Node : \E n \in acc : <<n, x>> \in Hears}
      BY DEF Turn
    <3>2. UNION {Receivers(n) : n \in acc} = {x \in Node : \E n \in acc : <<n, x>> \in Hears}
      <4>1. \A n, x : x \in Receivers(n) <=> x \in Node /\ <<n, x>> \in Hears
        BY DEF Receivers
      <4> QED  BY <4>1
    <3> QED  BY <3>1, <3>2
  <2>2. r[0] = {m} /\ \A k \in 0..N - 1 : r[k + 1] = Turn("Within", c, r[k], seq[k + 1])
    BY <1>3 DEF IsRun
  <2> HIDE DEF c, N, seq
  <2> QED  BY <2>1, <2>2
<1>5. /\ w[0] = {m}
      /\ \A k \in 0..N - 1 : w[k + 1] = w[k] \cup UNION {Receivers(n) : n \in w[k]}
  BY <1>1, <1>4
<1>6. \A k \in 0..N : w[k] = IF k = 0 THEN {m}
                             ELSE w[k - 1] \cup UNION {Receivers(n) : n \in w[k - 1]}
  <2> SUFFICES ASSUME NEW k \in 0..N, k # 0
               PROVE  w[k] = w[k - 1] \cup UNION {Receivers(n) : n \in w[k - 1]}
    BY <1>5
  <2>1. k - 1 \in 0..N - 1 /\ (k - 1) + 1 = k
    BY <1>1
  <2> HIDE DEF w, N
  <2> QED  BY <1>5, <2>1
<1>7. IsWithin(w, m)
  BY <1>6 DEF IsWithin
<1> HIDE DEF w
<1> QED  BY <1>7

\* Every node within reach is at the end of a way.
LEMMA WayExists ==
    ASSUME NEW m \in Node, NEW w, IsWithin(w, m), NEW n \in w[MaxTTL + 1], n # m
    PROVE  \E k \in 1..MaxTTL + 1 : \E p : IsWay(p, k, m) /\ p[k] = n
<1> DEFINE N == MaxTTL + 1
           Ends(x, j) == \E k \in 1..j : \E p : IsWay(p, k, m) /\ p[k] = x
           T == {j \in 0..N : \A x \in w[j] : x = m \/ Ends(x, j)}
<1>1. N \in Nat
  BY LinkStateAssumption
<1>2. /\ w[0] = {m}
      /\ \A j \in 0..N - 1 : w[j + 1] = w[j] \cup UNION {Receivers(x) : x \in w[j]}
  BY <1>1 DEF IsWithin
<1>3. 0 \in T
  BY <1>1, <1>2
<1>4. ASSUME NEW j \in 0..N - 1, j \in T PROVE j + 1 \in T
  <2>1. j \in Nat /\ j + 1 \in 0..N
    BY <1>1
  <2>2. ASSUME NEW x \in w[j + 1], x # m PROVE Ends(x, j + 1)
    <3>1. CASE x \in w[j]
      <4>1. Ends(x, j)
        BY <1>4, <2>2, <3>1
      <4> QED  BY <2>1, <4>1
    <3>2. CASE x \notin w[j]
      <4>1. PICK y \in w[j] : x \in Receivers(y)
        BY <1>2, <2>2, <3>2
      <4>2. CASE y = m
        <5> DEFINE q == [i \in 0..1 |-> IF i = 0 THEN m ELSE x]
        <5>1. q[0] = m /\ q[1] = x
          OBVIOUS
        <5>2. \A i \in 1..1 : i = 1 /\ i - 1 = 0
          OBVIOUS
        <5> HIDE DEF q
        <5>3. IsWay(q, 1, m)
          BY <2>2, <4>1, <4>2, <5>1, <5>2 DEF IsWay
        <5>4. 1 \in 1..j + 1
          BY <2>1
        <5> QED  BY <5>1, <5>3, <5>4
      <4>3. CASE y # m
        <5>1. Ends(y, j)
          BY <1>4, <4>1, <4>3
        <5>2. PICK k \in 1..j : \E p : IsWay(p, k, m) /\ p[k] = y
          BY <5>1
        <5>3. PICK p : IsWay(p, k, m) /\ p[k] = y
          BY <5>2
        <5> DEFINE q == [i \in 0..k + 1 |-> IF i = k + 1 THEN x ELSE p[i]]
        <5>4. q[k + 1] = x /\ \A i \in 0..k : q[i] = p[i]
          BY <2>1
        <5> HIDE DEF q
        <5>5. q[0] = m
          BY <2>1, <5>3, <5>4 DEF IsWay
        <5>6. ASSUME NEW i \in 1..k + 1 PROVE q[i] \in Receivers(q[i - 1]) /\ q[i] # m
          <6>1. CASE i = k + 1
            <7>1. i - 1 = k /\ k \in 0..k
              BY <2>1, <6>1
            <7> QED  BY <2>2, <4>1, <5>3, <5>4, <6>1, <7>1
          <6>2. CASE i # k + 1
            <7>1. i \in 1..k /\ i \in 0..k /\ i - 1 \in 0..k
              BY <2>1, <6>2
            <7> QED  BY <5>3, <5>4, <7>1 DEF IsWay
          <6> QED  BY <6>1, <6>2
        <5>7. IsWay(q, k + 1, m)
          BY <5>5, <5>6 DEF IsWay
        <5>8. k + 1 \in 1..j + 1
          BY <2>1
        <5> QED  BY <5>4, <5>7, <5>8
      <4> QED  BY <4>2, <4>3
    <3> QED  BY <3>1, <3>2
  <2> HIDE DEF Ends
  <2> QED  BY <2>1, <2>2
<1> HIDE DEF T
<1>5. \A j \in 0..N : j \in T
  BY <1>1, <1>3, <1>4, Upto
<1>6. N \in T
  BY <1>1, <1>5
<1> HIDE DEF Ends
<1>7. Ends(n, N)
  BY <1>6 DEF T
<1> QED  BY <1>7 DEF Ends

\* A flood reaches every node that it can reach: whatever the order in which
\* the hellos arrive and overtake each other, when none is lost and none is
\* under way any more, each node within reach has what was said last or
\* something later (link-state-routing-protocol.cc:305-311).
THEOREM FloodReaches == Spec => []FloodReachesAll
<1>1. Init => FloodInv
  BY DEF Init, FloodInv
<1>2. Inv /\ FloodInv /\ [Next]_vars => FloodInv'
  BY NextFlood
<1>3. ASSUME Inv, FloodInv, Hellos = {}, lost = 0, NEW h \in sent, NEW w,
             IsWithin(w, h.address), NEW n \in w[MaxTTL + 1] \ {h.address}
      PROVE  Has(n, h)
  <2>1. h.address \in Node
    BY <1>3 DEF Inv, Said
  <2>2. PICK k \in 1..MaxTTL + 1 : \E p : IsWay(p, k, h.address) /\ p[k] = n
    BY <1>3, <2>1, WayExists
  <2>3. PICK p : IsWay(p, k, h.address) /\ p[k] = n
    BY <2>2
  <2>4. Served(p, k, h)
    BY <1>3, <2>3 DEF FloodInv
  <2>5. \A i : WayFrame(p, h, i) \notin air
    BY <1>3 DEF Hellos, WayFrame
  <2> QED  BY <2>3, <2>4, <2>5 DEF Served
<1>4. Inv /\ FloodInv => FloodReachesAll
  BY Zenon, <1>3, WithinExists DEF FloodReachesAll, Reach, IsWithin, Has
<1> QED  BY <1>1, <1>2, <1>4, Invariance, PTL DEF Spec


\* The same follows from what NFTable says alone, for tables that are written
\* in any other way it allows: a set of entries that meets the nodes just
\* reached leads to a first hop or out of the set inside the new tree, and any
\* other set leads where it led.
LEMMA TableChainsOn ==
    ASSUME NEW n \in Node, Table(n)!ChainsEnd, NEW R, Table(n)!Calculate(R)
    PROVE  Table(n)!ChainsEnd'
<1> DEFINE old == nftable[n]
           new == nftable'[n]
<1>1. /\ \A d \in DOMAIN old : old[d] \in DOMAIN old
      /\ \A T \in SUBSET DOMAIN old : T # {} => \E d \in T : old[d] = d \/ old[d] \notin T
  BY DEF Table!ChainsEnd, Table!Leads
<1>2. /\ DOMAIN new = DOMAIN old \cup R
      /\ \A d \in DOMAIN old \ R : new[d] = old[d]
      /\ \A d \in R : new[d] \in R
      /\ \A T \in SUBSET R : T # {} => \E d \in T : new[d] = d \/ new[d] \notin T
  BY DEF Table!Calculate, Table!Leads
<1> HIDE DEF old, new
<1>3. \A d \in DOMAIN new : new[d] \in DOMAIN new
  BY <1>1, <1>2
<1>4. ASSUME NEW T \in SUBSET DOMAIN new, T # {}
      PROVE  \E d \in T : new[d] = d \/ new[d] \notin T
  <2>1. CASE T \cap R # {}
    <3>1. PICK d \in T \cap R : new[d] = d \/ new[d] \notin T \cap R
      BY <1>2, <2>1
    <3> QED  BY <1>2, <3>1
  <2>2. CASE T \cap R = {}
    <3>1. T \in SUBSET DOMAIN old
      BY <1>2, <2>2
    <3>2. PICK d \in T : old[d] = d \/ old[d] \notin T
      BY <1>1, <1>4, <3>1
    <3> QED  BY <1>2, <2>2, <3>1, <3>2
  <2> QED  BY <2>1, <2>2
<1> QED  BY <1>3, <1>4 DEF Table!ChainsEnd, Table!Leads, new

\* Whatever calculations a table sees, FindSendEntry ends at a first hop from
\* every entry (link-state-routing-protocol.cc:468-484).
THEOREM TableChainsEnd ==
    ASSUME NEW n \in Node
    PROVE  Table(n)!Spec => []Table(n)!ChainsEnd
<1>1. Table(n)!Init => Table(n)!ChainsEnd
  BY DEF Table!Init, Table!ChainsEnd
<1>2. Table(n)!ChainsEnd /\ [Table(n)!Next]_(nftable[n]) => Table(n)!ChainsEnd'
  <2>1. ASSUME Table(n)!ChainsEnd, Table(n)!Next PROVE Table(n)!ChainsEnd'
    BY <2>1, TableChainsOn DEF Table!Next
  <2>2. ASSUME Table(n)!ChainsEnd, UNCHANGED nftable[n] PROVE Table(n)!ChainsEnd'
    BY <2>2 DEF Table!ChainsEnd, Table!Leads
  <2> QED  BY <2>1, <2>2
<1> QED  BY <1>1, <1>2, PTL DEF Table!Spec

=============================================================================
