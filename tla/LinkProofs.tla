------------------------------ MODULE LinkProofs ------------------------------
(***************************************************************************)
(* What module Link promises, for any number of stations, packets and      *)
(* fragments and any loss: a packet that is reported as transmitted has    *)
(* arrived as a whole, and no more is acknowledged than was attempted.     *)
(*                                                                         *)
(* The first needs to know that the fragments counted in next have         *)
(* arrived and that next starts from zero for every packet; the second     *)
(* that an attempt under way is one that was not acknowledged yet.         *)
(***************************************************************************)
EXTENDS Link, TLAPS

TypeOK ==
    /\ todo \in [Station -> Seq(Packet)]
    /\ next \in [Station -> Nat]
    /\ waiting \in [Station -> BOOLEAN]
    /\ DOMAIN got = Station
    /\ DOMAIN ok = Station
    /\ sends \in [Station -> [Station -> Nat]]
    /\ acks \in [Station -> [Station -> Nat]]

\* A station without packets tries nothing and has counted nothing.
IdleIsClean == \A n \in Station : todo[n] = <<>> => next[n] = 0 /\ ~ waiting[n]

\* The fragments below nr of packet p have arrived.
Arrived(p, nr) == \A k \in Nat : k < nr => <<p.pid, k>> \in got[p.to]

\* The fragments of the first packet that were acknowledged have arrived.
CountedArrived ==
    \A n \in Station :
        todo[n] # <<>> /\ Current(n).to \in Station => Arrived(Current(n), next[n])

\* What a station reports as transmitted is a packet that arrived.
OkMeansArrived ==
    \A n \in Station : \A pid \in ok[n] :
        \E p \in Packet : p.pid = pid /\ p.to \in Station /\ Arrived(p, p.frags)

Open(n, m) == IF Trying(n) /\ Current(n).to = m THEN 1 ELSE 0

\* The acks of a neighbor and the attempt under way are no more than the attempts.
AttemptsCover == \A n, m \in Station : acks[n][m] + Open(n, m) <= sends[n][m]

IInv == TypeOK /\ IdleIsClean /\ CountedArrived /\ OkMeansArrived /\ AttemptsCover

-----------------------------------------------------------------------------

\* Taking the first packet away leaves packets.
LEMMA TailType == ASSUME NEW q \in Seq(Packet), q # <<>> PROVE Tail(q) \in Seq(Packet)
OBVIOUS

\* A packet at the end leaves the first one where it is.
LEMMA AppendType ==
    ASSUME NEW q \in Seq(Packet), NEW p \in Packet
    PROVE  Append(q, p) # <<>> /\ (q # <<>> => Head(Append(q, p)) = Head(q))
<1>1. Len(Append(q, p)) = Len(q) + 1 /\ Len(q) \in Nat
  OBVIOUS
<1>2. Append(q, p) # <<>>
  BY <1>1
<1>3. q # <<>> => Head(Append(q, p)) = Head(q)
  OBVIOUS
<1> QED  BY <1>2, <1>3

\* A counter that goes up stays a counter.
LEMMA CountType ==
    ASSUME NEW count \in [Station -> [Station -> Nat]], NEW n \in Station, NEW m \in Station
    PROVE  [count EXCEPT ![n][m] = @ + 1] \in [Station -> [Station -> Nat]]
<1>1. count[n] \in [Station -> Nat]
  OBVIOUS
<1>2. [count[n] EXCEPT ![m] = @ + 1] \in [Station -> Nat]
  BY <1>1
<1> QED  BY <1>2

\* Nothing is offered at the start.
LEMMA InitInv == Init => IInv
<1> SUFFICES ASSUME Init PROVE IInv
  OBVIOUS
<1>1. TypeOK
  BY DEF Init, TypeOK
<1>2. IdleIsClean /\ CountedArrived /\ OkMeansArrived
  BY DEF Init, IdleIsClean, CountedArrived, OkMeansArrived
<1>3. AttemptsCover
  BY DEF Init, AttemptsCover, Open, Trying
<1> QED  BY <1>1, <1>2, <1>3 DEF IInv

\* What arrived stays.
LEMMA ArrivedStable ==
    ASSUME NEW p, NEW nr, Arrived(p, nr), p.to \in Station,
           \A m \in Station : got[m] \subseteq got'[m]
    PROVE  Arrived(p, nr)'
BY DEF Arrived

\* Each step keeps the types.
LEMMA NextType == TypeOK /\ Next => TypeOK'
<1> SUFFICES ASSUME TypeOK, NEW n \in Station,
                    \/ \E p \in Packet : Offer(n, p)
                    \/ Attempt(n) \/ Receive(n) \/ Ack(n) \/ Miss(n) \/ GroupDone(n) \/ Flush(n)
             PROVE  TypeOK'
  BY DEF Next
<1>1. ASSUME NEW p \in Packet, Offer(n, p) PROVE TypeOK'
  BY <1>1 DEF Offer, TypeOK
<1>2. CASE Attempt(n)
  <2>1. sends' \in [Station -> [Station -> Nat]]
    <3>1. CASE Current(n).to \in Station
      BY <1>2, <3>1, CountType DEF Attempt, TypeOK
    <3>2. CASE Current(n).to \notin Station
      BY <1>2, <3>2 DEF Attempt, TypeOK
    <3> QED  BY <3>1, <3>2
  <2> QED  BY <1>2, <2>1 DEF Attempt, TypeOK
<1>3. CASE Receive(n)
  BY <1>3 DEF Receive, TypeOK
<1>d. ASSUME Drop(n), todo[n] # <<>>
      PROVE  todo' \in [Station -> Seq(Packet)] /\ next' \in [Station -> Nat]
  <2>1. Tail(todo[n]) \in Seq(Packet)
    BY <1>d, TailType DEF TypeOK
  <2> QED  BY <1>d, <2>1 DEF Drop, TypeOK
<1>4. CASE Ack(n)
  <2>1. todo' \in [Station -> Seq(Packet)] /\ next' \in [Station -> Nat] /\ DOMAIN ok' = Station
    <3>1. CASE next[n] + 1 = Current(n).frags
      BY <1>4, <1>d, <3>1 DEF Ack, Trying, TypeOK
    <3>2. CASE next[n] + 1 # Current(n).frags
      <4>1. UNCHANGED <<todo, ok>> /\ next' = [next EXCEPT ![n] = @ + 1]
        BY <1>4, <3>2 DEF Ack
      <4> QED  BY <4>1 DEF TypeOK
    <3> QED  BY <3>1, <3>2
  <2>2. waiting' \in [Station -> BOOLEAN] /\ DOMAIN got' = Station
        /\ sends' \in [Station -> [Station -> Nat]]
    BY <1>4 DEF Ack, TypeOK
  <2>3. acks' \in [Station -> [Station -> Nat]]
    BY <1>4, CountType DEF Ack, TypeOK
  <2> QED  BY <2>1, <2>2, <2>3 DEF TypeOK
<1>5. CASE Miss(n)
  BY <1>5, <1>d DEF Miss, Trying, TypeOK
<1>6. CASE GroupDone(n)
  BY <1>6, <1>d DEF GroupDone, Trying, TypeOK
<1>7. CASE Flush(n)
  BY <1>7 DEF Flush, TypeOK
<1> QED  BY <1>1, <1>2, <1>3, <1>4, <1>5, <1>6, <1>7

\* The promises other than the types.
Promises == IdleIsClean /\ CountedArrived /\ OkMeansArrived /\ AttemptsCover

\* A packet at the end changes nothing for the first one.
LEMMA OfferInv ==
    ASSUME IInv, TypeOK', NEW n \in Station, NEW p \in Packet, Offer(n, p) PROVE Promises'
<1>1. \A m \in Station : /\ m # n => todo'[m] = todo[m]
                         /\ todo'[m] = <<>> => todo[m] = <<>>
                         /\ todo[m] # <<>> => Head(todo'[m]) = Head(todo[m])
  <2>1. /\ todo' = [todo EXCEPT ![n] = Append(todo[n], p)]
        /\ todo \in [Station -> Seq(Packet)]
    BY DEF Offer, IInv, TypeOK
  <2>2. /\ Append(todo[n], p) # <<>>
        /\ todo[n] # <<>> => Head(Append(todo[n], p)) = Head(todo[n])
    BY <2>1, AppendType
  <2> QED  BY <2>1, <2>2
<1>2. \A m \in Station : todo[m] = <<>> => next[m] = 0 /\ ~ waiting[m]
  BY DEF IInv, IdleIsClean
<1>3. UNCHANGED <<next, waiting, got, ok, sends, acks>>
  BY DEF Offer
<1>4. IdleIsClean'
  BY <1>1, <1>2, <1>3 DEF IdleIsClean
<1>5. CountedArrived'
  BY <1>1, <1>2, <1>3 DEF IInv, CountedArrived, Current, Arrived
<1>6. OkMeansArrived'
  BY <1>3 DEF IInv, OkMeansArrived, Arrived
<1>7. AttemptsCover'
  BY <1>1, <1>2, <1>3 DEF IInv, AttemptsCover, Open, Trying, Current
<1> QED  BY <1>4, <1>5, <1>6, <1>7 DEF Promises

\* An attempt raises both sides of AttemptsCover.
LEMMA AttemptInv ==
    ASSUME IInv, TypeOK', NEW n \in Station, Attempt(n) PROVE Promises'
<1>1. UNCHANGED <<todo, next, got, ok, acks>>
  BY DEF Attempt
<1>2. todo[n] # <<>> /\ ~ waiting[n] /\ waiting' = [waiting EXCEPT ![n] = TRUE]
  BY DEF Attempt
<1>3. IdleIsClean' /\ CountedArrived' /\ OkMeansArrived'
  BY <1>1, <1>2 DEF IInv, TypeOK, IdleIsClean, CountedArrived, OkMeansArrived, Arrived, Current
<1>4. AttemptsCover'
  <2> SUFFICES ASSUME NEW k \in Station, NEW m \in Station
               PROVE  acks[k][m] + Open(k, m)' <= sends'[k][m]
    BY <1>1 DEF AttemptsCover
  <2>1. acks[k][m] \in Nat /\ sends[k][m] \in Nat /\ acks[k][m] + Open(k, m) <= sends[k][m]
    BY DEF IInv, TypeOK, AttemptsCover
  <2>2. CASE k = n /\ m = Current(n).to
    <3>1. sends'[k][m] = sends[k][m] + 1
      BY <2>2 DEF Attempt, IInv, TypeOK
    <3>2. Open(k, m) = 0
      BY <2>2, <1>2 DEF Open, Trying
    <3>3. Open(k, m)' = 1
      BY <2>2, <1>1, <1>2 DEF Open, Trying, Current, IInv, TypeOK
    <3> QED  BY <2>1, <3>1, <3>2, <3>3
  <2>3. CASE ~ (k = n /\ m = Current(n).to)
    <3>1. sends'[k][m] = sends[k][m]
      BY <2>3 DEF Attempt, IInv, TypeOK
    <3>2. Open(k, m)' = Open(k, m)
      BY <2>3, <1>1, <1>2 DEF Open, Trying, Current, IInv, TypeOK
    <3> QED  BY <2>1, <3>1, <3>2
  <2> QED  BY <2>2, <2>3
<1> QED  BY <1>3, <1>4 DEF Promises

\* Something arrives.
LEMMA ReceiveInv ==
    ASSUME IInv, TypeOK', NEW n \in Station, Receive(n) PROVE Promises'
<1>1. UNCHANGED <<todo, next, waiting, ok, sends, acks>>
  BY DEF Receive
<1>2. \A m \in Station : got[m] \subseteq got'[m]
  BY DEF Receive, IInv, TypeOK
<1>3. CountedArrived'
  BY <1>1, <1>2, ArrivedStable DEF IInv, CountedArrived, Current, Arrived
<1>4. OkMeansArrived'
  BY <1>1, <1>2 DEF IInv, OkMeansArrived, Arrived
<1>5. IdleIsClean' /\ AttemptsCover'
  BY <1>1 DEF IInv, IdleIsClean, AttemptsCover, Open, Trying, Current
<1> QED  BY <1>3, <1>4, <1>5 DEF Promises

-----------------------------------------------------------------------------
(* The steps that end an attempt.                                            *)

\* A station starts over with the next packet, or stays with fragments that arrived.
LEMMA EndKeepsCount ==
    ASSUME IInv, NEW n \in Station,
           \A m \in Station : got[m] \subseteq got'[m],
           waiting' = [waiting EXCEPT ![n] = FALSE],
           \A m \in Station \ {n} : todo'[m] = todo[m] /\ next'[m] = next[m],
           \/ next'[n] = 0
           \/ /\ todo[n] # <<>> /\ todo'[n] = todo[n]
              /\ Current(n).to \in Station => Arrived(Current(n), next[n])'
    PROVE  IdleIsClean' /\ CountedArrived'
<1>1. IdleIsClean'
  BY DEF IInv, TypeOK, IdleIsClean
<1>2. ASSUME NEW m \in Station, todo'[m] # <<>>, Current(m)'.to \in Station
      PROVE  Arrived(Current(m), next[m])'
  <2>1. CASE m # n
    <3>1. Arrived(Current(m), next[m]) /\ Current(m)' = Current(m) /\ next'[m] = next[m]
      BY <2>1, <1>2 DEF IInv, CountedArrived, Current
    <3> QED  BY <3>1, <1>2 DEF Arrived
  <2>2. CASE m = n /\ next'[n] = 0
    BY <2>2 DEF Arrived
  <2>3. CASE m = n /\ next'[n] # 0
    BY <2>3, <1>2 DEF Arrived, Current
  <2> QED  BY <2>1, <2>2, <2>3
<1> QED  BY <1>1, <1>2 DEF CountedArrived

\* What is reported already stays true.
LEMMA OkStays ==
    ASSUME OkMeansArrived, \A m \in Station : got[m] \subseteq got'[m], ok' = ok
    PROVE  OkMeansArrived'
BY DEF OkMeansArrived, Arrived

\* No ack was counted.
LEMMA SameAcks ==
    ASSUME TypeOK, NEW n \in Station, acks' = acks
    PROVE  \A m \in Station : acks'[n][m] <= acks[n][m] + Open(n, m)
<1> TAKE m \in Station
<1>1. acks[n][m] \in Nat
  BY DEF TypeOK
<1>2. Open(n, m) \in {0, 1}
  BY DEF Open
<1> QED  BY <1>1, <1>2

\* The attempt that ends pays for at most one ack.
LEMMA EndPays ==
    ASSUME IInv, NEW n \in Station,
           waiting' = [waiting EXCEPT ![n] = FALSE], sends' = sends,
           \A k \in Station \ {n} : todo'[k] = todo[k] /\ acks'[k] = acks[k],
           \A m \in Station : acks'[n][m] <= acks[n][m] + Open(n, m),
           acks' \in [Station -> [Station -> Nat]]
    PROVE  AttemptsCover'
<1> SUFFICES ASSUME NEW k \in Station, NEW m \in Station
             PROVE  acks'[k][m] + Open(k, m)' <= sends[k][m]
  BY DEF AttemptsCover
<1>1. /\ acks[k][m] \in Nat /\ sends[k][m] \in Nat /\ acks'[k][m] \in Nat
      /\ acks[k][m] + Open(k, m) <= sends[k][m]
      /\ Open(k, m) \in Nat
  BY DEF IInv, TypeOK, AttemptsCover, Open
<1>2. CASE k = n
  <2>1. Open(k, m)' = 0
    BY <1>2 DEF Open, Trying, IInv, TypeOK
  <2>2. acks'[k][m] <= acks[k][m] + Open(k, m)
    BY <1>2
  <2> QED  BY <1>1, <2>1, <2>2
<1>3. CASE k # n
  <2>1. Open(k, m)' = Open(k, m)
    BY <1>3 DEF Open, Trying, Current, IInv, TypeOK
  <2>2. acks'[k][m] = acks[k][m]
    BY <1>3
  <2> QED  BY <1>1, <2>1, <2>2
<1> QED  BY <1>2, <1>3

\* The packets and the count of the others stay when a packet is dropped.
LEMMA DropOne ==
    ASSUME IInv, NEW n \in Station, Drop(n)
    PROVE  /\ next'[n] = 0
           /\ \A m \in Station \ {n} : todo'[m] = todo[m] /\ next'[m] = next[m]
BY DEF Drop, IInv, TypeOK

\* The ack adds a fragment that arrived; the last one makes the packet complete.
LEMMA AckInv ==
    ASSUME IInv, TypeOK', NEW n \in Station, Ack(n) PROVE Promises'
<1> DEFINE p == Current(n)
<1>1. /\ Trying(n) /\ p.to \in Station /\ got' = got /\ sends' = sends
      /\ waiting' = [waiting EXCEPT ![n] = FALSE]
  BY DEF Ack
<1>2. p \in Packet
  BY <1>1 DEF Trying, Current, IInv, TypeOK
<1>3. Arrived(p, next[n] + 1)
  <2>1. Arrived(p, next[n]) /\ <<p.pid, next[n]>> \in got[p.to]
    BY <1>1 DEF Ack, Trying, IInv, CountedArrived
  <2>2. \A k \in Nat : k < next[n] + 1 => k < next[n] \/ k = next[n]
    BY DEF IInv, TypeOK
  <2> QED  BY <2>1, <2>2 DEF Arrived
<1>4. /\ \A m \in Station \ {n} : todo'[m] = todo[m] /\ next'[m] = next[m]
      /\ \/ next'[n] = 0
         \/ todo[n] # <<>> /\ todo'[n] = todo[n] /\ next'[n] = next[n] + 1
  <2>1. CASE next[n] + 1 = p.frags
    BY <2>1, DropOne DEF Ack
  <2>2. CASE next[n] + 1 # p.frags
    BY <2>2 DEF Ack, Trying, IInv, TypeOK
  <2> QED  BY <2>1, <2>2
<1>5. IdleIsClean' /\ CountedArrived'
  <2>1. CASE next'[n] = 0
    BY <2>1, <1>1, <1>4, EndKeepsCount
  <2>2. CASE todo[n] # <<>> /\ todo'[n] = todo[n] /\ next'[n] = next[n] + 1
    <3>1. Current(n)' = p
      BY <2>2 DEF Current
    <3>2. Arrived(Current(n), next[n])'
      BY <1>1, <1>3, <2>2, <3>1 DEF Arrived
    <3> HIDE DEF p
    <3> QED  BY <1>1, <1>4, <2>2, <3>2, EndKeepsCount
  <2> QED  BY <1>4, <2>1, <2>2
<1>6. OkMeansArrived'
  <2>1. CASE next[n] + 1 = p.frags
    <3> SUFFICES ASSUME NEW m \in Station, NEW pid \in ok'[m]
                 PROVE  \E q \in Packet : q.pid = pid /\ q.to \in Station /\ Arrived(q, q.frags)
      BY <1>1 DEF OkMeansArrived, Arrived
    <3>1. pid \in ok[m] \/ pid = p.pid
      <4>1. ok' = [ok EXCEPT ![n] = @ \cup {p.pid}]
        BY <2>1 DEF Ack
      <4>2. DOMAIN ok = Station
        BY DEF IInv, TypeOK
      <4> QED  BY <4>1, <4>2
    <3>2. CASE pid \in ok[m]
      BY <3>2 DEF IInv, OkMeansArrived
    <3>3. CASE pid = p.pid
      BY <3>3, <1>1, <1>2, <1>3, <2>1
    <3> QED  BY <3>1, <3>2, <3>3
  <2>2. CASE next[n] + 1 # p.frags
    BY <2>2, <1>1, OkStays DEF Ack, IInv
  <2> QED  BY <2>1, <2>2
<1>7. AttemptsCover'
  <2>1. acks' = [acks EXCEPT ![n][p.to] = @ + 1]
    BY DEF Ack
  <2>2. \A k \in Station \ {n} : acks'[k] = acks[k]
    BY <2>1 DEF IInv, TypeOK
  <2>3. ASSUME NEW m \in Station PROVE acks'[n][m] <= acks[n][m] + Open(n, m)
    <3>1. acks[n][m] \in Nat
      BY DEF IInv, TypeOK
    <3>2. CASE m = p.to
      <4>1. acks'[n][m] = acks[n][m] + 1
        BY <2>1, <3>2 DEF IInv, TypeOK
      <4> QED  BY <1>1, <3>1, <3>2, <4>1 DEF Open
    <3>3. CASE m # p.to
      <4>1. acks'[n][m] = acks[n][m]
        BY <2>1, <3>3 DEF IInv, TypeOK
      <4> QED  BY <3>1, <4>1 DEF Open
    <3> QED  BY <3>2, <3>3
  <2> QED  BY <1>1, <1>4, <2>2, <2>3, EndPays DEF TypeOK
<1> QED  BY <1>5, <1>6, <1>7 DEF Promises

\* Nothing was acknowledged.
LEMMA MissInv ==
    ASSUME IInv, TypeOK', NEW n \in Station, Miss(n) PROVE Promises'
<1>1. /\ Trying(n) /\ UNCHANGED <<got, ok, sends, acks>>
      /\ waiting' = [waiting EXCEPT ![n] = FALSE]
  BY DEF Miss
<1>2. /\ \A m \in Station \ {n} : todo'[m] = todo[m] /\ next'[m] = next[m]
      /\ \/ next'[n] = 0
         \/ todo[n] # <<>> /\ todo'[n] = todo[n] /\ next'[n] = next[n]
  BY DropOne DEF Miss, Trying
<1>3. next'[n] = next[n] /\ todo'[n] = todo[n] /\ todo[n] # <<>>
      => (Current(n).to \in Station => Arrived(Current(n), next[n])')
  BY <1>1 DEF IInv, CountedArrived, Arrived, Current
<1>4. IdleIsClean' /\ CountedArrived'
  BY <1>1, <1>2, <1>3, EndKeepsCount
<1>5. OkMeansArrived'
  BY <1>1, OkStays DEF IInv
<1>6. \A m \in Station : acks'[n][m] <= acks[n][m] + Open(n, m)
  BY <1>1, SameAcks DEF IInv
<1>7. AttemptsCover'
  BY <1>1, <1>2, <1>6, EndPays DEF TypeOK
<1> QED  BY <1>4, <1>5, <1>7 DEF Promises

\* Others may have received it.
LEMMA GroupDoneInv ==
    ASSUME IInv, TypeOK', NEW n \in Station, GroupDone(n) PROVE Promises'
<1>1. /\ UNCHANGED <<ok, sends, acks>> /\ waiting' = [waiting EXCEPT ![n] = FALSE]
      /\ next'[n] = 0
      /\ \A m \in Station \ {n} : todo'[m] = todo[m] /\ next'[m] = next[m]
  BY DropOne DEF GroupDone
<1>2. \A m \in Station : got[m] \subseteq got'[m]
  BY DEF GroupDone
<1>3. IdleIsClean' /\ CountedArrived'
  BY <1>1, <1>2, EndKeepsCount
<1>4. OkMeansArrived'
  BY <1>1, <1>2, OkStays DEF IInv
<1>5. \A m \in Station : acks'[n][m] <= acks[n][m] + Open(n, m)
  BY <1>1, SameAcks DEF IInv
<1>6. AttemptsCover'
  BY <1>1, <1>5, EndPays DEF TypeOK
<1> QED  BY <1>3, <1>4, <1>6 DEF Promises

\* Nothing is left to promise.
LEMMA FlushInv ==
    ASSUME IInv, TypeOK', NEW n \in Station, Flush(n) PROVE Promises'
<1>1. /\ UNCHANGED <<got, ok, sends, acks>> /\ waiting' = [waiting EXCEPT ![n] = FALSE]
      /\ next'[n] = 0
      /\ \A m \in Station \ {n} : todo'[m] = todo[m] /\ next'[m] = next[m]
  BY DEF Flush, IInv, TypeOK
<1>2. IdleIsClean' /\ CountedArrived'
  BY <1>1, EndKeepsCount
<1>3. OkMeansArrived'
  BY <1>1, OkStays DEF IInv
<1>4. \A m \in Station : acks'[n][m] <= acks[n][m] + Open(n, m)
  BY <1>1, SameAcks DEF IInv
<1>5. AttemptsCover'
  BY <1>1, <1>4, EndPays DEF TypeOK
<1> QED  BY <1>2, <1>3, <1>5 DEF Promises

-----------------------------------------------------------------------------
\* One station changes its packets, the others keep theirs.
LEMMA NextInv == IInv /\ [Next]_vars => IInv'
<1> SUFFICES ASSUME IInv, [Next]_vars PROVE IInv'
  OBVIOUS
<1>1. CASE UNCHANGED vars
  <2>1. TypeOK' /\ IdleIsClean'
    BY <1>1 DEF vars, IInv, TypeOK, IdleIsClean
  <2>2. CountedArrived' /\ OkMeansArrived'
    BY <1>1 DEF vars, IInv, CountedArrived, OkMeansArrived, Arrived, Current
  <2>3. AttemptsCover'
    BY <1>1 DEF vars, IInv, AttemptsCover, Open, Trying, Current
  <2> QED  BY <2>1, <2>2, <2>3 DEF IInv
<1>2. CASE Next
  <2>1. TypeOK'
    BY <1>2, NextType DEF IInv
  <2>2. PICK n \in Station :
            \/ \E p \in Packet : Offer(n, p)
            \/ Attempt(n) \/ Receive(n) \/ Ack(n) \/ Miss(n) \/ GroupDone(n) \/ Flush(n)
    BY <1>2 DEF Next
  <2>3. ASSUME NEW p \in Packet, Offer(n, p) PROVE IInv'
    BY <2>3, <2>1, OfferInv DEF IInv, Promises
  <2>4. CASE Attempt(n)
    BY <2>4, <2>1, AttemptInv DEF IInv, Promises
  <2>5. CASE Receive(n)
    BY <2>5, <2>1, ReceiveInv DEF IInv, Promises
  <2>6. CASE Ack(n)
    BY <2>6, <2>1, AckInv DEF IInv, Promises
  <2>7. CASE Miss(n)
    BY <2>7, <2>1, MissInv DEF IInv, Promises
  <2>8. CASE GroupDone(n)
    BY <2>8, <2>1, GroupDoneInv DEF IInv, Promises
  <2>9. CASE Flush(n)
    BY <2>9, <2>1, FlushInv DEF IInv, Promises
  <2> QED  BY <2>2, <2>3, <2>4, <2>5, <2>6, <2>7, <2>8, <2>9
<1> QED  BY <1>1, <1>2

\* A packet that is reported as transmitted has arrived, every fragment of it.
THEOREM OkIsTrue == Spec => []OkMeansArrived
<1>1. IInv => OkMeansArrived
  BY DEF IInv
<1> QED  BY <1>1, InitInv, NextInv, PTL DEF Spec

\* The ratio of a neighbor never gets above one, and not even with the attempt
\* that is under way counted as acknowledged.
THEOREM AttemptsSuffice == Spec => []AttemptsCover
<1>1. IInv => AttemptsCover
  BY DEF IInv
<1> QED  BY <1>1, InitInv, NextInv, PTL DEF Spec

=============================================================================
