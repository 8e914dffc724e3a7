------------------------------- MODULE MacProofs -------------------------------
(***************************************************************************)
(* The MAC of MacNetwork, for any stations, any medium, any traffic and    *)
(* any retry limits, in three parts.                                       *)
(*                                                                         *)
(* First, the ratio of a neighbor never gets above one. An ack is counted  *)
(* once for each attempt because an attempt that was counted is open in at *)
(* most one of three ways: RTS sent and CTS awaited, CTS received and data *)
(* due, data sent and ack awaited. So the acks of a neighbor and its open  *)
(* attempt together are no more than its attempts, and an ack closes the   *)
(* attempt. Handlers are operators on the record of a station: there is a  *)
(* lemma for each that can disturb the counters or the attempt, and one    *)
(* for all that touch neither.                                             *)
(*                                                                         *)
(* Then, what each handler makes of everything else in the record: which   *)
(* fields it keeps (Keeps), and that it keeps Local, what holds of a       *)
(* station between two events: an exchange is about the fragment the       *)
(* DcaTxop has, at most one thing is due, and what may be on the air with  *)
(* it.                                                                     *)
(*                                                                         *)
(* Last, all stations together: the MAC does what Link promises; on the    *)
(* way, its assertions hold and fragments that arrived are repeated only   *)
(* with the retry bit. Besides Local, its invariant IInv says two things   *)
(* of several stations. An ack carries neither the packet nor the fragment *)
(* it is for: whoever hears one takes it for the fragment that waits. That *)
(* it is right to do so is Answers: an ack that is due or on the air, and  *)
(* that its receiver can still hear, comes from the destination of the     *)
(* fragment that waits, after it arrived there. An ack for an earlier      *)
(* attempt is no longer heard, because who begins to send stops hearing.   *)
(* And Fresh says that nothing arrived of what was not sent: it needs that *)
(* packets differ in their pid and each is at one place only. First each   *)
(* action keeps IInv, then each is an action of Link on what Link sees of  *)
(* the stations.                                                           *)
(***************************************************************************)
EXTENDS MacNetwork, TLAPS

Fields == {"pkt", "hdr", "params", "listener", "ackTimer", "ctsTimer", "sendData",
           "waitSifs", "sendCts", "sendAck", "nav", "ratio", "tx", "ssrc", "slrc",
           "queue", "cur", "retry", "fragNr", "req", "got", "ok", "failed", "abort"}

Ratios == [Station -> [sends : Nat, acks : Nat]]

Awaits(s) == s.ackTimer \/ s.ctsTimer \/ s.sendData

\* The attempt at m that is open counts as one ack.
Balanced(s) ==
    \A m \in Station :
        s.ratio[m].acks + (IF Awaits(s) /\ s.hdr.to = m THEN 1 ELSE 0) <= s.ratio[m].sends

\* An attempt is open in one way only.
OneAttempt(s) ==
    /\ s.ackTimer \in BOOLEAN /\ s.ctsTimer \in BOOLEAN /\ s.sendData \in BOOLEAN
    /\ ~ (s.ackTimer /\ s.ctsTimer)
    /\ ~ (s.ackTimer /\ s.sendData)
    /\ ~ (s.ctsTimer /\ s.sendData)

Sane(s) == DOMAIN s = Fields /\ s.ratio \in Ratios /\ OneAttempt(s) /\ Balanced(s)

\* t has the counters and the attempt of s.
Same(s, t) ==
    /\ DOMAIN t = DOMAIN s
    /\ t.ratio = s.ratio /\ t.hdr = s.hdr
    /\ t.ackTimer = s.ackTimer /\ t.ctsTimer = s.ctsTimer /\ t.sendData = s.sendData

\* s may end an attempt: t has the counters of s and no attempt that s had not.
Ends(s, t) ==
    /\ DOMAIN t = DOMAIN s
    /\ t.ratio = s.ratio /\ t.hdr = s.hdr
    /\ t.ackTimer \in BOOLEAN /\ t.ctsTimer \in BOOLEAN /\ t.sendData \in BOOLEAN
    /\ (t.ackTimer => s.ackTimer) /\ (t.ctsTimer => s.ctsTimer) /\ (t.sendData => s.sendData)

-----------------------------------------------------------------------------

\* Nothing is counted or awaited at the start.
LEMMA NewStationSane == Sane(NewStation)
BY DEF Sane, NewStation, Fields, Ratios, OneAttempt, Balanced, Awaits, NewDest

\* A handler that leaves the counters and the attempt alone is harmless.
LEMMA SameSane == ASSUME NEW s, NEW t, Sane(s), Same(s, t) PROVE Sane(t)
BY DEF Sane, Same, OneAttempt, Balanced, Awaits

\* So is one that ends an attempt without counting an ack.
LEMMA EndsSane == ASSUME NEW s, NEW t, Sane(s), Ends(s, t) PROVE Sane(t)
BY DEF Sane, Ends, Ratios, OneAttempt, Balanced, Awaits

\* An assertion only sets abort.
LEMMA AssertSame == ASSUME NEW s, DOMAIN s = Fields, NEW b PROVE Same(s, Assert(s, b))
BY DEF Same, Assert, Fields

\* Handing a frame to the PHY changes nothing else.
LEMMA ForwardDownSame ==
    ASSUME NEW s, DOMAIN s = Fields, NEW f PROVE Same(s, ForwardDown(s, f))
BY DEF Same, ForwardDown, Assert, Fields

\* Sameness composes.
LEMMA SameTrans == ASSUME NEW s, NEW t, NEW u, Same(s, t), Same(t, u) PROVE Same(s, u)
BY DEF Same

\* CancelAllEvents ends the attempt.
LEMMA CancelEnds ==
    ASSUME NEW s, Sane(s)
    PROVE  Ends(s, CancelAllEvents(s)) /\ ~ Awaits(CancelAllEvents(s))
BY DEF Sane, Ends, Awaits, CancelAllEvents, Fields, OneAttempt

-----------------------------------------------------------------------------

\* A station nothing is awaited at, which has one attempt to spare.
Credited(s) ==
    /\ DOMAIN s = Fields /\ s.ratio \in Ratios
    /\ s.ackTimer = FALSE /\ s.ctsTimer = FALSE /\ s.sendData = FALSE
    /\ \A m \in Station :
          s.ratio[m].acks + (IF s.hdr.to = m THEN 1 ELSE 0) <= s.ratio[m].sends

\* AddSendTo gives the credit.
LEMMA CountSendCredits ==
    ASSUME NEW s, Sane(s), ~ Awaits(s) PROVE Credited(CountSend(s))
<1>1. CASE s.hdr.to = Group
  BY <1>1, StationAssumption
     DEF CountSend, Sane, Credited, Awaits, Balanced, OneAttempt, Ratios
<1>2. CASE s.hdr.to # Group
  <2> DEFINE ratio == AddSendTo(s.ratio, s.hdr.to)
  <2> DEFINE t == [s EXCEPT !.ratio = ratio]
  <2>0. s.ratio \in Ratios
    BY DEF Sane
  <2>1. ratio \in Ratios
    <3>1. CASE s.hdr.to \in Station
      <4>1. s.ratio[s.hdr.to] \in [sends : Nat, acks : Nat]
        BY <2>0, <3>1 DEF Ratios
      <4>2. AddSend(s.ratio[s.hdr.to]) \in [sends : Nat, acks : Nat]
        BY <4>1 DEF AddSend
      <4> QED  BY <2>0, <4>2 DEF Ratios, AddSendTo
    <3>2. CASE s.hdr.to \notin Station
      BY <2>0, <3>2 DEF Ratios, AddSendTo
    <3> QED  BY <3>1, <3>2
  <2>2. \A m \in Station : ratio[m].acks = s.ratio[m].acks
    BY <2>0 DEF Ratios, AddSendTo, AddSend
  <2>3. \A m \in Station :
            ratio[m].sends = s.ratio[m].sends + (IF s.hdr.to = m THEN 1 ELSE 0)
    BY <2>0 DEF Ratios, AddSendTo, AddSend
  <2>4. \A m \in Station : s.ratio[m].acks <= s.ratio[m].sends
    BY DEF Sane, Balanced, Awaits, Ratios
  <2> HIDE DEF ratio
  <2>5. Credited(t)
    BY <2>1, <2>2, <2>3, <2>4 DEF Credited, Sane, Awaits, OneAttempt, Fields, Ratios
  <2>6. Same(t, Assert(t, Sound(ratio[s.hdr.to])))
    BY <2>5, AssertSame DEF Credited
  <2> HIDE DEF t
  <2>7. Credited(Assert(t, Sound(ratio[s.hdr.to])))
    BY <2>5, <2>6 DEF Same, Credited
  <2> QED  BY <2>7, <1>2 DEF CountSend, ratio, t
<1> QED  BY <1>1, <1>2

\* An attempt that is opened in one way uses the credit.
LEMMA OpenSane ==
    ASSUME NEW s, Credited(s), NEW t, DOMAIN t = Fields, t.ratio = s.ratio, t.hdr = s.hdr,
           t.ackTimer \in BOOLEAN, t.ctsTimer = ~ t.ackTimer, t.sendData = FALSE
    PROVE  Sane(t)
<1> HIDE DEF Fields
<1>1. Balanced(t)
  BY DEF Credited, Balanced, Awaits
<1>2. OneAttempt(t)
  BY DEF OneAttempt
<1> QED  BY <1>1, <1>2 DEF Sane, Credited

\* So does the RTS or the data that opens it.
LEMMA SendRtsSane ==
    ASSUME NEW n, NEW s, Credited(s) PROVE Sane(SendRtsForPacket(n, s))
<1> DEFINE t == [Assert(s, ~ s.ctsTimer) EXCEPT !.ctsTimer = TRUE]
<1>0. /\ DOMAIN t = Fields /\ t.ratio = s.ratio /\ t.hdr = s.hdr
      /\ t.ackTimer = FALSE /\ t.ctsTimer = TRUE /\ t.sendData = FALSE
  BY DEF Credited, Assert, Fields
<1>2. DOMAIN t = Fields
  BY <1>0
<1> HIDE DEF t
<1>1. Sane(t)
  BY <1>0, OpenSane
<1> DEFINE f == [type |-> "rts", to |-> s.hdr.to, from |-> n, frag |-> NoFragment]
<1>3. SendRtsForPacket(n, s) = ForwardDown(t, f)
  BY DEF SendRtsForPacket, t
<1> HIDE DEF f
<1>4. Same(t, ForwardDown(t, f))
  BY <1>2, ForwardDownSame
<1> QED  BY <1>1, <1>3, <1>4, SameSane

LEMMA SendDataSane ==
    ASSUME NEW n, NEW s, Credited(s) PROVE Sane(SendDataPacket(n, s))
<1> DEFINE t == StartDataTxTimers(s)
<1>1. Sane(t)
  <2>1. CASE s.params.ack
    <3> DEFINE u == [Assert(s, ~ s.ackTimer) EXCEPT !.ackTimer = TRUE]
    <3>1. /\ DOMAIN u = Fields /\ u.ratio = s.ratio /\ u.hdr = s.hdr
          /\ u.ackTimer = TRUE /\ u.ctsTimer = FALSE /\ u.sendData = FALSE
      BY DEF Credited, Assert, Fields
    <3> HIDE DEF u
    <3>2. Sane(u)
      BY <3>1, OpenSane
    <3> QED  BY <3>2, <2>1 DEF StartDataTxTimers, u
  <2>2. CASE ~ s.params.ack
    <3>1. Sane(s)
      <4>1. \A m \in Station : s.ratio[m].acks \in Nat /\ s.ratio[m].sends \in Nat
        BY DEF Credited, Ratios
      <4>2. Balanced(s)
        BY <4>1 DEF Credited, Balanced, Awaits
      <4> QED  BY <4>2 DEF Credited, Sane, OneAttempt
    <3> QED  BY <3>1, <2>2 DEF StartDataTxTimers
  <2> QED  BY <2>1, <2>2
<1>2. DOMAIN t = Fields
  BY <1>1 DEF Sane
<1> HIDE DEF t
<1>3. ASSUME NEW f PROVE Sane([ForwardDown(t, f) EXCEPT !.pkt = FALSE])
  <2>1. Sane(ForwardDown(t, f))
    BY <1>1, <1>2, ForwardDownSame, SameSane
  <2> DEFINE u == ForwardDown(t, f)
  <2>2. Same(u, [u EXCEPT !.pkt = FALSE])
    BY <2>1 DEF Sane, Same, Fields
  <2> QED  BY <2>1, <2>2, SameSane
<1> QED  BY <1>3 DEF SendDataPacket, t

\* Whatever was under way at the station before.
LEMMA StartTransmissionSane ==
    ASSUME NEW n, NEW s, Sane(s), NEW hdr, NEW params
    PROVE  Sane(StartTransmission(n, s, hdr, params))
<1> DEFINE loaded == [s EXCEPT !.pkt = TRUE, !.hdr = hdr]
           cancelled == CancelAllEvents(loaded)
           taken == [cancelled EXCEPT !.listener = TRUE, !.params = params]
<1>1. /\ DOMAIN taken = Fields /\ taken.ratio = s.ratio
      /\ ~ taken.ackTimer /\ ~ taken.ctsTimer /\ ~ taken.sendData
      /\ taken.ackTimer \in BOOLEAN /\ taken.ctsTimer \in BOOLEAN /\ taken.sendData \in BOOLEAN
  BY DEF Sane, CancelAllEvents, Fields
<1> HIDE DEF taken
<1>2. Sane(taken) /\ ~ Awaits(taken)
  BY <1>1 DEF Sane, OneAttempt, Balanced, Awaits, Ratios
<1>3. Credited(CountSend(taken))
  BY <1>2, CountSendCredits
<1> QED  BY <1>3, SendRtsSane, SendDataSane DEF StartTransmission, taken

-----------------------------------------------------------------------------
(* What the DcaTxop does.                                                    *)

LEMMA AccessSame ==
    ASSUME NEW s, DOMAIN s = Fields
    PROVE  Same(s, RestartAccessIfNeeded(s)) /\ Same(s, StartAccessIfNeeded(s))
BY DEF Same, RestartAccessIfNeeded, StartAccessIfNeeded, Fields

LEMMA QueueSame == ASSUME NEW s, DOMAIN s = Fields, NEW p PROVE Same(s, Queue(s, p))
<1> DEFINE t == [s EXCEPT !.queue = Append(@, p)]
<1>1. Same(s, t)
  BY DEF Same, Fields
<1>2. Same(t, StartAccessIfNeeded(t))
  BY <1>1, AccessSame DEF Same
<1> QED  BY <1>1, <1>2, SameTrans DEF Queue

LEMMA GiveUpSame == ASSUME NEW s, DOMAIN s = Fields PROVE Same(s, GiveUp(s))
BY DEF Same, GiveUp, Fields

LEMMA MissedCtsSame == ASSUME NEW s, DOMAIN s = Fields PROVE Same(s, MissedCts(s))
<1> DEFINE reset == [s EXCEPT !.ssrc[s.cur.to] = 0]
           t == IF NeedRtsRetransmission(s) THEN s ELSE GiveUp(reset)
<1>1. Same(s, s) /\ Same(s, reset)
  BY DEF Same, Fields
<1>2. Same(reset, GiveUp(reset))
  BY <1>1, GiveUpSame DEF Same
<1>3. Same(s, t)
  BY <1>1, <1>2, SameTrans
<1>4. Same(t, RestartAccessIfNeeded(t))
  BY <1>3, AccessSame DEF Same
<1> QED  BY <1>3, <1>4, SameTrans DEF MissedCts

LEMMA MissedAckSame == ASSUME NEW s, DOMAIN s = Fields PROVE Same(s, MissedAck(s))
<1> DEFINE reset == [s EXCEPT !.slrc[s.cur.to] = 0]
           again == [s EXCEPT !.retry = TRUE]
           t == IF NeedDataRetransmission(s) THEN again ELSE GiveUp(reset)
<1>1. Same(s, again) /\ Same(s, reset)
  BY DEF Same, Fields
<1>2. Same(reset, GiveUp(reset))
  BY <1>1, GiveUpSame DEF Same
<1>3. Same(s, t)
  BY <1>1, <1>2, SameTrans
<1>4. Same(t, RestartAccessIfNeeded(t))
  BY <1>3, AccessSame DEF Same
<1> QED  BY <1>3, <1>4, SameTrans DEF MissedAck

LEMMA GotAckSame == ASSUME NEW s, DOMAIN s = Fields PROVE Same(s, GotAck(s))
<1> DEFINE done == [s EXCEPT !.ok = @ \cup {s.cur.pid}, !.cur = None]
<1>1. Same(s, s) /\ Same(s, done)
  BY DEF Same, Fields
<1>2. Same(done, RestartAccessIfNeeded(done))
  BY <1>1, AccessSame DEF Same
<1> QED  BY <1>1, <1>2, SameTrans DEF GotAck

LEMMA EndTxNoAckSame == ASSUME NEW s, DOMAIN s = Fields PROVE Same(s, EndTxNoAck(s))
<1> DEFINE done == [s EXCEPT !.cur = None]
<1>1. Same(s, done)
  BY DEF Same, Fields
<1>2. Same(done, StartAccessIfNeeded(done))
  BY <1>1, AccessSame DEF Same
<1> QED  BY <1>1, <1>2, SameTrans DEF EndTxNoAck

LEMMA GrantSane ==
    ASSUME NEW n, NEW s, Sane(s) PROVE Sane(NotifyAccessGranted(n, s))
<1> DEFINE granted == [s EXCEPT !.req = FALSE]
           loaded == Dequeue(granted)
<1>1. Same(s, granted)
  BY DEF Same, Sane, Fields
<1>2. Sane(granted)
  BY <1>1, SameSane
<1> HIDE DEF granted
<1>3. Same(granted, loaded)
  BY <1>2 DEF Same, Sane, Dequeue, Fields
<1>4. Sane(loaded)
  BY <1>2, <1>3, SameSane
<1> HIDE DEF loaded
<1>5. \A hdr, params : Sane(StartTransmission(n, loaded, hdr, params))
  BY <1>4, StartTransmissionSane
<1> QED  BY <1>2, <1>5 DEF NotifyAccessGranted, granted, loaded

LEMMA StartNextSane == ASSUME NEW n, NEW s, Sane(s) PROVE Sane(StartNext(n, s))
<1> DEFINE next == [s EXCEPT !.fragNr = @ + 1]
<1>1. Same(s, next)
  BY DEF Same, Sane, Fields
<1>2. Sane(next)
  BY <1>1, SameSane
<1> HIDE DEF next
<1>3. \A hdr, params : Sane(StartTransmission(n, next, hdr, params))
  BY <1>2, StartTransmissionSane
<1> QED  BY <1>3 DEF StartNext, next

-----------------------------------------------------------------------------
(* What MacLow does when a frame arrives.                                    *)

LEMMA NotifyNavSame ==
    ASSUME NEW n, NEW s, DOMAIN s = Fields, NEW f PROVE Same(s, NotifyNav(n, s, f))
BY DEF Same, NotifyNav, Fields

LEMMA ReceiveRtsSane ==
    ASSUME NEW n, NEW s, Sane(s), NEW f PROVE Sane(ReceiveRts(n, s, f))
<1> DEFINE t == Assert(s, s.sendCts = None)
           u == [t EXCEPT !.sendCts = f.from]
<1>1. Same(s, t)
  BY AssertSame DEF Sane
<1> HIDE DEF t
<1>2. Same(t, u)
  BY <1>1 DEF Same, Sane, Fields
<1>3. Sane(u) /\ Sane(NotifyNav(n, s, f))
  BY <1>1, <1>2, SameSane, SameTrans, NotifyNavSame DEF Sane
<1> QED  BY <1>3 DEF ReceiveRts, t

\* The attempt that awaited the CTS awaits the data instead.
LEMMA ReceiveCtsSane ==
    ASSUME NEW n, NEW s, Sane(s), NEW f PROVE Sane(ReceiveCts(n, s, f))
<1>1. CASE f.to = n /\ s.ctsTimer /\ s.pkt
  <2> DEFINE t == Assert(s, s.listener /\ ~ s.sendData)
             u == [t EXCEPT !.ctsTimer = FALSE, !.sendData = TRUE, !.ssrc[s.hdr.to] = 0]
  <2>1. Same(s, t)
    BY AssertSame DEF Sane
  <2> HIDE DEF t
  <2>2. /\ DOMAIN u = Fields /\ u.ratio = s.ratio /\ u.hdr = s.hdr
        /\ u.ackTimer = s.ackTimer /\ u.ctsTimer = FALSE /\ u.sendData = TRUE
    BY <2>1 DEF Same, Sane, Fields
  <2> HIDE DEF u
  <2>3. Sane(u)
    BY <2>2, <1>1 DEF Sane, OneAttempt, Balanced, Awaits
  <2> QED  BY <2>3, <1>1 DEF ReceiveCts, t, u
<1>2. CASE ~ (f.to = n /\ s.ctsTimer /\ s.pkt)
  BY <1>2, NotifyNavSame, SameSane DEF ReceiveCts, Sane
<1> QED  BY <1>1, <1>2

\* The ack uses the credit of the attempt and closes it.
LEMMA CountAckSane ==
    ASSUME NEW s, Sane(s), s.ackTimer, NEW t,
           t = [CountAck(s) EXCEPT !.ackTimer = FALSE, !.slrc[s.hdr.to] = 0]
    PROVE  Sane(t)
<1> DEFINE ratio == AddAckFrom(s.ratio, s.hdr.to)
           counted == [s EXCEPT !.ratio = ratio]
<1>1. s.ratio \in Ratios
  BY DEF Sane
<1>2. ratio \in Ratios
  <2>1. CASE s.hdr.to \in Station
    <3>1. s.ratio[s.hdr.to] \in [sends : Nat, acks : Nat]
      BY <1>1, <2>1 DEF Ratios
    <3>2. AddAck(s.ratio[s.hdr.to]) \in [sends : Nat, acks : Nat]
      BY <3>1 DEF AddAck
    <3> QED  BY <1>1, <3>2 DEF Ratios, AddAckFrom
  <2>2. CASE s.hdr.to \notin Station
    BY <1>1, <2>2 DEF Ratios, AddAckFrom
  <2> QED  BY <2>1, <2>2
<1>3. \A m \in Station : /\ ratio[m].sends = s.ratio[m].sends
                          /\ ratio[m].acks = s.ratio[m].acks + (IF s.hdr.to = m THEN 1 ELSE 0)
  BY <1>1 DEF Ratios, AddAckFrom, AddAck
<1>4. \A m \in Station : ratio[m].acks <= ratio[m].sends
  BY <1>3 DEF Sane, Balanced, Awaits
<1>5. \A m \in Station : ratio[m].acks \in Nat /\ ratio[m].sends \in Nat
  BY <1>2 DEF Ratios
<1> HIDE DEF ratio
<1>6. /\ DOMAIN counted = Fields /\ counted.ratio = ratio
      /\ counted.ctsTimer = s.ctsTimer /\ counted.sendData = s.sendData
  BY DEF Sane, Fields
<1>7. Same(counted, Assert(counted, Sound(ratio[s.hdr.to])))
  BY <1>6, AssertSame
<1> HIDE DEF counted
<1>8. CountAck(s) = Assert(counted, Sound(ratio[s.hdr.to]))
  BY DEF CountAck, counted, ratio
<1>9. /\ DOMAIN t = Fields /\ t.ratio = ratio
      /\ t.ackTimer = FALSE /\ t.ctsTimer = FALSE /\ t.sendData = FALSE
  BY <1>6, <1>7, <1>8 DEF Same, Sane, Fields, OneAttempt
<1> HIDE DEF Fields
<1>10. ~ Awaits(t)
  BY <1>9 DEF Awaits
<1>11. Balanced(t)
  BY <1>4, <1>5, <1>9, <1>10 DEF Balanced
<1>12. OneAttempt(t)
  BY <1>9 DEF OneAttempt
<1>13. DOMAIN t = Fields /\ t.ratio \in Ratios
  BY <1>2, <1>9
<1> QED  BY <1>11, <1>12, <1>13 DEF Sane

LEMMA ReceiveAckSane ==
    ASSUME NEW n, NEW s, Sane(s), NEW f PROVE Sane(ReceiveAck(n, s, f))
<1>1. CASE f.to = n /\ s.ackTimer /\ s.params.ack
  <2> DEFINE acked == [CountAck(s) EXCEPT !.ackTimer = FALSE, !.slrc[s.hdr.to] = 0]
             called == Call(acked, GotAck(acked))
             u == [called EXCEPT !.waitSifs = @ \/ s.params.next]
  <2>1. Sane(acked)
    BY <1>1, CountAckSane
  <2> HIDE DEF acked
  <2>2. Same(acked, called)
    BY <2>1, GotAckSame, AssertSame DEF Call, Sane
  <2>3. Sane(called)
    BY <2>1, <2>2, SameSane
  <2> HIDE DEF called
  <2>4. Same(called, u)
    BY <2>3 DEF Same, Sane, Fields
  <2>5. Sane(u)
    BY <2>3, <2>4, SameSane
  <2> QED  BY <2>5, <1>1 DEF ReceiveAck, acked, called
<1>2. CASE ~ (f.to = n /\ s.ackTimer /\ s.params.ack)
  BY <1>2, NotifyNavSame, SameSane DEF ReceiveAck, Sane
<1> QED  BY <1>1, <1>2

LEMMA ReceiveDataSane ==
    ASSUME NEW n, NEW s, Sane(s), NEW f PROVE Sane(ReceiveData(n, s, f))
<1> DEFINE t == Assert(s, s.sendAck = None)
           u == [t EXCEPT !.sendAck = f.from, !.got = @ \cup {<<f.frag.pid, f.frag.nr>>}]
           v == [s EXCEPT !.got = @ \cup {<<f.frag.pid, f.frag.nr>>}]
<1>1. Same(s, t)
  BY AssertSame DEF Sane
<1> HIDE DEF t
<1>2. Same(t, u) /\ Same(s, v)
  BY <1>1 DEF Same, Sane, Fields
<1>3. Sane(u) /\ Sane(v) /\ Sane(NotifyNav(n, s, f))
  BY <1>1, <1>2, SameSane, SameTrans, NotifyNavSame DEF Sane
<1> QED  BY <1>3 DEF ReceiveData, ReceiveUnicast, t

LEMMA ReceiveOkSane ==
    ASSUME NEW n, NEW s, Sane(s), NEW f PROVE Sane(ReceiveOk(n, s, f))
BY ReceiveRtsSane, ReceiveCtsSane, ReceiveAckSane, ReceiveDataSane DEF ReceiveOk

-----------------------------------------------------------------------------
(* What MacLow does when an event expires.                                   *)

\* The answers leave the attempt alone.
LEMMA AnswersSane ==
    ASSUME NEW n, NEW s, Sane(s)
    PROVE  Sane(SendCtsAfterRts(n, s)) /\ Sane(SendAckAfterData(n, s))
<1> DEFINE c == [s EXCEPT !.sendCts = None]
           d == [s EXCEPT !.sendAck = None]
<1>1. Same(s, c) /\ Same(s, d)
  BY DEF Same, Sane, Fields
<1>2. Sane(c) /\ Sane(d)
  BY <1>1, SameSane
<1> HIDE DEF c, d
<1>3. \A f : Sane(ForwardDown(c, f)) /\ Sane(ForwardDown(d, f))
  BY <1>2, ForwardDownSame, SameSane DEF Sane
<1> QED  BY <1>3 DEF SendCtsAfterRts, SendAckAfterData, c, d

\* The attempt that awaited the data is credited, and the data uses it.
LEMMA SendDataAfterCtsSane ==
    ASSUME NEW n, NEW s, Sane(s), s.sendData PROVE Sane(SendDataAfterCts(n, s))
<1> DEFINE t == [s EXCEPT !.sendData = FALSE]
           u == Assert(t, s.pkt)
<1>1. /\ DOMAIN t = Fields /\ t.ratio = s.ratio /\ t.hdr = s.hdr
      /\ t.ackTimer = FALSE /\ t.ctsTimer = FALSE /\ t.sendData = FALSE
  BY DEF Sane, Fields, OneAttempt
<1> HIDE DEF t
<1>2. Credited(t)
  BY <1>1 DEF Credited, Sane, Balanced, Awaits
<1>3. Same(t, u)
  BY <1>1, AssertSame
<1> HIDE DEF u
<1>4. Credited(u)
  BY <1>2, <1>3 DEF Credited, Same
<1> QED  BY <1>4, SendDataSane DEF SendDataAfterCts, t, u

LEMMA CtsTimeoutSane == ASSUME NEW s, Sane(s) PROVE Sane(CtsTimeout(s))
<1> DEFINE t == [s EXCEPT !.ctsTimer = FALSE, !.ssrc[s.hdr.to] = @ + 1, !.pkt = FALSE]
           u == [t EXCEPT !.listener = FALSE]
<1>1. Ends(s, t)
  BY DEF Ends, Sane, Fields, OneAttempt
<1>2. Sane(t)
  BY <1>1, EndsSane
<1> HIDE DEF t
<1>3. Same(t, u)
  BY <1>2 DEF Same, Sane, Fields
<1>4. Sane(u)
  BY <1>2, <1>3, SameSane
<1> HIDE DEF u
<1>5. Sane(MissedCts(u)) /\ \A b : Sane(Assert(t, b))
  BY <1>2, <1>4, MissedCtsSame, AssertSame, SameSane DEF Sane
<1> QED  BY <1>5 DEF CtsTimeout, Call, Released, t, u

LEMMA AckTimeoutSane == ASSUME NEW s, Sane(s) PROVE Sane(NormalAckTimeout(s))
<1> DEFINE t == [s EXCEPT !.ackTimer = FALSE, !.slrc[s.hdr.to] = @ + 1]
           u == [t EXCEPT !.listener = FALSE]
<1>1. Ends(s, t)
  BY DEF Ends, Sane, Fields, OneAttempt
<1>2. Sane(t)
  BY <1>1, EndsSane
<1> HIDE DEF t
<1>3. Same(t, u)
  BY <1>2 DEF Same, Sane, Fields
<1>4. Sane(u)
  BY <1>2, <1>3, SameSane
<1> HIDE DEF u
<1>5. Sane(MissedAck(u)) /\ \A b : Sane(Assert(t, b))
  BY <1>2, <1>4, MissedAckSame, AssertSame, SameSane DEF Sane
<1> QED  BY <1>5 DEF NormalAckTimeout, Call, Released, t, u

LEMMA WaitSifsSane ==
    ASSUME NEW n, NEW s, Sane(s) PROVE Sane(WaitSifsAfterEndTx(n, s))
<1> DEFINE t == [s EXCEPT !.waitSifs = FALSE]
<1>1. Same(s, t)
  BY DEF Same, Sane, Fields
<1>2. Sane(t)
  BY <1>1, SameSane
<1> HIDE DEF t
<1>3. Sane(StartNext(n, t)) /\ \A b : Sane(Assert(t, b))
  BY <1>2, StartNextSane, AssertSame, SameSane DEF Sane
<1> QED  BY <1>3 DEF WaitSifsAfterEndTx, Call, t

LEMMA TransmissionEndsSane == ASSUME NEW s, Sane(s) PROVE Sane(TransmissionEnds(s))
<1> DEFINE t == [s EXCEPT !.tx = Silence]
           u == [t EXCEPT !.listener = FALSE]
<1>1. Same(s, t)
  BY DEF Same, Sane, Fields
<1>2. Sane(t)
  BY <1>1, SameSane
<1> HIDE DEF t
<1>3. Same(t, u)
  BY <1>2 DEF Same, Sane, Fields
<1>4. Sane(u)
  BY <1>2, <1>3, SameSane
<1> HIDE DEF u
<1>5. Sane(EndTxNoAck(u)) /\ \A b : Sane(Assert(t, b))
  BY <1>2, <1>4, EndTxNoAckSame, AssertSame, SameSane DEF Sane
<1> QED  BY <1>2, <1>5 DEF TransmissionEnds, Call, Released, t, u

LEMMA SwitchSane == ASSUME NEW s, Sane(s) PROVE Sane(NotifySwitchingStartNow(s))
<1> DEFINE t == NotifyChannelSwitching(s)
           u == CancelAllEvents(t)
           v == [u EXCEPT !.ssrc = [m \in Station |-> 0], !.slrc = [m \in Station |-> 0],
                          !.nav = FALSE, !.pkt = FALSE, !.listener = FALSE]
<1>1. Same(s, t)
  BY DEF Same, Sane, Fields, NotifyChannelSwitching
<1>2. Sane(t)
  BY <1>1, SameSane
<1> HIDE DEF t
<1>3. Sane(u)
  BY <1>2, CancelEnds, EndsSane
<1> HIDE DEF u
<1>4. Same(u, v)
  BY <1>3 DEF Same, Sane, Fields
<1>5. Sane(v)
  BY <1>3, <1>4, SameSane
<1> QED  BY <1>5 DEF NotifySwitchingStartNow, t, u

-----------------------------------------------------------------------------
(* The network.                                                              *)

AllSane == DOMAIN st = Station /\ \A n \in Station : Sane(st[n])

LEMMA InitSane == Init => AllSane
BY NewStationSane DEF Init, AllSane

\* A step that gives one station a sane state.
LEMMA UpdateSane ==
    ASSUME AllSane, NEW n \in Station, NEW s, Sane(s), st' = [st EXCEPT ![n] = s]
    PROVE  AllSane'
BY DEF AllSane

LEMMA InternalSane ==
    ASSUME AllSane, NEW n \in Station, Internal(n) PROVE AllSane'
<1>0. Sane(st[n])
  BY DEF AllSane
<1>1. CASE Grant(n)
  BY <1>0, <1>1, GrantSane, UpdateSane DEF Grant, Update
<1>2. CASE TxEnd(n)
  <2>1. PICK R \in SUBSET hear[n] :
          st' = [m \in Station |->
                    IF m = n THEN TransmissionEnds(st[n])
                    ELSE IF m \in R THEN ReceiveOk(m, st[m], st[n].tx)
                    ELSE st[m]]
    BY <1>2 DEF TxEnd
  <2>2. \A m \in Station : Sane(ReceiveOk(m, st[m], st[n].tx))
    BY ReceiveOkSane DEF AllSane
  <2>3. Sane(TransmissionEnds(st[n]))
    BY <1>0, TransmissionEndsSane
  <2> QED  BY <2>1, <2>2, <2>3 DEF AllSane
<1>3. CASE SendCts(n)
  BY <1>0, <1>3, AnswersSane, UpdateSane DEF SendCts, Event, Update
<1>4. CASE SendAck(n)
  BY <1>0, <1>4, AnswersSane, UpdateSane DEF SendAck, Event, Update
<1>5. CASE SendData(n)
  BY <1>0, <1>5, SendDataAfterCtsSane, UpdateSane DEF SendData, Event, Update
<1>6. CASE NextFragment(n)
  BY <1>0, <1>6, WaitSifsSane, UpdateSane DEF NextFragment, Event, Update
<1>7. CASE MissCts(n)
  BY <1>0, <1>7, CtsTimeoutSane, UpdateSane DEF MissCts, Event, Update
<1>8. CASE MissAck(n)
  BY <1>0, <1>8, AckTimeoutSane, UpdateSane DEF MissAck, Event, Update
<1>9. CASE NavEnd(n)
  <2>1. Same(st[n], [st[n] EXCEPT !.nav = FALSE])
    BY <1>0 DEF Same, Sane, Fields
  <2> QED  BY <1>0, <1>9, <2>1, SameSane, UpdateSane DEF NavEnd, Event, Update
<1> QED  BY <1>1, <1>2, <1>3, <1>4, <1>5, <1>6, <1>7, <1>8, <1>9 DEF Internal

LEMMA NextSane == AllSane /\ [Next]_vars => AllSane'
<1> SUFFICES ASSUME AllSane, [Next]_vars PROVE AllSane'
  OBVIOUS
<1>1. ASSUME NEW n \in Station, Internal(n) PROVE AllSane'
  BY <1>1, InternalSane
<1>2. ASSUME NEW n \in Station, SwitchChannel(n) PROVE AllSane'
  BY <1>2, SwitchSane, UpdateSane DEF SwitchChannel, AllSane
<1>3. ASSUME NEW t \in Traffic, Offer(t) PROVE AllSane'
  <2>1. t.node \in Station
    BY TrafficAssumption
  <2>2. Sane(Queue(st[t.node], t.packet))
    BY <2>1, QueueSame, SameSane DEF AllSane, Sane
  <2> QED  BY <1>3, <2>1, <2>2, UpdateSane DEF Offer, Update
<1>4. CASE UNCHANGED vars
  BY <1>4 DEF vars, AllSane
<1> QED  BY <1>1, <1>2, <1>3, <1>4 DEF Next

\* The attempts that are open are paid for, in every reachable state.
THEOREM AttemptsPaid == Spec => []AllSane
BY InitSane, NextSane, PTL DEF Spec

\* The ratio of no neighbor gets above one, so neither of the assertions of
\* DestTxRatio fails (txratio.cc:52 and 60).
THEOREM RatioBounded == Spec => []RatioNeverAboveOne
<1>1. AllSane => RatioNeverAboveOne
  <2> SUFFICES ASSUME AllSane, NEW n \in Station, NEW m \in Station
               PROVE  st[n].ratio[m].acks <= st[n].ratio[m].sends
    BY DEF RatioNeverAboveOne
  <2>1. st[n].ratio[m].acks \in Nat /\ st[n].ratio[m].sends \in Nat
    BY DEF AllSane, Sane, Ratios
  <2> QED  BY <2>1 DEF AllSane, Sane, Balanced
<1> QED  BY <1>1, AttemptsPaid, PTL

-----------------------------------------------------------------------------
(* A station between two events, and what each handler makes of it.          *)

\* What can be handed to Queue.
Packets == {t.packet : t \in Traffic}

\* An exchange is under way: a frame awaits its answer or the next one is due.
Open(s) == Awaits(s) \/ s.waitSifs

\* Retry counts by destination.
Count == [Station -> Nat]

\* The types of the fields that matter; no assertion failed.
Types(n, s) ==
    /\ Sane(s)
    /\ ~ s.abort
    /\ s.queue \in Seq(Packets)
    /\ s.cur \in Packets \cup {None}
    /\ s.fragNr \in Nat
    /\ s.ssrc \in Count /\ \A m \in Station : s.ssrc[m] < MaxSsrc
    /\ s.slrc \in Count /\ \A m \in Station : s.slrc[m] < MaxSlrc
    /\ s.sendCts \in Station \cup {None}
    /\ s.sendAck \in Station \cup {None}

\* A packet is at one place only.
OnePlace(s) ==
    /\ \A i, j \in 1..Len(s.queue) : s.queue[i] = s.queue[j] => i = j
    /\ \A i \in 1..Len(s.queue) : s.queue[i] # s.cur

\* The exchange is about the fragment the DcaTxop has, which it listens for.
Exchange(s) ==
    /\ s.cur # None => s.fragNr < s.cur.frags
    /\ Open(s) => s.cur # None /\ s.cur.to \in Station /\ s.listener
    /\ Awaits(s) => s.hdr = Fragment(s) /\ s.params.ack /\ (s.params.next <=> ~ IsLastFragment(s))
    /\ s.ctsTimer \/ s.sendData => s.pkt
    /\ s.waitSifs => ~ Awaits(s) /\ ~ IsLastFragment(s)

\* At most one thing is due, and then nothing is sent.
OneDue(s) ==
    /\ s.sendCts # None => s.sendAck = None
    /\ s.sendCts # None \/ s.sendAck # None => ~ s.sendData /\ ~ s.waitSifs
    /\ s.sendCts # None \/ s.sendAck # None \/ s.sendData \/ s.waitSifs => s.tx = Silence

\* The frame on the air.
Frame(n, s) ==
    \/ s.tx = Silence
    \/ /\ s.tx.from = n
       /\ \/ /\ s.tx.type = "rts" /\ s.ctsTimer
          \/ /\ s.tx.type \in {"cts", "ack"} /\ s.tx.to \in Station
          \/ /\ s.tx.type = "data" /\ s.ackTimer /\ s.tx.to = s.hdr.to /\ s.tx.frag = s.hdr
          \/ /\ s.tx.type = "data" /\ s.tx.to = Group /\ s.tx.frag = Fragment(s) /\ s.fragNr = 0
             /\ s.cur # None /\ s.cur.to = Group /\ s.listener
             /\ ~ s.params.ack /\ ~ Open(s)

\* The invariant of one station.
Local(n, s) ==
    /\ Types(n, s) /\ OnePlace(s) /\ Exchange(s) /\ OneDue(s) /\ Frame(n, s)
    /\ s.cur # None /\ s.cur.to = Group => s.tx.type = "data" /\ s.tx.to = Group

-----------------------------------------------------------------------------

\* t is a station that differs from s in the fields F only.
Keeps(s, t, F) == DOMAIN t = Fields /\ \A f \in Fields \ F : t[f] = s[f]

\* The fields that StartTransmission sets.
SendFields == {"abort", "pkt", "hdr", "params", "listener", "ackTimer", "ctsTimer",
               "sendData", "waitSifs", "sendCts", "sendAck", "ratio", "tx"}

\* An assertion that holds changes nothing.
LEMMA AssertKeeps ==
    ASSUME NEW s, DOMAIN s = Fields, NEW b, b
    PROVE  Keeps(s, Assert(s, b), {"abort"}) /\ (~ s.abort => ~ Assert(s, b).abort)
BY DEF Keeps, Assert, Fields

\* Everything that is scheduled is cancelled.
LEMMA CancelEffect ==
    ASSUME NEW s, DOMAIN s = Fields
    PROVE  LET t == CancelAllEvents(s)
           IN  /\ Keeps(s, t, {"ackTimer", "ctsTimer", "sendData", "waitSifs", "sendCts", "sendAck", "listener"})
               /\ ~ t.ackTimer /\ ~ t.ctsTimer /\ ~ t.sendData
               /\ ~ t.waitSifs /\ t.sendCts = None /\ t.sendAck = None
BY DEF Keeps, CancelAllEvents, Fields

\* The RTS goes out and its timer starts.
LEMMA SendRtsEffect ==
    ASSUME NEW n, NEW s, DOMAIN s = Fields, ~ s.abort, s.tx = Silence, ~ s.ctsTimer,
           NEW t, t = SendRtsForPacket(n, s)
    PROVE  /\ Keeps(s, t, {"abort", "ctsTimer", "tx"}) /\ ~ t.abort /\ t.ctsTimer
           /\ t.tx = [type |-> "rts", to |-> s.hdr.to, from |-> n, frag |-> NoFragment]
BY DEF Keeps, SendRtsForPacket, ForwardDown, Assert, Fields

\* The data goes out and, if an ack is awaited, its timer starts.
LEMMA SendDataEffect ==
    ASSUME NEW n, NEW s, DOMAIN s = Fields, ~ s.abort, s.tx = Silence, ~ s.ackTimer,
           NEW t, t = SendDataPacket(n, s)
    PROVE  /\ Keeps(s, t, {"abort", "ackTimer", "tx", "pkt"}) /\ ~ t.abort
           /\ (t.ackTimer <=> s.params.ack) /\ ~ t.pkt
           /\ t.tx = [type |-> "data", to |-> s.hdr.to, from |-> n, frag |-> s.hdr]
BY DEF Keeps, SendDataPacket, StartDataTxTimers, ForwardDown, Assert, Fields

\* The counters when a frame to the destination begins.
Counted(ratio, to) == IF to = Group THEN ratio ELSE AddSendTo(ratio, to)

\* Whatever was under way, the frame goes out, and is counted.
LEMMA StartTransmissionEffect ==
    ASSUME NEW n, NEW s, Sane(s), ~ s.abort, s.tx = Silence,
           NEW hdr, hdr.to \in Station \cup {Group},
           NEW params, params.ack \in BOOLEAN,
           NEW t, t = StartTransmission(n, s, hdr, params)
    PROVE  /\ Keeps(s, t, SendFields)
           /\ ~ t.abort /\ t.hdr = hdr /\ t.params = params
           /\ t.listener /\ (t.pkt <=> params.rts)
           /\ (t.ackTimer <=> params.ack /\ ~ params.rts) /\ (t.ctsTimer <=> params.rts)
           /\ ~ t.sendData /\ ~ t.waitSifs /\ t.sendCts = None /\ t.sendAck = None
           /\ t.ratio = Counted(s.ratio, hdr.to)
           /\ t.tx = IF params.rts
                     THEN [type |-> "rts", to |-> hdr.to, from |-> n, frag |-> NoFragment]
                     ELSE [type |-> "data", to |-> hdr.to, from |-> n, frag |-> hdr]
<1> DEFINE loaded == [s EXCEPT !.pkt = TRUE, !.hdr = hdr]
           cleared == CancelAllEvents(loaded)
           taken == [cleared EXCEPT !.listener = TRUE, !.params = params]
           counted == CountSend(taken)
<1>0. taken.ackTimer \in BOOLEAN /\ taken.ctsTimer \in BOOLEAN /\ taken.sendData \in BOOLEAN
  BY DEF Sane, CancelAllEvents, Fields
<1>1. DOMAIN loaded = Fields /\ Keeps(s, loaded, {"pkt", "hdr"}) /\ loaded.pkt /\ loaded.hdr = hdr
  BY DEF Keeps, Sane, Fields
<1> HIDE DEF loaded
<1>2. /\ Keeps(loaded, cleared, {"ackTimer", "ctsTimer", "sendData", "waitSifs", "sendCts", "sendAck", "listener"})
      /\ ~ cleared.ackTimer /\ ~ cleared.ctsTimer /\ ~ cleared.sendData
      /\ ~ cleared.waitSifs /\ cleared.sendCts = None /\ cleared.sendAck = None
  BY <1>1, CancelEffect
<1> HIDE DEF cleared
<1>3. /\ Keeps(s, taken, {"pkt", "hdr", "params", "listener", "ackTimer", "ctsTimer",
                          "sendData", "waitSifs", "sendCts", "sendAck"})
      /\ ~ taken.ackTimer /\ ~ taken.ctsTimer /\ ~ taken.sendData
      /\ ~ taken.waitSifs /\ taken.sendCts = None /\ taken.sendAck = None
      /\ taken.pkt /\ taken.hdr = hdr /\ taken.listener /\ taken.params = params
  BY <1>1, <1>2 DEF Keeps, Fields
<1> HIDE DEF taken
<1>4. /\ DOMAIN taken = Fields /\ taken.ratio = s.ratio /\ ~ taken.abort /\ taken.tx = Silence
      /\ ~ taken.ackTimer /\ ~ taken.ctsTimer /\ ~ taken.sendData
  BY <1>3 DEF Keeps, Fields
<1>5. Credited(counted)
  <2>1. OneAttempt(taken) /\ ~ Awaits(taken)
    BY <1>0, <1>3 DEF OneAttempt, Awaits
  <2>2. Balanced(taken)
    BY <1>4, <2>1 DEF Sane, Balanced, Ratios
  <2>3. Sane(taken) /\ ~ Awaits(taken)
    BY <1>4, <2>1, <2>2 DEF Sane
  <2> QED  BY <2>3, CountSendCredits
<1>6. /\ Keeps(taken, counted, {"abort", "ratio"})
      /\ ~ counted.abort
      /\ counted.ratio = Counted(s.ratio, hdr.to)
  <2>1. CASE hdr.to = Group
    BY <2>1, <1>3, <1>4 DEF CountSend, Keeps, Counted
  <2>2. CASE hdr.to # Group
    <3> DEFINE ratio == AddSendTo(taken.ratio, hdr.to)
               u == [taken EXCEPT !.ratio = ratio]
    <3>1. Sound(ratio[hdr.to])
      <4>1. s.ratio \in Ratios /\ \A m \in Station : s.ratio[m].acks <= s.ratio[m].sends
        BY DEF Sane, Balanced, Awaits, Ratios
      <4>2. hdr.to \in Station
        BY <2>2
      <4> QED  BY <1>4, <4>1, <4>2 DEF AddSendTo, AddSend, Sound, Ratios
    <3> HIDE DEF ratio
    <3>2. Keeps(taken, u, {"ratio"}) /\ DOMAIN u = Fields /\ u.ratio = ratio /\ ~ u.abort
      BY <1>4 DEF Keeps, Fields
    <3> HIDE DEF u
    <3>3. CountSend(taken) = Assert(u, Sound(ratio[hdr.to]))
      BY <2>2, <1>3 DEF CountSend, u, ratio
    <3>4. Keeps(u, Assert(u, Sound(ratio[hdr.to])), {"abort"}) /\ ~ Assert(u, Sound(ratio[hdr.to])).abort
      BY <3>1, <3>2, AssertKeeps
    <3> QED  BY <1>4, <2>2, <3>2, <3>3, <3>4 DEF Keeps, Fields, ratio, Counted
  <2> QED  BY <2>1, <2>2
<1> HIDE DEF counted
<1>7. counted.hdr = hdr /\ counted.params = params /\ counted.tx = Silence /\ DOMAIN counted = Fields
      /\ ~ counted.ackTimer /\ ~ counted.ctsTimer
  BY <1>3, <1>4, <1>6 DEF Keeps, Fields
<1>8. CASE params.rts
  <2>1. t = SendRtsForPacket(n, counted)
    BY <1>8 DEF StartTransmission, counted, taken, cleared, loaded
  <2>2. /\ Keeps(counted, t, {"abort", "ctsTimer", "tx"}) /\ ~ t.abort /\ t.ctsTimer
        /\ t.tx = [type |-> "rts", to |-> hdr.to, from |-> n, frag |-> NoFragment]
    BY <1>6, <1>7, <2>1, SendRtsEffect
  <2>3. Keeps(s, t, SendFields)
    BY <1>3, <1>6, <2>2 DEF Keeps, SendFields
  <2>4. /\ t.pkt /\ t.hdr = hdr /\ t.params = params /\ t.listener
        /\ ~ t.ackTimer /\ ~ t.sendData /\ ~ t.waitSifs
        /\ t.sendCts = None /\ t.sendAck = None /\ t.ratio = counted.ratio
    BY <1>3, <1>6, <2>2 DEF Keeps, Fields
  <2> QED  BY <1>6, <1>8, <2>2, <2>3, <2>4
<1>9. CASE ~ params.rts
  <2>1. t = SendDataPacket(n, counted)
    BY <1>9 DEF StartTransmission, counted, taken, cleared, loaded
  <2>2. /\ Keeps(counted, t, {"abort", "ackTimer", "tx", "pkt"}) /\ ~ t.abort
        /\ (t.ackTimer <=> params.ack) /\ ~ t.pkt
        /\ t.tx = [type |-> "data", to |-> hdr.to, from |-> n, frag |-> hdr]
    BY <1>6, <1>7, <2>1, SendDataEffect
  <2>3. Keeps(s, t, SendFields)
    BY <1>3, <1>6, <2>2 DEF Keeps, SendFields
  <2>4. /\ t.hdr = hdr /\ t.params = params /\ t.listener
        /\ ~ t.ctsTimer /\ ~ t.sendData /\ ~ t.waitSifs
        /\ t.sendCts = None /\ t.sendAck = None /\ t.ratio = counted.ratio
    BY <1>3, <1>6, <2>2 DEF Keeps, Fields
  <2> QED  BY <1>6, <1>9, <2>2, <2>3, <2>4
<1> QED  BY <1>8, <1>9

-----------------------------------------------------------------------------
(* What the DcaTxop does: effects.                                           *)

\* Station n has just begun to send the fragment it has.
Opens(n, t) ==
    /\ ~ t.abort /\ t.listener /\ t.hdr = Fragment(t)
    /\ ~ t.sendData /\ ~ t.waitSifs /\ t.sendCts = None /\ t.sendAck = None
    /\ t.tx.from = n /\ t.tx.to = t.cur.to
    /\ \/ /\ t.cur.to \in Station
          /\ t.params.ack /\ (t.params.next <=> ~ IsLastFragment(t))
          /\ (t.ackTimer <=> ~ t.ctsTimer) /\ (t.pkt <=> t.ctsTimer)
          /\ t.ctsTimer => t.tx.type = "rts"
          /\ ~ t.ctsTimer => t.tx.type = "data" /\ t.tx.frag = t.hdr
       \/ /\ t.cur.to = Group /\ ~ t.params.ack
          /\ ~ t.ctsTimer /\ ~ t.ackTimer /\ ~ t.pkt
          /\ t.tx.type = "data" /\ t.tx.frag = t.hdr

\* What was handed to a station goes to a station or to the group, in fragments.
LEMMA PacketType ==
    ASSUME NEW p \in Packets
    PROVE  /\ p # None /\ p.to \in Station \cup {Group} /\ p.frags \in Nat \ {0}
           /\ p.rts \in BOOLEAN
BY TrafficAssumption DEF Packets

\* A fragment of the packet of the DcaTxop goes out.
LEMMA StartFragment ==
    ASSUME NEW n, NEW s, Sane(s), ~ s.abort, s.tx = Silence,
           s.cur \in Packets,
           NEW params, params.ack \in BOOLEAN, params.ack <=> s.cur.to # Group,
           params.rts => params.ack, params.ack => (params.next <=> ~ IsLastFragment(s)),
           NEW t, t = StartTransmission(n, s, Fragment(s), params)
    PROVE  /\ Keeps(s, t, SendFields) /\ Opens(n, t) /\ (t.ctsTimer <=> params.rts)
           /\ t.ratio = Counted(s.ratio, s.cur.to)
<1>1. Fragment(s).to = s.cur.to /\ s.cur.to \in Station \cup {Group}
  BY PacketType DEF Fragment
<1>2. /\ Keeps(s, t, SendFields)
      /\ ~ t.abort /\ t.hdr = Fragment(s) /\ t.params = params
      /\ t.listener /\ (t.pkt <=> params.rts)
      /\ (t.ackTimer <=> params.ack /\ ~ params.rts) /\ (t.ctsTimer <=> params.rts)
      /\ ~ t.sendData /\ ~ t.waitSifs /\ t.sendCts = None /\ t.sendAck = None
      /\ t.ratio = Counted(s.ratio, Fragment(s).to)
      /\ t.tx = IF params.rts
                THEN [type |-> "rts", to |-> Fragment(s).to, from |-> n, frag |-> NoFragment]
                ELSE [type |-> "data", to |-> Fragment(s).to, from |-> n, frag |-> Fragment(s)]
  <2>1. Fragment(s).to \in Station \cup {Group}
    BY <1>1
  <2> QED  BY <2>1, StartTransmissionEffect
<1>3. t.cur = s.cur /\ t.fragNr = s.fragNr /\ t.retry = s.retry
  BY <1>2 DEF Keeps, SendFields, Fields
<1>4. Fragment(t) = Fragment(s) /\ IsLastFragment(t) = IsLastFragment(s)
  BY <1>3 DEF Fragment, IsLastFragment
<1>5. t.ratio = Counted(s.ratio, s.cur.to)
  BY <1>1, <1>2
<1>6. /\ t.tx.from = n /\ t.tx.to = s.cur.to
      /\ params.rts => t.tx.type = "rts"
      /\ ~ params.rts => t.tx.type = "data" /\ t.tx.frag = t.hdr
  BY <1>1, <1>2
<1>7. Opens(n, t)
  <2>1. CASE params.ack
    <3>1. t.cur.to \in Station /\ t.params.ack /\ (t.params.next <=> ~ IsLastFragment(t))
      BY <1>1, <1>2, <1>3, <1>4, <2>1
    <3> QED  BY <1>2, <1>3, <1>4, <1>6, <2>1, <3>1 DEF Opens
  <2>2. CASE ~ params.ack
    <3>1. ~ params.rts /\ t.cur.to = Group /\ ~ t.params.ack
      BY <1>2, <1>3, <2>2
    <3> QED  BY <1>2, <1>3, <1>4, <1>6, <2>2, <3>1 DEF Opens
  <2> QED  BY <2>1, <2>2
<1> QED  BY <1>2, <1>5, <1>7

\* The fields that Dequeue sets.
QueueFields == {"queue", "cur", "retry", "fragNr"}

\* Access that nobody needs any more is forgotten.
LEMMA GrantIdle ==
    ASSUME NEW n, NEW s, DOMAIN s = Fields, s.cur = None, s.queue = <<>>
    PROVE  Keeps(s, NotifyAccessGranted(n, s), {"req"}) /\ NotifyAccessGranted(n, s).req = FALSE
BY DEF NotifyAccessGranted, Keeps, Fields

\* The first packet is taken unless one is under way, and its fragment is sent.
LEMMA GrantEffect ==
    ASSUME NEW n, NEW s, Types(n, s), s.tx = Silence, s.cur # None \/ s.queue # <<>>,
           NEW t, t = NotifyAccessGranted(n, s)
    PROVE  /\ Keeps(s, t, SendFields \cup QueueFields \cup {"req"}) /\ Opens(n, t)
           /\ t.cur \in Packets /\ t.ratio = Counted(s.ratio, t.cur.to)
           /\ ~ t.req
           /\ s.cur # None => /\ t.cur = s.cur /\ t.queue = s.queue
                              /\ t.retry = s.retry /\ t.fragNr = s.fragNr
           /\ s.cur = None => /\ t.cur = Head(s.queue) /\ t.queue = Tail(s.queue)
                              /\ ~ t.retry /\ t.fragNr = 0
<1> DEFINE granted == [s EXCEPT !.req = FALSE]
           loaded == Dequeue(granted)
           params == IF loaded.cur.to = Group
                     THEN Params(FALSE, FALSE, FALSE)
                     ELSE Params(TRUE, loaded.cur.rts, ~ IsLastFragment(loaded))
<1>1. DOMAIN s = Fields /\ Sane(s) /\ ~ s.abort /\ s.queue \in Seq(Packets) /\ s.cur \in Packets \cup {None}
  BY DEF Types, Sane
<1>2. Keeps(s, granted, {"req"}) /\ ~ granted.req
  BY <1>1 DEF Keeps, Fields
<1>3. Same(s, granted)
  BY <1>1 DEF Same, Fields
<1> HIDE DEF granted
<1>4. granted.cur = s.cur /\ granted.queue = s.queue /\ DOMAIN granted = Fields /\ Sane(granted)
  BY <1>1, <1>2, <1>3, SameSane DEF Keeps, Fields
<1>5. /\ Keeps(granted, loaded, QueueFields)
      /\ s.cur # None => loaded = granted
      /\ s.cur = None => /\ loaded.cur = Head(s.queue) /\ loaded.queue = Tail(s.queue)
                         /\ ~ loaded.retry /\ loaded.fragNr = 0
  BY <1>4 DEF Keeps, QueueFields, Dequeue, Fields
<1>6. Same(granted, loaded)
  BY <1>4 DEF Same, Dequeue, Fields
<1> HIDE DEF loaded
<1>7. Sane(loaded)
  BY <1>4, <1>6, SameSane
<1>8. loaded.cur \in Packets
  BY <1>1, <1>4, <1>5
<1>9. /\ Keeps(s, loaded, QueueFields \cup {"req"})
      /\ ~ loaded.abort /\ loaded.tx = Silence /\ loaded.ratio = s.ratio /\ ~ loaded.req
  BY <1>1, <1>2, <1>5 DEF Keeps, QueueFields, Fields
<1>11. t = StartTransmission(n, loaded, Fragment(loaded), params)
  BY DEF NotifyAccessGranted, granted, loaded
<1>10. Keeps(loaded, t, SendFields) /\ Opens(n, t) /\ t.ratio = Counted(s.ratio, loaded.cur.to)
  <2>1. /\ params.ack \in BOOLEAN /\ (params.ack <=> loaded.cur.to # Group)
        /\ params.rts => params.ack
        /\ params.ack => (params.next <=> ~ IsLastFragment(loaded))
    BY DEF Params
  <2> HIDE DEF params
  <2> QED  BY <1>7, <1>8, <1>9, <1>11, <2>1, StartFragment
<1>12. t.cur = loaded.cur /\ t.queue = loaded.queue /\ t.retry = loaded.retry /\ t.fragNr = loaded.fragNr
       /\ ~ t.req
  BY <1>9, <1>10 DEF Keeps, SendFields, Fields
<1>13. Keeps(s, t, SendFields \cup QueueFields \cup {"req"})
  BY <1>9, <1>10 DEF Keeps
<1>14. /\ s.cur # None => loaded.cur = s.cur /\ loaded.queue = s.queue /\ loaded.retry = s.retry
                          /\ loaded.fragNr = s.fragNr
  BY <1>2, <1>5 DEF Keeps, Fields
<1> QED  BY <1>5, <1>8, <1>9, <1>10, <1>12, <1>13, <1>14

\* The fragment after the one that was acknowledged is sent, without an RTS.
LEMMA WaitSifsEffect ==
    ASSUME NEW n, NEW s, Types(n, s), s.tx = Silence, s.listener,
           s.cur # None, s.cur.to \in Station, NEW t, t = WaitSifsAfterEndTx(n, s)
    PROVE  /\ Keeps(s, t, SendFields \cup {"fragNr"}) /\ Opens(n, t)
           /\ t.ratio = Counted(s.ratio, s.cur.to) /\ t.fragNr = s.fragNr + 1
           /\ ~ t.ctsTimer
<1> DEFINE due == [s EXCEPT !.waitSifs = FALSE]
           moved == [due EXCEPT !.fragNr = @ + 1]
           params == Params(TRUE, FALSE, ~ IsLastFragment(moved))
<1>1. DOMAIN s = Fields /\ Sane(s) /\ ~ s.abort /\ s.cur \in Packets
  BY DEF Types, Sane
<1>2. DOMAIN due = Fields /\ Keeps(s, due, {"waitSifs"}) /\ Same(s, due)
  BY <1>1 DEF Keeps, Same, Fields
<1> HIDE DEF due
<1>3. /\ due.listener /\ due.cur = s.cur /\ due.fragNr = s.fragNr
  BY <1>2 DEF Keeps, Fields
<1>4. Keeps(s, moved, {"waitSifs", "fragNr"}) /\ moved.fragNr = s.fragNr + 1 /\ Same(due, moved)
  BY <1>2, <1>3 DEF Keeps, Same, Fields
<1> HIDE DEF moved
<1>5. Sane(moved)
  BY <1>1, <1>2, <1>4, SameSane, SameTrans
<1>6. ~ moved.abort /\ moved.tx = Silence /\ moved.cur = s.cur /\ moved.ratio = s.ratio
  BY <1>1, <1>4 DEF Keeps, Fields
<1>7. s.cur.to # Group
  BY StationAssumption
<1>10. t = StartTransmission(n, moved, Fragment(moved), params)
  BY <1>3 DEF WaitSifsAfterEndTx, Call, StartNext, due, moved
<1>8. /\ Keeps(moved, t, SendFields) /\ Opens(n, t) /\ ~ t.ctsTimer
      /\ t.ratio = Counted(s.ratio, s.cur.to)
  <2>1. /\ params.ack \in BOOLEAN /\ (params.ack <=> moved.cur.to # Group)
        /\ params.rts => params.ack
        /\ params.ack => (params.next <=> ~ IsLastFragment(moved))
    BY <1>6, <1>7 DEF Params
  <2>2. ~ params.rts
    BY DEF Params
  <2> HIDE DEF params
  <2>3. moved.cur \in Packets
    BY <1>1, <1>6
  <2>4. /\ Keeps(moved, t, SendFields) /\ Opens(n, t) /\ (t.ctsTimer <=> params.rts)
        /\ t.ratio = Counted(moved.ratio, moved.cur.to)
    BY <1>5, <1>6, <1>10, <2>1, <2>3, StartFragment
  <2> QED  BY <1>6, <2>2, <2>4
<1>11. t.fragNr = s.fragNr + 1 /\ Keeps(s, t, SendFields \cup {"fragNr"})
  BY <1>4, <1>8 DEF Keeps, SendFields, Fields
<1> QED  BY <1>8, <1>11

-----------------------------------------------------------------------------
(* What each handler does to the invariant of its station.                   *)

\* The packets of a station and its counts.
Stored(s) ==
    /\ s.queue \in Seq(Packets) /\ s.cur \in Packets \cup {None} /\ s.fragNr \in Nat
    /\ s.cur # None => s.fragNr < s.cur.frags
    /\ s.ssrc \in Count /\ \A m \in Station : s.ssrc[m] < MaxSsrc
    /\ s.slrc \in Count /\ \A m \in Station : s.slrc[m] < MaxSlrc
    /\ OnePlace(s)

\* The station that begins to send a fragment is as it should be.
LEMMA OpensLocal ==
    ASSUME NEW n \in Station, NEW t, Sane(t), Stored(t), Opens(n, t), t.cur \in Packets,
           t.cur.to = Group => t.fragNr = 0
    PROVE  Local(n, t)
<1>0. t.cur # None
  BY PacketType
<1>1. Types(n, t) /\ OnePlace(t)
  BY DEF Types, Stored, Opens
<1>2. CASE t.cur.to \in Station
  <2>1. t.cur.to # Group
    BY <1>2, StationAssumption
  <2>2. /\ t.params.ack /\ (t.params.next <=> ~ IsLastFragment(t))
        /\ (t.ackTimer <=> ~ t.ctsTimer) /\ (t.pkt <=> t.ctsTimer)
        /\ t.ctsTimer => t.tx.type = "rts"
        /\ ~ t.ctsTimer => t.tx.type = "data" /\ t.tx.frag = t.hdr
    BY <2>1 DEF Opens
  <2>3. Exchange(t)
    BY <1>0, <1>2, <2>2 DEF Exchange, Open, Awaits, Opens, Stored
  <2>4. OneDue(t)
    BY DEF OneDue, Opens
  <2>5. Frame(n, t)
    <3>1. t.tx.to = t.hdr.to /\ t.tx.from = n
      BY DEF Opens, Fragment
    <3> QED  BY <2>2, <3>1 DEF Frame
  <2> QED  BY <1>1, <2>1, <2>3, <2>4, <2>5 DEF Local
<1>3. CASE t.cur.to = Group
  <2>1. /\ ~ t.params.ack /\ ~ t.ctsTimer /\ ~ t.ackTimer /\ ~ t.pkt
        /\ t.tx.type = "data" /\ t.tx.frag = t.hdr
    BY <1>3, StationAssumption DEF Opens
  <2>2. ~ Open(t)
    BY <2>1 DEF Open, Awaits, Opens
  <2>3. Exchange(t)
    BY <1>0, <2>1, <2>2 DEF Exchange, Open, Awaits, Opens, Stored
  <2>4. OneDue(t)
    BY DEF OneDue, Opens
  <2>5. t.tx.from = n /\ t.tx.to = Group /\ t.tx.frag = Fragment(t) /\ t.listener
    BY <1>3, <2>1 DEF Opens
  <2>6. Frame(n, t)
    BY <1>0, <1>3, <2>1, <2>2, <2>5 DEF Frame
  <2> QED  BY <1>1, <2>1, <2>3, <2>4, <2>5, <2>6 DEF Local
<1> QED  BY <1>2, <1>3, PacketType

\* The part of it that is about packets and counts.
LEMMA LocalStored == ASSUME NEW n, NEW s, Local(n, s) PROVE Stored(s)
BY DEF Local, Types, Exchange, Stored

\* Taking the first packet leaves each at one place.
LEMMA TailOnePlace ==
    ASSUME NEW s, s.queue \in Seq(Packets), s.queue # <<>>, OnePlace(s), NEW t,
           t.cur = Head(s.queue), t.queue = Tail(s.queue)
    PROVE  OnePlace(t) /\ t.queue \in Seq(Packets) /\ t.cur \in Packets
<1>1. /\ Len(s.queue) \in Nat /\ Len(s.queue) > 0
      /\ Tail(s.queue) \in Seq(Packets) /\ Len(Tail(s.queue)) = Len(s.queue) - 1
      /\ \A i \in 1..Len(Tail(s.queue)) : Tail(s.queue)[i] = s.queue[i + 1]
      /\ Head(s.queue) = s.queue[1] /\ Head(s.queue) \in Packets
  OBVIOUS
<1>2. ASSUME NEW i \in 1..Len(t.queue), NEW j \in 1..Len(t.queue), t.queue[i] = t.queue[j]
      PROVE  i = j
  <2>1. i + 1 \in 1..Len(s.queue) /\ j + 1 \in 1..Len(s.queue) /\ s.queue[i + 1] = s.queue[j + 1]
    BY <1>1, <1>2
  <2> QED  BY <1>1, <2>1 DEF OnePlace
<1>3. ASSUME NEW i \in 1..Len(t.queue) PROVE t.queue[i] # t.cur
  <2>1. i + 1 \in 1..Len(s.queue) /\ 1 \in 1..Len(s.queue) /\ i + 1 # 1
    BY <1>1
  <2> QED  BY <1>1, <2>1 DEF OnePlace
<1> QED  BY <1>1, <1>2, <1>3 DEF OnePlace

\* Access is granted to a station that has a packet.
LEMMA GrantLocal ==
    ASSUME NEW n \in Station, NEW s, Local(n, s), s.tx = Silence, s.cur # None \/ s.queue # <<>>
    PROVE  Local(n, NotifyAccessGranted(n, s))
<1> DEFINE t == NotifyAccessGranted(n, s)
<1>1. Types(n, s) /\ Sane(s) /\ Stored(s)
  BY LocalStored DEF Local, Types
<1>2. /\ Keeps(s, t, SendFields \cup QueueFields \cup {"req"}) /\ Opens(n, t)
      /\ t.cur \in Packets
  BY <1>1, GrantEffect
<1>6. s.cur # None => t.cur = s.cur /\ t.queue = s.queue /\ t.fragNr = s.fragNr
  BY <1>1, GrantEffect
<1>7. s.cur = None => t.cur = Head(s.queue) /\ t.queue = Tail(s.queue) /\ t.fragNr = 0
  BY <1>1, GrantEffect
<1>3. Sane(t)
  BY <1>1, GrantSane
<1> HIDE DEF t
<1>4. t.ssrc = s.ssrc /\ t.slrc = s.slrc
  BY <1>2 DEF Keeps, SendFields, QueueFields, Fields
<1>5. Stored(t) /\ (t.cur.to = Group => t.fragNr = 0)
  <2>1. CASE s.cur # None
    <3>1. s.cur.to # Group
      BY <2>1 DEF Local, Silence
    <3> QED  BY <1>1, <1>6, <1>4, <2>1, <3>1 DEF Stored, OnePlace
  <2>2. CASE s.cur = None
    <3>1. OnePlace(t) /\ t.queue \in Seq(Packets) /\ t.cur \in Packets
      BY <1>1, <1>7, <2>2, TailOnePlace DEF Stored
    <3>2. t.fragNr = 0 /\ t.cur.frags \in Nat \ {0}
      BY <1>2, <1>7, <2>2, PacketType
    <3> QED  BY <1>1, <1>4, <3>1, <3>2 DEF Stored
  <2> QED  BY <2>1, <2>2
<1> QED  BY <1>2, <1>3, <1>5, OpensLocal DEF t

\* The next fragment goes out.
LEMMA WaitSifsLocal ==
    ASSUME NEW n \in Station, NEW s, Local(n, s), s.waitSifs
    PROVE  Local(n, WaitSifsAfterEndTx(n, s))
<1> DEFINE t == WaitSifsAfterEndTx(n, s)
<1>1. Types(n, s) /\ Sane(s) /\ Stored(s)
  BY LocalStored DEF Local, Types
<1>2. /\ s.tx = Silence /\ s.listener /\ s.cur # None /\ s.cur.to \in Station
      /\ ~ IsLastFragment(s)
  BY DEF Local, OneDue, Exchange, Open
<1>3. Keeps(s, t, SendFields \cup {"fragNr"}) /\ Opens(n, t) /\ t.fragNr = s.fragNr + 1
  BY <1>1, <1>2, WaitSifsEffect
<1>4. Sane(t)
  BY <1>1, WaitSifsSane
<1> HIDE DEF t
<1>5. t.ssrc = s.ssrc /\ t.slrc = s.slrc /\ t.cur = s.cur /\ t.queue = s.queue
  BY <1>3 DEF Keeps, SendFields, Fields
<1>6. s.cur \in Packets /\ s.cur.to # Group
  BY <1>1, <1>2, StationAssumption DEF Stored
<1>7. t.fragNr \in Nat /\ t.fragNr < s.cur.frags
  <2>1. s.fragNr \in Nat /\ s.cur.frags \in Nat /\ s.fragNr < s.cur.frags /\ s.fragNr + 1 # s.cur.frags
    BY <1>1, <1>2, <1>6, PacketType DEF Stored, IsLastFragment
  <2> QED  BY <1>3, <2>1
<1>8. Stored(t)
  BY <1>1, <1>5, <1>7 DEF Stored, OnePlace
<1> QED  BY <1>3, <1>4, <1>5, <1>6, <1>8, OpensLocal DEF t

\* A packet that is new to the station goes to the end of the queue.
LEMMA QueueEffect ==
    ASSUME NEW s, DOMAIN s = Fields, NEW p, NEW t, t = Queue(s, p)
    PROVE  Keeps(s, t, {"queue", "req"}) /\ t.queue = Append(s.queue, p)
BY DEF Keeps, Queue, StartAccessIfNeeded, Fields

\* Queue puts a packet that is new to the station at the end.
LEMMA QueueLocal ==
    ASSUME NEW n \in Station, NEW s, Local(n, s), NEW p \in Packets, p # s.cur,
           \A i \in 1..Len(s.queue) : s.queue[i] # p, NEW t, t = Queue(s, p)
    PROVE  Local(n, t)
<1>1. Sane(s) /\ DOMAIN s = Fields
  BY DEF Local, Types, Sane
<1>2. Keeps(s, t, {"queue", "req"}) /\ t.queue = Append(s.queue, p)
  BY <1>1, QueueEffect
<1>3. Sane(t)
  BY <1>1, QueueSame, SameSane
<1>4. /\ t.abort = s.abort /\ t.cur = s.cur /\ t.fragNr = s.fragNr /\ t.ssrc = s.ssrc /\ t.slrc = s.slrc
      /\ t.sendCts = s.sendCts /\ t.sendAck = s.sendAck /\ t.ackTimer = s.ackTimer
      /\ t.ctsTimer = s.ctsTimer /\ t.sendData = s.sendData /\ t.waitSifs = s.waitSifs
      /\ t.hdr = s.hdr /\ t.params = s.params /\ t.pkt = s.pkt /\ t.listener = s.listener
      /\ t.tx = s.tx /\ t.retry = s.retry
  BY <1>2 DEF Keeps, Fields
<1>5. /\ t.queue \in Seq(Packets) /\ Len(t.queue) = Len(s.queue) + 1 /\ Len(s.queue) \in Nat
      /\ t.queue[Len(s.queue) + 1] = p /\ \A i \in 1..Len(s.queue) : t.queue[i] = s.queue[i]
  BY <1>2 DEF Local, Types
<1>6. Types(n, t)
  BY <1>3, <1>4, <1>5 DEF Local, Types
<1>7. OnePlace(t)
  <2>1. OnePlace(s)
    BY DEF Local
  <2>2. \A i \in 1..Len(t.queue) : i \in 1..Len(s.queue) \/ i = Len(s.queue) + 1
    BY <1>5
  <2>3. ASSUME NEW i \in 1..Len(t.queue), NEW j \in 1..Len(t.queue), t.queue[i] = t.queue[j]
        PROVE  i = j
    BY <1>5, <2>1, <2>2, <2>3 DEF OnePlace
  <2>4. ASSUME NEW i \in 1..Len(t.queue) PROVE t.queue[i] # t.cur
    BY <1>4, <1>5, <2>1, <2>2 DEF OnePlace
  <2> QED  BY <2>3, <2>4 DEF OnePlace
<1>8. Fragment(t) = Fragment(s) /\ IsLastFragment(t) = IsLastFragment(s)
  BY <1>4 DEF Fragment, IsLastFragment
<1>9. Exchange(t) /\ OneDue(t) /\ Frame(n, t)
  BY <1>4, <1>8 DEF Local, Exchange, OneDue, Frame, Open, Awaits
<1> QED  BY <1>4, <1>6, <1>7, <1>9 DEF Local

\* The NAV, requests for access and what was received are of no concern.
LEMMA AsideLocal ==
    ASSUME NEW n \in Station, NEW s, Local(n, s), NEW t, Keeps(s, t, {"nav", "got", "req"})
    PROVE  Local(n, t)
<1>1. Sane(s)
  BY DEF Local, Types, Sane
<1>2. Same(s, t)
  BY <1>1 DEF Keeps, Same, Sane, Fields
<1>3. Sane(t)
  BY <1>1, <1>2, SameSane
<1>4. /\ t.abort = s.abort /\ t.cur = s.cur /\ t.fragNr = s.fragNr /\ t.ssrc = s.ssrc /\ t.slrc = s.slrc
      /\ t.sendCts = s.sendCts /\ t.sendAck = s.sendAck /\ t.ackTimer = s.ackTimer
      /\ t.ctsTimer = s.ctsTimer /\ t.sendData = s.sendData /\ t.waitSifs = s.waitSifs
      /\ t.hdr = s.hdr /\ t.params = s.params /\ t.pkt = s.pkt /\ t.listener = s.listener
      /\ t.tx = s.tx /\ t.retry = s.retry /\ t.queue = s.queue
  BY DEF Keeps, Fields
<1>5. Types(n, t) /\ OnePlace(t)
  BY <1>3, <1>4 DEF Local, Types, OnePlace
<1>6. Fragment(t) = Fragment(s) /\ IsLastFragment(t) = IsLastFragment(s)
  BY <1>4 DEF Fragment, IsLastFragment
<1>7. Exchange(t) /\ OneDue(t) /\ Frame(n, t)
  BY <1>4, <1>6 DEF Local, Exchange, OneDue, Frame, Open, Awaits
<1> QED  BY <1>4, <1>5, <1>7 DEF Local

\* A frame for somebody else.
LEMMA NotifyNavLocal ==
    ASSUME NEW n \in Station, NEW s, Local(n, s), NEW f, NEW t, t = NotifyNav(n, s, f)
    PROVE  Local(n, t) /\ Keeps(s, t, {"nav"})
<1>1. DOMAIN s = Fields
  BY DEF Local, Types, Sane
<1>2. Keeps(s, t, {"nav"})
  BY <1>1 DEF Keeps, NotifyNav, Fields
<1>3. Keeps(s, t, {"nav", "got", "req"})
  BY <1>2 DEF Keeps
<1> QED  BY <1>2, <1>3, AsideLocal

\* Nothing is due at the station.
Undue(s) == s.sendCts = None /\ s.sendAck = None /\ ~ s.sendData /\ ~ s.waitSifs

\* An RTS makes at most a CTS due.
LEMMA ReceiveRtsLocal ==
    ASSUME NEW n \in Station, NEW s, Local(n, s), s.tx = Silence, Undue(s),
           NEW f, f.from \in Station, NEW t, t = ReceiveRts(n, s, f)
    PROVE  Local(n, t) /\ Keeps(s, t, {"abort", "nav", "sendCts"})
<1>1. DOMAIN s = Fields /\ Sane(s) /\ ~ s.abort
  BY DEF Local, Types, Sane
<1>2. CASE f.to = n /\ ~ s.nav
  <2>1. t = [Assert(s, s.sendCts = None) EXCEPT !.sendCts = f.from]
    BY <1>2 DEF ReceiveRts
  <2>2. Keeps(s, t, {"abort", "sendCts"}) /\ ~ t.abort /\ t.sendCts = f.from
    BY <1>1, <2>1 DEF Keeps, Assert, Undue, Fields
  <2>3. Sane(t)
    BY <1>1, ReceiveRtsSane
  <2>4. /\ t.cur = s.cur /\ t.fragNr = s.fragNr /\ t.ssrc = s.ssrc /\ t.slrc = s.slrc
        /\ t.sendAck = s.sendAck /\ t.ackTimer = s.ackTimer
        /\ t.ctsTimer = s.ctsTimer /\ t.sendData = s.sendData /\ t.waitSifs = s.waitSifs
        /\ t.hdr = s.hdr /\ t.params = s.params /\ t.pkt = s.pkt /\ t.listener = s.listener
        /\ t.tx = s.tx /\ t.retry = s.retry /\ t.queue = s.queue
    BY <2>2 DEF Keeps, Fields
  <2>5. Types(n, t) /\ OnePlace(t)
    BY <2>2, <2>3, <2>4 DEF Local, Types, OnePlace
  <2>6. Fragment(t) = Fragment(s) /\ IsLastFragment(t) = IsLastFragment(s)
    BY <2>4 DEF Fragment, IsLastFragment
  <2>7. Exchange(t) /\ OneDue(t) /\ Frame(n, t)
    BY <2>4, <2>6 DEF Local, Exchange, OneDue, Frame, Open, Awaits, Undue
  <2>8. Keeps(s, t, {"abort", "nav", "sendCts"})
    BY <2>2 DEF Keeps
  <2> QED  BY <2>4, <2>5, <2>7, <2>8 DEF Local
<1>3. CASE ~ (f.to = n /\ ~ s.nav)
  <2>1. t = NotifyNav(n, s, f)
    BY <1>3 DEF ReceiveRts
  <2>2. Local(n, t) /\ Keeps(s, t, {"nav"})
    BY <2>1, NotifyNavLocal
  <2>3. Keeps(s, t, {"abort", "nav", "sendCts"})
    BY <2>2 DEF Keeps
  <2> QED  BY <2>2, <2>3
<1> QED  BY <1>2, <1>3

\* A retry count that is reset stays in its bounds.
LEMMA CountReset ==
    ASSUME NEW c \in Count, NEW max \in Nat \ {0}, \A m \in Station : c[m] < max, NEW k
    PROVE  /\ [c EXCEPT ![k] = 0] \in Count
           /\ \A m \in Station : [c EXCEPT ![k] = 0][m] < max
<1> DEFINE d == [c EXCEPT ![k] = 0]
<1>1. d \in Count
  BY DEF Count
<1>2. ASSUME NEW m \in Station PROVE d[m] < max
  <2>1. d[m] = IF m = k THEN 0 ELSE c[m]
    BY DEF Count
  <2> QED  BY <2>1
<1> QED  BY <1>1, <1>2

\* The CTS an attempt awaits makes its data due.
LEMMA ReceiveCtsLocal ==
    ASSUME NEW n \in Station, NEW s, Local(n, s), s.tx = Silence, Undue(s),
           NEW f, NEW t, t = ReceiveCts(n, s, f)
    PROVE  /\ Local(n, t)
           /\ \/ Keeps(s, t, {"nav"})
              \/ /\ Keeps(s, t, {"abort", "ctsTimer", "sendData", "ssrc"})
                 /\ s.ctsTimer /\ ~ t.ctsTimer /\ t.sendData
<1>1. DOMAIN s = Fields /\ Sane(s) /\ ~ s.abort
  BY DEF Local, Types, Sane
<1>2. CASE f.to = n /\ s.ctsTimer /\ s.pkt
  <2>0. s.listener /\ ~ s.sendData /\ s.hdr = Fragment(s) /\ s.cur # None /\ s.cur.to \in Station
    BY <1>2 DEF Local, Exchange, Open, Awaits, Undue
  <2>1. t = [Assert(s, s.listener /\ ~ s.sendData)
                EXCEPT !.ctsTimer = FALSE, !.sendData = TRUE, !.ssrc[s.hdr.to] = 0]
    BY <1>2 DEF ReceiveCts
  <2>2. /\ Keeps(s, t, {"abort", "ctsTimer", "sendData", "ssrc"})
        /\ ~ t.abort /\ ~ t.ctsTimer /\ t.sendData /\ t.ssrc = [s.ssrc EXCEPT ![s.hdr.to] = 0]
    BY <1>1, <2>0, <2>1 DEF Keeps, Assert, Fields
  <2>3. Sane(t)
    BY <1>1, ReceiveCtsSane
  <2>4. /\ t.cur = s.cur /\ t.fragNr = s.fragNr /\ t.slrc = s.slrc
        /\ t.sendAck = s.sendAck /\ t.sendCts = s.sendCts /\ t.ackTimer = s.ackTimer
        /\ t.waitSifs = s.waitSifs
        /\ t.hdr = s.hdr /\ t.params = s.params /\ t.pkt = s.pkt /\ t.listener = s.listener
        /\ t.tx = s.tx /\ t.retry = s.retry /\ t.queue = s.queue
    BY <2>2 DEF Keeps, Fields
  <2>5. t.ssrc \in Count /\ \A m \in Station : t.ssrc[m] < MaxSsrc
    <3>1. s.ssrc \in Count /\ \A m \in Station : s.ssrc[m] < MaxSsrc
      BY DEF Local, Types
    <3>2. /\ [s.ssrc EXCEPT ![s.hdr.to] = 0] \in Count
          /\ \A m \in Station : [s.ssrc EXCEPT ![s.hdr.to] = 0][m] < MaxSsrc
      BY <3>1, CountReset, RetryAssumption
    <3> QED  BY <2>2, <3>2
  <2>6. Types(n, t) /\ OnePlace(t)
    BY <2>2, <2>3, <2>4, <2>5 DEF Local, Types, OnePlace
  <2>7. Fragment(t) = Fragment(s) /\ IsLastFragment(t) = IsLastFragment(s)
    BY <2>4 DEF Fragment, IsLastFragment
  <2>8. Exchange(t)
    BY <1>2, <2>0, <2>2, <2>4, <2>7 DEF Local, Exchange, Open, Awaits, Undue
  <2>9. OneDue(t) /\ Frame(n, t)
    BY <2>2, <2>4 DEF OneDue, Frame, Undue
  <2>10. s.cur.to # Group
    BY <2>0, StationAssumption
  <2> QED  BY <1>2, <2>2, <2>4, <2>6, <2>8, <2>9, <2>10 DEF Local
<1>3. CASE ~ (f.to = n /\ s.ctsTimer /\ s.pkt)
  <2>1. t = NotifyNav(n, s, f)
    BY <1>3 DEF ReceiveCts
  <2> QED  BY <2>1, NotifyNavLocal
<1> QED  BY <1>2, <1>3

\* The ack counts; the packet is done or its next fragment is due.
LEMMA ReceiveAckEffect ==
    ASSUME NEW n \in Station, NEW s, Local(n, s), Undue(s), s.ackTimer,
           NEW f, f.to = n, NEW t, t = ReceiveAck(n, s, f)
    PROVE  /\ Keeps(s, t, {"abort", "ratio", "ackTimer", "slrc", "waitSifs", "ok", "cur", "req"})
           /\ ~ t.abort /\ ~ t.ackTimer /\ t.ratio = AddAckFrom(s.ratio, s.cur.to)
           /\ t.slrc = [s.slrc EXCEPT ![s.cur.to] = 0]
           /\ t.waitSifs <=> ~ IsLastFragment(s)
           /\ IsLastFragment(s) => t.cur = None /\ t.ok = s.ok \cup {s.cur.pid}
           /\ ~ IsLastFragment(s) => t.cur = s.cur /\ t.ok = s.ok
<1> DEFINE ratio == AddAckFrom(s.ratio, s.hdr.to)
           counted == [s EXCEPT !.ratio = ratio]
           acked == [CountAck(s) EXCEPT !.ackTimer = FALSE, !.slrc[s.hdr.to] = 0]
           called == Call(acked, GotAck(acked))
<1>1. DOMAIN s = Fields /\ Sane(s) /\ ~ s.abort
  BY DEF Local, Types, Sane
<1>2. /\ s.listener /\ s.cur # None /\ s.cur.to \in Station /\ s.hdr = Fragment(s) /\ s.params.ack
      /\ s.params.next <=> ~ IsLastFragment(s)
  BY DEF Local, Exchange, Open, Awaits
<1>3. s.hdr.to = s.cur.to
  BY <1>2 DEF Fragment
<1>4. Sound(ratio[s.hdr.to])
  <2>1. /\ s.ratio[s.cur.to].acks \in Nat /\ s.ratio[s.cur.to].sends \in Nat
        /\ s.ratio[s.cur.to].acks + 1 <= s.ratio[s.cur.to].sends
    BY <1>1, <1>2, <1>3 DEF Sane, Ratios, Balanced, Awaits
  <2>2. s.ratio \in Ratios
    BY <1>1 DEF Sane
  <2> QED  BY <1>2, <1>3, <2>1, <2>2 DEF Sound, AddAckFrom, AddAck, Ratios
<1> HIDE DEF ratio
<1>5. Keeps(s, counted, {"ratio"}) /\ counted.ratio = ratio /\ ~ counted.abort /\ DOMAIN counted = Fields
  BY <1>1 DEF Keeps, Fields
<1> HIDE DEF counted
<1>6. CountAck(s) = Assert(counted, Sound(ratio[s.hdr.to]))
  BY DEF CountAck, counted, ratio
<1>7. Keeps(s, CountAck(s), {"abort", "ratio"}) /\ ~ CountAck(s).abort /\ CountAck(s).ratio = ratio
  BY <1>4, <1>5, <1>6 DEF Keeps, Assert, Fields
<1>8. /\ Keeps(s, acked, {"abort", "ratio", "ackTimer", "slrc"})
      /\ ~ acked.abort /\ acked.ratio = ratio /\ ~ acked.ackTimer
      /\ acked.slrc = [s.slrc EXCEPT ![s.cur.to] = 0]
  BY <1>3, <1>7 DEF Keeps, Fields
<1> HIDE DEF acked
<1>9. /\ DOMAIN acked = Fields /\ acked.listener = s.listener /\ acked.cur = s.cur /\ acked.ok = s.ok
      /\ acked.fragNr = s.fragNr /\ acked.waitSifs = s.waitSifs
  BY <1>8 DEF Keeps, Fields
<1>10. IsLastFragment(acked) <=> IsLastFragment(s)
  BY <1>9 DEF IsLastFragment
<1>11. called = GotAck(acked)
  BY <1>2, <1>9 DEF Call
<1>12. /\ Keeps(acked, called, {"ok", "cur", "req"})
       /\ IsLastFragment(s) => called.cur = None /\ called.ok = s.ok \cup {s.cur.pid}
       /\ ~ IsLastFragment(s) => called.cur = s.cur /\ called.ok = s.ok
  <2>1. CASE IsLastFragment(s)
    <3>1. called = RestartAccessIfNeeded([acked EXCEPT !.ok = @ \cup {acked.cur.pid}, !.cur = None])
      BY <1>10, <1>11, <2>1 DEF GotAck
    <3> QED  BY <1>9, <2>1, <3>1 DEF Keeps, RestartAccessIfNeeded, Fields
  <2>2. CASE ~ IsLastFragment(s)
    BY <1>9, <1>10, <1>11, <2>2 DEF GotAck, Keeps
  <2> QED  BY <2>1, <2>2
<1> HIDE DEF called
<1>13. t = [called EXCEPT !.waitSifs = @ \/ s.params.next]
  BY <1>2 DEF ReceiveAck, called, acked
<1>14. called.waitSifs = s.waitSifs /\ DOMAIN called = Fields
  BY <1>9, <1>12 DEF Keeps, Fields
<1>15. /\ Keeps(called, t, {"waitSifs"})
       /\ t.waitSifs <=> ~ IsLastFragment(s)
  BY <1>2, <1>13, <1>14 DEF Keeps, Undue, Fields
<1>16. Keeps(s, t, {"abort", "ratio", "ackTimer", "slrc", "waitSifs", "ok", "cur", "req"})
  BY <1>8, <1>12, <1>15 DEF Keeps
<1>17. /\ ~ t.abort /\ ~ t.ackTimer /\ t.ratio = ratio /\ t.slrc = [s.slrc EXCEPT ![s.cur.to] = 0]
       /\ t.cur = called.cur /\ t.ok = called.ok
  BY <1>8, <1>12, <1>15 DEF Keeps, Fields
<1> QED  BY <1>3, <1>12, <1>15, <1>16, <1>17 DEF ratio

\* An ack arrives.
LEMMA ReceiveAckLocal ==
    ASSUME NEW n \in Station, NEW s, Local(n, s), s.tx = Silence, Undue(s),
           NEW f, NEW t, t = ReceiveAck(n, s, f)
    PROVE  Local(n, t)
<1>1. Sane(s)
  BY DEF Local, Types
<1>2. CASE f.to = n /\ s.ackTimer
  <2>0. s.cur # None /\ s.cur.to \in Station /\ s.cur.to # Group /\ ~ s.ctsTimer
    BY <1>1, <1>2, StationAssumption DEF Local, Exchange, Open, Awaits, Sane, OneAttempt
  <2>1. /\ Keeps(s, t, {"abort", "ratio", "ackTimer", "slrc", "waitSifs", "ok", "cur", "req"})
        /\ ~ t.abort /\ ~ t.ackTimer
        /\ t.slrc = [s.slrc EXCEPT ![s.cur.to] = 0]
        /\ t.waitSifs <=> ~ IsLastFragment(s)
        /\ IsLastFragment(s) => t.cur = None
        /\ ~ IsLastFragment(s) => t.cur = s.cur
    BY <1>2, ReceiveAckEffect
  <2>2. Sane(t)
    BY <1>1, ReceiveAckSane
  <2>3. /\ t.fragNr = s.fragNr /\ t.ssrc = s.ssrc /\ t.sendAck = s.sendAck /\ t.sendCts = s.sendCts
        /\ t.ctsTimer = s.ctsTimer /\ t.sendData = s.sendData
        /\ t.hdr = s.hdr /\ t.params = s.params /\ t.pkt = s.pkt /\ t.listener = s.listener
        /\ t.tx = s.tx /\ t.retry = s.retry /\ t.queue = s.queue
    BY <2>1 DEF Keeps, Fields
  <2>4. t.slrc \in Count /\ \A m \in Station : t.slrc[m] < MaxSlrc
    <3>1. s.slrc \in Count /\ \A m \in Station : s.slrc[m] < MaxSlrc
      BY DEF Local, Types
    <3>2. /\ [s.slrc EXCEPT ![s.cur.to] = 0] \in Count
          /\ \A m \in Station : [s.slrc EXCEPT ![s.cur.to] = 0][m] < MaxSlrc
      BY <3>1, CountReset, RetryAssumption
    <3> QED  BY <2>1, <3>2
  <2>5. Types(n, t)
    BY <2>1, <2>2, <2>3, <2>4 DEF Local, Types
  <2>6. OnePlace(t)
    <3>1. \A i \in 1..Len(s.queue) : s.queue[i] # None
      BY PacketType DEF Local, Types
    <3> QED  BY <2>1, <2>3, <3>1 DEF Local, OnePlace
  <2>7. ~ Awaits(t)
    BY <2>0, <2>1, <2>3 DEF Awaits, Undue
  <2>8. Exchange(t)
    <3>1. CASE IsLastFragment(s)
      BY <2>1, <2>3, <2>7, <3>1 DEF Exchange, Open, Awaits
    <3>2. CASE ~ IsLastFragment(s)
      <4>1. IsLastFragment(t) <=> IsLastFragment(s)
        BY <2>1, <2>3, <3>2 DEF IsLastFragment
      <4>2. s.fragNr < s.cur.frags /\ s.listener
        BY <1>2, <2>0 DEF Local, Exchange, Open, Awaits
      <4>3. t.cur = s.cur
        BY <2>1, <3>2
      <4> QED  BY <2>0, <2>3, <2>7, <3>2, <4>1, <4>2, <4>3 DEF Exchange, Open, Awaits
    <3> QED  BY <3>1, <3>2
  <2>9. OneDue(t) /\ Frame(n, t)
    BY <2>1, <2>3 DEF OneDue, Frame, Undue
  <2>10. t.cur # None => t.cur.to # Group
    BY <2>0, <2>1
  <2> QED  BY <2>5, <2>6, <2>8, <2>9, <2>10 DEF Local
<1>3. CASE ~ (f.to = n /\ s.ackTimer)
  <2>1. t = NotifyNav(n, s, f)
    BY <1>3 DEF ReceiveAck
  <2> QED  BY <2>1, NotifyNavLocal
<1> QED  BY <1>2, <1>3

\* A frame for somebody else, and an ack nobody awaits, change the NAV at most.
LEMMA ReceiveAckAside ==
    ASSUME NEW n \in Station, NEW s, Local(n, s), NEW f, ~ (f.to = n /\ s.ackTimer),
           NEW t, t = ReceiveAck(n, s, f)
    PROVE  Keeps(s, t, {"nav"})
<1>1. t = NotifyNav(n, s, f)
  BY DEF ReceiveAck
<1> QED  BY <1>1, NotifyNavLocal

\* Data for the station is noted, and an ack is due.
LEMMA ReceiveUnicastLocal ==
    ASSUME NEW n \in Station, NEW s, Local(n, s), s.tx = Silence, Undue(s),
           NEW f, f.from \in Station, NEW t, t = ReceiveUnicast(n, s, f)
    PROVE  /\ Local(n, t) /\ Keeps(s, t, {"abort", "sendAck", "got"})
           /\ t.sendAck = f.from /\ t.got = s.got \cup {<<f.frag.pid, f.frag.nr>>}
<1>1. DOMAIN s = Fields /\ Sane(s) /\ ~ s.abort
  BY DEF Local, Types, Sane
<1>2. /\ Keeps(s, t, {"abort", "sendAck", "got"}) /\ ~ t.abort /\ t.sendAck = f.from
      /\ t.got = s.got \cup {<<f.frag.pid, f.frag.nr>>}
  BY <1>1 DEF Keeps, Assert, ReceiveUnicast, Undue, Fields
<1>3. /\ t.cur = s.cur /\ t.fragNr = s.fragNr /\ t.ssrc = s.ssrc /\ t.slrc = s.slrc
      /\ t.sendCts = s.sendCts /\ t.ackTimer = s.ackTimer
      /\ t.ctsTimer = s.ctsTimer /\ t.sendData = s.sendData /\ t.waitSifs = s.waitSifs
      /\ t.hdr = s.hdr /\ t.params = s.params /\ t.pkt = s.pkt /\ t.listener = s.listener
      /\ t.tx = s.tx /\ t.retry = s.retry /\ t.queue = s.queue /\ t.ratio = s.ratio
  BY <1>2 DEF Keeps, Fields
<1>4. Same(s, t)
  BY <1>1, <1>2, <1>3 DEF Same, Keeps
<1>5. Sane(t)
  BY <1>1, <1>4, SameSane
<1>6. Types(n, t) /\ OnePlace(t)
  BY <1>2, <1>3, <1>5 DEF Local, Types, OnePlace
<1>7. Fragment(t) = Fragment(s) /\ IsLastFragment(t) = IsLastFragment(s)
  BY <1>3 DEF Fragment, IsLastFragment
<1>8. Exchange(t) /\ OneDue(t) /\ Frame(n, t)
  BY <1>3, <1>7 DEF Local, Exchange, OneDue, Frame, Open, Awaits, Undue
<1> QED  BY <1>2, <1>3, <1>6, <1>8 DEF Local

\* Data for a group is noted.
LEMMA ReceiveGroupLocal ==
    ASSUME NEW n \in Station, NEW s, Local(n, s), NEW f, f.to = Group,
           NEW t, t = ReceiveData(n, s, f)
    PROVE  /\ Local(n, t) /\ Keeps(s, t, {"got"})
           /\ t.got = s.got \cup {<<f.frag.pid, f.frag.nr>>}
<1>1. DOMAIN s = Fields
  BY DEF Local, Types, Sane
<1>2. t = [s EXCEPT !.got = @ \cup {<<f.frag.pid, f.frag.nr>>}]
  BY StationAssumption DEF ReceiveData
<1>3. Keeps(s, t, {"got"}) /\ t.got = s.got \cup {<<f.frag.pid, f.frag.nr>>}
  BY <1>1, <1>2 DEF Keeps, Fields
<1>4. Keeps(s, t, {"nav", "got", "req"})
  BY <1>3 DEF Keeps
<1> QED  BY <1>3, <1>4, AsideLocal

LEMMA ReceiveOtherLocal ==
    ASSUME NEW n \in Station, NEW s, Local(n, s), NEW f, f.to # Group, f.to # n,
           NEW t, t = ReceiveData(n, s, f)
    PROVE  Local(n, t) /\ Keeps(s, t, {"nav"})
<1>1. t = NotifyNav(n, s, f)
  BY DEF ReceiveData
<1> QED  BY <1>1, NotifyNavLocal

\* Whatever a station receives leaves it as it should be.
LEMMA ReceiveOkLocal ==
    ASSUME NEW n \in Station, NEW s, Local(n, s), s.tx = Silence, Undue(s),
           NEW f, f.from \in Station
    PROVE  Local(n, ReceiveOk(n, s, f))
<1>1. CASE f.type = "rts"
  <2>1. ReceiveOk(n, s, f) = ReceiveRts(n, s, f)
    BY <1>1 DEF ReceiveOk
  <2> QED  BY <2>1, ReceiveRtsLocal
<1>2. CASE f.type = "cts"
  <2>1. ReceiveOk(n, s, f) = ReceiveCts(n, s, f)
    BY <1>2 DEF ReceiveOk
  <2> QED  BY <2>1, ReceiveCtsLocal
<1>3. CASE f.type = "ack"
  <2>1. ReceiveOk(n, s, f) = ReceiveAck(n, s, f)
    BY <1>3 DEF ReceiveOk
  <2> QED  BY <2>1, ReceiveAckLocal
<1>4. CASE f.type \notin {"rts", "cts", "ack"}
  <2>1. ReceiveOk(n, s, f) = ReceiveData(n, s, f)
    BY <1>4 DEF ReceiveOk
  <2>2. CASE f.to = n
    <3>1. ReceiveData(n, s, f) = ReceiveUnicast(n, s, f)
      BY <2>2, StationAssumption DEF ReceiveData
    <3> QED  BY <2>1, <3>1, ReceiveUnicastLocal
  <2>3. CASE f.to = Group
    BY <2>1, <2>3, ReceiveGroupLocal
  <2>4. CASE f.to # n /\ f.to # Group
    BY <2>1, <2>4, ReceiveOtherLocal
  <2> QED  BY <2>2, <2>3, <2>4
<1> QED  BY <1>1, <1>2, <1>3, <1>4

-----------------------------------------------------------------------------
(* What is due is sent.                                                      *)

\* The CTS that is due goes out.
LEMMA SendCtsLocal ==
    ASSUME NEW n \in Station, NEW s, Local(n, s), s.sendCts # None,
           NEW t, t = SendCtsAfterRts(n, s)
    PROVE  /\ Local(n, t) /\ Keeps(s, t, {"abort", "sendCts", "tx"}) /\ s.tx = Silence
           /\ t.tx = [type |-> "cts", to |-> s.sendCts, from |-> n, frag |-> NoFragment]
<1>1. DOMAIN s = Fields /\ Sane(s) /\ ~ s.abort
  BY DEF Local, Types, Sane
<1>2. s.tx = Silence /\ s.sendAck = None /\ ~ s.sendData /\ ~ s.waitSifs /\ s.sendCts \in Station
  BY DEF Local, Types, OneDue
<1>3. /\ Keeps(s, t, {"abort", "sendCts", "tx"}) /\ ~ t.abort /\ t.sendCts = None
      /\ t.tx = [type |-> "cts", to |-> s.sendCts, from |-> n, frag |-> NoFragment]
  BY <1>1, <1>2 DEF Keeps, SendCtsAfterRts, ForwardDown, Assert, Fields
<1>4. /\ t.cur = s.cur /\ t.fragNr = s.fragNr /\ t.ssrc = s.ssrc /\ t.slrc = s.slrc
      /\ t.sendAck = s.sendAck /\ t.ackTimer = s.ackTimer
      /\ t.ctsTimer = s.ctsTimer /\ t.sendData = s.sendData /\ t.waitSifs = s.waitSifs
      /\ t.hdr = s.hdr /\ t.params = s.params /\ t.pkt = s.pkt /\ t.listener = s.listener
      /\ t.retry = s.retry /\ t.queue = s.queue /\ t.ratio = s.ratio
  BY <1>3 DEF Keeps, Fields
<1>5. Sane(t)
  BY <1>1, AnswersSane
<1>6. Types(n, t) /\ OnePlace(t)
  BY <1>3, <1>4, <1>5 DEF Local, Types, OnePlace
<1>7. Fragment(t) = Fragment(s) /\ IsLastFragment(t) = IsLastFragment(s)
  BY <1>4 DEF Fragment, IsLastFragment
<1>8. Exchange(t) /\ OneDue(t) /\ Frame(n, t)
  BY <1>2, <1>3, <1>4, <1>7 DEF Local, Exchange, OneDue, Frame, Open, Awaits
<1>9. ~ (s.cur # None /\ s.cur.to = Group)
  BY <1>2 DEF Local, Silence
<1> QED  BY <1>2, <1>3, <1>4, <1>6, <1>8, <1>9 DEF Local

\* The ack that is due goes out.
LEMMA SendAckLocal ==
    ASSUME NEW n \in Station, NEW s, Local(n, s), s.sendAck # None,
           NEW t, t = SendAckAfterData(n, s)
    PROVE  /\ Local(n, t) /\ Keeps(s, t, {"abort", "sendAck", "tx"}) /\ s.tx = Silence
           /\ t.sendAck = None
           /\ t.tx = [type |-> "ack", to |-> s.sendAck, from |-> n, frag |-> NoFragment]
<1>1. DOMAIN s = Fields /\ Sane(s) /\ ~ s.abort
  BY DEF Local, Types, Sane
<1>2. s.tx = Silence /\ s.sendCts = None /\ ~ s.sendData /\ ~ s.waitSifs /\ s.sendAck \in Station
  BY DEF Local, Types, OneDue
<1>3. /\ Keeps(s, t, {"abort", "sendAck", "tx"}) /\ ~ t.abort /\ t.sendAck = None
      /\ t.tx = [type |-> "ack", to |-> s.sendAck, from |-> n, frag |-> NoFragment]
  BY <1>1, <1>2 DEF Keeps, SendAckAfterData, ForwardDown, Assert, Fields
<1>4. /\ t.cur = s.cur /\ t.fragNr = s.fragNr /\ t.ssrc = s.ssrc /\ t.slrc = s.slrc
      /\ t.sendCts = s.sendCts /\ t.ackTimer = s.ackTimer
      /\ t.ctsTimer = s.ctsTimer /\ t.sendData = s.sendData /\ t.waitSifs = s.waitSifs
      /\ t.hdr = s.hdr /\ t.params = s.params /\ t.pkt = s.pkt /\ t.listener = s.listener
      /\ t.retry = s.retry /\ t.queue = s.queue /\ t.ratio = s.ratio
  BY <1>3 DEF Keeps, Fields
<1>5. Sane(t)
  BY <1>1, AnswersSane
<1>6. Types(n, t) /\ OnePlace(t)
  BY <1>3, <1>4, <1>5 DEF Local, Types, OnePlace
<1>7. Fragment(t) = Fragment(s) /\ IsLastFragment(t) = IsLastFragment(s)
  BY <1>4 DEF Fragment, IsLastFragment
<1>8. Exchange(t) /\ OneDue(t) /\ Frame(n, t)
  BY <1>2, <1>3, <1>4, <1>7 DEF Local, Exchange, OneDue, Frame, Open, Awaits
<1>9. ~ (s.cur # None /\ s.cur.to = Group)
  BY <1>2 DEF Local, Silence
<1> QED  BY <1>2, <1>3, <1>4, <1>6, <1>8, <1>9 DEF Local

\* The data that waited for the CTS is sent, and awaits its ack.
LEMMA SendDataLocal ==
    ASSUME NEW n \in Station, NEW s, Local(n, s), s.sendData,
           NEW t, t = SendDataAfterCts(n, s)
    PROVE  /\ Local(n, t) /\ Keeps(s, t, {"abort", "sendData", "ackTimer", "tx", "pkt"})
           /\ s.tx = Silence /\ ~ s.ackTimer /\ ~ s.ctsTimer
           /\ t.ackTimer /\ ~ t.sendData
           /\ t.tx = [type |-> "data", to |-> s.hdr.to, from |-> n, frag |-> s.hdr]
<1> DEFINE u == Assert([s EXCEPT !.sendData = FALSE], s.pkt)
<1>1. DOMAIN s = Fields /\ Sane(s) /\ ~ s.abort
  BY DEF Local, Types, Sane
<1>2. /\ s.tx = Silence /\ s.sendAck = None /\ s.sendCts = None /\ ~ s.waitSifs
      /\ ~ s.ackTimer /\ ~ s.ctsTimer /\ s.pkt
      /\ s.hdr = Fragment(s) /\ s.cur # None /\ s.cur.to \in Station /\ s.listener
      /\ s.params.ack /\ (s.params.next <=> ~ IsLastFragment(s))
  BY <1>1 DEF Local, OneDue, Exchange, Open, Awaits, Sane, OneAttempt
<1>3. Keeps(s, u, {"sendData", "abort"}) /\ ~ u.abort /\ ~ u.sendData
  BY <1>1, <1>2 DEF Keeps, Assert, Fields
<1> HIDE DEF u
<1>4. DOMAIN u = Fields /\ u.tx = Silence /\ ~ u.ackTimer /\ u.params = s.params /\ u.hdr = s.hdr
  BY <1>2, <1>3 DEF Keeps, Fields
<1>5. u.params.ack
  BY <1>2, <1>4
<1>6. t = SendDataPacket(n, u)
  BY DEF SendDataAfterCts, u
<1>7. /\ Keeps(u, t, {"abort", "ackTimer", "tx", "pkt"}) /\ ~ t.abort
      /\ (t.ackTimer <=> u.params.ack) /\ ~ t.pkt
      /\ t.tx = [type |-> "data", to |-> u.hdr.to, from |-> n, frag |-> u.hdr]
  BY <1>3, <1>4, <1>6, SendDataEffect
<1>8. /\ Keeps(s, t, {"abort", "sendData", "ackTimer", "tx", "pkt"}) /\ ~ t.abort
      /\ t.ackTimer /\ ~ t.pkt /\ ~ t.sendData
      /\ t.tx = [type |-> "data", to |-> s.hdr.to, from |-> n, frag |-> s.hdr]
  BY <1>3, <1>4, <1>5, <1>7 DEF Keeps, Fields
<1>9. /\ t.cur = s.cur /\ t.fragNr = s.fragNr /\ t.ssrc = s.ssrc /\ t.slrc = s.slrc
      /\ t.sendCts = s.sendCts /\ t.sendAck = s.sendAck
      /\ t.ctsTimer = s.ctsTimer /\ t.waitSifs = s.waitSifs
      /\ t.hdr = s.hdr /\ t.params = s.params /\ t.listener = s.listener
      /\ t.retry = s.retry /\ t.queue = s.queue
  BY <1>8 DEF Keeps, Fields
<1>10. Sane(t)
  BY <1>1, SendDataAfterCtsSane
<1>11. Types(n, t) /\ OnePlace(t)
  BY <1>8, <1>9, <1>10 DEF Local, Types, OnePlace
<1>12. Fragment(t) = Fragment(s) /\ IsLastFragment(t) = IsLastFragment(s)
  BY <1>9 DEF Fragment, IsLastFragment
<1>13. Exchange(t) /\ OneDue(t)
  BY <1>2, <1>8, <1>9, <1>12 DEF Local, Exchange, OneDue, Open, Awaits
<1>14. Frame(n, t) /\ s.cur.to # Group
  BY <1>2, <1>8, <1>9, StationAssumption DEF Frame
<1> QED  BY <1>2, <1>8, <1>9, <1>11, <1>13, <1>14 DEF Local

-----------------------------------------------------------------------------
(* What expires.                                                             *)

\* One attempt more, and the counter is reset if that was the last.
LEMMA CountStep ==
    ASSUME NEW c \in Count, NEW max \in Nat \ {0}, \A m \in Station : c[m] < max,
           NEW k \in Station, NEW d, d = [c EXCEPT ![k] = @ + 1]
    PROVE  /\ d \in Count
           /\ d[k] < max => \A m \in Station : d[m] < max
           /\ [d EXCEPT ![k] = 0] \in Count
           /\ \A m \in Station : [d EXCEPT ![k] = 0][m] < max
<1>1. c[k] \in Nat /\ d \in Count
  BY DEF Count
<1>2. \A m \in Station : d[m] = IF m = k THEN c[k] + 1 ELSE c[m]
  BY DEF Count
<1>3. [d EXCEPT ![k] = 0] \in Count
  BY <1>1 DEF Count
<1>4. \A m \in Station : [d EXCEPT ![k] = 0][m] = IF m = k THEN 0 ELSE d[m]
  BY <1>1 DEF Count
<1> QED  BY <1>1, <1>2, <1>3, <1>4

\* The packet is kept or given up.
LEMMA MissedCtsEffect ==
    ASSUME NEW s, DOMAIN s = Fields, NEW t, t = MissedCts(s)
    PROVE  /\ Keeps(s, t, {"ssrc", "failed", "cur", "req"})
           /\ \/ t.cur = s.cur /\ t.ssrc = s.ssrc /\ s.ssrc[s.cur.to] < MaxSsrc
              \/ t.cur = None /\ t.ssrc = [s.ssrc EXCEPT ![s.cur.to] = 0]
<1>1. CASE NeedRtsRetransmission(s)
  <2>1. t = RestartAccessIfNeeded(s)
    BY <1>1 DEF MissedCts
  <2> QED  BY <1>1, <2>1 DEF Keeps, RestartAccessIfNeeded, NeedRtsRetransmission, Fields
<1>2. CASE ~ NeedRtsRetransmission(s)
  <2> DEFINE u == [s EXCEPT !.ssrc[s.cur.to] = 0]
             v == GiveUp(u)
  <2>1. t = RestartAccessIfNeeded(v)
    BY <1>2 DEF MissedCts
  <2>2. Keeps(s, u, {"ssrc"}) /\ u.ssrc = [s.ssrc EXCEPT ![s.cur.to] = 0] /\ DOMAIN u = Fields
    BY DEF Keeps, Fields
  <2> HIDE DEF u
  <2>3. Keeps(s, v, {"ssrc", "failed", "cur"}) /\ v.cur = None /\ v.ssrc = [s.ssrc EXCEPT ![s.cur.to] = 0]
        /\ DOMAIN v = Fields
    BY <2>2 DEF Keeps, GiveUp, Fields
  <2> HIDE DEF v
  <2> QED  BY <2>1, <2>3 DEF Keeps, RestartAccessIfNeeded, Fields
<1> QED  BY <1>1, <1>2

\* The packet is kept and marked, or given up.
LEMMA MissedAckEffect ==
    ASSUME NEW s, DOMAIN s = Fields, NEW t, t = MissedAck(s)
    PROVE  /\ Keeps(s, t, {"slrc", "retry", "failed", "cur", "req"})
           /\ \/ t.cur = s.cur /\ t.retry /\ t.slrc = s.slrc /\ s.slrc[s.cur.to] < MaxSlrc
              \/ t.cur = None /\ t.slrc = [s.slrc EXCEPT ![s.cur.to] = 0]
<1>1. CASE NeedDataRetransmission(s)
  <2>1. t = RestartAccessIfNeeded([s EXCEPT !.retry = TRUE])
    BY <1>1 DEF MissedAck
  <2> QED  BY <1>1, <2>1 DEF Keeps, RestartAccessIfNeeded, NeedDataRetransmission, Fields
<1>2. CASE ~ NeedDataRetransmission(s)
  <2> DEFINE u == [s EXCEPT !.slrc[s.cur.to] = 0]
             v == GiveUp(u)
  <2>1. t = RestartAccessIfNeeded(v)
    BY <1>2 DEF MissedAck
  <2>2. Keeps(s, u, {"slrc"}) /\ u.slrc = [s.slrc EXCEPT ![s.cur.to] = 0] /\ DOMAIN u = Fields
    BY DEF Keeps, Fields
  <2> HIDE DEF u
  <2>3. Keeps(s, v, {"slrc", "failed", "cur"}) /\ v.cur = None /\ v.slrc = [s.slrc EXCEPT ![s.cur.to] = 0]
        /\ DOMAIN v = Fields
    BY <2>2 DEF Keeps, GiveUp, Fields
  <2> HIDE DEF v
  <2> QED  BY <2>1, <2>3 DEF Keeps, RestartAccessIfNeeded, Fields
<1> QED  BY <1>1, <1>2

\* The packet of a station, if any, is none of those it has queued.
LEMMA CurKeptOnePlace ==
    ASSUME NEW n, NEW s, Local(n, s), NEW t, t.queue = s.queue, t.cur = s.cur \/ t.cur = None
    PROVE  OnePlace(t) /\ t.queue \in Seq(Packets) /\ t.cur \in Packets \cup {None}
<1>1. \A i \in 1..Len(s.queue) : s.queue[i] # None
  BY PacketType DEF Local, Types
<1> QED  BY <1>1 DEF Local, Types, OnePlace

\* No CTS came: nothing is under way, and the packet is kept or given up.
LEMMA CtsTimeoutLocal ==
    ASSUME NEW n \in Station, NEW s, Local(n, s), s.ctsTimer, s.tx.type # "rts",
           NEW t, t = CtsTimeout(s)
    PROVE  /\ Local(n, t)
           /\ Keeps(s, t, {"ctsTimer", "ssrc", "pkt", "listener", "failed", "cur", "req"})
           /\ ~ t.ctsTimer /\ (t.cur = s.cur \/ t.cur = None)
<1> DEFINE failed == [s EXCEPT !.ctsTimer = FALSE, !.ssrc[s.hdr.to] = @ + 1, !.pkt = FALSE]
           released == Released(failed)
<1>1. DOMAIN s = Fields /\ Sane(s) /\ ~ s.abort
  BY DEF Local, Types, Sane
<1>2. /\ s.listener /\ s.cur # None /\ s.cur.to \in Station /\ s.hdr = Fragment(s)
      /\ ~ s.ackTimer /\ ~ s.sendData /\ ~ s.waitSifs
  BY <1>1 DEF Local, Exchange, Open, Awaits, Sane, OneAttempt
<1>3. s.hdr.to = s.cur.to /\ s.cur.to # Group
  BY <1>2, StationAssumption DEF Fragment
<1>4. /\ Keeps(s, failed, {"ctsTimer", "ssrc", "pkt"}) /\ ~ failed.ctsTimer /\ ~ failed.pkt
      /\ failed.ssrc = [s.ssrc EXCEPT ![s.cur.to] = @ + 1]
  BY <1>1, <1>3 DEF Keeps, Fields
<1> HIDE DEF failed
<1>5. failed.listener = s.listener /\ failed.cur = s.cur /\ DOMAIN failed = Fields
  BY <1>4 DEF Keeps, Fields
<1>6. t = MissedCts(released)
  BY <1>2, <1>5 DEF CtsTimeout, Call, failed, released
<1>7. /\ Keeps(failed, released, {"listener"}) /\ DOMAIN released = Fields
      /\ released.cur = s.cur /\ released.ssrc = failed.ssrc
  BY <1>5 DEF Keeps, Released, Fields
<1> HIDE DEF released
<1>8. /\ Keeps(released, t, {"ssrc", "failed", "cur", "req"})
      /\ \/ t.cur = s.cur /\ t.ssrc = failed.ssrc /\ failed.ssrc[s.cur.to] < MaxSsrc
         \/ t.cur = None /\ t.ssrc = [failed.ssrc EXCEPT ![s.cur.to] = 0]
  BY <1>6, <1>7, MissedCtsEffect
<1>9. Keeps(s, t, {"ctsTimer", "ssrc", "pkt", "listener", "failed", "cur", "req"})
  BY <1>4, <1>7, <1>8 DEF Keeps
<1>10. ~ t.ctsTimer /\ ~ t.pkt
  BY <1>4, <1>7, <1>8 DEF Keeps, Fields
<1>11. /\ t.fragNr = s.fragNr /\ t.abort = s.abort /\ t.slrc = s.slrc
       /\ t.sendCts = s.sendCts /\ t.sendAck = s.sendAck /\ t.ackTimer = s.ackTimer
       /\ t.sendData = s.sendData /\ t.waitSifs = s.waitSifs
       /\ t.hdr = s.hdr /\ t.params = s.params /\ t.tx = s.tx
       /\ t.retry = s.retry /\ t.queue = s.queue
  BY <1>9 DEF Keeps, Fields
<1>12. Sane(t)
  BY <1>1, CtsTimeoutSane
<1>13. t.ssrc \in Count /\ \A m \in Station : t.ssrc[m] < MaxSsrc
  <2>1. s.ssrc \in Count /\ \A m \in Station : s.ssrc[m] < MaxSsrc
    BY DEF Local, Types
  <2>2. /\ failed.ssrc \in Count
        /\ failed.ssrc[s.cur.to] < MaxSsrc => \A m \in Station : failed.ssrc[m] < MaxSsrc
        /\ [failed.ssrc EXCEPT ![s.cur.to] = 0] \in Count
        /\ \A m \in Station : [failed.ssrc EXCEPT ![s.cur.to] = 0][m] < MaxSsrc
    BY <1>2, <1>4, <2>1, CountStep, RetryAssumption
  <2> QED  BY <1>8, <2>2
<1>14. OnePlace(t) /\ t.queue \in Seq(Packets) /\ t.cur \in Packets \cup {None}
  BY <1>8, <1>11, CurKeptOnePlace
<1>15. Types(n, t)
  BY <1>11, <1>12, <1>13, <1>14 DEF Local, Types
<1>16. ~ Open(t)
  BY <1>2, <1>10, <1>11 DEF Open, Awaits
<1>17. Exchange(t) /\ OneDue(t)
  BY <1>2, <1>8, <1>10, <1>11, <1>16 DEF Local, Exchange, OneDue, Open, Awaits
<1>18. Frame(n, t)
  <2>1. ~ (s.tx.type = "data" /\ s.ackTimer) /\ Open(s)
    BY <1>2 DEF Open, Awaits
  <2> QED  BY <1>11, <2>1 DEF Local, Frame
<1>19. ~ (t.cur # None /\ t.cur.to = Group)
  BY <1>3, <1>8
<1> QED  BY <1>8, <1>9, <1>10, <1>14, <1>15, <1>17, <1>18, <1>19 DEF Local

\* No ack came: nothing is under way, and the packet is marked or given up.
LEMMA AckTimeoutLocal ==
    ASSUME NEW n \in Station, NEW s, Local(n, s), s.ackTimer, s.tx.type # "data",
           NEW t, t = NormalAckTimeout(s)
    PROVE  /\ Local(n, t)
           /\ Keeps(s, t, {"ackTimer", "slrc", "retry", "listener", "failed", "cur", "req"})
           /\ ~ t.ackTimer /\ ((t.cur = s.cur /\ t.retry) \/ t.cur = None)
<1> DEFINE failed == [s EXCEPT !.ackTimer = FALSE, !.slrc[s.hdr.to] = @ + 1]
           released == Released(failed)
<1>1. DOMAIN s = Fields /\ Sane(s) /\ ~ s.abort
  BY DEF Local, Types, Sane
<1>2. /\ s.listener /\ s.cur # None /\ s.cur.to \in Station /\ s.hdr = Fragment(s)
      /\ ~ s.ctsTimer /\ ~ s.sendData /\ ~ s.waitSifs
  BY <1>1 DEF Local, Exchange, Open, Awaits, Sane, OneAttempt
<1>3. s.hdr.to = s.cur.to /\ s.cur.to # Group
  BY <1>2, StationAssumption DEF Fragment
<1>4. /\ Keeps(s, failed, {"ackTimer", "slrc"}) /\ ~ failed.ackTimer
      /\ failed.slrc = [s.slrc EXCEPT ![s.cur.to] = @ + 1]
  BY <1>1, <1>3 DEF Keeps, Fields
<1> HIDE DEF failed
<1>5. failed.listener = s.listener /\ failed.cur = s.cur /\ DOMAIN failed = Fields
  BY <1>4 DEF Keeps, Fields
<1>6. t = MissedAck(released)
  BY <1>2, <1>5 DEF NormalAckTimeout, Call, failed, released
<1>7. /\ Keeps(failed, released, {"listener"}) /\ DOMAIN released = Fields
      /\ released.cur = s.cur /\ released.slrc = failed.slrc
  BY <1>5 DEF Keeps, Released, Fields
<1> HIDE DEF released
<1>8. /\ Keeps(released, t, {"slrc", "retry", "failed", "cur", "req"})
      /\ \/ t.cur = s.cur /\ t.retry /\ t.slrc = failed.slrc /\ failed.slrc[s.cur.to] < MaxSlrc
         \/ t.cur = None /\ t.slrc = [failed.slrc EXCEPT ![s.cur.to] = 0]
  BY <1>6, <1>7, MissedAckEffect
<1>9. Keeps(s, t, {"ackTimer", "slrc", "retry", "listener", "failed", "cur", "req"})
  BY <1>4, <1>7, <1>8 DEF Keeps
<1>10. ~ t.ackTimer
  BY <1>4, <1>7, <1>8 DEF Keeps, Fields
<1>11. /\ t.fragNr = s.fragNr /\ t.abort = s.abort /\ t.ssrc = s.ssrc
       /\ t.sendCts = s.sendCts /\ t.sendAck = s.sendAck /\ t.ctsTimer = s.ctsTimer
       /\ t.sendData = s.sendData /\ t.waitSifs = s.waitSifs
       /\ t.hdr = s.hdr /\ t.params = s.params /\ t.tx = s.tx
       /\ t.pkt = s.pkt /\ t.queue = s.queue
  BY <1>9 DEF Keeps, Fields
<1>12. Sane(t)
  BY <1>1, AckTimeoutSane
<1>13. t.slrc \in Count /\ \A m \in Station : t.slrc[m] < MaxSlrc
  <2>1. s.slrc \in Count /\ \A m \in Station : s.slrc[m] < MaxSlrc
    BY DEF Local, Types
  <2>2. /\ failed.slrc \in Count
        /\ failed.slrc[s.cur.to] < MaxSlrc => \A m \in Station : failed.slrc[m] < MaxSlrc
        /\ [failed.slrc EXCEPT ![s.cur.to] = 0] \in Count
        /\ \A m \in Station : [failed.slrc EXCEPT ![s.cur.to] = 0][m] < MaxSlrc
    BY <1>2, <1>4, <2>1, CountStep, RetryAssumption
  <2> QED  BY <1>8, <2>2
<1>14. OnePlace(t) /\ t.queue \in Seq(Packets) /\ t.cur \in Packets \cup {None}
  BY <1>8, <1>11, CurKeptOnePlace
<1>15. Types(n, t)
  BY <1>11, <1>12, <1>13, <1>14 DEF Local, Types
<1>16. ~ Open(t)
  BY <1>2, <1>10, <1>11 DEF Open, Awaits
<1>17. Exchange(t) /\ OneDue(t)
  BY <1>2, <1>8, <1>10, <1>11, <1>16 DEF Local, Exchange, OneDue, Open, Awaits
<1>18. Frame(n, t)
  <2>1. Open(s)
    BY DEF Open, Awaits
  <2> QED  BY <1>2, <1>11, <2>1 DEF Local, Frame
<1>19. ~ (t.cur # None /\ t.cur.to = Group)
  BY <1>3, <1>8
<1> QED  BY <1>8, <1>9, <1>10, <1>14, <1>15, <1>17, <1>18, <1>19 DEF Local

\* The station sends a packet for a group, which is then done.
Broadcasts(s) ==
    /\ s.tx.type = "data" /\ s.tx.to = Group /\ s.tx.frag = Fragment(s) /\ s.fragNr = 0
    /\ s.cur # None /\ s.cur.to = Group /\ s.listener /\ ~ s.params.ack /\ ~ Open(s)

\* A packet nobody acknowledges is done.
LEMMA EndTxNoAckEffect ==
    ASSUME NEW s, DOMAIN s = Fields, NEW t, t = EndTxNoAck(s)
    PROVE  Keeps(s, t, {"cur", "req"}) /\ t.cur = None
BY DEF Keeps, EndTxNoAck, StartAccessIfNeeded, Fields

\* Only a packet for a group ends with its transmission.
LEMMA TransmissionEndsEffect ==
    ASSUME NEW n \in Station, NEW s, Local(n, s), NEW t, t = TransmissionEnds(s)
    PROVE  /\ t.tx = Silence
           /\ \/ Keeps(s, t, {"tx"}) /\ ~ (s.tx.type = "data" /\ s.tx.to = Group)
              \/ Broadcasts(s) /\ Keeps(s, t, {"tx", "listener", "cur", "req"}) /\ t.cur = None
<1> DEFINE silent == [s EXCEPT !.tx = Silence]
<1>1. DOMAIN s = Fields
  BY DEF Local, Types, Sane
<1>2. Keeps(s, silent, {"tx"}) /\ silent.tx = Silence /\ DOMAIN silent = Fields
  BY <1>1 DEF Keeps, Fields
<1>3. silent.listener = s.listener /\ silent.cur = s.cur
  BY <1>2 DEF Keeps, Fields
<1>4. CASE s.tx.type = "data" /\ s.ackTimer
  <2>1. s.params.ack /\ s.tx.to \in Station
    <3>1. s.hdr = Fragment(s) /\ s.cur.to \in Station /\ s.params.ack
      BY <1>4 DEF Local, Exchange, Open, Awaits
    <3>2. s.tx.to = s.hdr.to
      BY <1>4 DEF Local, Frame, Silence, Open, Awaits
    <3> QED  BY <3>1, <3>2 DEF Fragment
  <2>2. t = silent
    BY <2>1 DEF TransmissionEnds
  <2> QED  BY <1>2, <2>1, <2>2, StationAssumption
<1>5. CASE s.tx.type = "data" /\ ~ s.ackTimer
  <2>1. Broadcasts(s)
    BY <1>5 DEF Local, Frame, Broadcasts, Silence
  <2> DEFINE released == Released(silent)
  <2>2. t = EndTxNoAck(released)
    BY <1>3, <1>5, <2>1 DEF TransmissionEnds, Call, Broadcasts
  <2>3. /\ Keeps(s, released, {"tx", "listener"}) /\ DOMAIN released = Fields
        /\ released.tx = Silence
    BY <1>2 DEF Keeps, Released, Fields
  <2> HIDE DEF released
  <2>4. Keeps(released, t, {"cur", "req"}) /\ t.cur = None
    BY <2>2, <2>3, EndTxNoAckEffect
  <2>5. Keeps(s, t, {"tx", "listener", "cur", "req"}) /\ t.tx = Silence
    BY <2>3, <2>4 DEF Keeps, Fields
  <2> QED  BY <2>1, <2>4, <2>5
<1>6. CASE s.tx.type # "data"
  <2>1. t = silent
    BY <1>6 DEF TransmissionEnds
  <2> QED  BY <1>2, <1>6, <2>1
<1> QED  BY <1>4, <1>5, <1>6

\* A transmission ends.
LEMMA TransmissionEndsLocal ==
    ASSUME NEW n \in Station, NEW s, Local(n, s), NEW t, t = TransmissionEnds(s)
    PROVE  Local(n, t)
<1>0. Sane(s)
  BY DEF Local, Types
<1>1. Sane(t)
  BY <1>0, TransmissionEndsSane
<1>2. t.tx = Silence
  BY TransmissionEndsEffect
<1>3. CASE Keeps(s, t, {"tx"}) /\ ~ (s.tx.type = "data" /\ s.tx.to = Group)
  <2>1. /\ t.cur = s.cur /\ t.fragNr = s.fragNr /\ t.ssrc = s.ssrc /\ t.slrc = s.slrc
        /\ t.sendCts = s.sendCts /\ t.sendAck = s.sendAck /\ t.ackTimer = s.ackTimer
        /\ t.ctsTimer = s.ctsTimer /\ t.sendData = s.sendData /\ t.waitSifs = s.waitSifs
        /\ t.hdr = s.hdr /\ t.params = s.params /\ t.pkt = s.pkt /\ t.listener = s.listener
        /\ t.abort = s.abort /\ t.retry = s.retry /\ t.queue = s.queue
    BY <1>3 DEF Keeps, Fields
  <2>2. Types(n, t) /\ OnePlace(t)
    BY <1>1, <2>1 DEF Local, Types, OnePlace
  <2>3. Fragment(t) = Fragment(s) /\ IsLastFragment(t) = IsLastFragment(s)
    BY <2>1 DEF Fragment, IsLastFragment
  <2>4. Exchange(t) /\ OneDue(t) /\ Frame(n, t)
    BY <1>2, <2>1, <2>3 DEF Local, Exchange, OneDue, Frame, Open, Awaits
  <2>5. ~ (t.cur # None /\ t.cur.to = Group)
    BY <1>2, <1>3, <2>1 DEF Local, Silence
  <2> QED  BY <2>2, <2>4, <2>5 DEF Local
<1>4. CASE Broadcasts(s) /\ Keeps(s, t, {"tx", "listener", "cur", "req"}) /\ t.cur = None
  <2>1. /\ t.fragNr = s.fragNr /\ t.ssrc = s.ssrc /\ t.slrc = s.slrc
        /\ t.sendCts = s.sendCts /\ t.sendAck = s.sendAck /\ t.ackTimer = s.ackTimer
        /\ t.ctsTimer = s.ctsTimer /\ t.sendData = s.sendData /\ t.waitSifs = s.waitSifs
        /\ t.hdr = s.hdr /\ t.params = s.params /\ t.pkt = s.pkt
        /\ t.abort = s.abort /\ t.retry = s.retry /\ t.queue = s.queue
    BY <1>4 DEF Keeps, Fields
  <2>2. OnePlace(t) /\ t.queue \in Seq(Packets) /\ t.cur \in Packets \cup {None}
    BY <1>4, <2>1, CurKeptOnePlace
  <2>3. Types(n, t)
    BY <1>1, <2>1, <2>2 DEF Local, Types
  <2>4. ~ Open(t)
    BY <1>4, <2>1 DEF Broadcasts, Open, Awaits
  <2>5. Exchange(t) /\ OneDue(t) /\ Frame(n, t)
    BY <1>2, <1>4, <2>1, <2>4 DEF Exchange, OneDue, Frame, Open, Awaits, Local
  <2> QED  BY <1>2, <1>4, <2>2, <2>3, <2>5 DEF Local, Silence
<1> QED  BY <1>3, <1>4, TransmissionEndsEffect

\* The station has nothing any more; what was counted and received stays.
LEMMA SwitchEffect ==
    ASSUME NEW s, DOMAIN s = Fields, NEW t, t = NotifySwitchingStartNow(s)
    PROVE  /\ DOMAIN t = Fields /\ t.queue = <<>> /\ t.cur = None
           /\ ~ t.ackTimer /\ ~ t.ctsTimer /\ ~ t.sendData /\ ~ t.waitSifs
           /\ t.sendCts = None /\ t.sendAck = None /\ ~ t.pkt
           /\ t.ssrc = [m \in Station |-> 0] /\ t.slrc = [m \in Station |-> 0]
           /\ t.abort = s.abort /\ t.fragNr = s.fragNr /\ t.tx = s.tx
           /\ t.ratio = s.ratio /\ t.got = s.got /\ t.ok = s.ok
<1> DEFINE u == NotifyChannelSwitching(s)
           v == CancelAllEvents(u)
<1>1. Keeps(s, u, {"queue", "cur", "req"}) /\ u.queue = <<>> /\ u.cur = None /\ DOMAIN u = Fields
  BY DEF Keeps, NotifyChannelSwitching, Fields
<1> HIDE DEF u
<1>2. /\ Keeps(u, v, {"ackTimer", "ctsTimer", "sendData", "waitSifs", "sendCts", "sendAck", "listener"})
      /\ ~ v.ackTimer /\ ~ v.ctsTimer /\ ~ v.sendData
      /\ ~ v.waitSifs /\ v.sendCts = None /\ v.sendAck = None
  BY <1>1, CancelEffect
<1> HIDE DEF v
<1>3. t = [v EXCEPT !.ssrc = [m \in Station |-> 0], !.slrc = [m \in Station |-> 0],
                    !.nav = FALSE, !.pkt = FALSE, !.listener = FALSE]
  BY DEF NotifySwitchingStartNow, v, u
<1>4. /\ v.queue = <<>> /\ v.cur = None /\ v.abort = s.abort /\ v.fragNr = s.fragNr /\ v.tx = s.tx
      /\ v.ratio = s.ratio /\ v.got = s.got /\ v.ok = s.ok /\ DOMAIN v = Fields
  BY <1>1, <1>2 DEF Keeps, Fields
<1>5. Keeps(v, t, {"ssrc", "slrc", "nav", "pkt", "listener"}) /\ ~ t.pkt
      /\ t.ssrc = [m \in Station |-> 0] /\ t.slrc = [m \in Station |-> 0]
  BY <1>3, <1>4 DEF Keeps, Fields
<1> QED  BY <1>2, <1>4, <1>5 DEF Keeps, Fields

\* A station without packets, exchanges or answers.
LEMMA EmptyLocal ==
    ASSUME NEW n \in Station, NEW t, Sane(t), ~ t.abort, t.queue = <<>>, t.cur = None,
           t.fragNr \in Nat, ~ t.ackTimer, ~ t.ctsTimer, ~ t.sendData, ~ t.waitSifs,
           t.sendCts = None, t.sendAck = None, t.tx = Silence,
           t.ssrc = [m \in Station |-> 0], t.slrc = [m \in Station |-> 0]
    PROVE  Local(n, t)
<1>1. t.queue \in Seq(Packets) /\ Len(t.queue) = 0
  OBVIOUS
<1>2. /\ t.ssrc \in Count /\ \A m \in Station : t.ssrc[m] < MaxSsrc
      /\ t.slrc \in Count /\ \A m \in Station : t.slrc[m] < MaxSlrc
  BY RetryAssumption DEF Count
<1>3. Types(n, t) /\ OnePlace(t)
  BY <1>1, <1>2 DEF Types, OnePlace
<1>4. Exchange(t) /\ OneDue(t) /\ Frame(n, t)
  BY DEF Exchange, OneDue, Frame, Open, Awaits
<1> QED  BY <1>3, <1>4 DEF Local, Silence

\* The station changes the channel.
LEMMA SwitchLocal ==
    ASSUME NEW n \in Station, NEW s, Local(n, s), s.tx = Silence,
           NEW t, t = NotifySwitchingStartNow(s)
    PROVE  Local(n, t)
<1>1. Sane(s) /\ DOMAIN s = Fields /\ ~ s.abort /\ s.fragNr \in Nat
  BY DEF Local, Types, Sane
<1>2. Sane(t)
  BY <1>1, SwitchSane
<1>3. /\ t.queue = <<>> /\ t.cur = None
      /\ ~ t.ackTimer /\ ~ t.ctsTimer /\ ~ t.sendData /\ ~ t.waitSifs
      /\ t.sendCts = None /\ t.sendAck = None
      /\ t.ssrc = [m \in Station |-> 0] /\ t.slrc = [m \in Station |-> 0]
      /\ ~ t.abort /\ t.fragNr \in Nat /\ t.tx = Silence
  BY <1>1, SwitchEffect
<1> QED  BY <1>2, <1>3, EmptyLocal

\* A station is as it should be at first.
LEMMA NewStationLocal == ASSUME NEW n \in Station PROVE Local(n, NewStation)
<1> DEFINE t == NewStation
<1>1. /\ ~ t.abort /\ t.queue = <<>> /\ t.cur = None
      /\ t.fragNr \in Nat /\ ~ t.ackTimer /\ ~ t.ctsTimer /\ ~ t.sendData /\ ~ t.waitSifs
      /\ t.sendCts = None /\ t.sendAck = None /\ t.tx = Silence
      /\ t.ssrc = [m \in Station |-> 0] /\ t.slrc = [m \in Station |-> 0]
  BY DEF NewStation
<1> HIDE DEF t
<1>2. Sane(t)
  BY NewStationSane DEF t
<1>3. Local(n, t)
  BY <1>1, <1>2, EmptyLocal
<1> QED  BY <1>3 DEF t

-----------------------------------------------------------------------------
(* All stations *)

\* The packets of station n were handed to it, if given is what was handed to Queue.
Holds(given, n, s) ==
    /\ s.cur # None => [node |-> n, packet |-> s.cur] \in given
    /\ \A i \in 1..Len(s.queue) : [node |-> n, packet |-> s.queue[i]] \in given

\* Who hears a frame does not send.
Hearing ==
    /\ hear \in [Station -> SUBSET Station]
    /\ \A n \in Station : \A m \in hear[n] : m # n /\ Sending(n) /\ ~ Sending(m)

\* An ack from m to n is about the fragment n awaits the ack of.
Match(m, n) ==
    /\ st[n].ackTimer /\ m = st[n].hdr.to
    /\ <<st[n].hdr.pid, st[n].hdr.nr>> \in st[m].got

\* An ack that n can still hear is about the exchange of n, if it has one.
Answers ==
    \A m, n \in Station :
        /\ st[m].sendAck = n /\ ~ Sending(n) /\ Open(st[n]) => Match(m, n)
        /\ st[m].tx.type = "ack" /\ st[m].tx.to = n /\ n \in hear[m] /\ Open(st[n]) => Match(m, n)

\* The fragments that arrived somewhere.
Seen == UNION {st[m].got : m \in Station}

\* Nothing of packet p is among the fragments that arrived.
Unseen(seen, p) == \A k \in 0..p.frags : <<p.pid, k>> \notin seen

\* The fragment of s was not sent to the end since it became the one to send.
Unsent(s) == ~ s.retry /\ ~ s.waitSifs /\ ~ (s.ackTimer /\ s.tx.type # "data")

\* Nothing arrived of what s did not send yet.
Anew(seen, s) ==
    /\ \A i \in 1..Len(s.queue) : Unseen(seen, s.queue[i])
    /\ s.cur # None => \A k \in 0..s.cur.frags : k > s.fragNr => <<s.cur.pid, k>> \notin seen
    /\ s.cur # None /\ Unsent(s) => <<s.cur.pid, s.fragNr>> \notin seen

\* Every station is as it should be, with packets that were handed to it.
Stations == DOMAIN st = Station /\ \A n \in Station : Local(n, st[n]) /\ Holds(offered, n, st[n])

\* Nothing arrived of what was not handed to Queue or not sent yet.
Fresh ==
    /\ \A t \in Traffic \ offered : Unseen(Seen, t.packet)
    /\ \A n \in Station : Anew(Seen, st[n])

\* The invariant: what the stations, the frames on the air and what was
\* received say of each other.
IInv ==
    /\ Stations /\ Hearing /\ Answers /\ Fresh
    /\ offered \subseteq Traffic /\ slot \subseteq Station /\ switched \subseteq Switcher

-----------------------------------------------------------------------------
(* The network: what a step of one station leaves of the invariant.          *)

\* A step that changes station n only.
LEMMA StationsUpdate ==
    ASSUME Stations, NEW n \in Station, NEW t, st' = [st EXCEPT ![n] = t],
           Local(n, t), Holds(offered', n, t), offered \subseteq offered'
    PROVE  Stations'
<1>1. DOMAIN st' = Station /\ st'[n] = t /\ \A m \in Station : m # n => st'[m] = st[m]
  BY DEF Stations
<1>2. ASSUME NEW m \in Station PROVE Local(m, st'[m]) /\ Holds(offered', m, st'[m])
  <2>1. CASE m = n
    BY <1>1, <2>1
  <2>2. CASE m # n
    <3>1. st'[m] = st[m] /\ Local(m, st[m]) /\ Holds(offered, m, st[m])
      BY <1>1, <2>2 DEF Stations
    <3> QED  BY <3>1 DEF Holds
  <2> QED  BY <2>1, <2>2
<1> QED  BY <1>1, <1>2 DEF Stations

\* Who begins to send hears nothing any more.
LEMMA HearingUpdate ==
    ASSUME Stations, Hearing, NEW n \in Station, NEW t, Update(n, t),
           Sending(n) => t.tx # Silence
    PROVE  Hearing'
<1>1. st'[n] = t /\ \A m \in Station : m # n => st'[m] = st[m]
  BY DEF Stations, Update
<1>2. CASE Sending(n) \/ t.tx = Silence
  <2>1. hear' = hear /\ \A m \in Station : Sending(m)' <=> Sending(m)
    BY <1>1, <1>2 DEF Update, Sending
  <2> QED  BY <2>1 DEF Hearing
<1>3. CASE ~ Sending(n) /\ t.tx # Silence
  <2>1. hear' = [k \in Station |-> IF k = n THEN Hearers(n) ELSE hear[k] \ {n}]
    BY <1>3 DEF Update
  <2>2. hear' \in [Station -> SUBSET Station]
    BY <2>1 DEF Hearing, Hearers
  <2>3. ASSUME NEW k \in Station, NEW m \in hear'[k] PROVE m # k /\ Sending(k)' /\ ~ Sending(m)'
    <3>1. CASE k = n
      BY <1>1, <1>3, <2>1, <2>3, <3>1 DEF Hearers, Sending
    <3>2. CASE k # n
      BY <1>1, <2>1, <2>3, <3>2 DEF Hearing, Sending
    <3> QED  BY <3>1, <3>2
  <2> QED  BY <2>2, <2>3 DEF Hearing
<1> QED  BY <1>2, <1>3

\* Acks keep their meaning if nothing begins to be sent or awaited.
LEMMA AnswersKept ==
    ASSUME Stations, Answers, NEW n \in Station, NEW t, st' = [st EXCEPT ![n] = t],
           \A k \in Station : hear'[k] \subseteq hear[k],
           t.tx = st[n].tx, t.sendAck \in {st[n].sendAck, None}, st[n].got \subseteq t.got,
           Open(t) => Open(st[n]) /\ (st[n].ackTimer => t.ackTimer) /\ t.hdr = st[n].hdr
    PROVE  Answers'
<1>1. st'[n] = t /\ \A m \in Station : m # n => st'[m] = st[m]
  BY DEF Stations
<1>2. ASSUME NEW m \in Station, NEW k \in Station, Open(st'[k])
      PROVE  Open(st[k]) /\ (Match(m, k) => Match(m, k)')
  BY <1>1, <1>2 DEF Match
<1>3. ASSUME NEW m \in Station PROVE st'[m].tx = st[m].tx /\ st'[m].sendAck \in {st[m].sendAck, None}
  BY <1>1
<1>4. \A k \in Station : k # None
  BY StationAssumption
<1>5. ASSUME NEW m \in Station, NEW k \in Station,
             st'[m].sendAck = k, ~ Sending(k)', Open(st'[k])
      PROVE  Match(m, k)'
  <2>1. st[m].sendAck = k /\ ~ Sending(k)
    BY <1>3, <1>4, <1>5 DEF Sending
  <2> QED  BY <1>2, <1>5, <2>1 DEF Answers
<1>6. ASSUME NEW m \in Station, NEW k \in Station,
             st'[m].tx.type = "ack", st'[m].tx.to = k, k \in hear'[m], Open(st'[k])
      PROVE  Match(m, k)'
  <2>1. st[m].tx.type = "ack" /\ st[m].tx.to = k /\ k \in hear[m]
    BY <1>3, <1>6
  <2> QED  BY <1>2, <1>6, <2>1 DEF Answers
<1> QED  BY <1>5, <1>6 DEF Answers

\* Who begins to send hears no ack; the ack that was due goes to who awaits it.
LEMMA AnswersStart ==
    ASSUME Stations, Answers, NEW n \in Station, NEW t, Update(n, t),
           ~ Sending(n), t.tx # Silence, t.sendAck \in {st[n].sendAck, None},
           t.tx.type = "ack" => t.tx.to = st[n].sendAck, t.got = st[n].got
    PROVE  Answers'
<1>1. st'[n] = t /\ \A m \in Station : m # n => st'[m] = st[m]
  BY DEF Stations, Update
<1>2. hear' = [k \in Station |-> IF k = n THEN Hearers(n) ELSE hear[k] \ {n}]
  BY DEF Update
<1>3. Sending(n)' /\ \A k \in Station : n \notin hear'[k]
  BY <1>1, <1>2 DEF Sending, Hearers
<1>4. ASSUME NEW m \in Station, NEW k \in Station, k # n, Match(m, k) PROVE Match(m, k)'
  BY <1>1, <1>4 DEF Match
<1>5. ASSUME NEW m \in Station, NEW k \in Station,
             st'[m].sendAck = k, ~ Sending(k)', Open(st'[k])
      PROVE  Match(m, k)'
  <2>1. k # n /\ st'[k] = st[k] /\ ~ Sending(k) /\ k # None
    BY <1>1, <1>3, <1>5, StationAssumption DEF Sending
  <2>2. st[m].sendAck = k
    BY <1>1, <1>5, <2>1
  <2> QED  BY <1>4, <1>5, <2>1, <2>2 DEF Answers
<1>6. ASSUME NEW m \in Station, NEW k \in Station,
             st'[m].tx.type = "ack", st'[m].tx.to = k, k \in hear'[m], Open(st'[k])
      PROVE  Match(m, k)'
  <2>1. k # n /\ st'[k] = st[k]
    BY <1>1, <1>3, <1>6
  <2>2. CASE m = n
    <3>1. st[n].sendAck = k /\ ~ Sending(k)
      BY <1>1, <1>2, <1>6, <2>2 DEF Hearers
    <3> QED  BY <1>4, <1>6, <2>1, <2>2, <3>1 DEF Answers
  <2>3. CASE m # n
    <3>1. st'[m] = st[m] /\ k \in hear[m]
      BY <1>1, <1>2, <1>6, <2>3
    <3> QED  BY <1>4, <1>6, <2>1, <3>1 DEF Answers
  <2> QED  BY <2>2, <2>3
<1> QED  BY <1>5, <1>6 DEF Answers

\* A step at which nothing arrives.
LEMMA FreshUpdate ==
    ASSUME Stations, Fresh, NEW n \in Station, NEW t, st' = [st EXCEPT ![n] = t],
           t.got = st[n].got, offered \subseteq offered', Anew(Seen, t)
    PROVE  Fresh'
<1>1. st'[n] = t /\ \A m \in Station : m # n => st'[m] = st[m]
  BY DEF Stations
<1>2. \A m \in Station : st'[m].got = st[m].got
  BY <1>1
<1>3. Seen' = Seen
  BY <1>2 DEF Seen
<1>4. \A m \in Station : Anew(Seen, st'[m])
  BY <1>1 DEF Fresh
<1>5. \A u \in Traffic \ offered' : Unseen(Seen, u.packet)
  BY DEF Fresh
<1> QED  BY <1>3, <1>4, <1>5 DEF Fresh

\* A step of station n that sends nothing.
LEMMA QuietStep ==
    ASSUME IInv, NEW n \in Station, NEW t, Update(n, t),
           Local(n, t), Holds(offered', n, t), Anew(Seen, t),
           t.tx = st[n].tx, t.sendAck = st[n].sendAck, t.got = st[n].got,
           Open(t) => Open(st[n]) /\ (st[n].ackTimer => t.ackTimer) /\ t.hdr = st[n].hdr,
           offered \subseteq offered', offered' \subseteq Traffic,
           slot' \subseteq Station, switched' = switched
    PROVE  IInv'
<1>1. hear' = hear
  BY DEF Update, Sending
<1>2. st' = [st EXCEPT ![n] = t]
  BY DEF Update
<1>3. Stations /\ Hearing /\ Answers /\ Fresh /\ switched \subseteq Switcher
  BY DEF IInv
<1>4. Stations'
  BY <1>2, <1>3, StationsUpdate
<1>5. Hearing'
  BY <1>3, HearingUpdate DEF Sending
<1>6. Answers'
  BY <1>1, <1>2, <1>3, AnswersKept
<1>7. Fresh'
  BY <1>2, <1>3, FreshUpdate
<1> QED  BY <1>3, <1>4, <1>5, <1>6, <1>7 DEF IInv

\* A step of station n that begins to send.
LEMMA StartStep ==
    ASSUME IInv, NEW n \in Station, NEW t, Update(n, t),
           Local(n, t), Holds(offered, n, t), Anew(Seen, t),
           ~ Sending(n), t.tx # Silence, t.sendAck \in {st[n].sendAck, None},
           t.tx.type = "ack" => t.tx.to = st[n].sendAck, t.got = st[n].got,
           offered' = offered, slot' \subseteq Station, switched' = switched
    PROVE  IInv'
<1>2. st' = [st EXCEPT ![n] = t]
  BY DEF Update
<1>3. Stations /\ Hearing /\ Answers /\ Fresh /\ switched \subseteq Switcher /\ offered \subseteq Traffic
  BY DEF IInv
<1>4. Stations'
  BY <1>2, <1>3, StationsUpdate
<1>5. Hearing'
  BY <1>3, HearingUpdate
<1>6. Answers'
  BY <1>3, AnswersStart
<1>7. Fresh'
  BY <1>2, <1>3, FreshUpdate
<1> QED  BY <1>3, <1>4, <1>5, <1>6, <1>7 DEF IInv

-----------------------------------------------------------------------------
(* One lemma for each action.                                                *)

\* What the invariant says of one station.
LEMMA StationAt ==
    ASSUME IInv, NEW n \in Station
    PROVE  Local(n, st[n]) /\ Holds(offered, n, st[n]) /\ Anew(Seen, st[n])
BY DEF IInv, Stations, Fresh

\* The station keeps its packets, but may drop the first.
LEMMA PacketsKept ==
    ASSUME NEW n, NEW s, NEW t, NEW given, NEW seen, Holds(given, n, s), Anew(seen, s),
           t.queue = s.queue,
           t.cur = None \/ (t.cur = s.cur /\ t.fragNr = s.fragNr /\ (Unsent(t) => Unsent(s)))
    PROVE  Holds(given, n, t) /\ Anew(seen, t)
<1>1. Holds(given, n, t)
  BY DEF Holds
<1>2. Anew(seen, t)
  BY DEF Anew
<1> QED  BY <1>1, <1>2

\* The packet that is handed to Queue is at no other place and nothing of it
\* arrived.
LEMMA OfferInv == ASSUME IInv, NEW u \in Traffic, Offer(u) PROVE IInv'
<1> DEFINE n == u.node
           p == u.packet
           s == st[n]
           t == Queue(s, p)
<1>1. /\ u = [node |-> n, packet |-> p] /\ n \in Station /\ u \notin offered /\ p \in Packets
  BY TrafficAssumption DEF Offer, Packets
<1>2. Local(n, s) /\ Holds(offered, n, s) /\ Anew(Seen, s)
  BY <1>1, StationAt
<1>3. DOMAIN s = Fields
  BY <1>2 DEF Local, Types, Sane
<1>4. Keeps(s, t, {"queue", "req"}) /\ t.queue = Append(s.queue, p)
  BY <1>3, QueueEffect
<1>5. p # s.cur /\ \A i \in 1..Len(s.queue) : s.queue[i] # p
  <2>1. p # None
    BY <1>1, PacketType
  <2> QED  BY <1>1, <1>2, <2>1 DEF Holds
<1>6. Local(n, t)
  BY <1>1, <1>2, <1>5, QueueLocal
<1>7. Update(n, t) /\ offered' = offered \cup {u} /\ slot' = {} /\ switched' = switched
  BY DEF Offer
<1> HIDE DEF t
<1>8. /\ t.tx = s.tx /\ t.sendAck = s.sendAck /\ t.got = s.got /\ t.ackTimer = s.ackTimer
      /\ t.ctsTimer = s.ctsTimer /\ t.sendData = s.sendData /\ t.waitSifs = s.waitSifs
      /\ t.hdr = s.hdr /\ t.cur = s.cur /\ t.fragNr = s.fragNr /\ t.retry = s.retry
  BY <1>4 DEF Keeps, Fields
<1>9. \A i \in 1..Len(t.queue) :
        (i \in 1..Len(s.queue) /\ t.queue[i] = s.queue[i]) \/ t.queue[i] = p
  BY <1>2, <1>4 DEF Local, Types
<1>10. Holds(offered', n, t)
  BY <1>1, <1>2, <1>7, <1>8, <1>9 DEF Holds
<1>11. Unseen(Seen, p)
  BY <1>1 DEF IInv, Fresh
<1>12. Anew(Seen, t)
  <2>1. Unsent(t) <=> Unsent(s)
    BY <1>8 DEF Unsent
  <2>2. \A i \in 1..Len(t.queue) : Unseen(Seen, t.queue[i])
    BY <1>2, <1>9, <1>11 DEF Anew
  <2> QED  BY <1>2, <1>8, <2>1, <2>2 DEF Anew
<1>13. Open(t) => Open(s) /\ (s.ackTimer => t.ackTimer) /\ t.hdr = s.hdr
  BY <1>8 DEF Open, Awaits
<1>14. offered \subseteq offered' /\ offered' \subseteq Traffic /\ slot' \subseteq Station
  BY <1>7 DEF IInv
<1> QED  BY <1>1, <1>6, <1>7, <1>8, <1>10, <1>12, <1>13, <1>14, QuietStep

\* What begins to send is not silent.
LEMMA OpensNoise == ASSUME NEW n \in Station, NEW t, Opens(n, t) PROVE t.tx # Silence /\ t.tx.type # "ack"
BY StationAssumption DEF Opens, Silence

\* The station that gets access takes a packet it was handed and sends a
\* fragment anew or marked.
LEMMA GrantInv == ASSUME IInv, NEW n \in Station, Grant(n) PROVE IInv'
<1> DEFINE s == st[n]
           t == NotifyAccessGranted(n, s)
<1>1. Local(n, s) /\ Holds(offered, n, s) /\ Anew(Seen, s)
  BY StationAt
<1>2. /\ s.tx = Silence /\ ~ s.waitSifs /\ ~ s.ackTimer /\ s.sendAck = None
      /\ Update(n, t) /\ slot' = slot \cup {n} /\ offered' = offered /\ switched' = switched
      /\ slot' \subseteq Station
  BY DEF Grant, MayGrant, Due, Sending, IInv
<1>3. DOMAIN s = Fields /\ Types(n, s)
  BY <1>1 DEF Local, Types, Sane
<1>4. CASE s.cur = None /\ s.queue = <<>>
  <2>1. Keeps(s, t, {"req"})
    BY <1>3, <1>4, GrantIdle
  <2>2. Local(n, t)
    <3>1. Keeps(s, t, {"nav", "got", "req"})
      BY <2>1 DEF Keeps
    <3> HIDE DEF t
    <3> QED  BY <1>1, <3>1, AsideLocal
  <2> HIDE DEF t
  <2>3. /\ t.tx = s.tx /\ t.sendAck = s.sendAck /\ t.got = s.got /\ t.ackTimer = s.ackTimer
        /\ t.ctsTimer = s.ctsTimer /\ t.sendData = s.sendData /\ t.waitSifs = s.waitSifs
        /\ t.hdr = s.hdr /\ t.cur = s.cur /\ t.queue = s.queue
    BY <2>1 DEF Keeps, Fields
  <2>4. Holds(offered, n, t) /\ Anew(Seen, t)
    BY <1>1, <1>4, <2>3, PacketsKept
  <2>5. Open(t) => Open(s) /\ (s.ackTimer => t.ackTimer) /\ t.hdr = s.hdr
    BY <2>3 DEF Open, Awaits
  <2>6. offered \subseteq offered' /\ offered' \subseteq Traffic
    BY <1>2 DEF IInv
  <2> QED  BY <1>2, <2>2, <2>3, <2>4, <2>5, <2>6, QuietStep
<1>5. CASE s.cur # None \/ s.queue # <<>>
  <2>1. Local(n, t)
    BY <1>1, <1>2, <1>5, GrantLocal
  <2>2. Keeps(s, t, SendFields \cup QueueFields \cup {"req"}) /\ Opens(n, t) /\ t.cur \in Packets
    BY <1>2, <1>3, <1>5, GrantEffect
  <2>3. s.cur # None => /\ t.cur = s.cur /\ t.queue = s.queue
                        /\ t.retry = s.retry /\ t.fragNr = s.fragNr
    BY <1>2, <1>3, GrantEffect
  <2>4. s.cur = None => /\ t.cur = Head(s.queue) /\ t.queue = Tail(s.queue) /\ t.fragNr = 0
    BY <1>2, <1>3, <1>5, GrantEffect
  <2> HIDE DEF t
  <2>5. t.got = s.got /\ t.sendAck = None /\ t.tx # Silence /\ t.tx.type # "ack"
    BY <2>2, OpensNoise DEF Keeps, SendFields, QueueFields, Fields, Opens
  <2>6. Holds(offered, n, t) /\ Anew(Seen, t)
    <3>1. CASE s.cur # None
      <4>1. Unsent(t) => Unsent(s)
        BY <1>2, <2>3, <3>1 DEF Unsent
      <4> QED  BY <1>1, <2>3, <3>1, <4>1, PacketsKept
    <3>2. CASE s.cur = None
      <4>1. s.queue \in Seq(Packets) /\ s.queue # <<>>
        BY <1>3, <1>5, <3>2 DEF Types
      <4>2. 1 \in 1..Len(s.queue) /\ t.cur = s.queue[1]
        BY <2>4, <3>2, <4>1
      <4>3. \A i \in 1..Len(t.queue) : i + 1 \in 1..Len(s.queue) /\ t.queue[i] = s.queue[i + 1]
        <5>1. \A i \in 1..Len(Tail(s.queue)) : /\ i + 1 \in 1..Len(s.queue)
                                              /\ Tail(s.queue)[i] = s.queue[i + 1]
          BY <4>1
        <5> QED  BY <2>4, <3>2, <5>1
      <4>4. Holds(offered, n, t)
        BY <1>1, <4>2, <4>3 DEF Holds
      <4>5. Unseen(Seen, t.cur) /\ \A i \in 1..Len(t.queue) : Unseen(Seen, t.queue[i])
        BY <1>1, <4>2, <4>3 DEF Anew
      <4>6. t.cur.frags \in Nat /\ t.fragNr = 0
        BY <2>2, <2>4, <3>2, PacketType
      <4>7. Anew(Seen, t)
        BY <4>5, <4>6 DEF Anew, Unseen
      <4> QED  BY <4>4, <4>7
    <3> QED  BY <3>1, <3>2
  <2>7. ~ Sending(n) /\ t.sendAck \in {st[n].sendAck, None} /\ t.got = st[n].got
    BY <1>2, <2>5 DEF Sending
  <2> QED  BY <1>2, <2>1, <2>5, <2>6, <2>7, StartStep
<1> QED  BY <1>4, <1>5

\* Nothing arrived of the next fragment.
LEMMA NextFragmentInv == ASSUME IInv, NEW n \in Station, NextFragment(n) PROVE IInv'
<1> DEFINE s == st[n]
           t == WaitSifsAfterEndTx(n, s)
<1>1. Local(n, s) /\ Holds(offered, n, s) /\ Anew(Seen, s)
  BY StationAt
<1>2. /\ s.waitSifs /\ Update(n, t) /\ slot' = {} /\ offered' = offered /\ switched' = switched
  BY DEF NextFragment, Event
<1>3. Local(n, t)
  BY <1>1, <1>2, WaitSifsLocal
<1>4. Types(n, s) /\ s.tx = Silence /\ s.listener /\ s.cur # None /\ s.cur.to \in Station
  BY <1>1, <1>2 DEF Local, OneDue, Exchange, Open
<1>5. Keeps(s, t, SendFields \cup {"fragNr"}) /\ Opens(n, t) /\ t.fragNr = s.fragNr + 1
  <2>1. t = WaitSifsAfterEndTx(n, s)
    OBVIOUS
  <2> HIDE DEF t
  <2> QED  BY ONLY <1>4, <2>1, WaitSifsEffect
<1> HIDE DEF t
<1>6. /\ t.got = s.got /\ t.sendAck = None /\ t.tx # Silence /\ t.tx.type # "ack"
      /\ t.cur = s.cur /\ t.queue = s.queue
  BY <1>5, OpensNoise DEF Keeps, SendFields, Fields, Opens
<1>7. Holds(offered, n, t)
  BY <1>1, <1>6 DEF Holds
<1>8. Anew(Seen, t)
  <2>1. s.fragNr \in Nat /\ s.fragNr < s.cur.frags /\ s.cur.frags \in Nat
    <3>1. s.cur \in Packets /\ s.fragNr \in Nat
      BY <1>4 DEF Types
    <3> QED  BY <1>1, <1>4, <3>1, PacketType DEF Local, Exchange
  <2>2. \A k \in 0..t.cur.frags : k > t.fragNr => k > s.fragNr
    BY <1>5, <1>6, <2>1
  <2>3. t.fragNr \in 0..s.cur.frags /\ t.fragNr > s.fragNr
    BY <1>5, <2>1
  <2> QED  BY <1>1, <1>4, <1>6, <2>2, <2>3 DEF Anew
<1>9. ~ Sending(n) /\ slot' \subseteq Station
  BY <1>2, <1>4 DEF Sending
<1> QED  BY <1>2, <1>3, <1>6, <1>7, <1>8, <1>9, StartStep

\* A CTS goes out.
LEMMA SendCtsInv == ASSUME IInv, NEW n \in Station, SendCts(n) PROVE IInv'
<1> DEFINE s == st[n]
           t == SendCtsAfterRts(n, s)
<1>1. Local(n, s) /\ Holds(offered, n, s) /\ Anew(Seen, s)
  BY StationAt
<1>2. s.sendCts # None /\ Update(n, t) /\ slot' = {} /\ offered' = offered /\ switched' = switched
  BY DEF SendCts, Event
<1>3. /\ Local(n, t) /\ Keeps(s, t, {"abort", "sendCts", "tx"}) /\ s.tx = Silence
      /\ t.tx = [type |-> "cts", to |-> s.sendCts, from |-> n, frag |-> NoFragment]
  BY <1>1, <1>2, SendCtsLocal
<1> HIDE DEF t
<1>4. /\ t.got = s.got /\ t.sendAck = s.sendAck /\ t.queue = s.queue /\ t.cur = s.cur
      /\ t.fragNr = s.fragNr /\ t.retry = s.retry /\ t.waitSifs = s.waitSifs /\ t.ackTimer = s.ackTimer
  BY <1>3 DEF Keeps, Fields
<1>5. t.tx.type = "cts" /\ t.tx # Silence /\ (Unsent(t) => Unsent(s)) /\ ~ Sending(n)
  BY <1>3, <1>4 DEF Unsent, Silence, Sending
<1>6. Holds(offered, n, t) /\ Anew(Seen, t)
  BY <1>1, <1>4, <1>5, PacketsKept
<1>7. slot' \subseteq Station
  BY <1>2
<1> QED  BY <1>2, <1>3, <1>4, <1>5, <1>6, <1>7, StartStep

\* The ack that was due is on the air.
LEMMA SendAckInv == ASSUME IInv, NEW n \in Station, SendAck(n) PROVE IInv'
<1> DEFINE s == st[n]
           t == SendAckAfterData(n, s)
<1>1. Local(n, s) /\ Holds(offered, n, s) /\ Anew(Seen, s)
  BY StationAt
<1>2. s.sendAck # None /\ Update(n, t) /\ slot' = {} /\ offered' = offered /\ switched' = switched
  BY DEF SendAck, Event
<1>3. /\ Local(n, t) /\ Keeps(s, t, {"abort", "sendAck", "tx"}) /\ s.tx = Silence /\ t.sendAck = None
      /\ t.tx = [type |-> "ack", to |-> s.sendAck, from |-> n, frag |-> NoFragment]
  BY <1>1, <1>2, SendAckLocal
<1> HIDE DEF t
<1>4. /\ t.got = s.got /\ t.queue = s.queue /\ t.cur = s.cur
      /\ t.fragNr = s.fragNr /\ t.retry = s.retry /\ t.waitSifs = s.waitSifs /\ t.ackTimer = s.ackTimer
  BY <1>3 DEF Keeps, Fields
<1>5. /\ t.tx.type = "ack" /\ t.tx.to = s.sendAck /\ t.tx # Silence
      /\ (Unsent(t) => Unsent(s)) /\ ~ Sending(n)
  BY <1>3, <1>4 DEF Unsent, Silence, Sending
<1>6. Holds(offered, n, t) /\ Anew(Seen, t)
  BY <1>1, <1>4, <1>5, PacketsKept
<1>7. slot' \subseteq Station
  BY <1>2
<1> QED  BY <1>2, <1>3, <1>4, <1>5, <1>6, <1>7, StartStep

\* The data the CTS was for goes out.
LEMMA SendDataInv == ASSUME IInv, NEW n \in Station, SendData(n) PROVE IInv'
<1> DEFINE s == st[n]
           t == SendDataAfterCts(n, s)
<1>1. Local(n, s) /\ Holds(offered, n, s) /\ Anew(Seen, s)
  BY StationAt
<1>2. s.sendData /\ Update(n, t) /\ slot' = {} /\ offered' = offered /\ switched' = switched
  BY DEF SendData, Event
<1>3. /\ Local(n, t) /\ Keeps(s, t, {"abort", "sendData", "ackTimer", "tx", "pkt"})
      /\ s.tx = Silence /\ ~ s.ackTimer
      /\ t.tx = [type |-> "data", to |-> s.hdr.to, from |-> n, frag |-> s.hdr]
  BY <1>1, <1>2, SendDataLocal
<1> HIDE DEF t
<1>4. /\ t.got = s.got /\ t.sendAck = s.sendAck /\ t.queue = s.queue /\ t.cur = s.cur
      /\ t.fragNr = s.fragNr /\ t.retry = s.retry /\ t.waitSifs = s.waitSifs
  BY <1>3 DEF Keeps, Fields
<1>5. t.tx.type = "data" /\ t.tx # Silence /\ (Unsent(t) => Unsent(s)) /\ ~ Sending(n)
  BY <1>3, <1>4 DEF Unsent, Silence, Sending
<1>6. Holds(offered, n, t) /\ Anew(Seen, t)
  BY <1>1, <1>4, <1>5, PacketsKept
<1>7. slot' \subseteq Station
  BY <1>2
<1> QED  BY <1>2, <1>3, <1>4, <1>5, <1>6, <1>7, StartStep

\* The packet is kept or given up; nothing of it was sent.
LEMMA MissCtsInv == ASSUME IInv, NEW n \in Station, MissCts(n) PROVE IInv'
<1> DEFINE s == st[n]
           t == CtsTimeout(s)
<1>1. Local(n, s) /\ Holds(offered, n, s) /\ Anew(Seen, s)
  BY StationAt
<1>2. /\ s.ctsTimer /\ s.tx.type # "rts"
      /\ Update(n, t) /\ slot' = {} /\ offered' = offered /\ switched' = switched
  BY DEF MissCts, MayMissCts, Event
<1>3. /\ Local(n, t) /\ ~ t.ctsTimer /\ (t.cur = s.cur \/ t.cur = None)
      /\ Keeps(s, t, {"ctsTimer", "ssrc", "pkt", "listener", "failed", "cur", "req"})
  BY <1>1, <1>2, CtsTimeoutLocal
<1> HIDE DEF t
<1>4. /\ t.got = s.got /\ t.sendAck = s.sendAck /\ t.queue = s.queue /\ t.tx = s.tx /\ t.hdr = s.hdr
      /\ t.fragNr = s.fragNr /\ t.retry = s.retry /\ t.waitSifs = s.waitSifs /\ t.ackTimer = s.ackTimer
      /\ t.sendData = s.sendData
  BY <1>3 DEF Keeps, Fields
<1>5. Unsent(t) => Unsent(s)
  BY <1>4 DEF Unsent
<1>6. Holds(offered, n, t) /\ Anew(Seen, t)
  BY <1>1, <1>3, <1>4, <1>5, PacketsKept
<1>7. Open(t) => Open(s) /\ (s.ackTimer => t.ackTimer) /\ t.hdr = s.hdr
  BY <1>3, <1>4 DEF Open, Awaits
<1>8. slot' \subseteq Station /\ offered \subseteq offered' /\ offered' \subseteq Traffic
  BY <1>2 DEF IInv
<1> QED  BY <1>2, <1>3, <1>4, <1>6, <1>7, <1>8, QuietStep

\* The fragment that may have arrived is marked or given up.
LEMMA MissAckInv == ASSUME IInv, NEW n \in Station, MissAck(n) PROVE IInv'
<1> DEFINE s == st[n]
           t == NormalAckTimeout(s)
<1>1. Local(n, s) /\ Holds(offered, n, s) /\ Anew(Seen, s)
  BY StationAt
<1>2. /\ s.ackTimer /\ s.tx.type # "data"
      /\ Update(n, t) /\ slot' = {} /\ offered' = offered /\ switched' = switched
  BY DEF MissAck, MayMissAck, Event
<1>3. /\ Local(n, t) /\ ~ t.ackTimer /\ ((t.cur = s.cur /\ t.retry) \/ t.cur = None)
      /\ Keeps(s, t, {"ackTimer", "slrc", "retry", "listener", "failed", "cur", "req"})
  BY <1>1, <1>2, AckTimeoutLocal
<1> HIDE DEF t
<1>4. /\ t.got = s.got /\ t.sendAck = s.sendAck /\ t.queue = s.queue /\ t.tx = s.tx /\ t.hdr = s.hdr
      /\ t.fragNr = s.fragNr /\ t.waitSifs = s.waitSifs /\ t.ctsTimer = s.ctsTimer
      /\ t.sendData = s.sendData
  BY <1>3 DEF Keeps, Fields
<1>5. t.cur = None \/ (t.cur = s.cur /\ t.fragNr = s.fragNr /\ (Unsent(t) => Unsent(s)))
  BY <1>3, <1>4 DEF Unsent
<1>6. Holds(offered, n, t) /\ Anew(Seen, t)
  BY <1>1, <1>4, <1>5, PacketsKept
<1>7. ~ Open(t)
  <2>1. ~ s.ctsTimer /\ ~ s.sendData /\ ~ s.waitSifs
    BY <1>1, <1>2 DEF Local, Types, Sane, OneAttempt, Exchange, Awaits
  <2> QED  BY <1>3, <1>4, <2>1 DEF Open, Awaits
<1>8. slot' \subseteq Station /\ offered \subseteq offered' /\ offered' \subseteq Traffic
  BY <1>2 DEF IInv
<1> QED  BY <1>2, <1>3, <1>4, <1>6, <1>7, <1>8, QuietStep

\* The NAV is of no concern.
LEMMA NavEndInv == ASSUME IInv, NEW n \in Station, NavEnd(n) PROVE IInv'
<1> DEFINE s == st[n]
           t == [s EXCEPT !.nav = FALSE]
<1>1. Local(n, s) /\ Holds(offered, n, s) /\ Anew(Seen, s)
  BY StationAt
<1>2. Update(n, t) /\ slot' = {} /\ offered' = offered /\ switched' = switched
  BY DEF NavEnd, Event
<1>3. DOMAIN s = Fields
  BY <1>1 DEF Local, Types, Sane
<1>4. Keeps(s, t, {"nav", "got", "req"}) /\ t.got = s.got
  BY <1>3 DEF Keeps, Fields
<1> HIDE DEF t
<1>5. Local(n, t)
  BY <1>1, <1>4, AsideLocal
<1>6. /\ t.sendAck = s.sendAck /\ t.queue = s.queue /\ t.tx = s.tx /\ t.hdr = s.hdr /\ t.cur = s.cur
      /\ t.fragNr = s.fragNr /\ t.retry = s.retry /\ t.waitSifs = s.waitSifs /\ t.ackTimer = s.ackTimer
      /\ t.sendData = s.sendData /\ t.ctsTimer = s.ctsTimer
  BY <1>4 DEF Keeps, Fields
<1>7. Unsent(t) => Unsent(s)
  BY <1>6 DEF Unsent
<1>8. Holds(offered, n, t) /\ Anew(Seen, t)
  BY <1>1, <1>6, <1>7, PacketsKept
<1>9. Open(t) => Open(s) /\ (s.ackTimer => t.ackTimer) /\ t.hdr = s.hdr
  BY <1>6 DEF Open, Awaits
<1>10. slot' \subseteq Station /\ offered \subseteq offered' /\ offered' \subseteq Traffic
  BY <1>2 DEF IInv
<1> QED  BY <1>2, <1>4, <1>5, <1>6, <1>8, <1>9, <1>10, QuietStep

\* A station without packets is as it should be, and acks for it are for
\* nothing.
LEMMA SwitchInv == ASSUME IInv, NEW n \in Station, SwitchChannel(n) PROVE IInv'
<1> DEFINE s == st[n]
           t == NotifySwitchingStartNow(s)
<1>1. Local(n, s) /\ Holds(offered, n, s) /\ Anew(Seen, s)
  BY StationAt
<1>2. /\ s.tx = Silence /\ n \in Switcher /\ switched' = switched \cup {n}
      /\ st' = [st EXCEPT ![n] = t] /\ hear' = [k \in Station |-> hear[k] \ {n}]
      /\ slot' = {} /\ offered' = offered
  BY DEF SwitchChannel, Sending
<1>3. DOMAIN s = Fields
  BY <1>1 DEF Local, Types, Sane
<1>4. Local(n, t)
  BY <1>1, <1>2, SwitchLocal
<1>5. /\ t.queue = <<>> /\ t.cur = None
      /\ ~ t.ackTimer /\ ~ t.ctsTimer /\ ~ t.sendData /\ ~ t.waitSifs
      /\ t.sendAck = None /\ t.tx = s.tx /\ t.got = s.got
  BY <1>3, SwitchEffect
<1> HIDE DEF t
<1>6. ~ Open(t)
  BY <1>5 DEF Open, Awaits
<1>7. Holds(offered', n, t) /\ Anew(Seen, t)
  <2>1. Len(t.queue) = 0
    BY <1>5
  <2>2. \A i \in 1..Len(t.queue) : FALSE
    BY <2>1
  <2> QED  BY <1>5, <2>2 DEF Holds, Anew
<1>8. Stations /\ Hearing /\ Answers /\ Fresh /\ offered \subseteq Traffic /\ switched \subseteq Switcher
  BY DEF IInv
<1>9. Stations'
  BY <1>2, <1>4, <1>7, <1>8, StationsUpdate
<1>10. Hearing'
  <2>1. \A m \in Station : st'[m].tx = st[m].tx
    BY <1>2, <1>5, <1>8 DEF Stations
  <2> QED  BY <1>2, <1>8, <2>1 DEF Hearing, Sending
<1>11. Answers'
  <2>1. \A k \in Station : hear'[k] \subseteq hear[k]
    BY <1>2
  <2>2. st[n].got \subseteq t.got /\ t.tx = st[n].tx /\ t.sendAck \in {st[n].sendAck, None}
    BY <1>5
  <2> QED  BY <1>2, <1>6, <1>8, <2>1, <2>2, AnswersKept
<1>12. Fresh'
  BY <1>2, <1>5, <1>7, <1>8, FreshUpdate
<1>13. slot' \subseteq Station /\ switched' \subseteq Switcher /\ offered' \subseteq Traffic
  BY <1>2, <1>8
<1> QED  BY <1>9, <1>10, <1>11, <1>12, <1>13 DEF IInv

-----------------------------------------------------------------------------
(* A frame ends: its sender and who receives it change together.             *)

\* What frame f may do to station m, that goes from s to t.
HeardAside(s, t) == Keeps(s, t, {"abort", "nav", "sendCts"})

\* The CTS m awaits makes its data due.
HeardCts(m, f, s, t) ==
    /\ f.type = "cts" /\ f.to = m /\ s.ctsTimer
    /\ Keeps(s, t, {"abort", "ctsTimer", "sendData", "ssrc"}) /\ ~ t.ctsTimer /\ t.sendData

\* The ack m awaits counts, and ends the packet or makes its next fragment due.
HeardAck(m, f, s, t) ==
    /\ f.type = "ack" /\ f.to = m /\ s.ackTimer
    /\ Keeps(s, t, {"abort", "ratio", "ackTimer", "slrc", "waitSifs", "ok", "cur", "req"})
    /\ ~ t.ackTimer /\ t.ratio = AddAckFrom(s.ratio, s.cur.to)
    /\ t.waitSifs <=> ~ IsLastFragment(s)
    /\ IsLastFragment(s) => t.cur = None /\ t.ok = s.ok \cup {s.cur.pid}
    /\ ~ IsLastFragment(s) => t.cur = s.cur /\ t.ok = s.ok

\* Data for m is noted, and its ack is due.
HeardData(m, f, s, t) ==
    /\ f.type = "data" /\ f.to = m
    /\ Keeps(s, t, {"abort", "sendAck", "got"})
    /\ t.sendAck = f.from /\ t.got = s.got \cup {<<f.frag.pid, f.frag.nr>>}

\* Data for the group is noted.
HeardGroup(f, s, t) ==
    /\ f.type = "data" /\ f.to = Group
    /\ Keeps(s, t, {"got"}) /\ t.got = s.got \cup {<<f.frag.pid, f.frag.nr>>}

\* What ReceiveOk makes of a frame is one of these.
Heard(m, f, s, t) ==
    HeardAside(s, t) \/ HeardCts(m, f, s, t) \/ HeardAck(m, f, s, t)
    \/ HeardData(m, f, s, t) \/ HeardGroup(f, s, t)

\* What a station sends.
FrameTypes == {"rts", "cts", "ack", "data"}

\* A frame that changes the NAV at most.
LEMMA AsideHeard ==
    ASSUME NEW m, NEW f, NEW s, NEW t, Keeps(s, t, {"nav"}) PROVE Heard(m, f, s, t)
<1>1. Keeps(s, t, {"abort", "nav", "sendCts"})
  BY DEF Keeps
<1> QED  BY <1>1 DEF Heard, HeardAside

\* ReceiveAck, if the ack is awaited.
LEMMA AckHeard ==
    ASSUME NEW m \in Station, NEW s, Local(m, s), Undue(s), s.ackTimer,
           NEW f, f.to = m, f.type = "ack", NEW t, t = ReceiveAck(m, s, f)
    PROVE  HeardAck(m, f, s, t)
<1>1. /\ Keeps(s, t, {"abort", "ratio", "ackTimer", "slrc", "waitSifs", "ok", "cur", "req"})
      /\ ~ t.abort /\ ~ t.ackTimer /\ t.ratio = AddAckFrom(s.ratio, s.cur.to)
      /\ t.slrc = [s.slrc EXCEPT ![s.cur.to] = 0]
      /\ t.waitSifs <=> ~ IsLastFragment(s)
      /\ IsLastFragment(s) => t.cur = None /\ t.ok = s.ok \cup {s.cur.pid}
      /\ ~ IsLastFragment(s) => t.cur = s.cur /\ t.ok = s.ok
  BY ReceiveAckEffect
<1> QED  BY <1>1 DEF HeardAck

\* ReceiveOk does one of the above.
LEMMA ReceiveOkHeard ==
    ASSUME NEW m \in Station, NEW s, Local(m, s), s.tx = Silence, Undue(s),
           NEW f, f.from \in Station, f.type \in FrameTypes, NEW t, t = ReceiveOk(m, s, f)
    PROVE  Heard(m, f, s, t)
<1>1. CASE f.type = "rts"
  <2>1. t = ReceiveRts(m, s, f)
    BY <1>1 DEF ReceiveOk
  <2> QED  BY <2>1, ReceiveRtsLocal DEF Heard, HeardAside
<1>2. CASE f.type = "cts"
  <2>1. t = ReceiveCts(m, s, f)
    BY <1>2 DEF ReceiveOk
  <2>2. CASE f.to = m
    <3>1. \/ Keeps(s, t, {"nav"})
          \/ /\ Keeps(s, t, {"abort", "ctsTimer", "sendData", "ssrc"})
             /\ s.ctsTimer /\ ~ t.ctsTimer /\ t.sendData
      BY <2>1, ReceiveCtsLocal
    <3>2. CASE Keeps(s, t, {"nav"})
      BY <3>2, AsideHeard
    <3>3. CASE /\ Keeps(s, t, {"abort", "ctsTimer", "sendData", "ssrc"})
               /\ s.ctsTimer /\ ~ t.ctsTimer /\ t.sendData
      BY <1>2, <2>2, <3>3 DEF Heard, HeardCts
    <3> QED  BY <3>1, <3>2, <3>3
  <2>3. CASE f.to # m
    <3>1. t = NotifyNav(m, s, f)
      BY <2>1, <2>3 DEF ReceiveCts
    <3> QED  BY <3>1, NotifyNavLocal, AsideHeard
  <2> QED  BY <2>2, <2>3
<1>3. CASE f.type = "ack"
  <2>1. t = ReceiveAck(m, s, f)
    BY <1>3 DEF ReceiveOk
  <2>2. CASE f.to = m /\ s.ackTimer
    <3>2. HeardAck(m, f, s, t)
      BY <1>3, <2>1, <2>2, AckHeard
    <3> QED  BY <3>2 DEF Heard
  <2>3. CASE ~ (f.to = m /\ s.ackTimer)
    BY <2>1, <2>3, ReceiveAckAside, AsideHeard
  <2> QED  BY <2>2, <2>3
<1>4. CASE f.type = "data"
  <2>1. t = ReceiveData(m, s, f)
    BY <1>4 DEF ReceiveOk
  <2>2. CASE f.to = m
    <3>1. t = ReceiveUnicast(m, s, f)
      BY <2>1, <2>2, StationAssumption DEF ReceiveData
    <3>2. HeardData(m, f, s, t)
      BY <1>4, <2>2, <3>1, ReceiveUnicastLocal DEF HeardData
    <3> QED  BY <3>2 DEF Heard
  <2>3. CASE f.to = Group
    <3>1. HeardGroup(f, s, t)
      BY <1>4, <2>1, <2>3, ReceiveGroupLocal DEF HeardGroup
    <3> QED  BY <3>1 DEF Heard
  <2>4. CASE f.to # m /\ f.to # Group
    BY <2>1, <2>4, ReceiveOtherLocal, AsideHeard
  <2> QED  BY <2>2, <2>3, <2>4
<1> QED  BY <1>1, <1>2, <1>3, <1>4 DEF FrameTypes

\* Data on the air is the fragment its sender has.
LEMMA SentFragment ==
    ASSUME NEW n \in Station, NEW s, Local(n, s), s.tx.type = "data"
    PROVE  /\ s.cur \in Packets /\ s.cur # None /\ s.tx.to = s.cur.to
           /\ s.tx.frag = Fragment(s)
           /\ s.tx.frag.pid = s.cur.pid /\ s.tx.frag.nr = s.fragNr
           /\ \/ s.ackTimer /\ s.hdr = Fragment(s) /\ s.cur.to \in Station
              \/ Broadcasts(s)
<1>1. CASE s.ackTimer
  <2>1. s.cur # None /\ s.cur.to \in Station /\ s.hdr = Fragment(s) /\ Open(s)
    BY <1>1 DEF Local, Exchange, Open, Awaits
  <2>2. s.tx.to = s.hdr.to /\ s.tx.frag = s.hdr
    BY <1>1, <2>1 DEF Local, Frame, Silence
  <2> QED  BY <1>1, <2>1, <2>2 DEF Fragment, Local, Types
<1>2. CASE ~ s.ackTimer
  <2>1. Broadcasts(s) /\ s.tx.to = Group /\ s.tx.frag = Fragment(s) /\ s.cur # None /\ s.cur.to = Group
    BY <1>2 DEF Local, Frame, Silence, Broadcasts
  <2> QED  BY <2>1 DEF Fragment, Local, Types
<1> QED  BY <1>1, <1>2

\* The frame of n ends and R is who receives it.
TxEndFor(n, R) ==
    /\ MayEnd(n) /\ R \subseteq hear[n]
    /\ st' = [m \in Station |->
                 IF m = n THEN TransmissionEnds(st[n])
                 ELSE IF m \in R THEN ReceiveOk(m, st[m], st[n].tx)
                 ELSE st[m]]
    /\ hear' = [hear EXCEPT ![n] = {}]
    /\ slot' = {} /\ offered' = offered /\ switched' = switched

\* The frame has its sender's address, and who receives it is silent and has nothing due.
LEMMA TxEndHeard ==
    ASSUME IInv, NEW n \in Station, NEW R, TxEndFor(n, R)
    PROVE  /\ DOMAIN st' = Station /\ st'[n] = TransmissionEnds(st[n])
           /\ st[n].tx.from = n /\ st[n].tx.type \in FrameTypes /\ Sending(n)
           /\ \A m \in Station : m # n /\ m \notin R => st'[m] = st[m]
           /\ \A m \in R : /\ m \in Station /\ m # n /\ st[m].tx = Silence
                           /\ Heard(m, st[n].tx, st[m], st'[m]) /\ Local(m, st'[m])
<1>1. Sending(n) /\ Local(n, st[n]) /\ Hearing
  BY StationAt DEF TxEndFor, MayEnd, IInv
<1>2. st[n].tx.from = n /\ st[n].tx.type \in FrameTypes
  BY <1>1 DEF Local, Frame, FrameTypes, Sending
<1>3. ASSUME NEW m \in R
      PROVE  /\ m \in Station /\ m # n /\ st[m].tx = Silence
             /\ Heard(m, st[n].tx, st[m], st'[m]) /\ Local(m, st'[m])
  <2>1. m \in Station /\ m # n /\ st[m].tx = Silence /\ Undue(st[m])
    BY <1>1 DEF TxEndFor, MayEnd, Hearing, Sending, Due, Undue
  <2>2. Local(m, st[m]) /\ st'[m] = ReceiveOk(m, st[m], st[n].tx)
    BY <2>1, StationAt DEF TxEndFor
  <2>3. Heard(m, st[n].tx, st[m], st'[m])
    BY <1>2, <2>1, <2>2, ReceiveOkHeard
  <2>4. Local(m, st'[m])
    BY <1>2, <2>1, <2>2, ReceiveOkLocal
  <2> QED  BY <2>1, <2>3, <2>4
<1>4. DOMAIN st' = Station /\ st'[n] = TransmissionEnds(st[n])
      /\ \A m \in Station : m # n /\ m \notin R => st'[m] = st[m]
  BY DEF TxEndFor
<1> QED  BY <1>1, <1>2, <1>3, <1>4

\* What a frame leaves of a station that receives it.
LEMMA HeardKeeps ==
    ASSUME NEW m, NEW f, NEW s, NEW t, Heard(m, f, s, t), Undue(s)
    PROVE  /\ t.tx = s.tx /\ t.queue = s.queue /\ t.hdr = s.hdr /\ t.fragNr = s.fragNr
           /\ t.retry = s.retry
           /\ t.cur = None \/ (t.cur = s.cur /\ (Unsent(t) => Unsent(s)))
           /\ t.sendAck = s.sendAck \/ HeardData(m, f, s, t)
           /\ s.got \subseteq t.got
           /\ t.got \subseteq s.got \cup (IF f.type = "data" THEN {<<f.frag.pid, f.frag.nr>>} ELSE {})
<1>1. CASE HeardAside(s, t)
  BY <1>1 DEF HeardAside, Keeps, Fields, Unsent
<1>2. CASE HeardCts(m, f, s, t)
  BY <1>2 DEF HeardCts, Keeps, Fields, Unsent
<1>3. CASE HeardAck(m, f, s, t)
  BY <1>3 DEF HeardAck, Keeps, Fields, Unsent
<1>4. CASE HeardData(m, f, s, t)
  BY <1>4 DEF HeardData, Keeps, Fields, Unsent
<1>5. CASE HeardGroup(f, s, t)
  BY <1>5 DEF HeardGroup, Keeps, Fields, Unsent
<1> QED  BY <1>1, <1>2, <1>3, <1>4, <1>5 DEF Heard

\* The sender keeps what it has, except a packet for a group, which is done.
LEMMA SenderKeeps ==
    ASSUME IInv, NEW n \in Station, NEW R, TxEndFor(n, R)
    PROVE  /\ Local(n, st'[n]) /\ st'[n].tx = Silence /\ st'[n].queue = st[n].queue
           /\ st'[n].sendAck = None /\ st'[n].got = st[n].got /\ st'[n].hdr = st[n].hdr
           /\ st'[n].ackTimer = st[n].ackTimer
           /\ st'[n].cur = None \/ (/\ st'[n].cur = st[n].cur /\ st'[n].fragNr = st[n].fragNr
                                    /\ Unsent(st'[n]) => Unsent(st[n]))
<1> DEFINE s == st[n]
           t == TransmissionEnds(s)
<1>1. st'[n] = t /\ Local(n, s) /\ s.tx # Silence
  BY TxEndHeard, StationAt DEF Sending
<1>2. Local(n, t)
  BY <1>1, TransmissionEndsLocal
<1>3. /\ t.tx = Silence
      /\ \/ Keeps(s, t, {"tx"}) /\ ~ (s.tx.type = "data" /\ s.tx.to = Group)
         \/ Broadcasts(s) /\ Keeps(s, t, {"tx", "listener", "cur", "req"}) /\ t.cur = None
  BY <1>1, TransmissionEndsEffect
<1>4. s.sendAck = None
  BY <1>1 DEF Local, OneDue
<1> HIDE DEF t
<1>5. CASE Keeps(s, t, {"tx"})
  <2>1. /\ t.queue = s.queue /\ t.sendAck = s.sendAck /\ t.got = s.got /\ t.hdr = s.hdr
        /\ t.ackTimer = s.ackTimer /\ t.cur = s.cur /\ t.fragNr = s.fragNr
        /\ t.retry = s.retry /\ t.waitSifs = s.waitSifs
    BY <1>5 DEF Keeps, Fields
  <2>2. Unsent(t) => Unsent(s)
    BY <1>3, <2>1 DEF Unsent, Silence
  <2> QED  BY <1>1, <1>2, <1>3, <1>4, <2>1, <2>2
<1>6. CASE Broadcasts(s) /\ Keeps(s, t, {"tx", "listener", "cur", "req"}) /\ t.cur = None
  <2>1. /\ t.queue = s.queue /\ t.sendAck = s.sendAck /\ t.got = s.got /\ t.hdr = s.hdr
        /\ t.ackTimer = s.ackTimer
    BY <1>6 DEF Keeps, Fields
  <2> QED  BY <1>1, <1>2, <1>3, <1>4, <1>6, <2>1
<1> QED  BY <1>3, <1>5, <1>6

\* All stations are as they should be after the frame, and who hears whom.
LEMMA TxEndStations ==
    ASSUME IInv, NEW n \in Station, NEW R, TxEndFor(n, R) PROVE Stations' /\ Hearing'
<1>1. /\ DOMAIN st' = Station /\ offered' = offered
      /\ \A m \in Station : m # n /\ m \notin R => st'[m] = st[m]
  BY TxEndHeard DEF TxEndFor
<1>2. ASSUME NEW m \in Station
      PROVE  /\ Local(m, st'[m]) /\ Holds(offered, m, st'[m])
             /\ m # n => st'[m].tx = st[m].tx
  <2>1. Local(m, st[m]) /\ Holds(offered, m, st[m])
    BY StationAt
  <2>2. CASE m = n
    <3>1. /\ Local(n, st'[n]) /\ st'[n].queue = st[n].queue
          /\ st'[n].cur = None \/ st'[n].cur = st[n].cur
      BY SenderKeeps
    <3> QED  BY <2>1, <2>2, <3>1 DEF Holds
  <2>3. CASE m \in R
    <3>1. Heard(m, st[n].tx, st[m], st'[m]) /\ Local(m, st'[m]) /\ Undue(st[m])
      BY <2>3, TxEndHeard DEF TxEndFor, MayEnd, Due, Undue
    <3>2. /\ st'[m].tx = st[m].tx /\ st'[m].queue = st[m].queue
          /\ st'[m].cur = None \/ st'[m].cur = st[m].cur
      BY <3>1, HeardKeeps
    <3> QED  BY <2>1, <3>1, <3>2 DEF Holds
  <2>4. CASE m # n /\ m \notin R
    BY <1>1, <2>1, <2>4
  <2> QED  BY <2>2, <2>3, <2>4
<1>3. Stations'
  BY <1>1, <1>2 DEF Stations
<1>4. Hearing'
  <2>1. hear' = [hear EXCEPT ![n] = {}] /\ st'[n].tx = Silence
    BY SenderKeeps DEF TxEndFor
  <2>2. \A m \in Station : m # n => (Sending(m)' <=> Sending(m))
    BY <1>2 DEF Sending
  <2>3. ~ Sending(n)'
    BY <2>1 DEF Sending
  <2>4. Hearing
    BY DEF IInv
  <2> QED  BY <2>1, <2>2, <2>3, <2>4 DEF Hearing
<1> QED  BY <1>3, <1>4

\* What a station other than the sender awaits of m is as it was.
LEMMA TxEndMatch ==
    ASSUME IInv, NEW n \in Station, NEW R, TxEndFor(n, R),
           NEW m \in Station, NEW k \in Station, m # n, k # n, Open(st'[k]),
           Open(st[k]) => Match(m, k)
    PROVE  Match(m, k)'
<1>1. st[m].got \subseteq st'[m].got
  <2>1. CASE m \in R
    <3>1. Heard(m, st[n].tx, st[m], st'[m]) /\ Undue(st[m])
      BY <2>1, TxEndHeard DEF TxEndFor, MayEnd, Due, Undue
    <3> QED  BY <3>1, HeardKeeps
  <2>2. CASE m \notin R
    BY <2>2, TxEndHeard
  <2> QED  BY <2>1, <2>2
<1>2. CASE k \notin R
  <2>1. st'[k] = st[k]
    BY <1>2, TxEndHeard
  <2> QED  BY <1>1, <2>1 DEF Match
<1>3. CASE k \in R
  <2> DEFINE s == st[k]
             t == st'[k]
             f == st[n].tx
  <2>1. Heard(k, f, s, t) /\ Local(k, s) /\ Undue(s)
    BY <1>3, TxEndHeard, StationAt DEF TxEndFor, MayEnd, Due, Undue
  <2>2. ASSUME t.ackTimer = s.ackTimer, t.hdr = s.hdr, t.waitSifs = s.waitSifs,
               t.ctsTimer = s.ctsTimer, t.sendData = s.sendData
        PROVE  Match(m, k)'
    <3>1. Open(s)
      BY <2>2 DEF Open, Awaits
    <3> QED  BY <1>1, <2>2, <3>1 DEF Match
  <2>3. CASE HeardAside(s, t) \/ HeardData(k, f, s, t) \/ HeardGroup(f, s, t)
    <3>1. /\ t.ackTimer = s.ackTimer /\ t.hdr = s.hdr /\ t.waitSifs = s.waitSifs
          /\ t.ctsTimer = s.ctsTimer /\ t.sendData = s.sendData
      BY <2>3 DEF HeardAside, HeardData, HeardGroup, Keeps, Fields
    <3> QED  BY <2>2, <3>1
  <2>4. CASE HeardCts(k, f, s, t)
    <3>1. s.ctsTimer /\ Open(s) /\ ~ s.ackTimer
      BY <2>1, <2>4 DEF HeardCts, Open, Awaits, Local, Types, Sane, OneAttempt
    <3> QED  BY <3>1 DEF Match
  <2>5. CASE HeardAck(k, f, s, t)
    <3>1. Open(s) /\ f.type = "ack" /\ f.to = k /\ k \in hear[n]
      BY <1>3, <2>5 DEF HeardAck, Open, Awaits, TxEndFor
    <3>2. Match(m, k) /\ Match(n, k)
      BY <3>1 DEF IInv, Answers
    <3> QED  BY <3>2 DEF Match
  <2> QED  BY <2>1, <2>3, <2>4, <2>5 DEF Heard
<1> QED  BY <1>2, <1>3

\* The ack of data that arrived will be about it.
LEMMA TxEndAnswers ==
    ASSUME IInv, NEW n \in Station, NEW R, TxEndFor(n, R) PROVE Answers'
<1>1. /\ \A m \in Station : st[m].sendAck # n
      /\ \A m \in Station : m # n /\ m \notin R => st'[m] = st[m]
      /\ Sending(n) /\ st[n].tx.from = n /\ \A m \in Station : m # None
  BY TxEndHeard, StationAssumption DEF TxEndFor, MayEnd
<1>2. ASSUME NEW m \in Station, m # n
      PROVE  /\ st'[m].tx = st[m].tx
             /\ st'[m].sendAck = st[m].sendAck
                \/ (m \in R /\ HeardData(m, st[n].tx, st[m], st'[m]) /\ st'[m].sendAck = n)
  <2>1. CASE m \in R
    <3>1. Heard(m, st[n].tx, st[m], st'[m]) /\ Undue(st[m])
      BY <2>1, TxEndHeard DEF TxEndFor, MayEnd, Due, Undue
    <3> QED  BY <1>1, <2>1, <3>1, HeardKeeps DEF HeardData
  <2>2. CASE m \notin R
    BY <1>1, <1>2, <2>2
  <2> QED  BY <2>1, <2>2
<1>3. /\ st'[n].sendAck = None /\ st'[n].tx = Silence /\ st'[n].hdr = st[n].hdr
      /\ st'[n].ackTimer = st[n].ackTimer
  BY SenderKeeps
<1>4. ASSUME NEW m \in Station, NEW k \in Station,
             st'[m].sendAck = k, ~ Sending(k)', Open(st'[k])
      PROVE  Match(m, k)'
  <2>1. m # n
    BY <1>1, <1>3, <1>4
  <2>2. CASE k = n
    <3> DEFINE s == st[n]
    <3>1. HeardData(m, s.tx, st[m], st'[m])
      BY <1>1, <1>2, <1>4, <2>1, <2>2
    <3>2. s.tx.type = "data" /\ s.tx.to = m
          /\ <<s.tx.frag.pid, s.tx.frag.nr>> \in st'[m].got
      BY <3>1 DEF HeardData
    <3>3. Local(n, s)
      BY StationAt
    <3>4. s.tx.frag = Fragment(s) /\ s.tx.to = s.cur.to
          /\ ((s.ackTimer /\ s.hdr = Fragment(s)) \/ s.cur.to = Group)
      BY <3>2, <3>3, SentFragment DEF Broadcasts
    <3>5. s.ackTimer /\ s.hdr = Fragment(s)
      BY <3>2, <3>4, StationAssumption
    <3>6. s.hdr.to = m
      BY <3>2, <3>4, <3>5 DEF Fragment
    <3> QED  BY <1>3, <2>2, <3>2, <3>4, <3>5, <3>6 DEF Match
  <2>3. CASE k # n
    <3>1. st[m].sendAck = k /\ ~ Sending(k)
      BY <1>2, <1>4, <2>1, <2>3 DEF Sending
    <3>2. Open(st[k]) => Match(m, k)
      BY <3>1 DEF IInv, Answers
    <3> QED  BY <1>4, <2>1, <2>3, <3>2, TxEndMatch
  <2> QED  BY <2>2, <2>3
<1>5. ASSUME NEW m \in Station, NEW k \in Station,
             st'[m].tx.type = "ack", st'[m].tx.to = k, k \in hear'[m], Open(st'[k])
      PROVE  Match(m, k)'
  <2>1. m # n
    BY <1>3, <1>5 DEF Silence
  <2>2. st[m].tx.type = "ack" /\ st[m].tx.to = k /\ k \in hear[m]
    BY <1>2, <1>5, <2>1 DEF TxEndFor, IInv, Hearing
  <2>3. k # n
    BY <1>1, <2>2 DEF IInv, Hearing
  <2>4. Open(st[k]) => Match(m, k)
    BY <2>2 DEF IInv, Answers
  <2> QED  BY <1>5, <2>1, <2>3, <2>4, TxEndMatch
<1> QED  BY <1>4, <1>5 DEF Answers

\* A fragment that a station has to send is not that of another packet.
LEMMA OwnPid ==
    ASSUME offered \subseteq Traffic, NEW m, NEW n, NEW p, NEW q, p.pid = q.pid,
           [node |-> m, packet |-> p] \in offered, [node |-> n, packet |-> q] \in offered
    PROVE  m = n /\ p = q
<1> DEFINE u == [node |-> m, packet |-> p]
           v == [node |-> n, packet |-> q]
<1>1. u \in Traffic /\ v \in Traffic /\ u.packet.pid = v.packet.pid
  OBVIOUS
<1> HIDE DEF u, v
<1>2. u = v
  BY <1>1, PidAssumption
<1> QED  BY <1>2 DEF u, v

\* What is seen after a fragment arrived. A definition, so that the lemmas with
\* it apply.
With(seen, pid, nr) == seen \cup {<<pid, nr>>}

\* Nothing of other packets arrives.
LEMMA AnewMore ==
    ASSUME NEW seen, NEW more, NEW s, Anew(seen, s), NEW pid, NEW nr,
           more \subseteq With(seen, pid, nr),
           \A i \in 1..Len(s.queue) : s.queue[i].pid # pid,
           s.cur # None /\ s.cur.pid = pid =>
               nr \in Nat /\ s.fragNr \in Nat /\ nr <= s.fragNr /\ ~ Unsent(s)
    PROVE  Anew(more, s)
<1>1. \A i \in 1..Len(s.queue) : Unseen(more, s.queue[i])
  BY DEF Anew, Unseen, With
<1>2. ASSUME s.cur # None, NEW k \in 0..s.cur.frags, k > s.fragNr PROVE <<s.cur.pid, k>> \notin more
  BY <1>2 DEF Anew, With
<1>3. ASSUME s.cur # None, Unsent(s) PROVE <<s.cur.pid, s.fragNr>> \notin more
  BY <1>3 DEF Anew, With
<1> QED  BY <1>1, <1>2, <1>3 DEF Anew

\* If less arrived, what was new is.
LEMMA AnewLess ==
    ASSUME NEW seen, NEW more, NEW s, Anew(seen, s), more \subseteq seen PROVE Anew(more, s)
BY DEF Anew, Unseen

\* Only the fragment that was sent arrives.
LEMMA TxEndSeen ==
    ASSUME IInv, NEW n \in Station, NEW R, TxEndFor(n, R)
    PROVE  Seen' \subseteq Seen \cup (IF st[n].tx.type = "data"
                                      THEN {<<st[n].tx.frag.pid, st[n].tx.frag.nr>>} ELSE {})
<1> DEFINE more == IF st[n].tx.type = "data"
                   THEN {<<st[n].tx.frag.pid, st[n].tx.frag.nr>>} ELSE {}
<1>1. ASSUME NEW m \in Station PROVE st'[m].got \subseteq st[m].got \cup more
  <2>1. CASE m = n
    BY <2>1, SenderKeeps
  <2>2. CASE m \in R
    <3>1. Heard(m, st[n].tx, st[m], st'[m]) /\ Undue(st[m])
      BY <2>2, TxEndHeard DEF TxEndFor, MayEnd, Due, Undue
    <3> QED  BY <3>1, HeardKeeps
  <2>3. CASE m # n /\ m \notin R
    BY <2>3, TxEndHeard
  <2> QED  BY <2>1, <2>2, <2>3
<1> HIDE DEF more
<1>2. Seen' \subseteq Seen \cup more
  BY <1>1 DEF Seen
<1> QED  BY <1>2 DEF more

\* What arrives is the fragment its sender has, which is not new any more.
LEMMA TxEndFresh ==
    ASSUME IInv, NEW n \in Station, NEW R, TxEndFor(n, R) PROVE Fresh'
<1> DEFINE s == st[n]
           f == s.tx
<1>1. ASSUME NEW m \in Station
      PROVE  Anew(Seen, st'[m]) /\ Holds(offered, m, st'[m]) /\ st'[m].queue = st[m].queue
  <2>1. Local(m, st[m]) /\ Holds(offered, m, st[m]) /\ Anew(Seen, st[m])
    BY StationAt
  <2>2. CASE m = n
    <3>1. /\ st'[n].queue = st[n].queue
          /\ st'[n].cur = None \/ (/\ st'[n].cur = st[n].cur /\ st'[n].fragNr = st[n].fragNr
                                   /\ Unsent(st'[n]) => Unsent(st[n]))
      BY SenderKeeps
    <3> QED  BY <2>1, <2>2, <3>1, PacketsKept
  <2>3. CASE m \in R
    <3>1. Heard(m, f, st[m], st'[m]) /\ Undue(st[m])
      BY <2>3, TxEndHeard DEF TxEndFor, MayEnd, Due, Undue
    <3>2. /\ st'[m].queue = st[m].queue /\ st'[m].fragNr = st[m].fragNr
          /\ st'[m].cur = None \/ (st'[m].cur = st[m].cur /\ (Unsent(st'[m]) => Unsent(st[m])))
      BY <3>1, HeardKeeps
    <3> QED  BY <2>1, <3>2, PacketsKept
  <2>4. CASE m # n /\ m \notin R
    BY <2>1, <2>4, TxEndHeard
  <2> QED  BY <2>2, <2>3, <2>4
<1>2. offered' = offered /\ offered \subseteq Traffic /\ \A u \in Traffic \ offered : Unseen(Seen, u.packet)
  BY DEF TxEndFor, IInv, Fresh
<1>3. CASE f.type # "data"
  <2>1. Seen' \subseteq Seen
    BY <1>3, TxEndSeen
  <2>2. \A m \in Station : Anew(Seen', st'[m])
    BY <1>1, <2>1, AnewLess
  <2>3. \A u \in Traffic \ offered : Unseen(Seen', u.packet)
    BY <1>2, <2>1 DEF Unseen
  <2> QED  BY <1>2, <2>2, <2>3 DEF Fresh
<1>4. CASE f.type = "data"
  <2>1. Local(n, s) /\ Holds(offered, n, s)
    BY StationAt
  <2>2. /\ s.cur # None /\ s.fragNr \in Nat
        /\ f.frag.pid = s.cur.pid /\ f.frag.nr = s.fragNr
        /\ s.ackTimer \/ Broadcasts(s)
    BY <1>4, <2>1, SentFragment DEF Local, Types
  <2> DEFINE pid == s.cur.pid
             nr == s.fragNr
  <2>3. Seen' \subseteq Seen \cup {<<pid, nr>>}
    BY <1>4, <2>2, TxEndSeen
  <2>4. [node |-> n, packet |-> s.cur] \in offered
    BY <2>1, <2>2 DEF Holds
  <2>5. ASSUME NEW u \in Traffic \ offered PROVE Unseen(Seen', u.packet)
    <3>1. u.packet.pid # pid
      <4> DEFINE v == [node |-> n, packet |-> s.cur]
      <4>1. v \in Traffic /\ v \in offered /\ v.packet.pid = pid
        BY <1>2, <2>4
      <4> HIDE DEF v
      <4> QED  BY <4>1, PidAssumption
    <3> QED  BY <1>2, <2>3, <3>1 DEF Unseen
  <2>6. ASSUME NEW m \in Station PROVE Anew(Seen', st'[m])
    <3> DEFINE t == st'[m]
    <3>1. Anew(Seen, t) /\ Holds(offered, m, t) /\ t.queue = st[m].queue
      BY <1>1
    <3>4. ASSUME \A i \in 1..Len(t.queue) : t.queue[i].pid # pid,
                 t.cur # None /\ t.cur.pid = pid =>
                     nr \in Nat /\ t.fragNr \in Nat /\ nr <= t.fragNr /\ ~ Unsent(t)
          PROVE  Anew(Seen', t)
      <4>1. Seen' \subseteq With(Seen, pid, nr)
        BY <2>3 DEF With
      <4> HIDE DEF t, pid, nr
      <4> QED  BY ONLY <3>1, <3>4, <4>1, AnewMore
    <3>2. CASE m # n
      <4>1. \A i \in 1..Len(t.queue) : t.queue[i].pid # pid
        BY <1>2, <2>4, <3>1, <3>2, OwnPid DEF Holds
      <4>2. t.cur # None => t.cur.pid # pid
        BY <1>2, <2>4, <3>1, <3>2, OwnPid DEF Holds
      <4> QED  BY <3>4, <4>1, <4>2
    <3>3. CASE m = n
      <4>1. \A i \in 1..Len(t.queue) : t.queue[i].pid # pid
        <5>1. \A i \in 1..Len(s.queue) : s.queue[i] # s.cur
          BY <2>1 DEF Local, OnePlace
        <5>2. ASSUME NEW i \in 1..Len(t.queue), t.queue[i].pid = pid PROVE FALSE
          <6>1. i \in 1..Len(s.queue) /\ t.queue[i] = s.queue[i]
            BY <3>1, <3>3
          <6>2. [node |-> n, packet |-> s.queue[i]] \in offered /\ s.queue[i].pid = s.cur.pid
            BY <2>1, <5>2, <6>1 DEF Holds
          <6>3. s.queue[i] = s.cur
            BY <1>2, <2>4, <6>2, OwnPid
          <6> QED  BY <5>1, <6>1, <6>3
        <5> QED  BY <5>2
      <4>2. t.cur # None => t.fragNr = nr /\ ~ Unsent(t)
        <5>1. /\ t.tx = Silence /\ t.ackTimer = s.ackTimer
              /\ t.cur = None \/ t.fragNr = s.fragNr
          BY <3>3, SenderKeeps
        <5>2. CASE s.ackTimer
          BY <5>1, <5>2 DEF Unsent, Silence
        <5>3. CASE Broadcasts(s)
          <6>1. t.cur = None
            <7>1. /\ t = TransmissionEnds(s) /\ f.type = "data" /\ f.to = Group
              BY <3>3, <5>3, TxEndHeard DEF Broadcasts
            <7> QED  BY <2>1, <7>1, TransmissionEndsEffect
          <6> QED  BY <6>1
        <5> QED  BY <2>2, <5>2, <5>3
      <4> QED  BY <2>2, <3>4, <4>1, <4>2
    <3> QED  BY <3>2, <3>3
  <2> QED  BY <1>2, <2>5, <2>6 DEF Fresh
<1> QED  BY <1>3, <1>4

\* The end of a frame keeps the invariant.
LEMMA TxEndInv == ASSUME IInv, NEW n \in Station, TxEnd(n) PROVE IInv'
<1>1. PICK R \in SUBSET hear[n] : TxEndFor(n, R)
  BY DEF TxEnd, TxEndFor
<1>2. Stations' /\ Hearing' /\ Answers' /\ Fresh'
  BY <1>1, TxEndStations, TxEndAnswers, TxEndFresh
<1> QED  BY <1>1, <1>2 DEF IInv, TxEndFor

-----------------------------------------------------------------------------
(* The theorems that rest on the invariant.                                  *)

\* The stations have nothing at first.
LEMMA InitInv == Init => IInv
<1> SUFFICES ASSUME Init PROVE IInv
  OBVIOUS
<1>1. \A n \in Station : st[n] = NewStation /\ hear[n] = {}
  BY DEF Init
<1>2. /\ NewStation.queue = <<>> /\ NewStation.cur = None /\ NewStation.tx = Silence
      /\ NewStation.sendAck = None /\ NewStation.got = {}
  BY DEF NewStation
<1>3. \A i \in 1..Len(NewStation.queue) : FALSE
  BY <1>2
<1>4. Seen = {}
  BY <1>1, <1>2 DEF Seen
<1>5. Stations
  BY <1>1, <1>2, <1>3, NewStationLocal DEF Stations, Holds, Init
<1>6. Hearing
  BY <1>1 DEF Hearing, Init
<1>7. Answers
  BY <1>1, <1>2, StationAssumption DEF Answers
<1>8. Fresh
  BY <1>1, <1>2, <1>3, <1>4 DEF Fresh, Anew, Unseen
<1> QED  BY <1>5, <1>6, <1>7, <1>8 DEF IInv, Init

\* Every step keeps the invariant.
LEMMA NextInv == IInv /\ [Next]_vars => IInv'
<1> SUFFICES ASSUME IInv, [Next]_vars PROVE IInv'
  OBVIOUS
<1>1. CASE UNCHANGED vars
  <2>1. Stations' /\ Hearing'
    BY <1>1 DEF vars, IInv, Stations, Hearing, Sending
  <2>2. Answers'
    BY <1>1 DEF vars, IInv, Answers, Match, Sending
  <2>3. Fresh'
    BY <1>1 DEF vars, IInv, Fresh, Seen
  <2> QED  BY <1>1, <2>1, <2>2, <2>3 DEF vars, IInv
<1>2. CASE Next
  <2>1. ASSUME NEW n \in Station, Internal(n) PROVE IInv'
    BY <2>1, GrantInv, TxEndInv, SendCtsInv, SendAckInv, SendDataInv, NextFragmentInv,
       MissCtsInv, MissAckInv, NavEndInv DEF Internal
  <2> QED  BY <1>2, <2>1, SwitchInv, OfferInv DEF Next
<1> QED  BY <1>1, <1>2

\* The invariant of the MAC, for any stations, any medium, any traffic and any
\* retry limits.
THEOREM LinkInvariant == Spec => []IInv
<1> QED  BY InitInv, NextInv, PTL DEF Spec

\* No assertion of MacLow or of the DcaTxop fails: the timers are not running
\* when they are started, nothing is due twice, the PHY is free when a frame is
\* handed to it, and the listener is there when it is called.
THEOREM AssertionsHold == Spec => []Alive
<1>1. IInv => Alive
  BY DEF IInv, Stations, Local, Types, Alive
<1> QED  BY <1>1, LinkInvariant, PTL

\* The packets of the stations were handed to them, fragments exist, retry
\* counts stay below their limits and nobody hears who does not send.
THEOREM TypeCorrect == Spec => []TypeOK
<1>1. IInv => TypeOK
  <2> SUFFICES ASSUME IInv PROVE TypeOK
    OBVIOUS
  <2>1. ASSUME NEW n \in Station
        PROVE  /\ \A i \in DOMAIN st[n].queue : [node |-> n, packet |-> st[n].queue[i]] \in offered
               /\ st[n].cur # None => /\ [node |-> n, packet |-> st[n].cur] \in offered
                                      /\ st[n].fragNr < st[n].cur.frags
               /\ st[n].tx.from \in {n, None}
               /\ st[n].ratio \in [Station -> [sends : Nat, acks : Nat]]
               /\ \A m \in Station : st[n].ssrc[m] < MaxSsrc /\ st[n].slrc[m] < MaxSlrc
               /\ ~ Sending(n) => hear[n] = {}
    <3>1. Local(n, st[n]) /\ Holds(offered, n, st[n])
      BY StationAt
    <3>2. DOMAIN st[n].queue = 1..Len(st[n].queue)
      BY <3>1 DEF Local, Types
    <3>3. st[n].tx.from \in {n, None}
      BY <3>1 DEF Local, Frame, Silence
    <3>4. ~ Sending(n) => hear[n] = {}
      BY DEF IInv, Hearing
    <3>5. st[n].cur # None => st[n].fragNr < st[n].cur.frags
      BY <3>1 DEF Local, Exchange
    <3>6. /\ st[n].ratio \in [Station -> [sends : Nat, acks : Nat]]
          /\ \A m \in Station : st[n].ssrc[m] < MaxSsrc /\ st[n].slrc[m] < MaxSlrc
      BY <3>1 DEF Local, Types, Sane, Ratios
    <3> QED  BY <3>1, <3>2, <3>3, <3>4, <3>5, <3>6 DEF Holds
  <2> QED  BY <2>1 DEF TypeOK, IInv
<1> QED  BY <1>1, LinkInvariant, PTL

\* A fragment that arrived goes out again only with the retry bit.
THEOREM DuplicatesMarked == Spec => []RepeatIsMarked
<1>1. IInv => RepeatIsMarked
  <2> SUFFICES ASSUME IInv, NEW n \in Station, st[n].tx.type = "data", st[n].tx.to \in Station,
                      ~ st[n].tx.frag.retry
               PROVE  <<st[n].tx.frag.pid, st[n].tx.frag.nr>> \notin st[st[n].tx.to].got
    BY DEF RepeatIsMarked
  <2> DEFINE s == st[n]
  <2>1. Local(n, s) /\ Anew(Seen, s)
    BY StationAt
  <2>2. /\ s.cur # None /\ s.tx.frag = Fragment(s)
        /\ s.tx.frag.pid = s.cur.pid /\ s.tx.frag.nr = s.fragNr
        /\ s.ackTimer \/ Broadcasts(s)
    BY <2>1, SentFragment
  <2>3. s.ackTimer
    BY <2>2, StationAssumption DEF Broadcasts
  <2>4. ~ s.retry /\ ~ s.waitSifs
    BY <2>1, <2>2, <2>3 DEF Fragment, Local, Exchange, Awaits
  <2>5. <<s.cur.pid, s.fragNr>> \notin Seen
    BY <2>1, <2>2, <2>4 DEF Anew, Unsent
  <2> QED  BY <2>2, <2>5 DEF Seen
<1> QED  BY <1>1, LinkInvariant, PTL

-----------------------------------------------------------------------------
(* The refinement: what Link sees of a station, and of a step.               *)

\* The packets of the station, in order.
TodoOf(s) == (IF s.cur = None THEN <<>> ELSE <<s.cur>>) \o s.queue

\* How many of its fragments were acknowledged.
NextOf(s) == IF s.cur = None THEN 0 ELSE s.fragNr + (IF s.waitSifs THEN 1 ELSE 0)

\* An attempt to send the fragment is under way.
WaitOf(s) == \/ s.ackTimer \/ s.ctsTimer \/ s.sendData
             \/ s.tx.type = "data" /\ s.tx.to = Group

\* The attempts of the station by destination.
SendsOf(s) == [m \in Station |-> s.ratio[m].sends]

\* And what was acknowledged of them.
AcksOf(s) == [m \in Station |-> s.ratio[m].acks]

\* t has the packets of s, and is at the same point of them.
SamePackets(s, t) == TodoOf(t) = TodoOf(s) /\ NextOf(t) = NextOf(s)

\* t has the counts of s.
SameCounts(s, t) == SendsOf(t) = SendsOf(s) /\ AcksOf(t) = AcksOf(s)

\* Link sees no difference between s and t.
SameLook(s, t) ==
    SamePackets(s, t) /\ WaitOf(t) = WaitOf(s) /\ t.got = s.got /\ t.ok = s.ok /\ SameCounts(s, t)

\* What is not so is FALSE.
LEMMA WaitBoolean == ASSUME NEW s, ~ WaitOf(s) PROVE WaitOf(s) = FALSE
BY DEF WaitOf

\* If no station looks different, it is no step of Link.
LEMMA LinkStutter ==
    ASSUME \A m \in Station : SameLook(st[m], st'[m]) PROVE UNCHANGED Promise!vars
<1>1. UNCHANGED [m \in Station |-> TodoOf(st[m])]
  BY DEF SameLook, SamePackets
<1>2. UNCHANGED [m \in Station |-> NextOf(st[m])]
  BY DEF SameLook, SamePackets
<1>3. UNCHANGED [m \in Station |-> WaitOf(st[m])]
  BY DEF SameLook
<1>4. UNCHANGED [m \in Station |-> st[m].got]
  BY DEF SameLook
<1>5. UNCHANGED [m \in Station |-> st[m].ok]
  BY DEF SameLook
<1>6. UNCHANGED [m \in Station |-> SendsOf(st[m])]
  BY DEF SameLook, SameCounts
<1>7. UNCHANGED [m \in Station |-> AcksOf(st[m])]
  BY DEF SameLook, SameCounts
<1> QED  BY <1>1, <1>2, <1>3, <1>4, <1>5, <1>6, <1>7
         DEF Promise!vars, TodoOf, NextOf, WaitOf, SendsOf, AcksOf

\* The state of Link.
Todos == [m \in Station |-> TodoOf(st[m])]
Nexts == [m \in Station |-> NextOf(st[m])]
Waits == [m \in Station |-> WaitOf(st[m])]
Gots == [m \in Station |-> st[m].got]
Oks == [m \in Station |-> st[m].ok]
Sends == [m \in Station |-> SendsOf(st[m])]
Acks == [m \in Station |-> AcksOf(st[m])]

\* The packet the station has or takes next.
First(s) == Head(TodoOf(s))

\* Attempt, from what the stations look like; likewise for each action of Link.
LEMMA LinkAttempt ==
    ASSUME NEW n \in Station, \A m \in Station : m # n => SameLook(st[m], st'[m]),
           TodoOf(st[n]) # <<>>, ~ WaitOf(st[n]), WaitOf(st'[n]),
           SamePackets(st[n], st'[n]), st'[n].got = st[n].got, st'[n].ok = st[n].ok,
           AcksOf(st'[n]) = AcksOf(st[n]),
           SendsOf(st'[n]) = IF First(st[n]).to \in Station
                             THEN [SendsOf(st[n]) EXCEPT ![First(st[n]).to] = @ + 1]
                             ELSE SendsOf(st[n])
    PROVE  Promise!Attempt(n)
<1>1. Todos[n] # <<>> /\ ~ Waits[n] /\ Head(Todos[n]) = First(st[n])
  BY DEF Todos, Waits, First
<1>2. UNCHANGED <<Todos, Nexts>>
  BY DEF Todos, Nexts, SameLook, SamePackets
<1>3. UNCHANGED <<Gots, Oks, Acks>>
  BY DEF Gots, Oks, Acks, SameLook, SameCounts
<1>4. Waits' = [Waits EXCEPT ![n] = TRUE]
  BY DEF Waits, SameLook
<1>5. Sends' = IF First(st[n]).to \in Station
               THEN [Sends EXCEPT ![n][First(st[n]).to] = @ + 1] ELSE Sends
  BY DEF Sends, SameLook, SameCounts
<1> QED  BY <1>1, <1>2, <1>3, <1>4, <1>5
         DEF Promise!Attempt, Promise!Current, Todos, Nexts, Waits, Gots, Oks, Sends, Acks,
             TodoOf, NextOf, WaitOf, SendsOf, AcksOf

\* A packet comes to the end.
LEMMA LinkOffer ==
    ASSUME NEW n \in Station, \A m \in Station : m # n => SameLook(st[m], st'[m]), NEW p,
           TodoOf(st'[n]) = Append(TodoOf(st[n]), p), NextOf(st'[n]) = NextOf(st[n]),
           WaitOf(st'[n]) = WaitOf(st[n]), st'[n].got = st[n].got, st'[n].ok = st[n].ok,
           SameCounts(st[n], st'[n])
    PROVE  Promise!Offer(n, p)
<1>1. Todos' = [Todos EXCEPT ![n] = Append(@, p)]
  BY DEF Todos, SameLook, SamePackets
<1>2. UNCHANGED <<Nexts, Waits>>
  BY DEF Nexts, Waits, SameLook, SamePackets
<1>3. UNCHANGED <<Gots, Oks, Sends, Acks>>
  BY DEF Gots, Oks, Sends, Acks, SameLook, SameCounts
<1> QED  BY <1>1, <1>2, <1>3
         DEF Promise!Offer, Todos, Nexts, Waits, Gots, Oks, Sends, Acks,
             TodoOf, NextOf, WaitOf, SendsOf, AcksOf

\* The destination notes the fragment of n.
LEMMA LinkReceive ==
    ASSUME NEW n \in Station, TodoOf(st[n]) # <<>>, WaitOf(st[n]),
           NEW k \in Station, First(st[n]).to = k,
           \A m \in Station : /\ SamePackets(st[m], st'[m]) /\ SameCounts(st[m], st'[m])
                              /\ WaitOf(st'[m]) = WaitOf(st[m]) /\ st'[m].ok = st[m].ok
                              /\ m # k => st'[m].got = st[m].got,
           st'[k].got = st[k].got \cup {<<First(st[n]).pid, NextOf(st[n])>>}
    PROVE  Promise!Receive(n)
<1>1. Todos[n] # <<>> /\ Waits[n] /\ Head(Todos[n]) = First(st[n]) /\ Nexts[n] = NextOf(st[n])
  BY DEF Todos, Waits, First, Nexts
<1>2. UNCHANGED <<Todos, Nexts, Waits>>
  BY DEF Todos, Nexts, Waits, SamePackets
<1>3. UNCHANGED <<Oks, Sends, Acks>>
  BY DEF Oks, Sends, Acks, SameCounts
<1>4. Gots' = [Gots EXCEPT ![First(st[n]).to] = @ \cup {<<First(st[n]).pid, NextOf(st[n])>>}]
  BY DEF Gots
<1> QED  BY <1>1, <1>2, <1>3, <1>4
         DEF Promise!Receive, Promise!Trying, Promise!Current, Todos, Nexts, Waits, Gots, Oks, Sends, Acks,
             TodoOf, NextOf, WaitOf, SendsOf, AcksOf

\* An attempt ends without an ack.
LEMMA LinkMiss ==
    ASSUME NEW n \in Station, \A m \in Station : m # n => SameLook(st[m], st'[m]),
           TodoOf(st[n]) # <<>>, WaitOf(st[n]), ~ WaitOf(st'[n]),
           \/ SamePackets(st[n], st'[n])
           \/ TodoOf(st'[n]) = Tail(TodoOf(st[n])) /\ NextOf(st'[n]) = 0,
           st'[n].got = st[n].got, st'[n].ok = st[n].ok, SameCounts(st[n], st'[n])
    PROVE  Promise!Miss(n)
<1>1. Todos[n] # <<>> /\ Waits[n]
  BY DEF Todos, Waits
<1>2. UNCHANGED <<Gots, Oks, Sends, Acks>>
  BY DEF Gots, Oks, Sends, Acks, SameLook, SameCounts
<1>3. Waits' = [Waits EXCEPT ![n] = FALSE]
  BY WaitBoolean DEF Waits, SameLook
<1>4. CASE SamePackets(st[n], st'[n])
  <2>1. UNCHANGED <<Todos, Nexts>>
    BY <1>4 DEF Todos, Nexts, SameLook, SamePackets
  <2> QED  BY <1>1, <1>2, <1>3, <2>1
           DEF Promise!Miss, Promise!Trying, Todos, Nexts, Waits, Gots, Oks, Sends, Acks,
               TodoOf, NextOf, WaitOf, SendsOf, AcksOf
<1>5. CASE TodoOf(st'[n]) = Tail(TodoOf(st[n])) /\ NextOf(st'[n]) = 0
  <2>1. Todos' = [Todos EXCEPT ![n] = Tail(@)] /\ Nexts' = [Nexts EXCEPT ![n] = 0]
    BY <1>5 DEF Todos, Nexts, SameLook, SamePackets
  <2> QED  BY <1>1, <1>2, <1>3, <2>1
           DEF Promise!Miss, Promise!Drop, Promise!Trying, Todos, Nexts, Waits, Gots, Oks, Sends, Acks,
               TodoOf, NextOf, WaitOf, SendsOf, AcksOf
<1> QED  BY <1>4, <1>5

\* The packets of n are gone.
LEMMA LinkFlush ==
    ASSUME NEW n \in Station, \A m \in Station : m # n => SameLook(st[m], st'[m]),
           TodoOf(st'[n]) = <<>>, NextOf(st'[n]) = 0, ~ WaitOf(st'[n]),
           st'[n].got = st[n].got, st'[n].ok = st[n].ok, SameCounts(st[n], st'[n])
    PROVE  Promise!Flush(n)
<1>1. Todos' = [Todos EXCEPT ![n] = <<>>] /\ Nexts' = [Nexts EXCEPT ![n] = 0]
  BY DEF Todos, Nexts, SameLook, SamePackets
<1>2. UNCHANGED <<Gots, Oks, Sends, Acks>>
  BY DEF Gots, Oks, Sends, Acks, SameLook, SameCounts
<1>3. Waits' = [Waits EXCEPT ![n] = FALSE]
  BY WaitBoolean DEF Waits, SameLook
<1> QED  BY <1>1, <1>2, <1>3
         DEF Promise!Flush, Todos, Nexts, Waits, Gots, Oks, Sends, Acks,
             TodoOf, NextOf, WaitOf, SendsOf, AcksOf

\* R is who noted the packet for the group.
LEMMA LinkGroupDone ==
    ASSUME NEW n \in Station, TodoOf(st[n]) # <<>>, WaitOf(st[n]), First(st[n]).to = Group,
           \A m \in Station : m # n => /\ SamePackets(st[m], st'[m]) /\ SameCounts(st[m], st'[m])
                                       /\ WaitOf(st'[m]) = WaitOf(st[m]) /\ st'[m].ok = st[m].ok,
           NEW R \in SUBSET (Station \ {n}),
           \A m \in Station : st'[m].got = IF m \in R THEN st[m].got \cup {<<First(st[n]).pid, 0>>}
                                           ELSE st[m].got,
           ~ WaitOf(st'[n]), TodoOf(st'[n]) = Tail(TodoOf(st[n])), NextOf(st'[n]) = 0,
           st'[n].ok = st[n].ok, SameCounts(st[n], st'[n])
    PROVE  Promise!GroupDone(n)
<1>1. Todos[n] # <<>> /\ Waits[n] /\ Head(Todos[n]) = First(st[n])
  BY DEF Todos, Waits, First
<1>2. Todos' = [Todos EXCEPT ![n] = Tail(@)] /\ Nexts' = [Nexts EXCEPT ![n] = 0]
  BY DEF Todos, Nexts, SamePackets
<1>3. UNCHANGED <<Oks, Sends, Acks>>
  BY DEF Oks, Sends, Acks, SameCounts
<1>4. Waits' = [Waits EXCEPT ![n] = FALSE]
  BY WaitBoolean DEF Waits
<1>5. Gots' = [m \in Station |-> IF m \in R THEN Gots[m] \cup {<<First(st[n]).pid, 0>>} ELSE Gots[m]]
  BY DEF Gots
<1>6. \E S \in SUBSET (Station \ {n}) :
          Gots' = [m \in Station |-> IF m \in S THEN Gots[m] \cup {<<Head(Todos[n]).pid, 0>>} ELSE Gots[m]]
  <2>1. Gots' = [m \in Station |-> IF m \in R THEN Gots[m] \cup {<<Head(Todos[n]).pid, 0>>} ELSE Gots[m]]
    BY <1>5, <1>1
  <2> QED  BY <2>1
<1> DEFINE G == /\ Todos[n] # <<>> /\ Waits[n] /\ Head(Todos[n]).to = Group
                /\ \E S \in SUBSET (Station \ {n}) :
                      Gots' = [m \in Station |-> IF m \in S THEN Gots[m] \cup {<<Head(Todos[n]).pid, 0>>} ELSE Gots[m]]
                /\ Waits' = [Waits EXCEPT ![n] = FALSE]
                /\ Todos' = [Todos EXCEPT ![n] = Tail(@)] /\ Nexts' = [Nexts EXCEPT ![n] = 0]
                /\ UNCHANGED <<Oks, Sends, Acks>>
<1>7. G
  BY <1>1, <1>2, <1>3, <1>4, <1>6
<1>8. G <=> Promise!GroupDone(n)
  BY Zenon DEF Promise!GroupDone, Promise!Drop, Promise!Trying, Promise!Current,
             Todos, Nexts, Waits, Gots, Oks, Sends, Acks, TodoOf, NextOf, WaitOf, SendsOf, AcksOf
<1> QED  BY <1>7, <1>8

\* The ack of k for the fragment of n, the last one or not.
LEMMA LinkAck ==
    ASSUME NEW n \in Station, \A m \in Station : m # n => SameLook(st[m], st'[m]),
           TodoOf(st[n]) # <<>>, WaitOf(st[n]), NEW k \in Station, First(st[n]).to = k,
           <<First(st[n]).pid, NextOf(st[n])>> \in st[k].got,
           ~ WaitOf(st'[n]), st'[n].got = st[n].got,
           SendsOf(st'[n]) = SendsOf(st[n]),
           AcksOf(st'[n]) = [AcksOf(st[n]) EXCEPT ![k] = @ + 1],
           \/ /\ NextOf(st[n]) + 1 = First(st[n]).frags
              /\ st'[n].ok = st[n].ok \cup {First(st[n]).pid}
              /\ TodoOf(st'[n]) = Tail(TodoOf(st[n])) /\ NextOf(st'[n]) = 0
           \/ /\ NextOf(st[n]) + 1 # First(st[n]).frags
              /\ st'[n].ok = st[n].ok
              /\ TodoOf(st'[n]) = TodoOf(st[n]) /\ NextOf(st'[n]) = NextOf(st[n]) + 1
    PROVE  Promise!Ack(n)
<1>1. /\ Todos[n] # <<>> /\ Waits[n] /\ Head(Todos[n]) = First(st[n]) /\ Nexts[n] = NextOf(st[n])
      /\ Gots[k] = st[k].got
  BY DEF Todos, Waits, First, Nexts, Gots
<1>2. UNCHANGED <<Gots, Sends>>
  BY DEF Gots, Sends, SameLook, SameCounts
<1>3. Waits' = [Waits EXCEPT ![n] = FALSE]
  BY WaitBoolean DEF Waits, SameLook
<1>4. Acks' = [Acks EXCEPT ![n][k] = @ + 1]
  BY DEF Acks, SameLook, SameCounts
<1>5. CASE /\ NextOf(st[n]) + 1 = First(st[n]).frags
           /\ st'[n].ok = st[n].ok \cup {First(st[n]).pid}
           /\ TodoOf(st'[n]) = Tail(TodoOf(st[n])) /\ NextOf(st'[n]) = 0
  <2>1. Todos' = [Todos EXCEPT ![n] = Tail(@)] /\ Nexts' = [Nexts EXCEPT ![n] = 0]
    BY <1>5 DEF Todos, Nexts, SameLook, SamePackets
  <2>2. Oks' = [Oks EXCEPT ![n] = @ \cup {First(st[n]).pid}]
    BY <1>5 DEF Oks, SameLook
  <2> QED  BY <1>1, <1>2, <1>3, <1>4, <1>5, <2>1, <2>2
           DEF Promise!Ack, Promise!Drop, Promise!Trying, Promise!Current,
               Todos, Nexts, Waits, Gots, Oks, Sends, Acks, TodoOf, NextOf, WaitOf, SendsOf, AcksOf
<1>6. CASE /\ NextOf(st[n]) + 1 # First(st[n]).frags
           /\ st'[n].ok = st[n].ok
           /\ TodoOf(st'[n]) = TodoOf(st[n]) /\ NextOf(st'[n]) = NextOf(st[n]) + 1
  <2>1. Todos' = Todos /\ Nexts' = [Nexts EXCEPT ![n] = @ + 1]
    BY <1>6 DEF Todos, Nexts, SameLook, SamePackets
  <2>2. Oks' = Oks
    BY <1>6 DEF Oks, SameLook
  <2> QED  BY <1>1, <1>2, <1>3, <1>4, <1>6, <2>1, <2>2
           DEF Promise!Ack, Promise!Trying, Promise!Current,
               Todos, Nexts, Waits, Gots, Oks, Sends, Acks, TodoOf, NextOf, WaitOf, SendsOf, AcksOf
<1> QED  BY <1>5, <1>6

\* A packet that was taken is the first.
LEMMA TodoSome ==
    ASSUME NEW s, s.cur # None, s.queue \in Seq(Packets), s.cur \in Packets
    PROVE  TodoOf(s) # <<>> /\ First(s) = s.cur /\ Tail(TodoOf(s)) = s.queue
<1>1. TodoOf(s) = <<s.cur>> \o s.queue
  BY DEF TodoOf
<1>2. <<s.cur>> \in Seq(Packets) /\ Len(<<s.cur>>) = 1
  OBVIOUS
<1> QED  BY <1>1, <1>2 DEF First

\* If none was taken, the packets are those in the queue.
LEMMA TodoNone ==
    ASSUME NEW s, s.cur = None, s.queue \in Seq(Packets)
    PROVE  TodoOf(s) = s.queue /\ NextOf(s) = 0
<1>1. TodoOf(s) = <<>> \o s.queue
  BY DEF TodoOf
<1> QED  BY <1>1 DEF NextOf

\* Appending to the queue appends to the packets.
LEMMA TodoAppend ==
    ASSUME NEW s, s.queue \in Seq(Packets), s.cur \in Packets \cup {None}, NEW p \in Packets,
           NEW t, t.cur = s.cur, t.queue = Append(s.queue, p)
    PROVE  TodoOf(t) = Append(TodoOf(s), p)
<1>1. CASE s.cur = None
  <2>1. TodoOf(s) = s.queue /\ TodoOf(t) = t.queue
    <3>1. t.cur = None /\ t.queue \in Seq(Packets)
      BY <1>1
    <3> QED  BY <1>1, <3>1, TodoNone
  <2> QED  BY <2>1
<1>2. CASE s.cur # None
  <2>1. TodoOf(s) = <<s.cur>> \o s.queue /\ TodoOf(t) = <<s.cur>> \o Append(s.queue, p)
    BY <1>2 DEF TodoOf
  <2>2. <<s.cur>> \in Seq(Packets)
    BY <1>2
  <2> QED  BY <2>1, <2>2
<1> QED  BY <1>1, <1>2

\* Dequeue moves a packet but leaves their order.
LEMMA TodoTaken ==
    ASSUME NEW s, s.cur = None, s.queue \in Seq(Packets), s.queue # <<>>,
           NEW t, t.cur # None, t.cur = Head(s.queue), t.queue = Tail(s.queue)
    PROVE  TodoOf(t) = TodoOf(s)
<1>1. TodoOf(s) = s.queue
  BY TodoNone
<1>2. TodoOf(t) = <<Head(s.queue)>> \o Tail(s.queue)
  BY DEF TodoOf
<1>3. <<Head(s.queue)>> \o Tail(s.queue) = s.queue
  OBVIOUS
<1> QED  BY <1>1, <1>2, <1>3

\* The packets are given by these four fields.
LEMMA PacketsAlike ==
    ASSUME NEW s, NEW t, t.cur = s.cur, t.queue = s.queue, t.fragNr = s.fragNr,
           t.waitSifs = s.waitSifs
    PROVE  SamePackets(s, t)
BY DEF SamePackets, TodoOf, NextOf

\* The attempt is given by these four.
LEMMA WaitAlike ==
    ASSUME NEW s, NEW t, t.ackTimer = s.ackTimer, t.ctsTimer = s.ctsTimer,
           t.sendData = s.sendData, t.tx = s.tx
    PROVE  WaitOf(t) = WaitOf(s)
BY DEF WaitOf

\* Equivalent conditions are equal.
LEMMA WaitBoth == ASSUME NEW s, NEW t, WaitOf(s) <=> WaitOf(t) PROVE WaitOf(t) = WaitOf(s)
BY DEF WaitOf

\* The counts are given by the ratio.
LEMMA CountsAlike == ASSUME NEW s, NEW t, t.ratio = s.ratio PROVE SameCounts(s, t)
BY DEF SameCounts, SendsOf, AcksOf

\* What Link sees is given by these.
LEMMA LookAlike ==
    ASSUME NEW s, NEW t, t.cur = s.cur, t.queue = s.queue, t.fragNr = s.fragNr,
           t.waitSifs = s.waitSifs, WaitOf(t) <=> WaitOf(s), t.got = s.got, t.ok = s.ok,
           t.ratio = s.ratio
    PROVE  SameLook(s, t)
BY PacketsAlike, CountsAlike, WaitBoth DEF SameLook

\* Who does not take part looks the same.
LEMMA Others ==
    ASSUME IInv, NEW n \in Station, NEW t, st' = [st EXCEPT ![n] = t]
    PROVE  st'[n] = t /\ \A m \in Station : m # n => SameLook(st[m], st'[m])
<1>1. st'[n] = t /\ \A m \in Station : m # n => st'[m] = st[m]
  BY DEF IInv, Stations
<1>2. \A s : SameLook(s, s)
  BY DEF SameLook, SamePackets, SameCounts
<1> QED  BY <1>1, <1>2

\* A step of n that Link does not see.
LEMMA OneStutters ==
    ASSUME IInv, NEW n \in Station, NEW t, st' = [st EXCEPT ![n] = t], SameLook(st[n], t)
    PROVE  UNCHANGED Promise!vars
BY Others, LinkStutter

\* Queue is Offer.
LEMMA OfferLink ==
    ASSUME IInv, NEW u \in Traffic, Offer(u)
    PROVE  u.node \in Station /\ u.packet \in Packets /\ Promise!Offer(u.node, u.packet)
<1> DEFINE n == u.node
           p == u.packet
           s == st[n]
           t == Queue(s, p)
<1>1. n \in Station /\ p \in Packets
  BY TrafficAssumption DEF Packets
<1>2. Local(n, s)
  BY <1>1, StationAt
<1>3. DOMAIN s = Fields /\ s.queue \in Seq(Packets) /\ s.cur \in Packets \cup {None}
  BY <1>2 DEF Local, Types, Sane
<1>4. Keeps(s, t, {"queue", "req"}) /\ t.queue = Append(s.queue, p)
  BY <1>3, QueueEffect
<1>5. st' = [st EXCEPT ![n] = t]
  BY DEF Offer, Update
<1> HIDE DEF t
<1>6. /\ t.cur = s.cur /\ t.fragNr = s.fragNr /\ t.waitSifs = s.waitSifs
      /\ t.ackTimer = s.ackTimer /\ t.ctsTimer = s.ctsTimer /\ t.sendData = s.sendData
      /\ t.tx = s.tx /\ t.got = s.got /\ t.ok = s.ok /\ t.ratio = s.ratio
  BY <1>4 DEF Keeps, Fields
<1>7. TodoOf(t) = Append(TodoOf(s), p)
  BY <1>1, <1>3, <1>4, <1>6, TodoAppend
<1>8. NextOf(t) = NextOf(s) /\ WaitOf(t) = WaitOf(s) /\ SameCounts(s, t)
  BY <1>6, WaitAlike, CountsAlike DEF NextOf
<1>9. st'[n] = t /\ \A m \in Station : m # n => SameLook(st[m], st'[m])
  BY <1>1, <1>5, Others
<1> QED  BY <1>1, <1>6, <1>7, <1>8, <1>9, LinkOffer

\* One more for k.
More(f, k) == [f EXCEPT ![k] = @ + 1]

\* The counters of who begins to send.
LEMMA CountedStation ==
    ASSUME NEW s, s.ratio \in Ratios, NEW t, NEW to \in Station, t.ratio = Counted(s.ratio, to)
    PROVE  AcksOf(t) = AcksOf(s) /\ SendsOf(t) = More(SendsOf(s), to)
<1>1. t.ratio = [s.ratio EXCEPT ![to] = AddSend(s.ratio[to])]
  BY StationAssumption DEF Counted, AddSendTo
<1>2. s.ratio[to] \in [sends : Nat, acks : Nat]
  BY DEF Ratios
<1>3. AddSend(s.ratio[to]).acks = s.ratio[to].acks /\ AddSend(s.ratio[to]).sends = s.ratio[to].sends + 1
  BY <1>2 DEF AddSend
<1>4. \A m \in Station : t.ratio[m] = IF m = to THEN AddSend(s.ratio[to]) ELSE s.ratio[m]
  BY <1>1 DEF Ratios
<1>5. \A m \in Station : t.ratio[m].acks = s.ratio[m].acks
  BY <1>3, <1>4
<1>6. \A m \in Station : t.ratio[m].sends = IF m = to THEN s.ratio[to].sends + 1 ELSE s.ratio[m].sends
  BY <1>3, <1>4
<1>7. AcksOf(t) = AcksOf(s)
  BY <1>5 DEF AcksOf
<1>8. SendsOf(t) = [SendsOf(s) EXCEPT ![to] = @ + 1]
  BY <1>6 DEF SendsOf
<1> QED  BY <1>7, <1>8 DEF More

\* Frames to a group are not counted.
LEMMA CountedGroup ==
    ASSUME NEW s, NEW t, t.ratio = Counted(s.ratio, Group)
    PROVE  AcksOf(t) = AcksOf(s) /\ SendsOf(t) = SendsOf(s)
BY DEF Counted, AcksOf, SendsOf

\* Who begins to send a fragment waits.
LEMMA OpensWait ==
    ASSUME NEW n, NEW t, Opens(n, t), t.ackTimer \in BOOLEAN, t.ctsTimer \in BOOLEAN PROVE WaitOf(t)
BY DEF Opens, WaitOf

\* Who begins to send a fragment makes an attempt.
LEMMA AttemptLink ==
    ASSUME IInv, NEW n \in Station, NEW t, st' = [st EXCEPT ![n] = t],
           ~ WaitOf(st[n]), Opens(n, t), t.cur \in Packets, t.queue \in Seq(Packets), Sane(t),
           SamePackets(st[n], t), t.got = st[n].got, t.ok = st[n].ok,
           t.ratio = Counted(st[n].ratio, t.cur.to)
    PROVE  Promise!Attempt(n)
<1> DEFINE s == st[n]
<1>1. s.ratio \in Ratios
  BY StationAt DEF Local, Types, Sane
<1>2. t.cur # None /\ t.cur.to \in Station \cup {Group}
  BY PacketType
<1>3. TodoOf(t) # <<>> /\ First(t) = t.cur
  BY <1>2, TodoSome
<1>4. TodoOf(s) # <<>> /\ First(s) = t.cur
  BY <1>3 DEF SamePackets, First
<1>5. /\ AcksOf(t) = AcksOf(s)
      /\ SendsOf(t) = IF t.cur.to \in Station
                      THEN [SendsOf(s) EXCEPT ![t.cur.to] = @ + 1] ELSE SendsOf(s)
  <2>1. CASE t.cur.to \in Station
    <3> DEFINE k == t.cur.to
    <3>1. k \in Station /\ t.ratio = Counted(s.ratio, k)
      BY <2>1
    <3> HIDE DEF s, k
    <3>2. AcksOf(t) = AcksOf(s) /\ SendsOf(t) = More(SendsOf(s), k)
      BY <1>1, <3>1, CountedStation
    <3> QED  BY <2>1, <3>2 DEF k, s, More
  <2>2. CASE t.cur.to = Group
    <3>1. t.ratio = Counted(s.ratio, Group)
      BY <2>2
    <3>2. AcksOf(t) = AcksOf(s) /\ SendsOf(t) = SendsOf(s)
      BY <3>1, CountedGroup
    <3> QED  BY <2>2, <3>2, StationAssumption
  <2> QED  BY <1>2, <2>1, <2>2
<1>6. WaitOf(t)
  BY OpensWait DEF Sane, OneAttempt
<1>7. st'[n] = t /\ \A m \in Station : m # n => SameLook(st[m], st'[m])
  BY Others
<1>8. SendsOf(st'[n]) = IF First(st[n]).to \in Station
                        THEN [SendsOf(st[n]) EXCEPT ![First(st[n]).to] = @ + 1]
                        ELSE SendsOf(st[n])
  BY <1>4, <1>5, <1>7
<1> QED  BY <1>4, <1>5, <1>6, <1>7, <1>8, LinkAttempt

\* A grant is an attempt, or for nothing.
LEMMA GrantLink ==
    ASSUME IInv, NEW n \in Station, Grant(n)
    PROVE  Promise!Attempt(n) \/ UNCHANGED Promise!vars
<1> DEFINE s == st[n]
           t == NotifyAccessGranted(n, s)
<1>1. Local(n, s) /\ Local(n, s) /\ DOMAIN s = Fields /\ Types(n, s) /\ s.queue \in Seq(Packets)
  BY StationAt DEF Local, Types, Sane
<1>2. /\ s.tx = Silence /\ ~ s.waitSifs /\ ~ s.ackTimer /\ ~ s.ctsTimer /\ ~ s.sendData
      /\ st' = [st EXCEPT ![n] = t]
  BY DEF Grant, MayGrant, Due, Sending, Update
<1>3. ~ WaitOf(s)
  BY <1>2 DEF WaitOf, Silence
<1>4. CASE s.cur = None /\ s.queue = <<>>
  <2>1. Keeps(s, t, {"req"})
    BY <1>1, <1>4, GrantIdle
  <2> HIDE DEF t
  <2>2. /\ t.tx = s.tx /\ t.got = s.got /\ t.ok = s.ok /\ t.ackTimer = s.ackTimer
        /\ t.ctsTimer = s.ctsTimer /\ t.sendData = s.sendData /\ t.waitSifs = s.waitSifs
        /\ t.ratio = s.ratio /\ t.cur = s.cur /\ t.queue = s.queue /\ t.fragNr = s.fragNr
    BY <2>1 DEF Keeps, Fields
  <2>3. SameLook(s, t)
    BY <2>2, WaitAlike, LookAlike
  <2> QED  BY <1>2, <2>3, OneStutters
<1>5. CASE s.cur # None \/ s.queue # <<>>
  <2>1. Local(n, t)
    BY <1>1, <1>2, <1>5, GrantLocal
  <2>2. Keeps(s, t, SendFields \cup QueueFields \cup {"req"}) /\ Opens(n, t) /\ t.cur \in Packets
    BY <1>1, <1>2, <1>5, GrantEffect
  <2>10. t.ratio = Counted(s.ratio, t.cur.to)
    BY <1>1, <1>2, <1>5, GrantEffect
  <2>3. s.cur # None => /\ t.cur = s.cur /\ t.queue = s.queue /\ t.fragNr = s.fragNr
    BY <1>1, <1>2, GrantEffect
  <2>4. s.cur = None => /\ t.cur = Head(s.queue) /\ t.queue = Tail(s.queue) /\ t.fragNr = 0
    BY <1>1, <1>2, <1>5, GrantEffect
  <2> HIDE DEF t
  <2>5. t.got = s.got /\ t.ok = s.ok /\ ~ t.waitSifs
    BY <2>2 DEF Keeps, SendFields, QueueFields, Fields, Opens
  <2>6. t.cur # None /\ Sane(t) /\ t.queue \in Seq(Packets)
    BY <2>1, <2>2, PacketType DEF Local, Types
  <2>7. TodoOf(t) = TodoOf(s)
    BY <1>1, <1>5, <2>3, <2>4, <2>6, TodoTaken DEF TodoOf
  <2>8. NextOf(t) = NextOf(s)
    BY <1>2, <2>3, <2>4, <2>5, <2>6 DEF NextOf
  <2>9. SamePackets(s, t)
    BY <2>7, <2>8 DEF SamePackets
  <2> QED  BY <1>2, <1>3, <2>2, <2>5, <2>6, <2>9, <2>10, AttemptLink
<1> QED  BY <1>4, <1>5

\* The next fragment is an attempt.
LEMMA NextFragmentLink ==
    ASSUME IInv, NEW n \in Station, NextFragment(n) PROVE Promise!Attempt(n)
<1> DEFINE s == st[n]
           t == WaitSifsAfterEndTx(n, s)
<1>1. /\ Local(n, s) /\ DOMAIN s = Fields /\ Types(n, s) /\ s.waitSifs
      /\ st' = [st EXCEPT ![n] = t]
  BY StationAt DEF Local, Types, Sane, NextFragment, Event, Update
<1>2. /\ s.cur # None /\ s.cur.to \in Station /\ s.listener /\ s.tx = Silence /\ ~ Awaits(s)
      /\ s.fragNr \in Nat
  BY <1>1 DEF Local, Types, Exchange, Open, OneDue
<1>3. ~ WaitOf(s)
  BY <1>2 DEF WaitOf, Silence, Awaits
<1>4. Local(n, t)
  BY <1>1, WaitSifsLocal
<1>10. Types(n, s) /\ s.tx = Silence /\ s.listener /\ s.cur # None /\ s.cur.to \in Station
  BY <1>1, <1>2
<1>5. Keeps(s, t, SendFields \cup {"fragNr"}) /\ Opens(n, t) /\ t.fragNr = s.fragNr + 1
  <2>1. t = WaitSifsAfterEndTx(n, s)
    OBVIOUS
  <2> HIDE DEF t
  <2> QED  BY ONLY <1>10, <2>1, WaitSifsEffect
<1>9. t.ratio = Counted(s.ratio, s.cur.to)
  <2>1. t = WaitSifsAfterEndTx(n, s)
    OBVIOUS
  <2> HIDE DEF t
  <2> QED  BY ONLY <1>10, <2>1, WaitSifsEffect
<1> HIDE DEF t
<1>6. t.got = s.got /\ t.ok = s.ok /\ t.cur = s.cur /\ t.queue = s.queue /\ ~ t.waitSifs
  BY <1>5 DEF Keeps, SendFields, Fields, Opens
<1>7. t.cur \in Packets /\ t.queue \in Seq(Packets) /\ Sane(t)
  BY <1>2, <1>4, <1>6 DEF Local, Types
<1>8. SamePackets(s, t)
  BY <1>1, <1>2, <1>5, <1>6 DEF SamePackets, TodoOf, NextOf
<1> QED  BY <1>1, <1>3, <1>5, <1>6, <1>7, <1>8, <1>9, AttemptLink

\* Link does not see a CTS.
LEMMA SendCtsLink ==
    ASSUME IInv, NEW n \in Station, SendCts(n) PROVE UNCHANGED Promise!vars
<1> DEFINE s == st[n]
           t == SendCtsAfterRts(n, s)
<1>1. Local(n, s) /\ s.sendCts # None /\ st' = [st EXCEPT ![n] = t]
  BY StationAt DEF SendCts, Event, Update
<1>2. /\ Keeps(s, t, {"abort", "sendCts", "tx"}) /\ s.tx = Silence
      /\ t.tx = [type |-> "cts", to |-> s.sendCts, from |-> n, frag |-> NoFragment]
  BY <1>1, SendCtsLocal
<1> HIDE DEF t
<1>3. /\ t.cur = s.cur /\ t.queue = s.queue /\ t.fragNr = s.fragNr /\ t.waitSifs = s.waitSifs
      /\ t.got = s.got /\ t.ok = s.ok /\ t.ratio = s.ratio
      /\ t.ackTimer = s.ackTimer /\ t.ctsTimer = s.ctsTimer /\ t.sendData = s.sendData
  BY <1>2 DEF Keeps, Fields
<1>4. WaitOf(t) <=> WaitOf(s)
  BY <1>2, <1>3 DEF WaitOf, Silence
<1>5. SameLook(s, t)
  BY <1>3, <1>4, LookAlike
<1> QED  BY <1>1, <1>5, OneStutters

\* Link sees an ack when it arrives.
LEMMA SendAckLink ==
    ASSUME IInv, NEW n \in Station, SendAck(n) PROVE UNCHANGED Promise!vars
<1> DEFINE s == st[n]
           t == SendAckAfterData(n, s)
<1>1. Local(n, s) /\ s.sendAck # None /\ st' = [st EXCEPT ![n] = t]
  BY StationAt DEF SendAck, Event, Update
<1>2. /\ Keeps(s, t, {"abort", "sendAck", "tx"}) /\ s.tx = Silence
      /\ t.tx = [type |-> "ack", to |-> s.sendAck, from |-> n, frag |-> NoFragment]
  BY <1>1, SendAckLocal
<1> HIDE DEF t
<1>3. /\ t.cur = s.cur /\ t.queue = s.queue /\ t.fragNr = s.fragNr /\ t.waitSifs = s.waitSifs
      /\ t.got = s.got /\ t.ok = s.ok /\ t.ratio = s.ratio
      /\ t.ackTimer = s.ackTimer /\ t.ctsTimer = s.ctsTimer /\ t.sendData = s.sendData
  BY <1>2 DEF Keeps, Fields
<1>4. WaitOf(t) <=> WaitOf(s)
  BY <1>2, <1>3 DEF WaitOf, Silence
<1>5. SameLook(s, t)
  BY <1>3, <1>4, LookAlike
<1> QED  BY <1>1, <1>5, OneStutters

\* The attempt began with the RTS and goes on.
LEMMA SendDataLink ==
    ASSUME IInv, NEW n \in Station, SendData(n) PROVE UNCHANGED Promise!vars
<1> DEFINE s == st[n]
           t == SendDataAfterCts(n, s)
<1>1. Local(n, s) /\ s.sendData /\ st' = [st EXCEPT ![n] = t]
  BY StationAt DEF SendData, Event, Update
<1>2. Keeps(s, t, {"abort", "sendData", "ackTimer", "tx", "pkt"}) /\ t.ackTimer
  BY <1>1, SendDataLocal
<1> HIDE DEF t
<1>3. /\ t.cur = s.cur /\ t.queue = s.queue /\ t.fragNr = s.fragNr /\ t.waitSifs = s.waitSifs
      /\ t.got = s.got /\ t.ok = s.ok /\ t.ratio = s.ratio
  BY <1>2 DEF Keeps, Fields
<1>4. WaitOf(t) <=> WaitOf(s)
  BY <1>1, <1>2 DEF WaitOf
<1>5. SameLook(s, t)
  BY <1>3, <1>4, LookAlike
<1> QED  BY <1>1, <1>5, OneStutters

\* Link does not see the NAV.
LEMMA NavEndLink ==
    ASSUME IInv, NEW n \in Station, NavEnd(n) PROVE UNCHANGED Promise!vars
<1> DEFINE s == st[n]
           t == [s EXCEPT !.nav = FALSE]
<1>1. Local(n, s) /\ DOMAIN s = Fields /\ st' = [st EXCEPT ![n] = t]
  BY StationAt DEF Local, Types, Sane, NavEnd, Event, Update
<1>2. /\ t.cur = s.cur /\ t.queue = s.queue /\ t.fragNr = s.fragNr /\ t.waitSifs = s.waitSifs
      /\ t.got = s.got /\ t.ok = s.ok /\ t.ratio = s.ratio /\ t.tx = s.tx
      /\ t.ackTimer = s.ackTimer /\ t.ctsTimer = s.ctsTimer /\ t.sendData = s.sendData
  BY <1>1 DEF Fields
<1> HIDE DEF t
<1>3. SameLook(s, t)
  BY <1>2, WaitAlike, LookAlike
<1> QED  BY <1>1, <1>3, OneStutters

\* An attempt that ends without an ack leaves the packets, or drops the first.
LEMMA MissLink ==
    ASSUME IInv, NEW n \in Station, NEW t, st' = [st EXCEPT ![n] = t],
           WaitOf(st[n]), ~ WaitOf(t), st[n].cur # None,
           (t.cur = st[n].cur /\ t.fragNr = st[n].fragNr) \/ t.cur = None,
           t.queue = st[n].queue, t.waitSifs = st[n].waitSifs,
           t.got = st[n].got, t.ok = st[n].ok, t.ratio = st[n].ratio
    PROVE  Promise!Miss(n)
<1> DEFINE s == st[n]
<1>1. s.queue \in Seq(Packets) /\ s.cur \in Packets
  BY StationAt DEF Local, Types
<1>2. TodoOf(s) # <<>> /\ Tail(TodoOf(s)) = s.queue
  BY <1>1, TodoSome
<1>3. \/ SamePackets(s, t)
      \/ TodoOf(t) = Tail(TodoOf(s)) /\ NextOf(t) = 0
  <2>1. CASE t.cur = s.cur /\ t.fragNr = s.fragNr
    BY <2>1, PacketsAlike
  <2>2. CASE t.cur = None
    BY <1>1, <1>2, <2>2, TodoNone
  <2> QED  BY <2>1, <2>2
<1>4. SameCounts(s, t)
  BY CountsAlike
<1>5. st'[n] = t /\ \A m \in Station : m # n => SameLook(st[m], st'[m])
  BY Others
<1> QED  BY <1>2, <1>3, <1>4, <1>5, LinkMiss

\* No CTS came: the attempt is over.
LEMMA MissCtsLink ==
    ASSUME IInv, NEW n \in Station, MissCts(n) PROVE Promise!Miss(n)
<1> DEFINE s == st[n]
           t == CtsTimeout(s)
<1>1. Local(n, s) /\ s.ctsTimer /\ s.tx.type # "rts" /\ st' = [st EXCEPT ![n] = t]
  BY StationAt DEF MissCts, MayMissCts, Event, Update
<1>2. /\ Local(n, t) /\ ~ t.ctsTimer /\ (t.cur = s.cur \/ t.cur = None)
      /\ Keeps(s, t, {"ctsTimer", "ssrc", "pkt", "listener", "failed", "cur", "req"})
  BY <1>1, CtsTimeoutLocal
<1> HIDE DEF t
<1>3. /\ t.got = s.got /\ t.ok = s.ok /\ t.ratio = s.ratio /\ t.queue = s.queue /\ t.tx = s.tx
      /\ t.fragNr = s.fragNr /\ t.waitSifs = s.waitSifs /\ t.ackTimer = s.ackTimer
      /\ t.sendData = s.sendData
  BY <1>2 DEF Keeps, Fields
<1>4. ~ s.ackTimer /\ ~ s.sendData /\ s.cur # None /\ s.cur.to # Group
  BY <1>1, StationAssumption DEF Local, Types, Sane, OneAttempt, Exchange, Open, Awaits
<1>5. ~ (s.tx.type = "data" /\ s.tx.to = Group)
  BY <1>1, <1>4, SentFragment
<1>6. WaitOf(s) /\ ~ WaitOf(t)
  BY <1>1, <1>2, <1>3, <1>4, <1>5 DEF WaitOf
<1> QED  BY <1>1, <1>2, <1>3, <1>4, <1>6, MissLink

\* No ack came: the attempt is over.
LEMMA MissAckLink ==
    ASSUME IInv, NEW n \in Station, MissAck(n) PROVE Promise!Miss(n)
<1> DEFINE s == st[n]
           t == NormalAckTimeout(s)
<1>1. Local(n, s) /\ s.ackTimer /\ s.tx.type # "data" /\ st' = [st EXCEPT ![n] = t]
  BY StationAt DEF MissAck, MayMissAck, Event, Update
<1>2. /\ Local(n, t) /\ ~ t.ackTimer /\ (t.cur = s.cur \/ t.cur = None)
      /\ Keeps(s, t, {"ackTimer", "slrc", "retry", "listener", "failed", "cur", "req"})
  BY <1>1, AckTimeoutLocal
<1> HIDE DEF t
<1>3. /\ t.got = s.got /\ t.ok = s.ok /\ t.ratio = s.ratio /\ t.queue = s.queue /\ t.tx = s.tx
      /\ t.fragNr = s.fragNr /\ t.waitSifs = s.waitSifs /\ t.ctsTimer = s.ctsTimer
      /\ t.sendData = s.sendData
  BY <1>2 DEF Keeps, Fields
<1>4. ~ s.ctsTimer /\ ~ s.sendData /\ s.cur # None
  BY <1>1 DEF Local, Types, Sane, OneAttempt, Exchange, Open, Awaits
<1>5. WaitOf(s) /\ ~ WaitOf(t)
  BY <1>1, <1>2, <1>3, <1>4 DEF WaitOf
<1> QED  BY <1>1, <1>2, <1>3, <1>4, <1>5, MissLink

\* A switch of the channel is Flush.
LEMMA SwitchLink ==
    ASSUME IInv, NEW n \in Station, SwitchChannel(n) PROVE Promise!Flush(n)
<1> DEFINE s == st[n]
           t == NotifySwitchingStartNow(s)
<1>1. /\ Local(n, s) /\ DOMAIN s = Fields /\ s.tx = Silence /\ st' = [st EXCEPT ![n] = t]
  BY StationAt DEF Local, Types, Sane, SwitchChannel, Sending
<1>2. /\ t.queue = <<>> /\ t.cur = None
      /\ ~ t.ackTimer /\ ~ t.ctsTimer /\ ~ t.sendData
      /\ t.tx = s.tx /\ t.got = s.got /\ t.ok = s.ok /\ t.ratio = s.ratio
  BY <1>1, SwitchEffect
<1> HIDE DEF t
<1>3. TodoOf(t) = <<>> /\ NextOf(t) = 0
  <2>1. t.queue \in Seq(Packets)
    BY <1>2
  <2> QED  BY <1>2, <2>1, TodoNone
<1>4. ~ WaitOf(t)
  BY <1>1, <1>2 DEF WaitOf, Silence
<1>5. SameCounts(s, t)
  BY <1>2, CountsAlike
<1>6. st'[n] = t /\ \A m \in Station : m # n => SameLook(st[m], st'[m])
  BY <1>1, Others
<1> QED  BY <1>2, <1>3, <1>4, <1>5, <1>6, LinkFlush

\* What a frame that is neither an ack nor data leaves of who hears it.
LEMMA HeardLook ==
    ASSUME NEW m, NEW f, NEW s, NEW t,
           HeardAside(s, t) \/ HeardCts(m, f, s, t)
    PROVE  SameLook(s, t)
<1>1. /\ t.cur = s.cur /\ t.queue = s.queue /\ t.fragNr = s.fragNr /\ t.waitSifs = s.waitSifs
      /\ t.got = s.got /\ t.ok = s.ok /\ t.ratio = s.ratio /\ t.tx = s.tx
      /\ t.ackTimer = s.ackTimer
  BY DEF HeardAside, HeardCts, Keeps, Fields
<1>2. WaitOf(t) <=> WaitOf(s)
  <2>1. CASE HeardAside(s, t)
    <3>1. t.ctsTimer = s.ctsTimer /\ t.sendData = s.sendData
      BY <2>1 DEF HeardAside, Keeps, Fields
    <3> QED  BY <1>1, <3>1 DEF WaitOf
  <2>2. CASE HeardCts(m, f, s, t)
    BY <2>2 DEF HeardCts, WaitOf
  <2> QED  BY <2>1, <2>2
<1> QED  BY <1>1, <1>2, LookAlike

\* The sender goes on waiting, unless nobody is to acknowledge what it sent.
LEMMA SenderLook ==
    ASSUME IInv, NEW n \in Station, NEW R, TxEndFor(n, R),
           ~ (st[n].tx.type = "data" /\ st[n].tx.to = Group)
    PROVE  SameLook(st[n], st'[n])
<1> DEFINE s == st[n]
           t == TransmissionEnds(s)
<1>1. st'[n] = t /\ Local(n, s)
  BY TxEndHeard, StationAt
<1>2. t.tx = Silence /\ Keeps(s, t, {"tx"})
  BY <1>1, TransmissionEndsEffect DEF Broadcasts
<1> HIDE DEF t
<1>3. /\ t.cur = s.cur /\ t.queue = s.queue /\ t.fragNr = s.fragNr /\ t.waitSifs = s.waitSifs
      /\ t.got = s.got /\ t.ok = s.ok /\ t.ratio = s.ratio
      /\ t.ackTimer = s.ackTimer /\ t.ctsTimer = s.ctsTimer /\ t.sendData = s.sendData
  BY <1>2 DEF Keeps, Fields
<1>4. WaitOf(t) <=> WaitOf(s)
  BY <1>2, <1>3 DEF WaitOf, Silence
<1> QED  BY <1>1, <1>3, <1>4, LookAlike

\* Who receives the frame, and what it is to it.
LEMMA TxEndLook ==
    ASSUME IInv, NEW n \in Station, NEW R, TxEndFor(n, R), NEW m \in Station, m # n
    PROVE  \/ SameLook(st[m], st'[m])
           \/ m \in R /\ HeardAck(m, st[n].tx, st[m], st'[m])
           \/ m \in R /\ HeardData(m, st[n].tx, st[m], st'[m])
           \/ m \in R /\ HeardGroup(st[n].tx, st[m], st'[m])
<1>1. CASE m \in R
  <2>1. Heard(m, st[n].tx, st[m], st'[m])
    BY <1>1, TxEndHeard
  <2> QED  BY <1>1, <2>1, HeardLook DEF Heard
<1>2. CASE m \notin R
  <2>1. st'[m] = st[m]
    BY <1>2, TxEndHeard
  <2> QED  BY <2>1 DEF SameLook, SamePackets, SameCounts
<1> QED  BY <1>1, <1>2

\* An ack that an attempt awaits.
LEMMA AckedLook ==
    ASSUME NEW s, s.ratio \in Ratios, NEW k \in Station, NEW t, t.ratio = AddAckFrom(s.ratio, k)
    PROVE  SendsOf(t) = SendsOf(s) /\ AcksOf(t) = More(AcksOf(s), k)
<1>1. t.ratio = [s.ratio EXCEPT ![k] = AddAck(s.ratio[k])]
  BY DEF AddAckFrom
<1>2. s.ratio[k] \in [sends : Nat, acks : Nat]
  BY DEF Ratios
<1>3. AddAck(s.ratio[k]).sends = s.ratio[k].sends /\ AddAck(s.ratio[k]).acks = s.ratio[k].acks + 1
  BY <1>2 DEF AddAck
<1>4. \A m \in Station : t.ratio[m] = IF m = k THEN AddAck(s.ratio[k]) ELSE s.ratio[m]
  BY <1>1 DEF Ratios
<1>5. \A m \in Station : t.ratio[m].sends = s.ratio[m].sends
  BY <1>3, <1>4
<1>6. \A m \in Station : t.ratio[m].acks = IF m = k THEN s.ratio[k].acks + 1 ELSE s.ratio[m].acks
  BY <1>3, <1>4
<1>7. SendsOf(t) = SendsOf(s)
  BY <1>5 DEF SendsOf
<1>8. AcksOf(t) = More(AcksOf(s), k)
  BY <1>6 DEF AcksOf, More
<1> QED  BY <1>7, <1>8

\* Whose attempt is open has its fragment next.
LEMMA AwaitsFirst ==
    ASSUME NEW n, NEW s, Local(n, s), s.ackTimer
    PROVE  /\ s.cur # None /\ s.cur \in Packets /\ s.cur.to \in Station
           /\ s.hdr.pid = s.cur.pid /\ s.hdr.nr = s.fragNr /\ s.hdr.to = s.cur.to
           /\ TodoOf(s) # <<>> /\ First(s) = s.cur /\ Tail(TodoOf(s)) = s.queue
           /\ NextOf(s) = s.fragNr /\ s.fragNr \in Nat
           /\ WaitOf(s) /\ ~ s.ctsTimer /\ ~ s.sendData /\ ~ s.waitSifs
<1>1. /\ s.cur # None /\ s.cur.to \in Station /\ s.hdr = Fragment(s) /\ ~ s.waitSifs
  BY DEF Local, Exchange, Open, Awaits
<1>2. s.cur \in Packets /\ s.queue \in Seq(Packets) /\ s.fragNr \in Nat
  BY <1>1 DEF Local, Types
<1>3. ~ s.ctsTimer /\ ~ s.sendData
  BY DEF Local, Types, Sane, OneAttempt
<1>4. s.hdr.pid = s.cur.pid /\ s.hdr.nr = s.fragNr /\ s.hdr.to = s.cur.to
  BY <1>1 DEF Fragment
<1>5. TodoOf(s) # <<>> /\ First(s) = s.cur /\ Tail(TodoOf(s)) = s.queue
  BY <1>1, <1>2, TodoSome
<1>6. NextOf(s) = s.fragNr /\ WaitOf(s)
  BY <1>1, <1>2 DEF NextOf, WaitOf
<1> QED  BY <1>1, <1>2, <1>3, <1>4, <1>5, <1>6

\* The ack that k awaits is that of the fragment it waits for, which its
\* destination has.
LEMMA AckLink ==
    ASSUME IInv, NEW n \in Station, NEW R, TxEndFor(n, R), NEW k \in R,
           HeardAck(k, st[n].tx, st[k], st'[k])
    PROVE  k \in Station /\ Promise!Ack(k)
<1> DEFINE s == st[k]
           t == st'[k]
           f == st[n].tx
<1>1. /\ k \in Station /\ k # n /\ s.tx = Silence /\ Local(k, s) /\ k \in hear[n]
      /\ f.type = "ack" /\ f.to = k
  <2>1. k \in Station /\ k # n /\ s.tx = Silence
    BY TxEndHeard
  <2>2. Local(k, s)
    BY <2>1, StationAt
  <2>3. k \in hear[n]
    BY DEF TxEndFor
  <2>4. f.type = "ack" /\ f.to = k
    BY DEF HeardAck
  <2> QED  BY <2>1, <2>2, <2>3, <2>4
<1>2. /\ s.ackTimer /\ ~ t.ackTimer /\ t.ratio = AddAckFrom(s.ratio, s.cur.to)
      /\ Keeps(s, t, {"abort", "ratio", "ackTimer", "slrc", "waitSifs", "ok", "cur", "req"})
  BY DEF HeardAck
<1>3. /\ s.cur # None /\ s.cur \in Packets /\ s.cur.to \in Station
      /\ s.hdr.pid = s.cur.pid /\ s.hdr.nr = s.fragNr /\ s.hdr.to = s.cur.to
      /\ TodoOf(s) # <<>> /\ First(s) = s.cur /\ Tail(TodoOf(s)) = s.queue
      /\ NextOf(s) = s.fragNr /\ s.fragNr \in Nat
      /\ WaitOf(s) /\ ~ s.ctsTimer /\ ~ s.sendData /\ ~ s.waitSifs
  BY <1>1, <1>2, AwaitsFirst
<1>4. Match(n, k)
  BY <1>1, <1>2 DEF IInv, Answers, Open, Awaits
<1>5. n = First(s).to /\ <<First(s).pid, NextOf(s)>> \in st[n].got
  BY <1>3, <1>4 DEF Match
<1>6. /\ t.queue = s.queue /\ t.fragNr = s.fragNr /\ t.tx = s.tx /\ t.got = s.got
      /\ t.ctsTimer = s.ctsTimer /\ t.sendData = s.sendData
  BY <1>2 DEF Keeps, Fields
<1>7. ~ WaitOf(t)
  BY <1>1, <1>2, <1>3, <1>6 DEF WaitOf, Silence
<1>8. SendsOf(t) = SendsOf(s) /\ AcksOf(t) = More(AcksOf(s), n)
  <2>1. s.ratio \in Ratios /\ t.ratio = AddAckFrom(s.ratio, n)
    BY <1>1, <1>2, <1>3, <1>5 DEF Local, Types, Sane
  <2> HIDE DEF s, t
  <2> QED  BY <2>1, AckedLook
<1>9. \/ /\ NextOf(s) + 1 = First(s).frags
         /\ t.ok = s.ok \cup {First(s).pid}
         /\ TodoOf(t) = Tail(TodoOf(s)) /\ NextOf(t) = 0
      \/ /\ NextOf(s) + 1 # First(s).frags
         /\ t.ok = s.ok
         /\ TodoOf(t) = TodoOf(s) /\ NextOf(t) = NextOf(s) + 1
  <2>1. CASE IsLastFragment(s)
    <3>1. t.cur = None /\ t.ok = s.ok \cup {s.cur.pid} /\ s.fragNr + 1 = s.cur.frags
      BY <2>1 DEF HeardAck, IsLastFragment
    <3>2. t.queue \in Seq(Packets)
      BY <1>1, <1>6 DEF Local, Types
    <3>3. TodoOf(t) = Tail(TodoOf(s)) /\ NextOf(t) = 0
      BY <1>3, <1>6, <3>1, <3>2, TodoNone
    <3> QED  BY <1>3, <3>1, <3>3
  <2>2. CASE ~ IsLastFragment(s)
    <3>1. t.cur = s.cur /\ t.ok = s.ok /\ t.waitSifs /\ s.fragNr + 1 # s.cur.frags
      BY <2>2 DEF HeardAck, IsLastFragment
    <3>2. TodoOf(t) = TodoOf(s) /\ NextOf(t) = s.fragNr + 1
      BY <1>3, <1>6, <3>1 DEF TodoOf, NextOf
    <3> QED  BY <1>3, <3>1, <3>2
  <2> QED  BY <2>1, <2>2
<1>10. \A m \in Station : m # k => SameLook(st[m], st'[m])
  <2>1. \A m \in R : m # k => ~ HeardAck(m, f, st[m], st'[m])
    BY <1>1 DEF HeardAck
  <2>2. \A m \in R : ~ HeardData(m, f, st[m], st'[m]) /\ ~ HeardGroup(f, st[m], st'[m])
    BY <1>1 DEF HeardData, HeardGroup
  <2>3. SameLook(st[n], st'[n])
    BY <1>1, SenderLook
  <2> QED  BY <2>1, <2>2, <2>3, TxEndLook
<1>11. AcksOf(t) = [AcksOf(s) EXCEPT ![n] = @ + 1]
  BY <1>8 DEF More
<1> QED  BY <1>1, <1>3, <1>5, <1>6, <1>7, <1>8, <1>9, <1>10, <1>11, LinkAck

\* Data that arrives is noted, and maybe an ack is due.
Noted(f, s, t) ==
    Keeps(s, t, {"abort", "sendAck", "got"}) /\ t.got = s.got \cup {<<f.frag.pid, f.frag.nr>>}

\* What a station notes of data leaves its packets, its attempt and its counts.
LEMMA NotedLook ==
    ASSUME NEW f, NEW s, NEW t, Noted(f, s, t)
    PROVE  /\ SamePackets(s, t) /\ SameCounts(s, t) /\ WaitOf(t) = WaitOf(s) /\ t.ok = s.ok
           /\ t.got = s.got \cup {<<f.frag.pid, f.frag.nr>>}
<1>1. /\ t.cur = s.cur /\ t.queue = s.queue /\ t.fragNr = s.fragNr /\ t.waitSifs = s.waitSifs
      /\ t.ok = s.ok /\ t.ratio = s.ratio /\ t.tx = s.tx
      /\ t.ackTimer = s.ackTimer /\ t.ctsTimer = s.ctsTimer /\ t.sendData = s.sendData
  BY DEF Noted, Keeps, Fields
<1>2. t.got = s.got \cup {<<f.frag.pid, f.frag.nr>>}
  BY DEF Noted
<1> QED  BY <1>1, <1>2, PacketsAlike, CountsAlike, WaitAlike

\* The destination receives the fragment of n.
LEMMA ReceiveLink ==
    ASSUME IInv, NEW n \in Station, NEW R, TxEndFor(n, R), NEW k \in R,
           HeardData(k, st[n].tx, st[k], st'[k])
    PROVE  Promise!Receive(n)
<1> DEFINE s == st[n]
           f == s.tx
<1>1. k \in Station /\ k # n /\ Local(n, s)
  BY TxEndHeard, StationAt
<1>2. f.type = "data" /\ f.to = k
  BY DEF HeardData
<1>3. /\ s.cur.to = k /\ f.frag.pid = s.cur.pid /\ f.frag.nr = s.fragNr /\ s.ackTimer
  BY <1>1, <1>2, SentFragment, StationAssumption DEF Broadcasts
<1>4. /\ TodoOf(s) # <<>> /\ First(s) = s.cur /\ NextOf(s) = s.fragNr /\ WaitOf(s)
  BY <1>1, <1>3, AwaitsFirst
<1>5. SameLook(s, st'[n])
  BY <1>1, <1>2, StationAssumption, SenderLook
<1>6. \A m \in R : m # k => ~ HeardData(m, f, st[m], st'[m])
  BY <1>2 DEF HeardData
<1>7. \A m \in R : ~ HeardAck(m, f, st[m], st'[m]) /\ ~ HeardGroup(f, st[m], st'[m])
  BY <1>1, <1>2, StationAssumption DEF HeardAck, HeardGroup
<1>8. \A m \in Station : m # k => SameLook(st[m], st'[m])
  BY <1>5, <1>6, <1>7, TxEndLook
<1>9. /\ SamePackets(st[k], st'[k]) /\ SameCounts(st[k], st'[k])
      /\ WaitOf(st'[k]) = WaitOf(st[k]) /\ st'[k].ok = st[k].ok
      /\ st'[k].got = st[k].got \cup {<<f.frag.pid, f.frag.nr>>}
  <2>1. Noted(f, st[k], st'[k])
    BY DEF HeardData, Noted
  <2> QED  BY <2>1, NotedLook
<1>10. \A m \in Station : /\ SamePackets(st[m], st'[m]) /\ SameCounts(st[m], st'[m])
                          /\ WaitOf(st'[m]) = WaitOf(st[m]) /\ st'[m].ok = st[m].ok
                          /\ m # k => st'[m].got = st[m].got
  BY <1>8, <1>9 DEF SameLook
<1>11. st'[k].got = st[k].got \cup {<<First(s).pid, NextOf(s)>>}
  BY <1>3, <1>4, <1>9
<1> QED  BY <1>1, <1>3, <1>4, <1>10, <1>11, LinkReceive

\* A packet for the group is done, whoever received it.
LEMMA GroupLink ==
    ASSUME IInv, NEW n \in Station, NEW R, TxEndFor(n, R),
           st[n].tx.type = "data", st[n].tx.to = Group
    PROVE  Promise!GroupDone(n)
<1> DEFINE s == st[n]
           t == TransmissionEnds(s)
           f == s.tx
           S == {m \in R : HeardGroup(f, st[m], st'[m])}
<1>1. st'[n] = t /\ Local(n, s)
  BY TxEndHeard, StationAt
<1>2. /\ s.cur \in Packets /\ s.cur # None /\ s.cur.to = Group
      /\ f.frag.pid = s.cur.pid /\ f.frag.nr = s.fragNr /\ Broadcasts(s)
  BY <1>1, SentFragment, StationAssumption
<1>3. t.tx = Silence /\ Keeps(s, t, {"tx", "listener", "cur", "req"}) /\ t.cur = None
  BY <1>1, TransmissionEndsEffect
<1> HIDE DEF t
<1>4. /\ t.queue = s.queue /\ t.got = s.got /\ t.ok = s.ok /\ t.ratio = s.ratio
      /\ t.ackTimer = s.ackTimer /\ t.ctsTimer = s.ctsTimer /\ t.sendData = s.sendData
  BY <1>3 DEF Keeps, Fields
<1>5. s.queue \in Seq(Packets) /\ ~ s.ackTimer /\ ~ s.ctsTimer /\ ~ s.sendData /\ s.fragNr = 0
  BY <1>1, <1>2 DEF Local, Types, Broadcasts, Open, Awaits
<1>6. TodoOf(s) # <<>> /\ First(s) = s.cur /\ Tail(TodoOf(s)) = s.queue
  BY <1>2, <1>5, TodoSome
<1>7. TodoOf(t) = Tail(TodoOf(s)) /\ NextOf(t) = 0
  BY <1>3, <1>4, <1>5, <1>6, TodoNone
<1>8. WaitOf(s) /\ ~ WaitOf(t)
  BY <1>3, <1>4, <1>5 DEF WaitOf, Silence
<1>9. SameCounts(s, t)
  BY <1>4, CountsAlike
<1>10. \A m \in R : m \in Station /\ m # n
  BY TxEndHeard
<1>11. \A m \in R : ~ HeardAck(m, f, st[m], st'[m]) /\ ~ HeardData(m, f, st[m], st'[m])
  BY <1>10, StationAssumption DEF HeardAck, HeardData
<1>12. S \in SUBSET (Station \ {n})
  BY <1>10
<1>13. ASSUME NEW m \in Station, m # n
       PROVE  /\ SamePackets(st[m], st'[m]) /\ SameCounts(st[m], st'[m])
              /\ WaitOf(st'[m]) = WaitOf(st[m]) /\ st'[m].ok = st[m].ok
              /\ m \in S => st'[m].got = st[m].got \cup {<<First(s).pid, 0>>}
              /\ m \notin S => st'[m].got = st[m].got
  <2>1. CASE m \in S
    <3>1. Noted(f, st[m], st'[m])
      BY <2>1 DEF HeardGroup, Noted, Keeps
    <3>2. /\ SamePackets(st[m], st'[m]) /\ SameCounts(st[m], st'[m])
          /\ WaitOf(st'[m]) = WaitOf(st[m]) /\ st'[m].ok = st[m].ok
          /\ st'[m].got = st[m].got \cup {<<f.frag.pid, f.frag.nr>>}
      BY <3>1, NotedLook
    <3> HIDE DEF S
    <3> QED  BY <1>2, <1>5, <1>6, <2>1, <3>2
  <2>2. CASE m \notin S
    <3>1. ~ (m \in R /\ HeardGroup(f, st[m], st'[m]))
      BY <2>2
    <3> HIDE DEF S
    <3>3. m \in R => ~ HeardAck(m, f, st[m], st'[m]) /\ ~ HeardData(m, f, st[m], st'[m])
      BY <1>11
    <3>2. SameLook(st[m], st'[m])
      BY <1>13, <3>1, <3>3, TxEndLook
    <3> QED  BY <2>2, <3>2 DEF SameLook
  <2> QED  BY <2>1, <2>2
<1> HIDE DEF S
<1>14. \A m \in Station : st'[m].got = IF m \in S THEN st[m].got \cup {<<First(s).pid, 0>>}
                                       ELSE st[m].got
  BY <1>1, <1>4, <1>12, <1>13
<1>15. \A m \in Station : m # n => /\ SamePackets(st[m], st'[m]) /\ SameCounts(st[m], st'[m])
                                   /\ WaitOf(st'[m]) = WaitOf(st[m]) /\ st'[m].ok = st[m].ok
  BY <1>13
<1>16. First(s).to = Group
  BY <1>2, <1>6
<1> QED  BY <1>1, <1>4, <1>6, <1>7, <1>8, <1>9, <1>12, <1>14, <1>15, <1>16, LinkGroupDone

\* Every transmission that ends is one step of the link, or none.
LEMMA TxEndLink ==
    ASSUME IInv, NEW n \in Station, TxEnd(n)
    PROVE  \/ \E k \in Station : Promise!Ack(k)
           \/ Promise!Receive(n) \/ Promise!GroupDone(n) \/ UNCHANGED Promise!vars
<1>1. PICK R : TxEndFor(n, R)
  BY DEF TxEnd, TxEndFor
<1> DEFINE f == st[n].tx
<1>2. CASE \E k \in R : HeardAck(k, f, st[k], st'[k])
  BY <1>1, <1>2, AckLink
<1>3. CASE \E k \in R : HeardData(k, f, st[k], st'[k])
  BY <1>1, <1>3, ReceiveLink
<1>4. CASE f.type = "data" /\ f.to = Group
  BY <1>1, <1>4, GroupLink
<1>5. CASE /\ ~ \E k \in R : HeardAck(k, f, st[k], st'[k])
           /\ ~ \E k \in R : HeardData(k, f, st[k], st'[k])
           /\ ~ (f.type = "data" /\ f.to = Group)
  <2>1. SameLook(st[n], st'[n])
    BY <1>1, <1>5, SenderLook
  <2>2. \A m \in R : ~ HeardGroup(f, st[m], st'[m])
    BY <1>5 DEF HeardGroup
  <2>3. \A m \in Station : m # n => SameLook(st[m], st'[m])
    BY <1>1, <1>5, <2>2, TxEndLook
  <2> QED  BY <2>1, <2>3, LinkStutter
<1> QED  BY <1>2, <1>3, <1>4, <1>5

\* There are no packets at first.
LEMMA LinkInit == Init => Promise!Init
<1> SUFFICES ASSUME Init PROVE Promise!Init
  OBVIOUS
<1> DEFINE s == NewStation
<1>1. \A n \in Station : st[n] = s
  BY DEF Init
<1>2. s.cur = None /\ s.queue = <<>> /\ s.got = {} /\ s.ok = {}
      /\ ~ s.ackTimer /\ ~ s.ctsTimer /\ ~ s.sendData /\ s.tx = Silence
      /\ \A m \in Station : s.ratio[m].sends = 0 /\ s.ratio[m].acks = 0
  BY DEF NewStation, NewDest
<1> HIDE DEF s
<1>3. TodoOf(s) = <<>> /\ NextOf(s) = 0
  <2>1. s.queue \in Seq(Packets)
    BY <1>2
  <2> QED  BY <1>2, <2>1, TodoNone
<1>4. WaitOf(s) = FALSE
  BY <1>2 DEF WaitOf, Silence
<1>5. SendsOf(s) = [m \in Station |-> 0] /\ AcksOf(s) = [m \in Station |-> 0]
  BY <1>2 DEF SendsOf, AcksOf
<1>6. /\ Todos = [n \in Station |-> <<>>] /\ Nexts = [n \in Station |-> 0]
      /\ Waits = [n \in Station |-> FALSE]
      /\ Gots = [n \in Station |-> {}] /\ Oks = [n \in Station |-> {}]
      /\ Sends = [n \in Station |-> [m \in Station |-> 0]]
      /\ Acks = [n \in Station |-> [m \in Station |-> 0]]
  BY <1>1, <1>2, <1>3, <1>4, <1>5 DEF Todos, Nexts, Waits, Gots, Oks, Sends, Acks
<1> QED  BY <1>6 DEF Promise!Init, Todos, Nexts, Waits, Gots, Oks, Sends, Acks,
                     TodoOf, NextOf, WaitOf, SendsOf, AcksOf

\* Every step of the MAC is one of Link, or none.
LEMMA LinkNext == IInv /\ [Next]_vars => [Promise!Next]_(Promise!vars)
<1> SUFFICES ASSUME IInv, [Next]_vars PROVE Promise!Next \/ UNCHANGED Promise!vars
  OBVIOUS
<1>1. ASSUME NEW n \in Station, Grant(n) PROVE Promise!Attempt(n) \/ UNCHANGED Promise!vars
  BY <1>1, GrantLink
<1>2. ASSUME NEW n \in Station, TxEnd(n)
      PROVE  \/ \E k \in Station : Promise!Ack(k)
             \/ Promise!Receive(n) \/ Promise!GroupDone(n) \/ UNCHANGED Promise!vars
  BY <1>2, TxEndLink
<1>3. ASSUME NEW n \in Station, SendCts(n) \/ SendAck(n) \/ SendData(n) \/ NavEnd(n)
      PROVE  UNCHANGED Promise!vars
  BY <1>3, SendCtsLink, SendAckLink, SendDataLink, NavEndLink
<1>4. ASSUME NEW n \in Station, NextFragment(n) PROVE Promise!Attempt(n)
  BY <1>4, NextFragmentLink
<1>5. ASSUME NEW n \in Station, MissCts(n) \/ MissAck(n) PROVE Promise!Miss(n)
  BY <1>5, MissCtsLink, MissAckLink
<1>6. ASSUME NEW n \in Station, SwitchChannel(n) PROVE Promise!Flush(n)
  BY <1>6, SwitchLink
<1>7. ASSUME NEW u \in Traffic, Offer(u)
      PROVE  \E n \in Station : \E p \in Packets : Promise!Offer(n, p)
  BY <1>7, OfferLink
<1>8. CASE UNCHANGED vars
  <2>1. UNCHANGED st
    BY <1>8 DEF vars
  <2>2. \A m \in Station : SameLook(st[m], st'[m])
    BY <2>1 DEF SameLook, SamePackets, SameCounts
  <2> QED  BY <2>2, LinkStutter
<1>9. CASE Next
  BY <1>1, <1>2, <1>3, <1>4, <1>5, <1>6, <1>7, <1>9 DEF Next, Internal, Promise!Next, Packets
<1> QED  BY <1>8, <1>9

\* The MAC does what Link promises, whatever is lost or collides.
THEOREM MacImplementsLink == Spec => ImplementsLink
<1>1. Init => Promise!Init
  BY LinkInit
<1>2. IInv /\ [Next]_vars => [Promise!Next]_(Promise!vars)
  BY LinkNext
<1> QED  BY <1>1, <1>2, LinkInvariant, PTL DEF Spec, ImplementsLink, Promise!Spec

\* What is known of Link, about this link.
Known == INSTANCE LinkProofs WITH
    Packet  <- Packets,
    todo    <- Todos,
    next    <- Nexts,
    waiting <- Waits,
    got     <- Gots,
    ok      <- Oks,
    sends   <- Sends,
    acks    <- Acks

\* A packet reported as transmitted has arrived at its destination, with all of its fragments.
OkMeansArrived ==
    \A n \in Station : \A pid \in st[n].ok :
        \E p \in Packets : /\ p.pid = pid /\ p.to \in Station
                           /\ \A k \in Nat : k < p.frags => <<p.pid, k>> \in st[p.to].got

\* LinkProofs is about the same state.
LEMMA KnownInit == Promise!Init => Known!Init
BY DEF Promise!Init, Known!Init, Todos, Nexts, Waits, Gots, Oks, Sends, Acks,
       TodoOf, NextOf, WaitOf, SendsOf, AcksOf

\* And about the same steps.
LEMMA KnownNext == [Promise!Next]_(Promise!vars) => [Known!Next]_(Known!vars)
<1> USE DEF Todos, Nexts, Waits, Gots, Oks, Sends, Acks, TodoOf, NextOf, WaitOf, SendsOf, AcksOf
<1>1. ASSUME NEW n \in Station PROVE Promise!Attempt(n) => Known!Attempt(n)
  BY Zenon DEF Promise!Attempt, Promise!Current, Known!Attempt, Known!Current
<1>2. ASSUME NEW n \in Station PROVE Promise!Receive(n) => Known!Receive(n)
  BY Zenon DEF Promise!Receive, Promise!Current, Promise!Trying,
               Known!Receive, Known!Current, Known!Trying
<1>3. ASSUME NEW n \in Station PROVE Promise!Ack(n) => Known!Ack(n)
  BY Zenon DEF Promise!Ack, Promise!Current, Promise!Trying, Promise!Drop,
               Known!Ack, Known!Current, Known!Trying, Known!Drop
<1>4. ASSUME NEW n \in Station PROVE Promise!Miss(n) => Known!Miss(n)
  BY Zenon DEF Promise!Miss, Promise!Trying, Promise!Drop, Known!Miss, Known!Trying, Known!Drop
<1>5. ASSUME NEW n \in Station PROVE Promise!GroupDone(n) => Known!GroupDone(n)
  BY Zenon DEF Promise!GroupDone, Promise!Current, Promise!Trying, Promise!Drop,
               Known!GroupDone, Known!Current, Known!Trying, Known!Drop
<1>6. ASSUME NEW n \in Station PROVE Promise!Flush(n) => Known!Flush(n)
  BY Zenon DEF Promise!Flush, Known!Flush
<1>7. ASSUME NEW n \in Station, NEW p PROVE Promise!Offer(n, p) => Known!Offer(n, p)
  BY Zenon DEF Promise!Offer, Known!Offer
<1>8. UNCHANGED Promise!vars => UNCHANGED Known!vars
  BY Zenon DEF Promise!vars, Known!vars
<1> QED  BY <1>1, <1>2, <1>3, <1>4, <1>5, <1>6, <1>7, <1>8 DEF Promise!Next, Known!Next, Packets

\* The callback of a packet that was transmitted is called only for one that
\* arrived as a whole (dca-txop.cc:549-552): Link promises it (LinkProofs), and
\* the MAC does what Link promises.
THEOREM OkIsTrue == Spec => []OkMeansArrived
<1>1. Known!Spec => []Known!OkMeansArrived
  BY Known!OkIsTrue
<1>2. Known!OkMeansArrived => OkMeansArrived
  <2>1. \A n \in Station : Oks[n] = st[n].ok /\ Gots[n] = st[n].got
    BY DEF Oks, Gots
  <2> QED  BY ONLY <2>1 DEF Known!OkMeansArrived, Known!Arrived, OkMeansArrived
<1>3. Promise!Init => Known!Init
  BY KnownInit
<1>4. [Promise!Next]_(Promise!vars) => [Known!Next]_(Known!vars)
  BY KnownNext
<1> QED  BY <1>1, <1>2, <1>3, <1>4, MacImplementsLink, PTL DEF ImplementsLink, Promise!Spec, Known!Spec

=============================================================================
