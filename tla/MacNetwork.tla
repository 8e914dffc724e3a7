------------------------------ MODULE MacNetwork ------------------------------
(***************************************************************************)
(* Stations that share a channel. Each step is one simulator event.        *)
(*                                                                         *)
(* The medium, the PHY and the DcfManager are external. A station hears a  *)
(* frame if it is in range and neither sends nor hears another frame when  *)
(* it starts; it stops hearing it when it starts to send. What is heard to *)
(* the end may still be lost. A frame takes longer than a SIFS, so what is *)
(* due a SIFS after a frame comes before the next frame of the same sender *)
(* or for the same hearer ends. Access is granted to a station that senses *)
(* an idle medium; two stations may get it in the same slot, before they   *)
(* sense each other. The timeouts are long enough for an answer: nobody    *)
(* times out while one is on its way.                                      *)
(***************************************************************************)
EXTENDS MacStation

CONSTANTS
    InRange(_, _),  \* whether the second station hears the first
    Traffic,        \* [node, packet] records
    Switcher        \* the stations that may change the channel once

ASSUME TrafficAssumption ==
    /\ \A t \in Traffic : /\ t = [node |-> t.node, packet |-> t.packet]
                          /\ t.node \in Station
                          /\ t.packet # None
                          /\ t.packet.to \in (Station \ {t.node}) \cup {Group}
                          /\ t.packet.frags \in Nat \ {0}
                          /\ t.packet.rts \in BOOLEAN
    /\ Switcher \subseteq Station

\* The pid stands for the contents, the source and the sequence number.
ASSUME PidAssumption ==
    \A t, u \in Traffic : t.packet.pid = u.packet.pid => t = u

VARIABLES
    st,         \* the stations
    hear,       \* for each station, who hears the frame it is sending
    slot,       \* the stations that began to send in the current slot
    offered,    \* what was handed to Queue
    switched    \* who changed the channel

vars == <<st, hear, slot, offered, switched>>

Init ==
    /\ st = [n \in Station |-> NewStation]
    /\ hear = [n \in Station |-> {}]
    /\ slot = {}
    /\ offered = {}
    /\ switched = {}

-----------------------------------------------------------------------------

Sending(n) == st[n].tx # Silence

Sensed(n) == {m \in Station \ {n} : InRange(m, n) /\ Sending(m)}

\* Something is due at n a SIFS after the frame it heard.
Due(n) == st[n].sendCts # None \/ st[n].sendAck # None \/ st[n].sendData \/ st[n].waitSifs

Hearers(n) ==
    {m \in Station \ {n} :
        InRange(n, m) /\ ~ Sending(m) /\ \A k \in Station : m \notin hear[k]}

\* Station n goes to state s and may begin to send.
Update(n, s) ==
    /\ st' = [st EXCEPT ![n] = s]
    /\ hear' = IF Sending(n) \/ s.tx = Silence THEN hear
               ELSE [k \in Station |-> IF k = n THEN Hearers(n) ELSE hear[k] \ {n}]

Offer(t) ==
    /\ t \notin offered
    /\ offered' = offered \cup {t}
    /\ Update(t.node, Queue(st[t.node], t.packet))
    /\ slot' = {}
    /\ UNCHANGED switched

\* The DcfManager of n grants access: the medium, as far as n can sense it, the
\* NAV and the timers leave it free.
MayGrant(n) ==
    /\ st[n].req
    /\ ~ Sending(n) /\ Sensed(n) \subseteq slot /\ ~ st[n].nav
    /\ ~ Due(n) /\ ~ st[n].ackTimer /\ ~ st[n].ctsTimer

Grant(n) ==
    /\ MayGrant(n)
    /\ Update(n, NotifyAccessGranted(n, st[n]))
    /\ slot' = slot \cup {n}
    /\ UNCHANGED <<offered, switched>>

\* What is due a SIFS after an earlier frame, heard by who hears n now or sent
\* by n, has come.
MayEnd(n) ==
    /\ Sending(n)
    /\ \A m \in hear[n] : ~ Due(m)
    /\ \A m \in Station : st[m].sendCts # n /\ st[m].sendAck # n

\* The frame of n ends and R is who receives it.
TxEnd(n) ==
    /\ MayEnd(n)
    /\ \E R \in SUBSET hear[n] :
          st' = [m \in Station |->
                    IF m = n THEN TransmissionEnds(st[n])
                    ELSE IF m \in R THEN ReceiveOk(m, st[m], st[n].tx)
                    ELSE st[m]]
    /\ hear' = [hear EXCEPT ![n] = {}]
    /\ slot' = {}
    /\ UNCHANGED <<offered, switched>>

\* An event that is scheduled at n takes it to state s.
Event(n, s) ==
    /\ Update(n, s)
    /\ slot' = {}
    /\ UNCHANGED <<offered, switched>>

SendCts(n) == st[n].sendCts # None /\ Event(n, SendCtsAfterRts(n, st[n]))

SendAck(n) == st[n].sendAck # None /\ Event(n, SendAckAfterData(n, st[n]))

SendData(n) == st[n].sendData /\ Event(n, SendDataAfterCts(n, st[n]))

NextFragment(n) == st[n].waitSifs /\ Event(n, WaitSifsAfterEndTx(n, st[n]))

\* An answer of the kind to n is due or on the air.
AnswerOnItsWay(n, type) ==
    \E m \in Station :
        \/ type = "cts" /\ st[m].sendCts = n
        \/ type = "ack" /\ st[m].sendAck = n
        \/ st[m].tx.type = type /\ st[m].tx.to = n

MayMissCts(n) ==
    st[n].ctsTimer /\ st[n].tx.type # "rts" /\ ~ AnswerOnItsWay(n, "cts")

MissCts(n) == MayMissCts(n) /\ Event(n, CtsTimeout(st[n]))

MayMissAck(n) ==
    st[n].ackTimer /\ st[n].tx.type # "data" /\ ~ AnswerOnItsWay(n, "ack")

MissAck(n) == MayMissAck(n) /\ Event(n, NormalAckTimeout(st[n]))

\* The NAV expires, or NavCounterResetCtsMissed resets it.
NavEnd(n) == st[n].nav /\ Event(n, [st[n] EXCEPT !.nav = FALSE])

\* The PHY puts a switch off until it is not sending.
SwitchChannel(n) ==
    /\ n \in Switcher \ switched /\ ~ Sending(n)
    /\ switched' = switched \cup {n}
    /\ st' = [st EXCEPT ![n] = NotifySwitchingStartNow(st[n])]
    /\ hear' = [k \in Station |-> hear[k] \ {n}]
    /\ slot' = {}
    /\ UNCHANGED offered

-----------------------------------------------------------------------------

Alive == \A n \in Station : ~ st[n].abort

\* What the simulator, the DcfManager and the PHY do on their own.
Internal(n) ==
    \/ Grant(n) \/ TxEnd(n)
    \/ SendCts(n) \/ SendAck(n) \/ SendData(n) \/ NextFragment(n)
    \/ MissCts(n) \/ MissAck(n) \/ NavEnd(n)

Next ==
    /\ Alive
    /\ \/ \E n \in Station : Internal(n) \/ SwitchChannel(n)
       \/ \E t \in Traffic : Offer(t)

Spec == Init /\ [][Next]_vars

\* The simulator runs what is scheduled as long as something is. This is weak
\* fairness of \E n \in Station : Internal(n) with ENABLED spelled out.
CanRun ==
    \E n \in Station :
        \/ MayGrant(n) \/ MayEnd(n) \/ Due(n) \/ st[n].nav
        \/ MayMissCts(n) \/ MayMissAck(n)

Fairness == []<>(~ (Alive /\ CanRun)) \/ []<><<UNCHANGED <<offered, switched>>>>_vars

FairSpec == Spec /\ Fairness

-----------------------------------------------------------------------------

\* Packets and fragments exist, frames carry what their stations send, and
\* nobody hears who does not send.
TypeOK ==
    /\ \A n \in Station :
          /\ \A i \in DOMAIN st[n].queue : [node |-> n, packet |-> st[n].queue[i]] \in offered
          /\ st[n].cur # None => /\ [node |-> n, packet |-> st[n].cur] \in offered
                                 /\ st[n].fragNr < st[n].cur.frags
          /\ st[n].tx.from \in {n, None}
          /\ st[n].ratio \in [Station -> [sends : Nat, acks : Nat]]
          /\ \A m \in Station : st[n].ssrc[m] < MaxSsrc /\ st[n].slrc[m] < MaxSlrc
          /\ ~ Sending(n) => hear[n] = {}
    /\ slot \subseteq Station
    /\ switched \subseteq Switcher

\* A fragment its destination has goes out again only with the retry bit set:
\* the receiver tells duplicates by it (dca-txop.cc:564-591, 330-347).
RepeatIsMarked ==
    \A n \in Station :
        LET f == st[n].tx
        IN  f.type = "data" /\ f.to \in Station /\ ~ f.frag.retry
            => <<f.frag.pid, f.frag.nr>> \notin st[f.to].got

\* The ratio of no neighbor gets above one: NS_ASSERT (m_sends >= m_acks) of
\* txratio.cc:52 and 60, whatever is lost, repeated or cancelled.
RatioNeverAboveOne ==
    \A n, m \in Station : st[n].ratio[m].acks <= st[n].ratio[m].sends

-----------------------------------------------------------------------------

Promise == INSTANCE Link WITH
    Packet  <- {t.packet : t \in Traffic},
    todo    <- [n \in Station |-> (IF st[n].cur = None THEN <<>> ELSE <<st[n].cur>>) \o st[n].queue],
    next    <- [n \in Station |-> IF st[n].cur = None THEN 0
                                  ELSE st[n].fragNr + (IF st[n].waitSifs THEN 1 ELSE 0)],
    waiting <- [n \in Station |-> \/ st[n].ackTimer \/ st[n].ctsTimer \/ st[n].sendData
                                  \/ st[n].tx.type = "data" /\ st[n].tx.to = Group],
    got     <- [n \in Station |-> st[n].got],
    ok      <- [n \in Station |-> st[n].ok],
    sends   <- [n \in Station |-> [m \in Station |-> st[n].ratio[m].sends]],
    acks    <- [n \in Station |-> [m \in Station |-> st[n].ratio[m].acks]]

\* Whatever is lost or collides, the MAC does what Link promises: packets in
\* order, ok only for what arrived, acks counted only for attempts.
ImplementsLink == Promise!Spec

Idle(n) == st[n].cur = None /\ st[n].queue = <<>>

\* Every packet leaves in the end, transmitted, given up or flushed, even if
\* the medium loses every frame: nobody who has a packet stops asking for
\* access (dca-txop.cc:238-248 and its callers) or waits for a timer that does
\* not run.
EveryPacketLeaves == <>[](\A n \in Station : Idle(n))

=============================================================================
