-------------------------------- MODULE MCStar --------------------------------
(* A relay r and three nodes around it that overhear each other in a ring:  *)
(* b hears a, c hears b and a hears c, and every one sends to the one that  *)
(* precedes it, so that the relay may code three natives in one frame. The  *)
(* medium loses what the relay sends.                                       *)
EXTENDS MyncNetwork

r == 1
a == 2
b == 3
c == 4

MCNode == {r, a, b, c}
MCDevices(n) == <<[mac |-> n, ip |-> n, ch |-> 1]>>
MCInRange(n, m) == n # r /\ (m = r \/ <<n, m>> \in {<<a, b>>, <<b, c>>, <<c, a>>})

Req(p, hop) == [pid |-> {p}, dest |-> hop, iface |-> 1, proto |-> "other"]

\* x1 keeps the relay's device busy, and y1 carries b's report of w1.
Offers == <<[node |-> r, req |-> Req("x1", a)],
            [node |-> b, req |-> Req("p1", r)],
            [node |-> c, req |-> Req("q1", r)],
            [node |-> a, req |-> Req("w1", r)],
            [node |-> b, req |-> Req("y1", r)]>>

MCTraffic == ToSet(Offers)
MCIpForward(n, pid) ==
    CASE n = r /\ pid = {"p1"} -> <<Req("p1", a)>>
      [] n = r /\ pid = {"q1"} -> <<Req("q1", b)>>
      [] n = r /\ pid = {"w1"} -> <<Req("w1", c)>>
      [] OTHER                 -> <<>>
MCHelloIds == {{}}

\* Only the schedules in which the packets come in this order and the timers
\* of a, b and c, which have nothing to retransmit, do not expire.
InOrder ==
    /\ \E i \in 0..Len(Offers) : offered' = ToSet(SubSeq(Offers, 1, i))
    /\ \A n \in {a, b, c} : state[n].timer => state'[n].timer

MCSpec == Init /\ [][Next /\ InOrder]_vars
=============================================================================
