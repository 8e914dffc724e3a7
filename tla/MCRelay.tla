------------------------------- MODULE MCRelay -------------------------------
(* Two end nodes 1 and 3 exchange packets through the relay 2, as in        *)
(* scratch/etox-mync.cc; the end nodes do not hear each other.              *)
EXTENDS MyncRefinement

a == 1
r == 2
b == 3

MCNode == {a, r, b}
MCDevices(n) == <<[mac |-> n, ip |-> n, ch |-> 1]>>
MCInRange(n, m) == r \in {n, m}

Req(p, hop, proto) == [pid |-> {p}, dest |-> hop, iface |-> 1, proto |-> proto]

p1 == [node |-> a, req |-> Req("p1", r, "other")]
p2 == [node |-> a, req |-> Req("p2", r, "udp")]
q1 == [node |-> b, req |-> Req("q1", r, "udp")]
x1 == [node |-> r, req |-> Req("x1", b, "other")]
x2 == [node |-> r, req |-> Req("x2", Broadcast, "etox")]

MCTraffic == {p1, p2, q1, x1, x2}
MCIpForward(n, pid) ==
    CASE n = r /\ pid = {"p1"} -> <<Req("p1", b, "other")>>
      [] n = r /\ pid = {"p2"} -> <<Req("p2", b, "udp")>>
      [] n = r /\ pid = {"q1"} -> <<Req("q1", a, "udp")>>
      [] OTHER                 -> <<>>
MCHelloIds == {{}}

-----------------------------------------------------------------------------
(* Two schedules.                                                            *)

\* One packet from each of the three nodes, in any order; frames are lost, delayed
\* and overtaken as the medium likes.
AnyOrder == offered' \subseteq {x1, p1, q1}

\* What an end node sends reaches the relay before anything else happens.
AtOnce(n) == state[n].mac[1] # <<>> =>
    IF r \in heard[n][1] THEN state'[n].mac[1] = <<>> ELSE r \in heard'[n][1]

\* Four packets in this order fill the queues of the relay. What it sends before the
\* last of them is lost, what it sends after that may be.
QueuesFill ==
    /\ offered' \in {{x2}, {x2, p1}, {x2, p1, q1}, {x2, p1, q1, p2}}
    /\ AtOnce(a) /\ AtOnce(b)
    /\ offered # {x2, p1, q1, p2} => heard'[r][1] = {}

\* An end node codes nothing, so its timer has nothing to send again: it expires
\* at the end.
TimersOfEndsLast ==
    \A n \in {a, b} : state[n].timer => state'[n].timer \/ \A m \in Node : Drained(m)

MCNext == Next /\ (AnyOrder \/ QueuesFill) /\ TimersOfEndsLast

MCSpec == Init /\ [][MCNext]_vars /\ Fairness

=============================================================================
