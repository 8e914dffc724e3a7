------------------------------- MODULE MCRadios -------------------------------
(* Two nodes with a radio on channel 1 and a radio on channel 2 each learn  *)
(* each other's addresses from data frames and from hellos while they       *)
(* exchange packets over both.                                              *)
EXTENDS MyncNetwork

a == 1
b == 2

MCNode == {a, b}
MCDevices(n) == <<[mac |-> 10 * n + 1, ip |-> 10 * n + 1, ch |-> 1],
                  [mac |-> 10 * n + 2, ip |-> 10 * n + 2, ch |-> 2]>>
MCInRange(n, m) == TRUE

Req(p, hop, i) == [pid |-> {p}, dest |-> hop, iface |-> i, proto |-> "udp"]

MCTraffic == {[node |-> a, req |-> Req("p1", 21, 1)],
              [node |-> b, req |-> Req("q1", 12, 2)],
              [node |-> b, req |-> Req("q2", 11, 1)]}
MCIpForward(n, pid) == <<>>
MCHelloIds == {{"q1"}}
=============================================================================
