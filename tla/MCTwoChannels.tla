---------------------------- MODULE MCTwoChannels ----------------------------
(* The relay r reaches a on channel 1 and b on channel 2, and forwards both  *)
(* ways: the two packets it could code together share no channel.            *)
EXTENDS MyncNetwork

a == 1
r == 2
b == 3

MCNode == {a, r, b}
Radio(n, ch) == [mac |-> 10 * n + ch, ip |-> 10 * n + ch, ch |-> ch]
MCDevices(n) ==
    CASE n = a -> <<Radio(a, 1)>>
      [] n = r -> <<Radio(r, 1), Radio(r, 2)>>
      [] n = b -> <<Radio(b, 2)>>
MCInRange(n, m) == TRUE

Req(p, hop, i) == [pid |-> {p}, dest |-> hop, iface |-> i, proto |-> "other"]

MCTraffic == {[node |-> a, req |-> Req("p1", 21, 1)],
              [node |-> a, req |-> Req("p2", 21, 1)],
              [node |-> b, req |-> Req("q1", 22, 1)]}
MCIpForward(n, pid) ==
    CASE n = r /\ pid \in {{"p1"}, {"p2"}} -> <<Req(CHOOSE p \in pid : TRUE, 32, 2)>>
      [] n = r /\ pid = {"q1"}             -> <<Req("q1", 11, 1)>>
      [] OTHER                             -> <<>>
MCHelloIds == {{}}
=============================================================================
