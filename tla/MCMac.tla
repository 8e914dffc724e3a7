-------------------------------- MODULE MCMac --------------------------------
(* Stations a and r send to each other: a packet in two fragments behind an  *)
(* RTS one way, one without an RTS the other way, and a has a packet for the *)
(* group behind its first one. Station b hears r only and listens. Both a    *)
(* and r may change the channel at any moment, once.                         *)
EXTENDS MacNetwork

a == 1
r == 2
b == 3

MCStation == {a, r, b}
MCInRange(n, m) == r \in {n, m}

Packet(pid, to, frags, rts) == [pid |-> pid, to |-> to, frags |-> frags, rts |-> rts]

MCTraffic == {[node |-> a, packet |-> Packet("p", r, 2, TRUE)],
              [node |-> a, packet |-> Packet("g", Group, 1, FALSE)],
              [node |-> r, packet |-> Packet("u", a, 1, FALSE)]}
MCSwitcher == {a, r}
=============================================================================
