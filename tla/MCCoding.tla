------------------------------- MODULE MCCoding -------------------------------
(* Coding with frames that carry two natives, or one and a report, at most  *)
(* AirMax of them on their way, each sent in a step of its own.             *)
EXTENDS Coding, Naturals, FiniteSets, TLC

CONSTANT AirMax

MCFrame ==
    {f \in Frame : f.ids # {} /\ Cardinality(f.ids) + Cardinality(f.recps) = 2}

MCSend(n) ==
    /\ Cardinality(air) < AirMax
    /\ UNCHANGED <<holds, knows>>
    /\ \E f \in {g \in MCFrame : g.src = n /\ Legal(g)} : air' = air \cup {f}

MCNext ==
    \/ Expire
    \/ \E n \in Node : Event(n) /\ UNCHANGED air
    \/ \E n \in Node : MCSend(n)

MCSpec == Init /\ [][MCNext]_vars

MCSymmetry == Permutations(Node) \cup Permutations(Native)
=============================================================================
