------------------------------- MODULE NFTable -------------------------------
(***************************************************************************)
(* What a calculation promises of the NF table of a LinkStateRouting, and  *)
(* why that is enough although the table is never cleared. A calculation   *)
(* writes the entries of the nodes it reaches, a tree of prehops; the      *)
(* entries of the others stay as earlier calculations left them. The first *)
(* hop of a route has itself for its prehop.                               *)
(***************************************************************************)
CONSTANT Address

VARIABLE entry      \* prehops by destination, a partial function

\* Following prehops inside T ends at a first hop or leaves T.
Leads(prehop, T) == \E d \in T : prehop[d] = d \/ prehop[d] \notin T

Init == entry = [d \in {} |-> d]

Calculate(reached) ==
    /\ entry' \in [DOMAIN entry \cup reached -> Address]
    /\ \A d \in DOMAIN entry \ reached : entry'[d] = entry[d]
    /\ \A d \in reached : entry'[d] \in reached
    /\ \A T \in SUBSET reached : T # {} => Leads(entry', T)

Next == \E reached \in SUBSET Address : Calculate(reached)

Spec == Init /\ [][Next]_entry

-----------------------------------------------------------------------------

TypeOK == entry \in [DOMAIN entry -> Address] /\ DOMAIN entry \subseteq Address

\* Every prehop has an entry and no set of entries leads round in a circle, so
\* FindSendEntry ends at a first hop, also over entries that several
\* calculations left (link-state-routing-protocol.cc:468-484 and 737-762).
ChainsEnd ==
    /\ \A d \in DOMAIN entry : entry[d] \in DOMAIN entry
    /\ \A T \in SUBSET DOMAIN entry : T # {} => Leads(entry, T)

=============================================================================
