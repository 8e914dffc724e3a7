---------------------------- MODULE MyncRefinement ----------------------------
(* MyncNetwork implements Coding: a node has what is in its pool, believes  *)
(* what is in m_packetInfo, and the frames on their way are the data frames *)
(* in the transmit queues of the devices.                                   *)
EXTENDS MyncNetwork

Packet == {t.req.pid : t \in Traffic}

Pools == [n \in Node |-> state[n].pool]

Beliefs == [n \in Node |-> {<<known[1], Owner[known[2]]>> : known \in state[n].info}]

Hops(f) == IF IsBroadcast(f) THEN {}
           ELSE {[to |-> Owner[id.mac], pid |-> id.pid] : id \in f.ids}

Reports(f) == f.recps \cup {a.pid : a \in f.acks}

OnAir(n) == {[src |-> n, ids |-> Hops(f), recps |-> Reports(f)] : f \in DataFramesOf(n)}

Air == UNION {OnAir(n) : n \in Node}

Abstract == INSTANCE Coding WITH
    Native <- Packet,
    holds  <- Pools,
    knows  <- Beliefs,
    air    <- Air

\* Every event of MyncNetwork is one step of Coding, or none.
ImplementsCoding == Abstract!Spec
=============================================================================
