--------------------------------- MODULE Link ---------------------------------
(***************************************************************************)
(* What the MAC promises to those above it: packets leave in the order     *)
(* they came; a packet is tried fragment by fragment, each as often as it  *)
(* takes; it is reported as transmitted only if its destination has every  *)
(* fragment; and the ratio of a neighbor counts an ack only for an attempt *)
(* and only for something that arrived.                                    *)
(*                                                                         *)
(* Left out are the medium, RTS and CTS, timers and retry limits;          *)
(* MacNetwork implements this.                                             *)
(***************************************************************************)
EXTENDS Naturals, Sequences

CONSTANTS
    Station,
    Group,      \* the destination of packets nobody acknowledges
    Packet      \* [pid, to, frags]: the id, the destination, the number of fragments

VARIABLES
    todo,       \* the packets of each station, in order
    next,       \* the fragments of the first one that were acknowledged
    waiting,    \* whether an attempt to send a fragment is under way
    got,        \* the fragments each station received
    ok,         \* the packets each station reported as transmitted
    sends,      \* attempts by destination
    acks        \* acknowledged ones by destination

vars == <<todo, next, waiting, got, ok, sends, acks>>

Current(n) == Head(todo[n])

Trying(n) == todo[n] # <<>> /\ waiting[n]

-----------------------------------------------------------------------------

Init ==
    /\ todo = [n \in Station |-> <<>>]
    /\ next = [n \in Station |-> 0]
    /\ waiting = [n \in Station |-> FALSE]
    /\ got = [n \in Station |-> {}]
    /\ ok = [n \in Station |-> {}]
    /\ sends = [n \in Station |-> [m \in Station |-> 0]]
    /\ acks = [n \in Station |-> [m \in Station |-> 0]]

Offer(n, p) ==
    /\ todo' = [todo EXCEPT ![n] = Append(@, p)]
    /\ UNCHANGED <<next, waiting, got, ok, sends, acks>>

\* Only attempts at stations are counted.
Attempt(n) ==
    /\ todo[n] # <<>> /\ ~ waiting[n]
    /\ waiting' = [waiting EXCEPT ![n] = TRUE]
    /\ sends' = IF Current(n).to \in Station
                THEN [sends EXCEPT ![n][Current(n).to] = @ + 1]
                ELSE sends
    /\ UNCHANGED <<todo, next, got, ok, acks>>

\* The destination may receive the fragment several times.
Receive(n) ==
    /\ Trying(n) /\ Current(n).to \in Station
    /\ got' = [got EXCEPT ![Current(n).to] = @ \cup {<<Current(n).pid, next[n]>>}]
    /\ UNCHANGED <<todo, next, waiting, ok, sends, acks>>

Drop(n) ==
    /\ todo' = [todo EXCEPT ![n] = Tail(@)]
    /\ next' = [next EXCEPT ![n] = 0]

\* The acknowledgement of the fragment arrives.
Ack(n) ==
    /\ Trying(n) /\ Current(n).to \in Station
    /\ <<Current(n).pid, next[n]>> \in got[Current(n).to]
    /\ acks' = [acks EXCEPT ![n][Current(n).to] = @ + 1]
    /\ waiting' = [waiting EXCEPT ![n] = FALSE]
    /\ IF next[n] + 1 = Current(n).frags
       THEN /\ ok' = [ok EXCEPT ![n] = @ \cup {Current(n).pid}]
            /\ Drop(n)
       ELSE /\ next' = [next EXCEPT ![n] = @ + 1]
            /\ UNCHANGED <<todo, ok>>
    /\ UNCHANGED <<got, sends>>

\* No acknowledgement in time: the fragment is tried again, or the packet goes.
Miss(n) ==
    /\ Trying(n)
    /\ waiting' = [waiting EXCEPT ![n] = FALSE]
    /\ Drop(n) \/ UNCHANGED <<todo, next>>
    /\ UNCHANGED <<got, ok, sends, acks>>

\* A packet for a group is gone after one attempt, whoever received it.
GroupDone(n) ==
    /\ Trying(n) /\ Current(n).to = Group
    /\ \E R \in SUBSET (Station \ {n}) :
          got' = [m \in Station |-> IF m \in R THEN got[m] \cup {<<Current(n).pid, 0>>} ELSE got[m]]
    /\ waiting' = [waiting EXCEPT ![n] = FALSE]
    /\ Drop(n)
    /\ UNCHANGED <<ok, sends, acks>>

\* The station changes the channel.
Flush(n) ==
    /\ todo' = [todo EXCEPT ![n] = <<>>]
    /\ next' = [next EXCEPT ![n] = 0]
    /\ waiting' = [waiting EXCEPT ![n] = FALSE]
    /\ UNCHANGED <<got, ok, sends, acks>>

Next ==
    \E n \in Station :
        \/ \E p \in Packet : Offer(n, p)
        \/ Attempt(n) \/ Receive(n) \/ Ack(n) \/ Miss(n) \/ GroupDone(n) \/ Flush(n)

Spec == Init /\ [][Next]_vars

=============================================================================
