------------------------------ MODULE MyncQueue ------------------------------
(***************************************************************************)
(* MyncQueue and MyncQueueEntry (mync/model/mync-queue.cc): the list that  *)
(* serves both as the output queue m_queue and as the retransmission queue *)
(* m_rtqueue of a MyncProtocol.                                            *)
(*                                                                         *)
(* An entry is a record with the fields                                    *)
(*   type  : "data" or "hello"                                             *)
(*   pid   : the packet id (for a hello the id is never initialised)       *)
(*   dest  : the MAC address of the next hop, or Broadcast                 *)
(*   iface : the device it leaves by                                       *)
(*   retry : the number of retransmissions so far                          *)
(*   proto : "udp", "etox" (UDP from port 713) or "other"                  *)
(* A packet stands for its contents without the IP header, which is what   *)
(* Hash covers; Hash is taken to be injective, so contents and id are one. *)
(* Contents are the set of native packets they are the XOR of.             *)
(***************************************************************************)
EXTENDS Naturals, Sequences, SequencesExt

CONSTANTS
    QueueMax,   \* m_max of the queues, 800 in the constructor
    MaxRetry    \* the retry count at which HitMax is true, 3 in the code

ASSUME QueueAssumption ==
    /\ QueueMax \in Nat \ {0}
    /\ MaxRetry \in Nat \ {0}

-----------------------------------------------------------------------------

Pids(q) == {q[i].pid : i \in DOMAIN q}

\* Both enqueues refuse when the queue is full or the id is already in it.
Accepts(q, entry) ==
    /\ Len(q) # QueueMax
    /\ entry.pid \notin Pids(q)

EnqueueBack(q, entry) == IF Accepts(q, entry) THEN Append(q, entry) ELSE q

EnqueueFront(q, entry) == IF Accepts(q, entry) THEN <<entry>> \o q ELSE q

\* Faulty variants, which no specification uses, precede the operator they
\* spoil: here nothing is erased.
EraseNothing(q, pid) == q

\* Erase removes the first entry with the id; it returns false, and leaves
\* the queue alone, when there is none.
Erase(q, pid) == RemoveFirstMatch(q, LAMBDA entry : entry.pid = pid)

\* Erase for each id in pids. Ids are unique in a queue.
EraseAll(q, pids) ==
    FoldLeft(LAMBDA kept, e : IF e.pid \in pids THEN kept ELSE Append(kept, e), <<>>, q)

\* Faulty: one retransmission too many.
HitMaxLate(entry) == entry.retry > MaxRetry

\* Faulty: given up one retransmission too early.
HitMaxEarly(entry) == entry.retry + 1 >= MaxRetry

HitMax(entry) == entry.retry = MaxRetry

\* Faulty: the retransmission is not counted.
RetryUncounted(entry) == entry

Retry(entry) == [entry EXCEPT !.retry = @ + 1]

=============================================================================
