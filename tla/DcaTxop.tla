------------------------------- MODULE DcaTxop -------------------------------
(***************************************************************************)
(* DcaTxop (wifi/model/dca-txop.cc): the queue of a station without QoS,   *)
(* fragments and retransmissions. Its fields of a station:                 *)
(*   queue  : m_queue, packets in order                                    *)
(*   cur    : m_currentPacket, or None                                     *)
(*   retry  : the retry bit of m_currentHdr                                *)
(*   fragNr : m_fragmentNumber                                             *)
(*   req    : access is requested of the DcfManager                        *)
(* A packet is [pid, to, frags, rts]: its destination, in how many frames  *)
(* it goes, and whether the station manager asks for an RTS before them.   *)
(* The pid stands for the contents and the sequence number.                *)
(*                                                                         *)
(* The contention window and the backoff only decide when access is        *)
(* granted; NotifyCollision asks for access that is already requested.     *)
(***************************************************************************)
EXTENDS MacLow

CONSTANTS
    MaxSsrc,    \* how often an RTS is sent for a frame; 7 in ns-3
    MaxSlrc     \* how often data is sent for a frame; 7 in ns-3

ASSUME RetryAssumption == MaxSsrc \in Nat \ {0} /\ MaxSlrc \in Nat \ {0}

-----------------------------------------------------------------------------

\* Faulty: the packet that is to be sent again is forgotten.
RestartAccessForQueue(s) == [s EXCEPT !.req = @ \/ (s.cur = None /\ s.queue # <<>>)]

\* RequestAccess unless access is requested.
RestartAccessIfNeeded(s) == [s EXCEPT !.req = @ \/ s.cur # None \/ s.queue # <<>>]

StartAccessIfNeeded(s) == [s EXCEPT !.req = @ \/ (s.cur = None /\ s.queue # <<>>)]

\* The station manager allows another attempt.
NeedRtsRetransmission(s) == s.ssrc[s.cur.to] < MaxSsrc
NeedDataRetransmission(s) == s.slrc[s.cur.to] < MaxSlrc

IsLastFragment(s) == s.fragNr + 1 = s.cur.frags

\* GetFragmentPacket, also for a packet that is not fragmented.
Fragment(s) ==
    [pid |-> s.cur.pid, to |-> s.cur.to, nr |-> s.fragNr,
     more |-> ~ IsLastFragment(s), retry |-> s.retry]

-----------------------------------------------------------------------------

Queue(s, packet) == StartAccessIfNeeded([s EXCEPT !.queue = Append(@, packet)])

Dequeue(s) ==
    IF s.cur # None THEN s
    ELSE [s EXCEPT !.cur = Head(s.queue), !.queue = Tail(@),
                   !.retry = FALSE, !.fragNr = 0]

\* The DcfManager takes the request back before it calls.
NotifyAccessGranted(n, s) ==
    LET granted == [s EXCEPT !.req = FALSE]
        loaded  == Dequeue(granted)
        params  == IF loaded.cur.to = Group
                   THEN Params(FALSE, FALSE, FALSE)
                   ELSE Params(TRUE, loaded.cur.rts, ~ IsLastFragment(loaded))
    IN  IF s.cur = None /\ s.queue = <<>>
        THEN granted
        ELSE StartTransmission(n, loaded, Fragment(loaded), params)

\* m_txFailedCallback, and the packet is dropped.
GiveUp(s) == [s EXCEPT !.failed = @ \cup {s.cur.pid}, !.cur = None]

\* Faulty: the retry count is not reset when the packet is dropped.
MissedCtsKeepingCount(s) ==
    RestartAccessIfNeeded(IF NeedRtsRetransmission(s) THEN s ELSE GiveUp(s))

MissedCts(s) ==
    RestartAccessIfNeeded(
        IF NeedRtsRetransmission(s) THEN s
        ELSE GiveUp([s EXCEPT !.ssrc[s.cur.to] = 0]))

\* Faulty: the retry bit is not set.
MissedAckUnmarked(s) ==
    RestartAccessIfNeeded(
        IF NeedDataRetransmission(s) THEN s
        ELSE GiveUp([s EXCEPT !.slrc[s.cur.to] = 0]))

MissedAck(s) ==
    RestartAccessIfNeeded(
        IF NeedDataRetransmission(s) THEN [s EXCEPT !.retry = TRUE]
        ELSE GiveUp([s EXCEPT !.slrc[s.cur.to] = 0]))

GotAck(s) ==
    IF IsLastFragment(s)
    THEN RestartAccessIfNeeded([s EXCEPT !.ok = @ \cup {s.cur.pid}, !.cur = None])
    ELSE s

StartNext(n, s) ==
    LET next == [s EXCEPT !.fragNr = @ + 1]
    IN  StartTransmission(n, next, Fragment(next), Params(TRUE, FALSE, ~ IsLastFragment(next)))

EndTxNoAck(s) == StartAccessIfNeeded([s EXCEPT !.cur = None])

\* The DcfManager forgets its request as well.
NotifyChannelSwitching(s) == [s EXCEPT !.queue = <<>>, !.cur = None, !.req = FALSE]

=============================================================================
