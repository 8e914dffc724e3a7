------------------------------- MODULE MacLow -------------------------------
(***************************************************************************)
(* The sending half of MacLow (wifi/model/mac-low.cc) for stations without *)
(* QoS: RTS, CTS, data and ack frames and the events they schedule. What   *)
(* calls back into the DcaTxop is in MacStation.                           *)
(*                                                                         *)
(* A station is a record. The fields of MacLow:                            *)
(*   pkt      : m_currentPacket is not 0                                   *)
(*   hdr      : m_currentHdr, a fragment                                   *)
(*   params   : m_txParams: is an ack awaited, is an RTS sent, is there a  *)
(*              next packet                                                *)
(*   listener : m_listener is not 0                                        *)
(*   ackTimer, ctsTimer, sendData, waitSifs : the event is scheduled       *)
(*   sendCts, sendAck : the station the scheduled frame goes to, or None   *)
(*   nav      : the NAV is not over                                        *)
(*   ratio    : m_txRatio, which is installed                              *)
(* Of the PHY, the frame it is sending (tx); of the remote station manager *)
(* the short and the long retry counts (ssrc, slrc). The fields of DcaTxop *)
(* are listed there. abort is set by an NS_ASSERT that fails or a null     *)
(* pointer that is followed. Two fields only record what happened: got,    *)
(* the fragments for this station that reached ReceiveOk, and ok and       *)
(* failed, the packets reported to the callbacks.                          *)
(*                                                                         *)
(* A frame is [type, to, from, frag]; an ack or CTS has a from as well,    *)
(* which its receiver does not look at. Durations are not modelled.        *)
(***************************************************************************)
EXTENDS TxRatio, Sequences

CONSTANTS
    Station,    \* the addresses of the stations
    Group,      \* a group address
    None

ASSUME StationAssumption == Group \notin Station /\ None \notin Station \cup {Group}

-----------------------------------------------------------------------------

NoFragment == [pid |-> None, to |-> None, nr |-> 0, more |-> FALSE, retry |-> FALSE]

Silence == [type |-> "silence", to |-> None, from |-> None, frag |-> NoFragment]

Params(ack, rts, next) == [ack |-> ack, rts |-> rts, next |-> next]

NewStation ==
    [pkt |-> FALSE, hdr |-> NoFragment, params |-> Params(FALSE, FALSE, FALSE),
     listener |-> FALSE, ackTimer |-> FALSE, ctsTimer |-> FALSE, sendData |-> FALSE,
     waitSifs |-> FALSE, sendCts |-> None, sendAck |-> None, nav |-> FALSE,
     ratio |-> [m \in Station |-> NewDest], tx |-> Silence,
     ssrc |-> [m \in Station |-> 0], slrc |-> [m \in Station |-> 0],
     queue |-> <<>>, cur |-> None, retry |-> FALSE, fragNr |-> 0, req |-> FALSE,
     got |-> {}, ok |-> {}, failed |-> {}, abort |-> FALSE]

\* NS_ASSERT, or a pointer that must not be null.
Assert(s, holds) == [s EXCEPT !.abort = @ \/ ~ holds]

\* The PHY takes a frame only when it is not sending one.
ForwardDown(s, f) == [Assert(s, s.tx = Silence) EXCEPT !.tx = f]

-----------------------------------------------------------------------------

EventRunning(s) ==
    \/ s.ackTimer \/ s.ctsTimer \/ s.sendData \/ s.waitSifs
    \/ s.sendCts # None \/ s.sendAck # None

\* Faulty: the timers for the ack and for the CTS go on.
CancelAllButTimers(s) ==
    [s EXCEPT !.sendData = FALSE, !.waitSifs = FALSE,
              !.sendCts = None, !.sendAck = None,
              !.listener = @ /\ ~ EventRunning(s)]

\* Cancel of the listener does nothing in a DcaTxop.
CancelAllEvents(s) ==
    [s EXCEPT !.ackTimer = FALSE, !.ctsTimer = FALSE,
              !.sendData = FALSE, !.waitSifs = FALSE,
              !.sendCts = None, !.sendAck = None,
              !.listener = @ /\ ~ EventRunning(s)]

\* A DcaTxop announces a next packet only along with an ack; a frame without
\* ack ends in EndTxNoAck when its transmission ends.
StartDataTxTimers(s) ==
    IF s.params.ack THEN [Assert(s, ~ s.ackTimer) EXCEPT !.ackTimer = TRUE] ELSE s

SendRtsForPacket(n, s) ==
    LET timed == [Assert(s, ~ s.ctsTimer) EXCEPT !.ctsTimer = TRUE]
    IN  ForwardDown(timed, [type |-> "rts", to |-> s.hdr.to, from |-> n, frag |-> NoFragment])

SendDataPacket(n, s) ==
    LET data == [type |-> "data", to |-> s.hdr.to, from |-> n, frag |-> s.hdr]
    IN  [ForwardDown(StartDataTxTimers(s), data) EXCEPT !.pkt = FALSE]

\* Faulty: counted once for each packet, not for each of its fragments.
CountPacket(s) ==
    IF s.hdr.to = Group \/ s.hdr.nr > 0 THEN s
    ELSE LET ratio == AddSendTo(s.ratio, s.hdr.to)
         IN  Assert([s EXCEPT !.ratio = ratio], Sound(ratio[s.hdr.to]))

CountSend(s) ==
    IF s.hdr.to = Group THEN s
    ELSE LET ratio == AddSendTo(s.ratio, s.hdr.to)
         IN  Assert([s EXCEPT !.ratio = ratio], Sound(ratio[s.hdr.to]))

StartTransmission(n, s, hdr, params) ==
    LET taken   == [CancelAllEvents([s EXCEPT !.pkt = TRUE, !.hdr = hdr])
                       EXCEPT !.listener = TRUE, !.params = params]
        counted == CountSend(taken)
    IN  IF params.rts THEN SendRtsForPacket(n, counted) ELSE SendDataPacket(n, counted)

-----------------------------------------------------------------------------
(* The events that answer a frame, a SIFS after it.                          *)

SendCtsAfterRts(n, s) ==
    ForwardDown([s EXCEPT !.sendCts = None],
                [type |-> "cts", to |-> s.sendCts, from |-> n, frag |-> NoFragment])

SendAckAfterData(n, s) ==
    ForwardDown([s EXCEPT !.sendAck = None],
                [type |-> "ack", to |-> s.sendAck, from |-> n, frag |-> NoFragment])

SendDataAfterCts(n, s) ==
    SendDataPacket(n, Assert([s EXCEPT !.sendData = FALSE], s.pkt))

=============================================================================
