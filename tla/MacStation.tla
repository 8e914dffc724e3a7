------------------------------ MODULE MacStation ------------------------------
(***************************************************************************)
(* The half of MacLow that calls its listener, the DcaTxop: frames that    *)
(* arrive and events that expire. One operator per branch of ReceiveOk.    *)
(* Frames for somebody else that arrive in promiscuous mode only go up.    *)
(***************************************************************************)
EXTENDS DcaTxop

\* A call of the listener, about the packet the DcaTxop has, that takes the
\* station from s to after.
Call(s, after) == IF s.listener /\ s.cur # None THEN after ELSE Assert(s, FALSE)

\* The listener is taken away before the last call.
Released(s) == [s EXCEPT !.listener = FALSE]

-----------------------------------------------------------------------------
(* ReceiveOk                                                                 *)

\* A frame for somebody else reserves the medium.
NotifyNav(n, s, f) == [s EXCEPT !.nav = @ \/ f.to # n]

\* An RTS is answered if the NAV was zero before it came.
ReceiveRts(n, s, f) ==
    IF f.to = n /\ ~ s.nav
    THEN [Assert(s, s.sendCts = None) EXCEPT !.sendCts = f.from]
    ELSE NotifyNav(n, s, f)

\* GotCts of a DcaTxop does nothing.
ReceiveCts(n, s, f) ==
    IF f.to = n /\ s.ctsTimer /\ s.pkt
    THEN [Assert(s, s.listener /\ ~ s.sendData)
             EXCEPT !.ctsTimer = FALSE, !.sendData = TRUE, !.ssrc[s.hdr.to] = 0]
    ELSE NotifyNav(n, s, f)

CountAck(s) ==
    LET ratio == AddAckFrom(s.ratio, s.hdr.to)
    IN  Assert([s EXCEPT !.ratio = ratio], Sound(ratio[s.hdr.to]))

\* Faulty: an ack counts although nothing waits for it.
ReceiveAnyAck(n, s, f) ==
    IF f.to = n
    THEN LET acked == [CountAck(s) EXCEPT !.ackTimer = FALSE, !.slrc[s.hdr.to] = 0]
         IN  [Call(acked, GotAck(acked)) EXCEPT !.waitSifs = @ \/ s.params.next]
    ELSE NotifyNav(n, s, f)

\* After the ack of a fragment that is not the last, the next one is due.
ReceiveAck(n, s, f) ==
    IF f.to = n /\ s.ackTimer /\ s.params.ack
    THEN LET acked == [CountAck(s) EXCEPT !.ackTimer = FALSE, !.slrc[s.hdr.to] = 0]
         IN  [Call(acked, GotAck(acked)) EXCEPT !.waitSifs = @ \/ s.params.next]
    ELSE NotifyNav(n, s, f)

\* Data for this station is acknowledged and goes up, every time it comes.
ReceiveUnicast(n, s, f) ==
    [Assert(s, s.sendAck = None)
        EXCEPT !.sendAck = f.from, !.got = @ \cup {<<f.frag.pid, f.frag.nr>>}]

ReceiveData(n, s, f) ==
    CASE f.to = n     -> ReceiveUnicast(n, s, f)
      [] f.to = Group -> [s EXCEPT !.got = @ \cup {<<f.frag.pid, f.frag.nr>>}]
      [] OTHER        -> NotifyNav(n, s, f)

ReceiveOk(n, s, f) ==
    CASE f.type = "rts"  -> ReceiveRts(n, s, f)
      [] f.type = "cts"  -> ReceiveCts(n, s, f)
      [] f.type = "ack"  -> ReceiveAck(n, s, f)
      [] OTHER           -> ReceiveData(n, s, f)

-----------------------------------------------------------------------------
(* Events that expire                                                        *)

CtsTimeout(s) ==
    LET failed == [s EXCEPT !.ctsTimer = FALSE, !.ssrc[s.hdr.to] = @ + 1, !.pkt = FALSE]
    IN  Call(failed, MissedCts(Released(failed)))

NormalAckTimeout(s) ==
    LET failed == [s EXCEPT !.ackTimer = FALSE, !.slrc[s.hdr.to] = @ + 1]
    IN  Call(failed, MissedAck(Released(failed)))

WaitSifsAfterEndTx(n, s) ==
    LET due == [s EXCEPT !.waitSifs = FALSE] IN Call(due, StartNext(n, due))

\* The transmission ends; a data frame without ack ends in EndTxNoAck as well.
TransmissionEnds(s) ==
    LET silent == [s EXCEPT !.tx = Silence]
    IN  IF s.tx.type = "data" /\ ~ s.params.ack
        THEN Call(silent, EndTxNoAck(Released(silent)))
        ELSE silent

\* The DcfManager hears of the switch first, MacLow second.
NotifySwitchingStartNow(s) ==
    LET cleared == CancelAllEvents(NotifyChannelSwitching(s))
    IN  [cleared EXCEPT !.ssrc = [m \in Station |-> 0], !.slrc = [m \in Station |-> 0],
                        !.nav = FALSE, !.pkt = FALSE, !.listener = FALSE]

=============================================================================
