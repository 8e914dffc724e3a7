------------------------------- MODULE TxRatio -------------------------------
(***************************************************************************)
(* DestTxRatio and TxRatio (TxRatio/model/txratio.cc): how many frames     *)
(* went to an address and how many were acknowledged. The list of records  *)
(* is a function of the address; an address without a record has zeros.    *)
(* The counters are 32 bits wide and never get near that here.             *)
(***************************************************************************)
EXTENDS Naturals

NewDest == [sends |-> 0, acks |-> 0]

AddSend(d) == [d EXCEPT !.sends = @ + 1]

AddAck(d) == [d EXCEPT !.acks = @ + 1]

\* NS_ASSERT (m_sends >= m_acks), after either.
Sound(d) == d.sends >= d.acks

AddSendTo(ratio, mac) == [ratio EXCEPT ![mac] = AddSend(@)]

AddAckFrom(ratio, mac) == [ratio EXCEPT ![mac] = AddAck(@)]

=============================================================================
