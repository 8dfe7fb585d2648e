----------------------------- MODULE TimelyFlow -----------------------------
(***************************************************************************)
(* One flow of TimelySrc and TimelySink (timely.cpp).  The source polls    *)
(* itself once per packet time and sends at most one packet per poll.      *)
(***************************************************************************)
EXTENDS PacedSource

CONSTANT FirstEstimate   \* the _bdp_estimate a flow starts with: 8 * MSS_BYTES

VARIABLE last_rtt_bytes  \* _last_rtt_bytes

vars == <<pacedVars, last_rtt_bytes>>

----------------------------------------------------------------------------
\* The gate of sendPackets.  _highest_sent - _last_acked is unsigned: when an
\* ack of an earlier transmission has overtaken a timeout, it is huge.
GateOpen(s) ==
    s.bdp # 0 => /\ s.highest_sent >= s.last_acked
                 /\ s.highest_sent - s.last_acked < Limit(s)

CanSend(s) == s.highest_sent < FlowSize /\ GateOpen(s)

SendPackets(s) == IF CanSend(s) THEN SendNew(s, FALSE) ELSE s

Start ==
    /\ state = "IDLE"
    /\ Become(SendPackets([Now EXCEPT
                  !.highest_sent = 0, !.last_acked = 0,
                  !.bdp = FirstEstimate, !.state = "NORMAL"]))
    /\ UNCHANGED <<deleted, sink, rev, losses, spurious, last_rtt_bytes>>

\* A poll that sends; the others change nothing.
Poll ==
    /\ state \in Running /\ CanSend(Now)
    /\ Become(SendPackets(Now))
    /\ UNCHANGED <<deleted, sink, rev, losses, spurious, last_rtt_bytes>>

Timeout ==
    /\ state \in Running /\ TimerExpires
    /\ Become(SendPackets(Expire(Now)))
    /\ UNCHANGED <<deleted, sink, rev, losses, last_rtt_bytes>>

\* The cleanup of a finished flow waits for _flow._nPackets = 0.
Cleanup ==
    /\ state = "FINISH" /\ ~deleted /\ RoutesEmpty
    /\ deleted' = TRUE
    /\ UNCHANGED <<source, sink, fwd, rev, max_sent, losses, spurious,
                   last_rtt_bytes>>

\* Once an estimate's worth of bytes has been acknowledged, the rate and with
\* it the estimate change.
EstimateIsOld == last_acked > last_rtt_bytes + bdp_estimate

ReceiveAck ==
    /\ rev # <<>>
    /\ rev' = Tail(rev)
    /\ LET ackno == Head(rev).ackno IN
       \/ (IgnoredAck(ackno) \/ FinishFlow(ackno)) /\ UNCHANGED last_rtt_bytes
       \/ /\ CountedAck(ackno)
          /\ \E b \in IF EstimateIsOld THEN Estimates ELSE {bdp_estimate} :
                Become(ProcessAck([Now EXCEPT !.bdp = b], ackno))
          /\ last_rtt_bytes' = IF EstimateIsOld THEN last_acked
                               ELSE last_rtt_bytes
    /\ UNCHANGED <<deleted, sink, losses, spurious>>

\* TimelySink::receivePacket
ReceiveData == Deliver(FALSE) /\ UNCHANGED last_rtt_bytes

LosePacket == Lose /\ UNCHANGED last_rtt_bytes

Init == PacedInit /\ last_rtt_bytes = 0

\* What the event list makes happen: polls, and packets at the end of a route.
Event ==
    \/ Start
    \/ Poll
    \/ Timeout
    \/ Cleanup
    \/ ReceiveData
    \/ ReceiveAck

Next == Event \/ LosePacket

----------------------------------------------------------------------------
\* A flow that has not finished has a packet to send at its next poll or a
\* timer that will make it send one: also when the unsigned flight size has
\* wrapped around and keeps the gate shut (timely.cpp:244, 310).
NeverStuck == state \in Running => rto_timeout \/ CanSend(Now)
=============================================================================
