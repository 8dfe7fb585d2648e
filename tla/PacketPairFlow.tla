--------------------------- MODULE PacketPairFlow ---------------------------
(***************************************************************************)
(* One flow of PacketPairSrc and PacketPairSink (packetpair.cpp).  The     *)
(* source starts with one pair of packets and an event at _first_rto.  The *)
(* first measured pair starts a second chain of events, one per pair sent. *)
(* Which of the two an event belongs to is told from the time alone.       *)
(***************************************************************************)
EXTENDS PacedSource

VARIABLES
    first_rto,        \* _first_rto against the clock: "unset", "ahead" (its
                      \* event is pending), "now" or "past"
    paced,            \* an event of the paced chain is pending
    first_pair_seqno  \* PacketPairSink::_first_pair_seqno

events == <<first_rto, paced>>
vars == <<pacedVars, events, first_pair_seqno>>

----------------------------------------------------------------------------
EndOfFlow(s) == s.highest_sent >= FlowSize

\* The gate of transmitPacketPair, on unsigned numbers.
GateOpen(s) ==
    s.bdp # 0 => /\ s.highest_sent >= s.last_acked
                 /\ s.highest_sent - s.last_acked <= Limit(s)

CanSend(s) == ~EndOfFlow(s) /\ GateOpen(s)

TransmitPacketPair(s) ==
    IF ~CanSend(s) THEN s
    ELSE LET f == SendNew(s, TRUE) IN
         IF EndOfFlow(f) THEN f ELSE SendNew(f, FALSE)

\* The first transmission, and its repetition at _first_rto: the flow starts
\* from byte 0 again.
StartPair ==
    Become([TransmitPacketPair([Now EXCEPT !.highest_sent = 0,
                                           !.last_acked = 0,
                                           !.bdp = 2 * MSS])
               EXCEPT !.state = "STARTUP"])

Start ==
    /\ state = "IDLE"
    /\ StartPair
    /\ first_rto' = "ahead"
    /\ UNCHANGED <<deleted, sink, rev, losses, spurious, paced,
                   first_pair_seqno>>

\* The event at _first_rto, while no pair has been measured.
Restart ==
    /\ first_rto = "ahead" /\ state = "STARTUP"
    /\ CountsEarly
    /\ StartPair
    /\ UNCHANGED <<deleted, sink, rev, losses, events, first_pair_seqno>>

\* The event at _first_rto otherwise: nothing is scheduled after it.
FirstRto ==
    /\ first_rto = "ahead" /\ state # "STARTUP"
    /\ first_rto' = "now"
    /\ \/ Become(Now) /\ UNCHANGED spurious
       \/ /\ state # "FINISH" /\ TimerExpires
          /\ Become(Expire(Now))
    /\ UNCHANGED <<deleted, sink, rev, losses, paced, first_pair_seqno>>

\* When an event of the paced chain comes: before the event at _first_rto, or
\* at the same time behind it, or later.
PacedEvent ==
    /\ paced
    /\ first_rto' \in CASE first_rto = "ahead" -> {"ahead"}
                        [] first_rto = "now"   -> {"now", "past"}
                        [] first_rto = "past"  -> {"past"}

\* A paced event that falls on _first_rto returns before it sends or schedules.
PollAtFirstRto ==
    /\ PacedEvent /\ first_rto' = "now"
    /\ paced' = FALSE
    /\ \/ Become(Now) /\ UNCHANGED spurious
       \/ /\ state # "FINISH" /\ TimerExpires
          /\ Become(Expire(Now))
    /\ UNCHANGED <<deleted, sink, rev, losses, first_pair_seqno>>

Poll ==
    /\ PacedEvent /\ first_rto' # "now"
    /\ state # "FINISH"
    /\ Become(TransmitPacketPair(Now))
    /\ UNCHANGED <<deleted, sink, rev, losses, spurious, paced,
                   first_pair_seqno>>

Timeout ==
    /\ PacedEvent /\ first_rto' # "now"
    /\ state # "FINISH" /\ TimerExpires
    /\ Become(TransmitPacketPair(Expire(Now)))
    /\ UNCHANGED <<deleted, sink, rev, losses, paced, first_pair_seqno>>

\* A finished flow polls until its packets have drained and _first_rto is past.
Cleanup ==
    /\ PacedEvent /\ first_rto' = "past"
    /\ state = "FINISH" /\ RoutesEmpty
    /\ deleted' = TRUE /\ paced' = FALSE
    /\ UNCHANGED <<source, sink, fwd, rev, max_sent, losses, spurious,
                   first_pair_seqno>>

----------------------------------------------------------------------------
\* A pair measurement gives a new estimate of two segments at least; the first
\* one sends a pair and starts the paced chain.
MeasurePair(s, b) ==
    LET m == [s EXCEPT !.bdp = Higher(b, 2 * MSS)] IN
    IF s.state = "STARTUP" THEN TransmitPacketPair([m EXCEPT !.state = "NORMAL"])
    ELSE m

ReceiveAck ==
    /\ rev # <<>>
    /\ rev' = Tail(rev)
    /\ LET ackno == Head(rev).ackno
           measured == Head(rev).measured
       IN \/ (IgnoredAck(ackno) \/ FinishFlow(ackno)) /\ UNCHANGED paced
          \/ /\ CountedAck(ackno) /\ ~measured
             /\ Become(ProcessAck(Now, ackno))
             /\ UNCHANGED paced
          \/ /\ CountedAck(ackno) /\ measured
             /\ \E b \in Estimates : Become(ProcessAck(MeasurePair(Now, b), ackno))
             /\ paced' = (paced \/ state = "STARTUP")
    /\ UNCHANGED <<deleted, sink, losses, spurious, first_rto, first_pair_seqno>>

\* PacketPairSink::receivePacket: the ack of a packet that follows the first
\* packet of a pair carries the time between the two.
ReceiveData ==
    /\ fwd # <<>>
    /\ Deliver(~Head(fwd).first /\ first_pair_seqno = Head(fwd).seqno - MSS)
    /\ first_pair_seqno' = IF Head(fwd).first THEN Head(fwd).seqno ELSE 0
    /\ UNCHANGED events

LosePacket == Lose /\ UNCHANGED <<events, first_pair_seqno>>

Init ==
    /\ PacedInit
    /\ first_rto = "unset"
    /\ paced = FALSE
    /\ first_pair_seqno = 0

\* What the event list makes happen: the source's events, and packets at the
\* end of a route.
Event ==
    \/ Start
    \/ Restart
    \/ FirstRto
    \/ PollAtFirstRto
    \/ Poll
    \/ Timeout
    \/ Cleanup
    \/ ReceiveData
    \/ ReceiveAck

Next == Event \/ LosePacket

Spec == Init /\ [][Next]_vars

----------------------------------------------------------------------------
\* "Keep scheduling till all packets have been drained" (packetpair.cpp:121): a
\* finished flow that has not been deleted has an event coming.
FinishedIsScheduled ==
    state = "FINISH" /\ ~deleted => first_rto = "ahead" \/ paced

\* No event and no packet will reach the flow any more.
Abandoned ==
    first_rto \in {"now", "past"} /\ ~paced /\ RoutesEmpty

\* While its paced chain runs, a flow that has not finished has a packet to
\* send at the next poll or a timer that will make it send one
\* (packetpair.cpp:287, 366).
NeverStuck == paced /\ state \in Running => rto_timeout \/ CanSend(Now)
=============================================================================
