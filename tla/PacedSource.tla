----------------------------- MODULE PacedSource -----------------------------
(***************************************************************************)
(* What TimelySrc (timely.cpp) and PacketPairSrc (packetpair.cpp) have in  *)
(* common: both send at a rate, under a limit of 1.5 times an estimate of  *)
(* the bandwidth-delay product, and share their text for timeouts,         *)
(* acknowledgements and retransmissions.  The handlers are operators on a  *)
(* record of the source's state, applied in the order of the calls.        *)
(*                                                                         *)
(* The two routes are first-in first-out and may lose any packet: paced    *)
(* flows meet no queue that reorders the packets of a flow.  Time is       *)
(* abstracted: _rto_timeout is 0 or armed, an armed timer may expire at    *)
(* any poll, and a new estimate is any member of Estimates.                *)
(***************************************************************************)
EXTENDS Integers, Sequences, SequencesExt

CONSTANTS
    MSS,          \* MSS_BYTES
    FlowSize,     \* _flowsize, in bytes; not 0, which stands for no end
    DupWord,      \* 2^16: the modulus of _dupacks
    Estimates,    \* values _bdp_estimate may be given
    MaxFaults,    \* bound: packets the routes lose and early timeouts, in all
    MaxSpurious   \* bound: timeouts while packets are still in the routes

ASSUME PacedAssumption ==
    /\ MSS \in Nat /\ MSS > 1 /\ FlowSize \in Nat \ {0}
    /\ DupWord \in Nat /\ DupWord * MSS > FlowSize
    /\ Estimates \subseteq Nat
    /\ MaxFaults \in Nat /\ MaxSpurious \in Nat

VARIABLES
    state,           \* _state
    bdp_estimate,    \* _bdp_estimate
    recover_seq,     \* _recover_seq
    dupacks,         \* _dupacks
    rto_timeout,     \* _rto_timeout # 0
    highest_sent,    \* DataSource::_highest_sent
    last_acked,      \* DataSource::_last_acked
    deleted,         \* the flow's objects have been deleted
    cumulative_ack,  \* DataSink::_cumulative_ack
    received,        \* DataSink::_received
    fwd,             \* data packets in the forward route: seqno, PP_FIRST
    rev,             \* acks in the reverse route: ackno, whether it carries
                     \* a packet-pair measurement
    max_sent,        \* history: the highest byte ever sent
    losses,          \* packets lost so far
    spurious         \* timeouts so far that found packets in the routes

source == <<state, bdp_estimate, recover_seq, dupacks, rto_timeout,
            highest_sent, last_acked>>
sink == <<cumulative_ack, received>>
pacedVars == <<source, deleted, sink, fwd, rev, max_sent, losses, spurious>>

Sink == INSTANCE DataSink WITH Segments <- (FlowSize + MSS - 1) \div MSS

ASSUME PacedSinkAssumption == Sink!SinkAssumption

Running == {"STARTUP", "NORMAL", "RECOVERY"}

Higher(a, b) == IF a >= b THEN a ELSE b

\* The state the handlers of the source work on.
Now == [state |-> state, bdp |-> bdp_estimate, recover_seq |-> recover_seq,
        dupacks |-> dupacks, rto_timeout |-> rto_timeout,
        highest_sent |-> highest_sent, last_acked |-> last_acked,
        fwd |-> fwd, max_sent |-> max_sent]

Become(s) ==
    /\ state' = s.state
    /\ bdp_estimate' = s.bdp
    /\ recover_seq' = s.recover_seq
    /\ dupacks' = s.dupacks
    /\ rto_timeout' = s.rto_timeout
    /\ highest_sent' = s.highest_sent
    /\ last_acked' = s.last_acked
    /\ fwd' = s.fwd
    /\ max_sent' = s.max_sent

RoutesEmpty == fwd = <<>> /\ rev = <<>>

----------------------------------------------------------------------------
(* Sending *)

\* Bytes that may be in flight; a duplicate ack stands for a segment less.
Limit(s) == s.bdp + s.bdp \div 2 + s.dupacks * MSS

\* A packet put on the route arms the timer if it is off.
Send(s, seqno, first) ==
    [s EXCEPT !.fwd = Append(@, [seqno |-> seqno, first |-> first]),
              !.max_sent = Higher(@, seqno + MSS - 1),
              !.rto_timeout = TRUE]

SendNew(s, first) ==
    [Send(s, s.highest_sent + 1, first) EXCEPT !.highest_sent = @ + MSS]

\* retransmitPacket: the first unacknowledged segment.
RetransmitPacket(s) ==
    [Send(s, s.last_acked + 1, FALSE) EXCEPT
        !.highest_sent = IF s.last_acked = @ THEN @ + MSS ELSE @]

\* The retransmission timeout of doNextEvent.
Expire(s) ==
    RetransmitPacket([s EXCEPT !.recover_seq = s.highest_sent,
                               !.highest_sent = s.last_acked + MSS,
                               !.dupacks = 0, !.state = "NORMAL"])

\* What losses and early timeouts have left of their bound.
FaultsLeft == losses + spurious < MaxFaults

\* Timeouts with packets still on their way are early, and bounded.
CountsEarly ==
    IF RoutesEmpty THEN UNCHANGED spurious
    ELSE /\ spurious < MaxSpurious /\ FaultsLeft
         /\ spurious' = spurious + 1

\* What a timeout asks of the environment: the timer is armed.
TimerExpires == rto_timeout /\ CountsEarly

----------------------------------------------------------------------------
(* receivePacket of the source *)

\* Mutant: the timer is disarmed by every new ack outside recovery.
DisarmsAlways(s, ackno) == s.state = "RECOVERY"

\* A new ack restarts the timer, and stops it when nothing is outstanding.
TimerAfterAck(s, ackno) == ackno # s.highest_sent

\* _dupacks is uint16_t: a partial ack of more segments than there were
\* duplicate acks wraps it around.
NewAck(s, ackno) ==
    LET n == [s EXCEPT !.last_acked = ackno,
                       !.rto_timeout = TimerAfterAck(s, ackno)]
        k == (ackno - s.last_acked) \div MSS
    IN  IF s.state # "RECOVERY" THEN [n EXCEPT !.dupacks = 0]
        ELSE IF ackno < s.recover_seq
        THEN RetransmitPacket([n EXCEPT !.dupacks = (@ - k + 1) % DupWord])
        ELSE [n EXCEPT !.dupacks = 0, !.state = "NORMAL"]

DupAck(s) ==
    LET d == [s EXCEPT !.dupacks = (@ + 1) % DupWord] IN
    IF s.state = "RECOVERY" \/ d.dupacks # 3 \/ s.last_acked < s.recover_seq
    THEN d
    ELSE RetransmitPacket([d EXCEPT !.state = "RECOVERY",
                                    !.recover_seq = s.highest_sent])

ProcessAck(s, ackno) ==
    IF ackno > s.last_acked THEN NewAck(s, ackno) ELSE DupAck(s)

\* Mutant: the flow finishes one segment early.
CompletesEarly(ackno) == ackno + MSS >= FlowSize

Completes(ackno) == ackno >= FlowSize

\* An ack for a finished flow, or from before _last_acked.
IgnoredAck(ackno) ==
    /\ state = "FINISH" \/ (~Completes(ackno) /\ ackno < last_acked)
    /\ Become(Now)

FinishFlow(ackno) ==
    /\ state # "FINISH" /\ Completes(ackno)
    /\ Become([Now EXCEPT !.state = "FINISH"])

CountedAck(ackno) ==
    state # "FINISH" /\ ~Completes(ackno) /\ ackno >= last_acked

----------------------------------------------------------------------------
(* The routes *)

\* The packet at the end of the forward route reaches the sink, which answers
\* with an ack; measured says whether the ack carries a pair measurement.
Deliver(measured) ==
    /\ fwd # <<>>
    /\ Sink!ProcessDataPacket(Head(fwd).seqno)
    /\ fwd' = Tail(fwd)
    /\ rev' = Append(rev, [ackno |-> cumulative_ack', measured |-> measured])
    /\ UNCHANGED <<source, deleted, max_sent, losses, spurious>>

\* A queue on either route drops a packet.
Lose ==
    /\ FaultsLeft
    /\ losses' = losses + 1
    /\ \/ /\ \E i \in 1 .. Len(fwd) : fwd' = RemoveAt(fwd, i)
          /\ UNCHANGED rev
       \/ /\ \E i \in 1 .. Len(rev) : rev' = RemoveAt(rev, i)
          /\ UNCHANGED fwd
    /\ UNCHANGED <<source, deleted, sink, max_sent, spurious>>

PacedInit ==
    /\ state = "IDLE"
    /\ bdp_estimate = 0
    /\ recover_seq = 0
    /\ dupacks = 0
    /\ rto_timeout = FALSE
    /\ highest_sent = 0
    /\ last_acked = 0
    /\ deleted = FALSE
    /\ Sink!Init
    /\ fwd = <<>>
    /\ rev = <<>>
    /\ max_sent = 0
    /\ losses = 0
    /\ spurious = 0
=============================================================================
