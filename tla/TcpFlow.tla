------------------------------ MODULE TcpFlow ------------------------------
(***************************************************************************)
(* One flow of htsim: TcpSrc and TcpSink (tcp.cpp, NewReno with the DCTCP   *)
(* reaction) joined by a forward and a reverse route that may lose any     *)
(* packet.  Sequence numbers are bytes, as in the code, and the model      *)
(* keeps the three windows the code keeps (_highest_sent, _last_acked,     *)
(* _recover_seq) with their 64-bit values, and _cwnd and _ssthresh with    *)
(* their 32-bit arithmetic (modulo Word).                                  *)
(*                                                                         *)
(* Time is abstracted: _RFC2988_RTO_timeout is either 0 or armed, and an   *)
(* armed timer may expire at any poll.  The DCTCP estimate _alpha is the   *)
(* set of windows it can yield.                                            *)
(***************************************************************************)
EXTENDS Integers, Sequences

CONSTANTS
    MSS,          \* MSS_BYTES
    FlowSize,     \* _flowsize, in bytes
    Word,         \* 2^32: the modulus of the uint32_t fields
    EnableDctcp,  \* TcpSrc::_enable_dctcp
    Timed,        \* the flow has a _duration that may run out
    Reorder,      \* the route has a queue that may reorder (PriorityQueue)
    MaxDrops,     \* bound: packets the routes lose
    MaxSpurious   \* bound: timeouts while packets are still in the routes

ASSUME SizeAssumption ==
    /\ MSS \in Nat \ {0}
    /\ FlowSize \in Nat \ {0}
    /\ Word \in Nat
    /\ Word >= FlowSize + 2 * MSS
ASSUME OptionAssumption == {EnableDctcp, Timed, Reorder} \subseteq BOOLEAN
ASSUME BoundAssumption == MaxDrops \in Nat /\ MaxSpurious \in Nat

VARIABLES
    state,           \* TcpSrc::_state
    cwnd,            \* TcpSrc::_cwnd
    ssthresh,        \* TcpSrc::_ssthresh
    recover_seq,     \* TcpSrc::_recover_seq
    dupacks,         \* TcpSrc::_dupacks, saturated at DupackCap
    rto_timeout,     \* TcpSrc::_RFC2988_RTO_timeout # 0
    highest_sent,    \* DataSource::_highest_sent
    last_acked,      \* DataSource::_last_acked
    deleted,         \* the flow's objects have been deleted
    cumulative_ack,  \* DataSink::_cumulative_ack
    received,        \* first bytes of the segments in DataSink::_received
    fwd,             \* data packets in the forward route (their seqno)
    rev,             \* acks in the reverse route (their ackno)
    max_sent,        \* history: the highest byte ever sent
    unrecovered,     \* history: the highest byte sent before the last timeout
    losses,          \* packets lost so far
    spurious         \* timeouts so far that found packets in the routes

window == <<state, cwnd, ssthresh, recover_seq, dupacks>>
sender == <<window, rto_timeout, highest_sent, last_acked, deleted>>
sink   == <<cumulative_ack, received>>
budget == <<losses, spurious>>
vars   == <<sender, sink, fwd, rev, max_sent, unrecovered, budget>>

Active == {"SLOW_START", "CONG_AVOID", "FAST_RECOV"}
States == Active \cup {"IDLE", "FINISH"}

\* "more than three duplicate acks": the code only compares with three
DupackCap == 4

Lower(a, b)  == IF a <= b THEN a ELSE b
Higher(a, b) == IF a >= b THEN a ELSE b

\* uint32_t arithmetic.  Only the flight size needs it: it is a difference
\* whose operands may come in the wrong order.  The additions to _cwnd would
\* need 2^32 / MSS acks of one window to wrap and are left in Nat.
U32(x) == x % Word

----------------------------------------------------------------------------
(* Routes: what is delivered or lost next. *)

Without(s, i) == [j \in 1 .. Len(s) - 1 |-> IF j < i THEN s[j] ELSE s[j + 1]]

Deliverable(route) == IF Reorder THEN 1 .. Len(route)
                      ELSE {i \in 1 .. Len(route) : i = 1}

RoutesEmpty == fwd = <<>> /\ rev = <<>>

----------------------------------------------------------------------------
(* TcpSink: what one data packet does to _cumulative_ack and _received.    *)
(* The sorted list is kept as the set of its elements (see DataSink).      *)

\* Mutant: the popping loop is forgotten.
NeverPops(c, rcvd, e) == e = c

\* e is where the loop that pops contiguous segments stops, starting at c.
StopsAt(c, rcvd, e) ==
    /\ \A s \in rcvd : s + MSS - 1 > c /\ s <= e =>
           s = c + 1 \/ (s - MSS) \in rcvd
    /\ e = c \/ (e - MSS + 1) \in rcvd
    /\ (e + 1) \notin rcvd

\* Mutant: a retransmission of old bytes is taken for the next segment.
IsNextOrOlder(seqno) == seqno <= cumulative_ack + 1

IsNext(seqno) == seqno = cumulative_ack + 1

ProcessDataPacket(seqno) ==
    \/ /\ IsNext(seqno)
       /\ LET c == seqno + MSS - 1 IN
          \E e \in {c} \cup {s + MSS - 1 : s \in received} :
             /\ c <= e /\ StopsAt(c, received, e)
             /\ cumulative_ack' = e
             /\ received' = {s \in received : s > e}
    \/ /\ seqno <= cumulative_ack
       /\ UNCHANGED sink
    \/ /\ seqno > cumulative_ack + 1
       /\ received' = received \cup {seqno}
       /\ UNCHANGED cumulative_ack

\* TcpSink::receivePacket: every data packet is answered with an ack.
ReceiveData ==
    /\ \E i \in Deliverable(fwd) :
          /\ ProcessDataPacket(fwd[i])
          /\ fwd' = Without(fwd, i)
    /\ rev' = Append(rev, cumulative_ack')
    /\ UNCHANGED <<sender, max_sent, unrecovered, budget>>

----------------------------------------------------------------------------
(* TcpSrc::sendPackets and retransmitPacket *)

\* Mutant: an "if" where the code has a "while".
OneAtMost(la, w, hs) ==
    IF hs >= FlowSize \/ la + w < hs + MSS THEN 0 ELSE 1

\* Mutant: the loop does not stop at the end of the flow.
PastTheEnd(la, w, hs) ==
    IF la + w < hs + MSS THEN 0 ELSE (la + w - hs) \div MSS

\* Rounds of the sending loop: one per segment the window has room for, until
\* the flow's last byte is out.
NumToSend(la, w, hs) ==
    IF hs >= FlowSize \/ la + w < hs + MSS THEN 0
    ELSE Lower((la + w - hs) \div MSS, (FlowSize - hs + MSS - 1) \div MSS)

Burst(hs, n) == [k \in 1 .. n |-> hs + (k - 1) * MSS + 1]

\* Mutant: sending does not arm the timer.
KeepTimer(armed, segments) == armed

\* A timer that is off is armed by the first segment sent.
TimerAfterSending(armed, segments) == armed \/ segments # <<>>

\* retx is what retransmitPacket put on the route first: <<>> or one segment.
Transmit(la, w, hs, retx, armed) ==
    LET n        == NumToSend(la, w, hs)
        top      == hs + n * MSS
        segments == retx \o Burst(hs, n)
    IN  /\ highest_sent' = top
        /\ fwd' = fwd \o segments
        /\ rto_timeout' = TimerAfterSending(armed, segments)
        /\ max_sent' = Higher(Higher(max_sent, top),
                              IF retx = <<>> THEN 0 ELSE la + MSS)

Retransmission(la) == <<la + 1>>

----------------------------------------------------------------------------
(* TcpSrc::doNextEvent *)

Start ==
    /\ state = "IDLE"
    /\ state' = "SLOW_START"
    /\ cwnd' = 2 * MSS
    /\ Transmit(last_acked, 2 * MSS, highest_sent, <<>>, rto_timeout)
    /\ UNCHANGED <<ssthresh, recover_seq, dupacks, last_acked, deleted,
                   sink, rev, unrecovered, budget>>

\* min(_ssthresh, flightsize + MSS_BYTES), in uint32_t
Deflated(thresh, acked) ==
    Lower(thresh, U32(U32(highest_sent - acked) + MSS))

\* Mutant: the assignment to _recover_seq is forgotten.
OldRecoveryPoint == recover_seq

RecoveryPoint == highest_sent

Timeout ==
    /\ state \in Active
    /\ rto_timeout
    /\ IF RoutesEmpty THEN UNCHANGED spurious
       ELSE spurious < MaxSpurious /\ spurious' = spurious + 1
    /\ LET w == IF state = "FAST_RECOV" THEN Deflated(ssthresh, last_acked)
                ELSE cwnd
       IN  ssthresh' = Higher(w \div 2, 2 * MSS)
    /\ cwnd' = MSS
    /\ state' = "SLOW_START"
    /\ recover_seq' = RecoveryPoint
    /\ highest_sent' = last_acked + MSS
    /\ dupacks' = 0
    /\ rto_timeout' = TRUE
    /\ fwd' = fwd \o Retransmission(last_acked)
    /\ max_sent' = Higher(max_sent, last_acked + MSS)
    /\ unrecovered' = max_sent
    /\ UNCHANGED <<last_acked, deleted, sink, rev, losses>>

\* The cleanup of a finished flow waits for _flow._nPackets = 0.
Cleanup ==
    /\ state = "FINISH" /\ ~deleted
    /\ RoutesEmpty
    /\ deleted' = TRUE
    /\ UNCHANGED <<window, rto_timeout, highest_sent, last_acked, sink,
                   fwd, rev, max_sent, unrecovered, budget>>

----------------------------------------------------------------------------
(* TcpSrc::receivePacket: DCTCP, on c = [state, cwnd, ssthresh] *)

EcnEcho(c) ==
    IF c.state = "SLOW_START" /\ c.ssthresh > c.cwnd
    THEN [c EXCEPT !.state = "CONG_AVOID", !.ssthresh = c.cwnd]
    ELSE c

\* Mutant: the new window is not kept at one segment or more.
UnclampedCuts(c) ==
    {[c EXCEPT !.cwnd = w, !.ssthresh = w] : w \in c.cwnd \div 2 .. c.cwnd}

\* _cwnd * (1 - _alpha / 2) for the values of _alpha in (0, 1]
AlphaCuts(c) ==
    {[c EXCEPT !.cwnd = Higher(w, MSS), !.ssthresh = Higher(w, MSS)] :
        w \in c.cwnd \div 2 .. c.cwnd}

DctcpOutcomes(c) ==
    IF ~EnableDctcp THEN {c}
    ELSE {c, EcnEcho(c)} \cup AlphaCuts(c) \cup AlphaCuts(EcnEcho(c))

----------------------------------------------------------------------------
(* TcpSrc::inflateWindow *)

Inflated(c, la) ==
    LET newly_acked == Lower(la + c.cwnd - highest_sent, MSS) IN
    IF newly_acked < 0 THEN c.cwnd
    ELSE IF c.cwnd < c.ssthresh
         THEN c.cwnd + Lower(c.ssthresh - c.cwnd, newly_acked)
         ELSE c.cwnd + Higher((newly_acked * MSS) \div c.cwnd, 1)

----------------------------------------------------------------------------
(* TcpSrc::receivePacket: the branches, after the DCTCP outcome c *)

NewAck(ackno, c) ==
    /\ ackno > last_acked /\ c.state # "FAST_RECOV"
    /\ last_acked' = ackno
    /\ dupacks' = 0
    /\ state' = c.state /\ ssthresh' = c.ssthresh
    /\ cwnd' = Inflated(c, ackno)
    /\ Transmit(ackno, Inflated(c, ackno), highest_sent, <<>>,
                ackno # highest_sent)
    /\ UNCHANGED <<recover_seq, unrecovered>>

FullAck(ackno, c) ==
    /\ ackno > last_acked /\ c.state = "FAST_RECOV"
    /\ ackno >= recover_seq
    /\ last_acked' = ackno
    /\ dupacks' = 0
    /\ state' = "CONG_AVOID" /\ ssthresh' = c.ssthresh
    /\ cwnd' = Deflated(c.ssthresh, ackno)
    /\ Transmit(ackno, Deflated(c.ssthresh, ackno), highest_sent, <<>>,
                ackno # highest_sent)
    /\ UNCHANGED <<recover_seq, unrecovered>>

AfterPartial(w, new_data) == Higher(w - new_data, 0) + MSS

PartialAck(ackno, c) ==
    /\ ackno > last_acked /\ c.state = "FAST_RECOV"
    /\ ackno < recover_seq
    /\ last_acked' = ackno
    /\ state' = c.state /\ ssthresh' = c.ssthresh
    /\ LET w == AfterPartial(c.cwnd, ackno - last_acked) IN
       /\ cwnd' = w
       /\ Transmit(ackno, w, highest_sent, Retransmission(ackno),
                   ackno # highest_sent)
    /\ UNCHANGED <<recover_seq, dupacks, unrecovered>>

DupAckInRecovery(ackno, c) ==
    /\ ackno = last_acked /\ c.state = "FAST_RECOV"
    /\ state' = c.state /\ ssthresh' = c.ssthresh
    /\ cwnd' = c.cwnd + MSS
    /\ Transmit(ackno, c.cwnd + MSS, highest_sent, <<>>, rto_timeout)
    /\ UNCHANGED <<recover_seq, dupacks, last_acked, unrecovered>>

DupAck(ackno, c) ==
    /\ ackno = last_acked /\ c.state # "FAST_RECOV"
    /\ dupacks # 2
    /\ dupacks' = Lower(dupacks + 1, DupackCap)
    /\ state' = c.state /\ ssthresh' = c.ssthresh /\ cwnd' = c.cwnd
    /\ Transmit(ackno, c.cwnd, highest_sent, <<>>, rto_timeout)
    /\ UNCHANGED <<recover_seq, last_acked, unrecovered>>

ThirdDupNoRecovery(ackno, c) ==
    /\ ackno = last_acked /\ c.state # "FAST_RECOV"
    /\ dupacks = 2 /\ dupacks' = 3
    /\ last_acked < recover_seq
    /\ state' = c.state /\ ssthresh' = c.ssthresh /\ cwnd' = c.cwnd
    /\ UNCHANGED <<recover_seq, last_acked, unrecovered, rto_timeout,
                   highest_sent, fwd, max_sent>>

FastRetransmit(ackno, c) ==
    /\ ackno = last_acked /\ c.state # "FAST_RECOV"
    /\ dupacks = 2 /\ dupacks' = 3
    /\ last_acked >= recover_seq
    /\ state' = "FAST_RECOV"
    /\ ssthresh' = Higher(c.cwnd \div 2, 2 * MSS)
    /\ cwnd' = Higher(c.cwnd \div 2, 2 * MSS) + 3 * MSS
    /\ recover_seq' = RecoveryPoint
    /\ fwd' = fwd \o Retransmission(ackno)
    /\ rto_timeout' = TRUE
    /\ max_sent' = Higher(max_sent, ackno + MSS)
    /\ UNCHANGED <<highest_sent, last_acked, unrecovered>>

\* Mutant: the flow finishes one segment early.
CompletesEarly(ackno) == ackno + MSS >= FlowSize

Completes(ackno) == ackno >= FlowSize

\* An ack for a finished flow, or from before _last_acked.
IgnoredAck(ackno) ==
    /\ state = "FINISH" \/ (~Completes(ackno) /\ ackno < last_acked)
    /\ UNCHANGED <<sender, fwd, max_sent, unrecovered>>

FinishFlow(ackno) ==
    /\ state # "FINISH"
    /\ Completes(ackno) \/ Timed
    /\ state' = "FINISH"
    /\ UNCHANGED <<cwnd, ssthresh, recover_seq, dupacks, rto_timeout,
                   highest_sent, last_acked, deleted, fwd, max_sent,
                   unrecovered>>

ProcessAck(ackno) ==
    /\ state # "FINISH" /\ ~Completes(ackno)
    /\ \E c \in DctcpOutcomes([state |-> state, cwnd |-> cwnd,
                               ssthresh |-> ssthresh]) :
          \/ NewAck(ackno, c)
          \/ FullAck(ackno, c)
          \/ PartialAck(ackno, c)
          \/ DupAckInRecovery(ackno, c)
          \/ DupAck(ackno, c)
          \/ ThirdDupNoRecovery(ackno, c)
          \/ FastRetransmit(ackno, c)
    /\ UNCHANGED deleted

ReceiveAck ==
    /\ \E i \in Deliverable(rev) :
          /\ rev' = Without(rev, i)
          /\ \/ IgnoredAck(rev[i])
             \/ FinishFlow(rev[i])
             \/ ProcessAck(rev[i])
    /\ UNCHANGED <<sink, budget>>

----------------------------------------------------------------------------
(* A queue on either route drops a packet. *)

LoseData ==
    /\ losses < MaxDrops
    /\ losses' = losses + 1
    /\ \E i \in 1 .. Len(fwd) : fwd' = Without(fwd, i)
    /\ UNCHANGED <<sender, sink, rev, max_sent, unrecovered, spurious>>

LoseAck ==
    /\ losses < MaxDrops
    /\ losses' = losses + 1
    /\ \E i \in 1 .. Len(rev) : rev' = Without(rev, i)
    /\ UNCHANGED <<sender, sink, fwd, max_sent, unrecovered, spurious>>

----------------------------------------------------------------------------
Init ==
    /\ state = "IDLE"
    /\ cwnd = 0
    /\ ssthresh = Word - 1
    /\ recover_seq = 0
    /\ dupacks = 0
    /\ rto_timeout = FALSE
    /\ highest_sent = 0
    /\ last_acked = 0
    /\ deleted = FALSE
    /\ cumulative_ack = 0
    /\ received = {}
    /\ fwd = <<>>
    /\ rev = <<>>
    /\ max_sent = 0
    /\ unrecovered = 0
    /\ losses = 0
    /\ spurious = 0

Next ==
    \/ Start
    \/ Timeout
    \/ Cleanup
    \/ ReceiveData
    \/ ReceiveAck
    \/ LoseData
    \/ LoseAck

Spec == Init /\ [][Next]_vars

\* The event list runs every event: the start event, the arrival of every
\* packet at the end of its route, and the periodic poll, which finds an armed
\* timer expired if nothing else happens, and cleans up a finished flow.
FairSpec ==
    /\ Spec
    /\ WF_vars(Start) /\ WF_vars(Timeout) /\ WF_vars(Cleanup)
    /\ WF_vars(ReceiveData) /\ WF_vars(ReceiveAck)

----------------------------------------------------------------------------
\* The types of the variables: a flow never sends beyond the segment that
\* holds its last byte, and never acknowledges that byte without finishing.
TypeOK ==
    /\ state \in States
    /\ cwnd \in Nat /\ ssthresh \in Nat
    /\ dupacks \in 0 .. DupackCap
    /\ rto_timeout \in BOOLEAN /\ deleted \in BOOLEAN
    /\ highest_sent \in 0 .. FlowSize + MSS - 1
    /\ recover_seq \in 0 .. FlowSize + MSS - 1
    /\ last_acked \in 0 .. FlowSize - 1
    /\ cumulative_ack \in Nat
    /\ received \in SUBSET Nat
    /\ fwd \in Seq(Nat) /\ rev \in Seq(Nat)
    /\ max_sent \in Nat /\ unrecovered \in Nat
    /\ losses \in 0 .. MaxDrops /\ spurious \in 0 .. MaxSpurious

\* A flow that has started and not finished has its retransmission timer
\* armed, so no loss can leave it waiting for ever.  The handlers disarm the
\* timer when _highest_sent is acknowledged and rely on sendPackets, whose
\* window may be closed, to arm it again (tcp.cpp:244-249, 418).
TimerArmed == state \in Active => rto_timeout

\* The uint64_t _highest_sent never stays behind _last_acked between two
\* events, although a timeout pulls it back to one segment beyond _last_acked
\* while acks of the earlier transmissions are on their way: the unsigned
\* differences of the timeout handler and of recovery are flight sizes
\* (tcp.cpp:106, 115, 266).
SentCoversAcked == state \in Active => last_acked <= highest_sent

\* A window smaller than a segment would silence the sender with data
\* outstanding.  _cwnd does collapse, to 0, but only at the end of a recovery
\* that left nothing between _last_acked and _highest_sent, and the next new
\* ack opens it (tcp.cpp:266-267, 283-289).
CollapsedWindowIsIdle ==
    state \in Active /\ cwnd < MSS => cwnd = 0 /\ last_acked = highest_sent

\* The recovery point lies between the first unacknowledged byte and the last
\* byte sent: recovery neither outlives its window nor waits for an ack of
\* bytes the sender has forgotten sending (tcp.cpp:264, 331).
RecoveryWindow ==
    state = "FAST_RECOV" =>
        last_acked <= recover_seq /\ recover_seq <= highest_sent

\* Every ack, in flight or processed, is for bytes the sink holds, and the
\* sink holds only bytes that were sent, whatever was lost, resent or
\* reordered in between.
AcksAreHonest ==
    /\ last_acked <= cumulative_ack /\ cumulative_ack <= max_sent
    /\ \A i \in 1 .. Len(rev) : rev[i] <= cumulative_ack
    /\ \A s \in received : s + MSS - 1 <= max_sent
    /\ \A i \in 1 .. Len(fwd) : fwd[i] + MSS - 1 <= max_sent

\* No segment that extends the acknowledged prefix is left in the sink's
\* out-of-order list (datasink.cpp:28-37): the ack would stand still although
\* the data is there.
NoSegmentLeftBehind == \A s \in received : s > cumulative_ack + 1

\* The flow generator is told that a flow has finished only when the sink has
\* every byte of it (tcp.cpp:148-154).
FinishedIsDelivered ==
    state = "FINISH" /\ ~Timed => cumulative_ack >= FlowSize

\* "If we haven't recovered from timeouts etc. don't do fast recovery"
\* (tcp.cpp:318): fast recovery starts only when everything sent before the
\* last timeout has been acknowledged.
FastRecoveryAfterTimeouts ==
    [][state # "FAST_RECOV" /\ state' = "FAST_RECOV"
           => last_acked >= unrecovered]_vars

\* Every flow, whatever the routes lose, is delivered, finishes and has its
\* objects deleted (tcp.cpp:79-89, 148-154).
FlowEndsClean == <>deleted

\* The phase of the flow as its user sees it.
Phase == IF deleted THEN "deleted"
         ELSE CASE state = "FINISH"  -> "finished"
                [] state \in Active  -> "active"
                [] OTHER             -> "idle"

Promise == INSTANCE ReliableTransfer
    WITH Size <- FlowSize, MayExpire <- Timed, phase <- Phase,
         sent <- max_sent, delivered <- cumulative_ack, known <- last_acked

\* The flow implements ReliableTransfer: the sender never claims more than the
\* receiver holds, the prefix only grows, the flow finishes when delivered and
\* is deleted once, after that.
ImplementsReliableTransfer == Promise!Spec
=============================================================================
