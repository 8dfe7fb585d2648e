--------------------------- MODULE PacedFlowProofs ---------------------------
(***************************************************************************)
(* Proofs about PacedFlow for every segment and flow size, every estimate, *)
(* any number of losses and of early timeouts.  Both transports keep one   *)
(* invariant: what is in flight was sent, what is acknowledged was         *)
(* received, and a timer that is off leaves nothing outstanding.           *)
(***************************************************************************)
EXTENDS PacedFlow, CommonLemmas

SinkProofs == INSTANCE DataSinkProofs
    WITH Segments <- (FlowSize + MSS - 1) \div MSS

----------------------------------------------------------------------------
(* What the source's state looks like *)

States == Running \cup {"IDLE", "FINISH"}

\* Ends of segments, and the sequence numbers of the stream.
Edges == {k * MSS : k \in Nat}
SeqNos == SinkProofs!SeqNos

\* Packets of bytes up to m, and acks of bytes up to c.
DataPacket == [seqno : SeqNos, first : BOOLEAN]
SentBy(m) == {p \in DataPacket : p.seqno + MSS - 1 <= m}
Acks(c) == {a \in [ackno : Edges, measured : BOOLEAN] : a.ackno <= c}

SourceType == [state : States, bdp : Nat, recover_seq : Nat, dupacks : Nat,
               rto_timeout : BOOLEAN, highest_sent : Edges, last_acked : Edges,
               fwd : Seq(DataPacket), max_sent : Nat]

\* Positions are ends of segments, a flow that is not finished lacks an ack,
\* and every packet on the route has been counted.
SourceOk(s) ==
    /\ s \in SourceType
    /\ s.last_acked < FlowSize
    /\ s.fwd \in Seq(SentBy(s.max_sent))

\* A timer that is off leaves nothing outstanding.
Armed(s) == s.rto_timeout \/ s.highest_sent = s.last_acked

\* What sending makes of s.
Sends(s, t) ==
    /\ SourceOk(t) /\ t.state = s.state
    /\ t.last_acked = s.last_acked /\ s.max_sent <= t.max_sent
    /\ Armed(s) => Armed(t)

----------------------------------------------------------------------------
(* Positions in the stream *)

\* The end of the next segment is an end of a segment, and the byte behind an
\* end that is not beyond the flow is a sequence number.
LEMMA EdgeFacts ==
    /\ Edges \subseteq Nat /\ 0 \in Edges /\ MSS \in Nat /\ MSS > 1 /\ MSS \in Edges
    /\ \A n \in Edges : n + MSS \in Edges
    /\ \A n \in Edges : n < FlowSize => n + 1 \in SeqNos
    /\ \A n \in SeqNos : n \in Nat
<1>1. MSS \in Nat /\ MSS > 1 /\ FlowSize \in Nat \ {0} /\ MSS \in Nat \ {0}
  BY PacedAssumption
<1>2. PICK t : t = (FlowSize + MSS - 1) \div MSS
  OBVIOUS
<1>3. t \in Nat \ {0} /\ FlowSize <= t * MSS
  BY <1>1, <1>2, CeilingOf
<1>4. \A k \in Nat : k * MSS \in Nat /\ (k + 1) * MSS = k * MSS + MSS
  BY <1>1
<1>5. 0 \in Edges /\ Edges \subseteq Nat /\ MSS \in Edges
  <2>1. 0 = 0 * MSS /\ MSS = 1 * MSS /\ 0 \in Nat /\ 1 \in Nat
    BY <1>1
  <2> QED
    BY <1>4, <2>1 DEF Edges
<1>6. ASSUME NEW n \in Edges PROVE n + MSS \in Edges
  <2>1. PICK k \in Nat : n = k * MSS
    BY DEF Edges
  <2>2. k + 1 \in Nat /\ n + MSS = (k + 1) * MSS
    BY <1>4, <2>1
  <2> QED
    BY <2>2 DEF Edges
<1>7. SeqNos = {(k - 1) * MSS + 1 : k \in 1 .. t}
  BY <1>2 DEF SeqNos, SinkProofs!SeqNos
<1>8. ASSUME NEW n \in Edges, n < FlowSize PROVE n + 1 \in SeqNos
  <2>1. PICK k \in Nat : n = k * MSS
    BY DEF Edges
  <2>2. k < t
    <3>1. t <= k => t * MSS <= k * MSS
      BY <1>1, <1>3, Mono
    <3> QED
      BY <1>1, <1>3, <1>4, <1>8, <2>1, <3>1
  <2>3. k + 1 \in 1 .. t /\ n + 1 = ((k + 1) - 1) * MSS + 1
    BY <1>3, <2>1, <2>2
  <2> QED
    BY <1>7, <2>3
<1>9. ASSUME NEW n \in SeqNos PROVE n \in Nat
  <2>1. PICK k \in 1 .. t : n = (k - 1) * MSS + 1
    BY <1>7
  <2>2. k - 1 \in Nat
    BY <1>3
  <2> QED
    BY <1>4, <2>1, <2>2
<1> QED
  BY <1>1, <1>5, <1>6, <1>8, <1>9, Zenon

\* Packets that were sent are still so when more has been sent.
LEMMA SentGrows ==
    ASSUME NEW m \in Nat, NEW n \in Nat, m <= n, NEW q \in Seq(SentBy(m))
    PROVE  q \in Seq(SentBy(n)) /\ q \in Seq(DataPacket)
<1>1. SentBy(m) \subseteq SentBy(n) /\ SentBy(m) \subseteq DataPacket
  BY EdgeFacts DEF SentBy, DataPacket
<1> QED
  BY <1>1

\* The numbers of a source.
LEMMA SourceNumbers ==
    ASSUME NEW s, SourceOk(s)
    PROVE  /\ s.highest_sent \in Nat /\ s.last_acked \in Nat
           /\ s.dupacks \in Nat /\ s.max_sent \in Nat /\ s.bdp \in Nat
<1>1. s.highest_sent \in Edges /\ s.last_acked \in Edges
      /\ s.dupacks \in Nat /\ s.max_sent \in Nat /\ s.bdp \in Nat
  BY DEF SourceOk, SourceType
<1>2. Edges \subseteq Nat
  BY EdgeFacts
<1> QED
  BY <1>1, <1>2

----------------------------------------------------------------------------
(* Sending *)

\* A packet put on the route.
LEMMA SendOk ==
    ASSUME NEW s, SourceOk(s), NEW n \in Edges, n < FlowSize, NEW first \in BOOLEAN,
           NEW t, t = Send(s, n + 1, first)
    PROVE  SourceOk(t) /\ Sends(s, t) /\ t.rto_timeout
           /\ t.highest_sent = s.highest_sent /\ t.bdp = s.bdp
<1>1. PICK p : p = [seqno |-> n + 1, first |-> first]
  OBVIOUS
<1>2. PICK m : m = Higher(s.max_sent, n + 1 + MSS - 1)
  OBVIOUS
<1>3. n + 1 \in SeqNos /\ n \in Nat /\ MSS \in Nat
  BY EdgeFacts
<1>4. s \in SourceType /\ s.max_sent \in Nat /\ s.last_acked < FlowSize
      /\ s.fwd \in Seq(SentBy(s.max_sent))
  BY DEF SourceOk, SourceType
<1>5. m \in Nat /\ s.max_sent <= m /\ n + 1 + MSS - 1 <= m
  BY <1>2, <1>3, <1>4 DEF Higher
<1>6. p \in SentBy(m)
  BY <1>1, <1>3, <1>5 DEF SentBy, DataPacket
<1>7. s.fwd \in Seq(SentBy(m))
  BY <1>4, <1>5, SentGrows
<1>8. PICK q : q = Append(s.fwd, p)
  OBVIOUS
<1>9. q \in Seq(SentBy(m))
  BY <1>6, <1>7, <1>8
<1>10. q \in Seq(DataPacket)
  BY <1>5, <1>9, SentGrows
<1>11. t = [s EXCEPT !.fwd = q, !.max_sent = m, !.rto_timeout = TRUE]
  BY <1>1, <1>2, <1>8 DEF Send
<1>12. /\ t \in SourceType /\ t.fwd = q /\ t.max_sent = m /\ t.rto_timeout = TRUE
       /\ t.state = s.state /\ t.last_acked = s.last_acked
       /\ t.highest_sent = s.highest_sent /\ t.bdp = s.bdp
  BY <1>4, <1>5, <1>10, <1>11 DEF SourceType
<1> QED
  BY <1>4, <1>5, <1>9, <1>12 DEF SourceOk, Sends, Armed

\* A new packet.
LEMMA SendNewOk ==
    ASSUME NEW s, SourceOk(s), s.highest_sent < FlowSize, NEW first \in BOOLEAN,
           NEW t, t = SendNew(s, first)
    PROVE  Sends(s, t) /\ t.rto_timeout /\ SourceOk(t)
<1>1. PICK n : n = s.highest_sent
  OBVIOUS
<1>2. n \in Edges /\ n + MSS \in Edges
  BY <1>1, EdgeFacts DEF SourceOk, SourceType
<1>3. PICK u : u = Send(s, n + 1, first)
  OBVIOUS
<1>4. SourceOk(u) /\ Sends(s, u) /\ u.rto_timeout /\ u.highest_sent = n
  BY <1>1, <1>2, <1>3, SendOk
<1>5. PICK h \in Edges : h = n + MSS
  BY <1>2
<1>6. t = [u EXCEPT !.highest_sent = h]
  BY <1>1, <1>3, <1>4, <1>5 DEF SendNew
<1>7. /\ SourceOk(t) /\ t.last_acked = u.last_acked /\ t.state = u.state
      /\ t.max_sent = u.max_sent /\ t.rto_timeout = u.rto_timeout
  BY <1>4, <1>6 DEF SourceOk, SourceType
<1> QED
  BY <1>4, <1>7 DEF Sends, Armed

\* The first unacknowledged segment once more.
LEMMA RetransmitOk ==
    ASSUME NEW s, SourceOk(s), NEW t, t = RetransmitPacket(s)
    PROVE  Sends(s, t) /\ t.rto_timeout /\ SourceOk(t)
<1>1. PICK n, g : n = s.last_acked /\ g = s.highest_sent
  OBVIOUS
<1>2. n \in Edges /\ n < FlowSize /\ g \in Edges /\ g + MSS \in Edges
  BY <1>1, EdgeFacts DEF SourceOk, SourceType
<1>3. PICK u : u = Send(s, n + 1, FALSE)
  OBVIOUS
<1>4. SourceOk(u) /\ Sends(s, u) /\ u.rto_timeout /\ u.highest_sent = g
  <2>1. PICK first \in BOOLEAN : first = FALSE
    OBVIOUS
  <2>2. u = Send(s, n + 1, first)
    BY <1>3, <2>1
  <2> QED
    BY <1>1, <1>2, <2>2, SendOk
<1>5. PICK h : h = IF n = g THEN g + MSS ELSE g
  OBVIOUS
<1>6. h \in Edges
  BY <1>2, <1>5
<1>7. t = [u EXCEPT !.highest_sent = h]
  BY <1>1, <1>3, <1>4, <1>5 DEF RetransmitPacket
<1>8. /\ SourceOk(t) /\ t.last_acked = u.last_acked /\ t.state = u.state
      /\ t.max_sent = u.max_sent /\ t.rto_timeout = u.rto_timeout
  BY <1>4, <1>6, <1>7 DEF SourceOk, SourceType
<1> QED
  BY <1>4, <1>8 DEF Sends, Armed

\* What a timeout makes of a source.
LEMMA ExpireOk ==
    ASSUME NEW s, SourceOk(s), NEW t, t = Expire(s)
    PROVE  /\ SourceOk(t) /\ t.rto_timeout /\ t.state = "NORMAL"
           /\ t.last_acked = s.last_acked /\ s.max_sent <= t.max_sent
<1>1. PICK u : u = [s EXCEPT !.recover_seq = s.highest_sent,
                             !.highest_sent = s.last_acked + MSS,
                             !.dupacks = 0, !.state = "NORMAL"]
  OBVIOUS
<1>2. s.highest_sent \in Nat /\ s.last_acked + MSS \in Edges
  BY EdgeFacts DEF SourceOk, SourceType
<1>3. /\ SourceOk(u) /\ u.state = "NORMAL" /\ u.last_acked = s.last_acked
      /\ u.max_sent = s.max_sent
  BY <1>1, <1>2 DEF SourceOk, SourceType, States, Running
<1>4. t = RetransmitPacket(u)
  BY <1>1 DEF Expire
<1>5. Sends(u, t) /\ t.rto_timeout /\ SourceOk(t)
  BY <1>3, <1>4, RetransmitOk
<1> QED
  BY <1>3, <1>5 DEF Sends

----------------------------------------------------------------------------
(* Acknowledgements *)

\* What an ack of bytes up to c makes of a running source.
Acked(s, c, t) ==
    /\ SourceOk(t) /\ Armed(t) /\ t.state \in Running
    /\ s.max_sent <= t.max_sent
    /\ t.last_acked = IF c > s.last_acked THEN c ELSE s.last_acked

\* _dupacks is a number of its word.
LEMMA DupWordFacts ==
    /\ DupWord \in Nat \ {0}
    /\ \A n \in Int : n % DupWord \in Nat
<1>1. DupWord \in Nat /\ FlowSize \in Nat \ {0} /\ MSS \in Nat /\ DupWord * MSS > FlowSize
  BY PacedAssumption
<1>2. DupWord # 0
  <2>1. 0 * MSS = 0
    BY <1>1
  <2> QED
    BY <1>1, <2>1
<1>3. DupWord \in Nat \ {0}
  BY <1>1, <1>2
<1>4. ASSUME NEW n \in Int PROVE n % DupWord \in Nat
  <2>1. PICK q \in Int : \E r \in 0 .. DupWord - 1 : n % DupWord = r
    BY <1>3, DivMod
  <2> QED
    BY <1>3, <2>1
<1> QED
  BY <1>3, <1>4

\* A new ack.
LEMMA NewAckOk ==
    ASSUME NEW s, SourceOk(s), s.state \in Running,
           NEW c \in Edges, c < FlowSize, c > s.last_acked, NEW t, t = NewAck(s, c)
    PROVE  Acked(s, c, t)
<1>1. PICK k : k = (c - s.last_acked) \div MSS
  OBVIOUS
<1>2. s \in SourceType /\ s.fwd \in Seq(SentBy(s.max_sent))
  BY DEF SourceOk
<1>3. c \in Nat /\ s.last_acked \in Nat /\ s.highest_sent \in Nat /\ s.dupacks \in Nat
      /\ MSS \in Nat \ {0}
  <2>1. Edges \subseteq Nat
    BY EdgeFacts
  <2> QED
    BY <2>1, SourceNumbers, PacedAssumption
<1>4. k \in Int
  BY <1>1, <1>3, DivMod
<1>5. PICK d : d = (s.dupacks - k + 1) % DupWord
  OBVIOUS
<1>6. d \in Nat
  BY <1>3, <1>4, <1>5, DupWordFacts
<1>7. PICK b \in BOOLEAN : b = (c # s.highest_sent)
  OBVIOUS
<1>8. PICK n : n = [s EXCEPT !.last_acked = c, !.rto_timeout = b]
  OBVIOUS
<1>9. /\ SourceOk(n) /\ n.last_acked = c /\ n.state = s.state
      /\ n.max_sent = s.max_sent /\ Armed(n) /\ n.dupacks = s.dupacks
  BY <1>2, <1>3, <1>7, <1>8 DEF SourceOk, SourceType, Armed
<1>10. /\ s.state # "RECOVERY" => t = [n EXCEPT !.dupacks = 0]
       /\ s.state = "RECOVERY" /\ c < s.recover_seq
             => t = RetransmitPacket([n EXCEPT !.dupacks = d])
       /\ s.state = "RECOVERY" /\ ~(c < s.recover_seq)
             => t = [n EXCEPT !.dupacks = 0, !.state = "NORMAL"]
  <2>1. n = [s EXCEPT !.last_acked = c, !.rto_timeout = TimerAfterAck(s, c)]
    BY <1>7, <1>8 DEF TimerAfterAck
  <2>2. [n EXCEPT !.dupacks = (@ - k + 1) % DupWord] = [n EXCEPT !.dupacks = d]
    BY <1>5, <1>9
  <2>3. s.state # "RECOVERY" => t = [n EXCEPT !.dupacks = 0]
    BY <2>1 DEF NewAck
  <2>4. s.state = "RECOVERY" /\ ~(c < s.recover_seq)
           => t = [n EXCEPT !.dupacks = 0, !.state = "NORMAL"]
    BY <2>1 DEF NewAck
  <2>5. s.state = "RECOVERY" /\ c < s.recover_seq
           => t = RetransmitPacket([n EXCEPT !.dupacks = (@ - k + 1) % DupWord])
    BY <1>1, <2>1 DEF NewAck
  <2> QED
    BY <2>2, <2>3, <2>4, <2>5
<1>11. CASE s.state # "RECOVERY"
  <2>1. t = [n EXCEPT !.dupacks = 0]
    BY <1>10, <1>11
  <2>2. /\ SourceOk(t) /\ t.last_acked = c /\ t.state = s.state
        /\ t.max_sent = s.max_sent /\ Armed(t)
    BY <1>9, <2>1 DEF SourceOk, SourceType, Armed
  <2> QED
    BY <1>2, <2>2 DEF Acked, SourceType
<1>12. CASE s.state = "RECOVERY" /\ c < s.recover_seq
  <2>1. PICK u : u = [n EXCEPT !.dupacks = d]
    OBVIOUS
  <2>2. /\ SourceOk(u) /\ u.last_acked = c /\ u.state = s.state
        /\ u.max_sent = s.max_sent
    BY <1>6, <1>9, <2>1 DEF SourceOk, SourceType
  <2>3. t = RetransmitPacket(u)
    BY <1>10, <1>12, <2>1
  <2>4. Sends(u, t) /\ t.rto_timeout /\ SourceOk(t)
    BY <2>2, <2>3, RetransmitOk
  <2> QED
    BY <2>2, <2>4 DEF Acked, Sends, Armed
<1>13. CASE s.state = "RECOVERY" /\ ~(c < s.recover_seq)
  <2>1. t = [n EXCEPT !.dupacks = 0, !.state = "NORMAL"]
    BY <1>10, <1>13
  <2>2. "NORMAL" \in States /\ "NORMAL" \in Running
    BY DEF States, Running
  <2>3. t \in SourceType
    <3>1. n \in SourceType
      BY <1>9 DEF SourceOk
    <3>2. PICK u : u = [n EXCEPT !.dupacks = 0]
      OBVIOUS
    <3>3. u \in SourceType
      BY <3>1, <3>2 DEF SourceType
    <3>4. t = [u EXCEPT !.state = "NORMAL"]
      BY <2>1, <3>1, <3>2 DEF SourceType
    <3> QED
      BY <2>2, <3>3, <3>4 DEF SourceType
  <2>4. /\ t.last_acked = c /\ t.state = "NORMAL" /\ t.fwd = n.fwd
        /\ t.max_sent = s.max_sent /\ t.rto_timeout = n.rto_timeout
        /\ t.highest_sent = n.highest_sent
    BY <1>9, <2>1, <2>3 DEF SourceOk, SourceType
  <2>5. SourceOk(t) /\ Armed(t)
    BY <1>9, <2>3, <2>4 DEF SourceOk, Armed
  <2> QED
    BY <1>2, <2>2, <2>4, <2>5 DEF Acked, SourceType
<1> QED
  BY <1>11, <1>12, <1>13

\* A duplicate ack.
LEMMA DupAckOk ==
    ASSUME NEW s, SourceOk(s), Armed(s), s.state \in Running,
           NEW c \in Edges, ~(c > s.last_acked), NEW t, t = DupAck(s)
    PROVE  Acked(s, c, t)
<1>1. s \in SourceType /\ s.dupacks + 1 \in Int /\ s.highest_sent \in Nat
      /\ s.max_sent \in Nat
  BY SourceNumbers DEF SourceOk
<1>2. PICK k \in Nat : k = (s.dupacks + 1) % DupWord
  BY <1>1, DupWordFacts
<1>3. PICK d : d = [s EXCEPT !.dupacks = k]
  OBVIOUS
<1>4. /\ SourceOk(d) /\ d.last_acked = s.last_acked /\ d.state = s.state
      /\ d.max_sent = s.max_sent /\ Armed(d)
  BY <1>1, <1>3 DEF SourceOk, SourceType, Armed
<1>5. PICK u : u = [d EXCEPT !.state = "RECOVERY", !.recover_seq = s.highest_sent]
  OBVIOUS
<1>6. /\ SourceOk(u) /\ u.last_acked = s.last_acked /\ u.state \in Running
      /\ u.max_sent = s.max_sent
  BY <1>1, <1>4, <1>5 DEF SourceOk, SourceType, States, Running
<1>7. t = d \/ t = RetransmitPacket(u)
  BY <1>2, <1>3, <1>5 DEF DupAck
<1>8. CASE t = d
  BY <1>1, <1>4, <1>8 DEF Acked
<1>9. CASE t = RetransmitPacket(u)
  <2>1. Sends(u, t) /\ t.rto_timeout /\ SourceOk(t)
    BY <1>6, <1>9, RetransmitOk
  <2> QED
    BY <1>6, <2>1 DEF Acked, Sends, Armed
<1> QED
  BY <1>7, <1>8, <1>9

\* An ack that counts.
LEMMA ProcessAckOk ==
    ASSUME NEW s, SourceOk(s), Armed(s), s.state \in Running,
           NEW c \in Edges, c < FlowSize, NEW t, t = ProcessAck(s, c)
    PROVE  Acked(s, c, t)
<1>1. CASE c > s.last_acked
  <2>1. t = NewAck(s, c)
    BY <1>1 DEF ProcessAck
  <2> QED
    BY <1>1, <2>1, NewAckOk
<1>2. CASE ~(c > s.last_acked)
  <2>1. t = DupAck(s)
    BY <1>2 DEF ProcessAck
  <2> QED
    BY <1>2, <2>1, DupAckOk
<1> QED
  BY <1>1, <1>2

----------------------------------------------------------------------------
(* The invariant *)

\* The list is sound, and holds no segment that was not sent.
SinkOk ==
    /\ SinkProofs!SinkInv
    /\ \A k \in SinkProofs!Held : k * MSS <= max_sent

\* A flow that has not started has touched nothing; one that has finished has
\* delivered its bytes; nothing is on its way to one that has been deleted.
PhaseOk ==
    /\ deleted \in BOOLEAN
    /\ state = "IDLE" => /\ fwd = <<>> /\ rev = <<>> /\ last_acked = 0
                         /\ ~paced /\ first_rto = "unset"
    /\ state = "FINISH" => cumulative_ack >= FlowSize
    /\ deleted => state = "FINISH" /\ fwd = <<>> /\ rev = <<>>

FlowInv ==
    /\ SourceOk(Now) /\ Armed(Now)
    /\ SinkOk /\ PhaseOk
    /\ rev \in Seq(Acks(cumulative_ack))
    /\ last_acked <= cumulative_ack

----------------------------------------------------------------------------
(* The steps, whichever transport takes them *)

\* What every step is to the two specifications it implements.
Implements ==
    /\ [Promise!Next]_(Promise!vars)
    /\ [Sink!Receiver!Next]_(Sink!Receiver!vars)

\* The state the handlers leave is the next state.
LEMMA Becomes ==
    ASSUME NEW t, t \in SourceType, Become(t)
    PROVE  Now' = t
  BY DEF Become, Now, SourceType

\* Steps that leave the sink alone.
LEMMA SinkRests ==
    ASSUME UNCHANGED sink
    PROVE  /\ UNCHANGED Sink!Receiver!vars
           /\ SinkProofs!SinkInv => SinkProofs!SinkInv'
           /\ SinkProofs!Held' = SinkProofs!Held
           /\ cumulative_ack' = cumulative_ack
<1>1. cumulative_ack' = cumulative_ack /\ received' = received
  BY DEF sink
<1>2. Sink!Held' = Sink!Held /\ SinkProofs!Held' = SinkProofs!Held
  BY <1>1 DEF Sink!Held, SinkProofs!Held
<1> QED
  BY <1>1, <1>2 DEF Sink!Receiver!vars, SinkProofs!SinkInv

\* The source sends, or learns from an ack, or both.
LEMMA SourceStep ==
    ASSUME FlowInv, NEW t, SourceOk(t), Armed(t), t.state \in Running,
           state # "FINISH", Become(t), UNCHANGED <<deleted, sink, transport>>,
           rev' \in Seq(Acks(cumulative_ack)), max_sent <= t.max_sent,
           t.last_acked <= cumulative_ack,
           transport = "timely" => last_acked <= t.last_acked
    PROVE  FlowInv' /\ Implements
<1>1. t \in SourceType /\ Now' = t
  BY Becomes DEF SourceOk
<1>2. /\ state' = t.state /\ fwd' = t.fwd /\ max_sent' = t.max_sent
      /\ last_acked' = t.last_acked
  BY DEF Become
<1>3. /\ UNCHANGED Sink!Receiver!vars /\ SinkProofs!SinkInv'
      /\ SinkProofs!Held' = SinkProofs!Held
      /\ cumulative_ack' = cumulative_ack
  BY SinkRests DEF FlowInv, SinkOk
<1>4. max_sent \in Nat /\ max_sent' \in Nat /\ MSS \in Nat
  <2>1. max_sent \in Nat
    BY DEF FlowInv, SourceOk, SourceType, Now
  <2> QED
    BY <1>1, <1>2, <2>1, PacedAssumption DEF SourceType
<1>5. ~deleted /\ deleted \in BOOLEAN /\ deleted' = deleted
  BY DEF FlowInv, PhaseOk
<1>6. state \in States
  BY DEF FlowInv, SourceOk, SourceType, Now
<1>7. state' # "IDLE" /\ state' # "FINISH" /\ state' \in Running
  BY <1>2 DEF Running
<1>8. SinkOk'
  <2> SUFFICES ASSUME NEW k \in SinkProofs!Held' PROVE k * MSS <= max_sent'
    BY <1>3 DEF SinkOk
  <2>1. k \in SinkProofs!Held
    BY <1>3
  <2>2. k \in Nat
    BY <2>1 DEF SinkProofs!Held, SinkProofs!HeldBy
  <2>3. k * MSS <= max_sent
    BY <2>1 DEF FlowInv, SinkOk
  <2>4. k * MSS \in Nat
    BY <1>4, <2>2
  <2> QED
    BY <1>2, <1>4, <2>3, <2>4
<1>9. PhaseOk'
  BY <1>5, <1>7 DEF PhaseOk
<1>10. FlowInv'
  BY <1>1, <1>2, <1>3, <1>8, <1>9 DEF FlowInv
<1>11. Promise!SenderStep
  <2>1. Phase \in {"idle", "active"} /\ Phase' = "active"
    BY <1>5, <1>6, <1>7 DEF Phase, States, Running
  <2>2. last_acked \in Nat /\ t.last_acked \in Nat /\ cumulative_ack >= 0
    <3>1. last_acked \in Nat /\ last_acked <= cumulative_ack
      BY EdgeFacts DEF FlowInv, SourceOk, SourceType, Now
    <3>2. cumulative_ack \in Nat
      BY EdgeFacts DEF FlowInv, SinkOk, SinkProofs!SinkInv, SinkProofs!Sound
    <3> QED
      BY <3>1, <3>2, SourceNumbers
  <2> QED
    BY <1>2, <1>3, <1>4, <2>1, <2>2 DEF Promise!SenderStep
<1> QED
  BY <1>3, <1>10, <1>11 DEF Implements, Promise!Next

\* The source, the sink and the flow's objects stay; the routes may lose.
LEMMA RoutesStep ==
    ASSUME FlowInv, UNCHANGED <<source, max_sent, deleted, sink, transport>>,
           fwd' \in Seq(SentBy(max_sent)), fwd = <<>> => fwd' = <<>>,
           rev' \in Seq(Acks(cumulative_ack)), rev = <<>> => rev' = <<>>,
           state = "IDLE" => UNCHANGED <<paced, first_rto>>
    PROVE  FlowInv' /\ Implements
<1>1. /\ UNCHANGED <<state, bdp_estimate, recover_seq, dupacks, rto_timeout,
                     highest_sent, last_acked, max_sent>>
  BY DEF source
<1>2. /\ UNCHANGED Sink!Receiver!vars /\ SinkProofs!SinkInv'
      /\ SinkProofs!Held' = SinkProofs!Held
      /\ cumulative_ack' = cumulative_ack
  BY SinkRests DEF FlowInv, SinkOk
<1>3. SinkOk'
  BY <1>1, <1>2 DEF FlowInv, SinkOk
<1>4. PhaseOk'
  BY <1>1, <1>2 DEF FlowInv, PhaseOk
<1>5. max_sent \in Nat
  BY DEF FlowInv, SourceOk, SourceType, Now
<1>6. fwd' \in Seq(DataPacket)
  BY <1>5, SentGrows
<1>7. SourceOk(Now') /\ Armed(Now')
  BY <1>1, <1>6 DEF FlowInv, SourceOk, SourceType, Armed, Now
<1>8. FlowInv'
  BY <1>1, <1>2, <1>3, <1>4, <1>7 DEF FlowInv
<1>9. UNCHANGED Promise!vars
  BY <1>1, <1>2 DEF Promise!vars, Phase
<1> QED
  BY <1>2, <1>8, <1>9 DEF Implements

\* The ack that completes the flow.
LEMMA FinishStep ==
    ASSUME FlowInv, UNCHANGED <<deleted, sink, transport>>, NEW c, FinishFlow(c),
           c <= cumulative_ack, c \in Nat, state # "IDLE",
           rev' \in Seq(Acks(cumulative_ack))
    PROVE  FlowInv' /\ Implements
<1>1. PICK t : t = [Now EXCEPT !.state = "FINISH"]
  OBVIOUS
<1>2. SourceOk(t) /\ Armed(t)
  <2>1. "FINISH" \in States
    BY DEF States
  <2> QED
    BY <1>1, <2>1 DEF FlowInv, SourceOk, SourceType, Armed
<1>3. state # "FINISH" /\ c >= FlowSize /\ Become(t)
  BY <1>1 DEF FinishFlow, Completes
<1>4. Now' = t
  BY <1>2, <1>3, Becomes DEF SourceOk
<1>5. /\ state' = "FINISH" /\ fwd' = fwd /\ max_sent' = max_sent
      /\ last_acked' = last_acked
  BY <1>1, <1>3 DEF Become, Now
<1>6. /\ UNCHANGED Sink!Receiver!vars /\ SinkProofs!SinkInv'
      /\ SinkProofs!Held' = SinkProofs!Held
      /\ cumulative_ack' = cumulative_ack
  BY SinkRests DEF FlowInv, SinkOk
<1>7. SinkOk'
  BY <1>5, <1>6 DEF FlowInv, SinkOk
<1>8. ~deleted /\ deleted \in BOOLEAN /\ deleted' = deleted
  BY <1>3 DEF FlowInv, PhaseOk
<1>9. cumulative_ack >= FlowSize
  <2>1. cumulative_ack \in Nat
    BY EdgeFacts DEF FlowInv, SinkOk, SinkProofs!SinkInv, SinkProofs!Sound
  <2> QED
    BY <1>3, <2>1, PacedAssumption
<1>10. PhaseOk'
  BY <1>5, <1>6, <1>8, <1>9 DEF PhaseOk
<1>11. FlowInv'
  BY <1>2, <1>4, <1>5, <1>6, <1>7, <1>10 DEF FlowInv
<1>12. state \in States
  BY DEF FlowInv, SourceOk, SourceType, Now
<1>13. Promise!Finish
  <2>1. Phase = "active" /\ Phase' = "finished"
    BY <1>3, <1>5, <1>8, <1>12 DEF Phase, States, Running
  <2> QED
    BY <1>5, <1>6, <1>9, <2>1 DEF Promise!Finish
<1> QED
  BY <1>6, <1>11, <1>13 DEF Implements, Promise!Next

\* A finished flow whose packets have drained is deleted.
LEMMA CleanupStep ==
    ASSUME FlowInv, state = "FINISH", ~deleted, deleted' = TRUE, RoutesEmpty,
           UNCHANGED <<source, sink, fwd, rev, max_sent, transport>>
    PROVE  FlowInv' /\ Implements
<1>1. Now' = Now /\ state' = state /\ last_acked' = last_acked
  BY DEF source, Now
<1>2. /\ UNCHANGED Sink!Receiver!vars /\ SinkProofs!SinkInv'
      /\ SinkProofs!Held' = SinkProofs!Held
      /\ cumulative_ack' = cumulative_ack
  BY SinkRests DEF FlowInv, SinkOk
<1>3. SinkOk'
  BY <1>2 DEF FlowInv, SinkOk
<1>4. PhaseOk'
  BY <1>1, <1>2 DEF FlowInv, PhaseOk, RoutesEmpty
<1>5. FlowInv'
  BY <1>1, <1>2, <1>3, <1>4 DEF FlowInv
<1>6. Promise!Reclaim
  <2>1. Phase = "finished" /\ Phase' = "deleted"
    BY <1>1 DEF Phase, Running
  <2>2. max_sent' = max_sent /\ transport' = transport
    OBVIOUS
  <2> QED
    BY <1>1, <1>2, <2>1, <2>2 DEF Promise!Reclaim
<1> QED
  BY <1>2, <1>5, <1>6 DEF Implements, Promise!Next

\* Packets on the route are of this stream and were sent.
LEMMA HeadSent ==
    ASSUME FlowInv, fwd # <<>>, NEW n, n = Head(fwd).seqno
    PROVE  n \in SeqNos /\ n + MSS - 1 <= max_sent /\ Tail(fwd) \in Seq(SentBy(max_sent))
<1>1. fwd \in Seq(SentBy(max_sent))
  BY DEF FlowInv, SourceOk, Now
<1>2. Head(fwd) \in SentBy(max_sent) /\ Tail(fwd) \in Seq(SentBy(max_sent))
  BY <1>1
<1> QED
  BY <1>2 DEF SentBy, DataPacket

\* Acks of bytes up to a are also acks of bytes up to b.
LEMMA AcksGrow ==
    ASSUME NEW a \in Nat, NEW b \in Nat, a <= b, NEW q \in Seq(Acks(a))
    PROVE  q \in Seq(Acks(b))
<1>1. Acks(a) \subseteq Acks(b)
  <2>1. Edges \subseteq Nat
    BY EdgeFacts
  <2> SUFFICES ASSUME NEW x \in Acks(a) PROVE x \in Acks(b)
    OBVIOUS
  <2>2. x \in [ackno : Edges, measured : BOOLEAN] /\ x.ackno <= a
    BY DEF Acks
  <2>3. x.ackno \in Nat
    BY <2>1, <2>2
  <2> QED
    BY <2>2, <2>3 DEF Acks
<1> QED
  BY <1>1

\* The sink's ack is the end of a segment.
LEMMA AckIsEdge ==
    ASSUME SinkProofs!SinkInv
    PROVE  cumulative_ack \in Edges /\ cumulative_ack \in Nat
<1>1. PICK t : t = (FlowSize + MSS - 1) \div MSS
  OBVIOUS
<1>2. PICK k \in 0 .. t : cumulative_ack = k * MSS
  BY <1>1 DEF SinkProofs!SinkInv, SinkProofs!Sound
<1>3. k \in Nat
  OBVIOUS
<1>4. cumulative_ack \in Edges
  BY <1>2, <1>3 DEF Edges
<1> QED
  BY <1>4, EdgeFacts

\* The receiver that DataSinkProofs speaks of is the sink's.
LEMMA ReceiverIs ==
    /\ SinkProofs!Receiver!Next => Sink!Receiver!Next
    /\ SinkProofs!Receiver!Init => Sink!Receiver!Init
<1>1. \A q : Sink!Receiver!PrefixEnd(q) = SinkProofs!Receiver!PrefixEnd(q)
  BY DEF Sink!Receiver!PrefixEnd, SinkProofs!Receiver!PrefixEnd,
         Sink!Receiver!Max, SinkProofs!Receiver!Max
<1>2. Sink!Held = SinkProofs!Held /\ Sink!Held' = SinkProofs!Held'
  BY DEF Sink!Held, SinkProofs!Held, Sink!HeldBy, SinkProofs!HeldBy
<1> QED
  BY <1>1, <1>2 DEF Sink!Receiver!Next, SinkProofs!Receiver!Next,
         Sink!Receiver!Receive, SinkProofs!Receiver!Receive,
         Sink!Receiver!Init, SinkProofs!Receiver!Init

\* The sink takes a packet as DataSink does.
LEMMA PacketIs ==
    ASSUME NEW n, Sink!ProcessDataPacket(n)
    PROVE  SinkProofs!ProcessDataPacket(n)
  BY DEF Sink!ProcessDataPacket, SinkProofs!ProcessDataPacket, Sink!Pops,
         SinkProofs!Pops, Sink!Place, SinkProofs!Place, Sink!Inserted,
         SinkProofs!Inserted, Sink!InsertAt, SinkProofs!InsertAt, Sink!vars,
         SinkProofs!vars

\* The packet at the end of the route reaches the sink, and an ack leaves it.
LEMMA DeliverStep ==
    ASSUME FlowInv, NEW measured \in BOOLEAN, Deliver(measured),
           UNCHANGED <<transport, paced, first_rto>>
    PROVE  FlowInv' /\ Implements
<1>1. PICK n : n = Head(fwd).seqno
  OBVIOUS
<1>2. /\ fwd # <<>> /\ Sink!ProcessDataPacket(n) /\ fwd' = Tail(fwd)
      /\ rev' = Append(rev, [ackno |-> cumulative_ack', measured |-> measured])
      /\ UNCHANGED <<source, deleted, max_sent>>
  BY <1>1 DEF Deliver
<1>3. n \in SeqNos /\ n + MSS - 1 <= max_sent /\ Tail(fwd) \in Seq(SentBy(max_sent))
  BY <1>1, <1>2, HeadSent
<1>4. SinkProofs!SinkAssumption
  BY PacedSinkAssumption DEF Sink!SinkAssumption, SinkProofs!SinkAssumption
<1>5. SinkProofs!SinkInv
  BY DEF FlowInv, SinkOk
<1>6. PICK t : t = (FlowSize + MSS - 1) \div MSS
  OBVIOUS
<1>7. /\ SinkProofs!SinkInv' /\ SinkProofs!Receiver!Next
      /\ \E s \in 1 .. t : SinkProofs!Starts(s, n)
                             /\ SinkProofs!Held' = SinkProofs!Held \cup {s}
      /\ cumulative_ack <= cumulative_ack'
  <2>1. n \in SinkProofs!SeqNos /\ SinkProofs!ProcessDataPacket(n)
    BY <1>2, <1>3, PacketIs DEF SeqNos
  <2> QED
    BY <1>4, <1>5, <1>6, <2>1, SinkProofs!PacketStep
<1>8. PICK s \in 1 .. t : SinkProofs!Starts(s, n)
                             /\ SinkProofs!Held' = SinkProofs!Held \cup {s}
  BY <1>7
<1>9. /\ cumulative_ack \in Nat /\ cumulative_ack' \in Edges /\ cumulative_ack' \in Nat
      /\ MSS \in Nat /\ max_sent \in Nat /\ s \in Nat
  <2>1. cumulative_ack' \in Edges /\ cumulative_ack' \in Nat
    <3>1. PICK k \in 0 .. t : cumulative_ack' = k * MSS
      BY <1>6, <1>7 DEF SinkProofs!SinkInv, SinkProofs!Sound
    <3>2. k \in Nat
      OBVIOUS
    <3>3. cumulative_ack' \in Edges
      BY <3>1, <3>2 DEF Edges
    <3> QED
      BY <3>3, EdgeFacts
  <2> QED
    BY <1>5, <2>1, AckIsEdge, PacedAssumption DEF FlowInv, SourceOk, SourceType, Now
<1>10. s * MSS <= max_sent
  <2>1. n = (s - 1) * MSS + 1
    BY <1>8 DEF SinkProofs!Starts
  <2>2. (s - 1) * MSS = s * MSS - MSS /\ s * MSS \in Nat
    BY <1>9
  <2>3. n \in Nat
    BY <1>3, EdgeFacts
  <2> QED
    BY <1>3, <1>9, <2>1, <2>2, <2>3
<1>11. SinkOk'
  <2>1. \A k \in SinkProofs!Held' : k * MSS <= max_sent'
    BY <1>2, <1>8, <1>10 DEF FlowInv, SinkOk
  <2> QED
    BY <1>7, <2>1 DEF SinkOk
<1>12. cumulative_ack' <= max_sent
  <2>1. PICK k \in 0 .. t : cumulative_ack' = k * MSS
    BY <1>6, <1>7 DEF SinkProofs!SinkInv, SinkProofs!Sound
  <2>2. CASE k = 0
    BY <1>9, <2>1, <2>2
  <2>3. CASE k # 0
    <3>1. k \in 1 .. t
      BY <2>3
    <3>2. k \in SinkProofs!Held'
      BY <1>6, <1>9, <2>1, <3>1 DEF SinkProofs!Held, SinkProofs!HeldBy
    <3> QED
      BY <1>2, <1>11, <2>1, <3>2 DEF SinkOk
  <2> QED
    BY <2>2, <2>3
<1>13. /\ state' = state /\ bdp_estimate' = bdp_estimate /\ recover_seq' = recover_seq
       /\ dupacks' = dupacks /\ rto_timeout' = rto_timeout
       /\ highest_sent' = highest_sent /\ last_acked' = last_acked
       /\ max_sent' = max_sent
  BY <1>2 DEF source
<1>14. SourceOk(Now') /\ Armed(Now')
  <2>1. Tail(fwd) \in Seq(DataPacket)
    BY <1>3, <1>9, SentGrows
  <2> QED
    BY <1>2, <1>3, <1>13, <2>1 DEF FlowInv, SourceOk, SourceType, Armed, Now
<1>15. rev' \in Seq(Acks(cumulative_ack'))
  <2>1. PICK a : a = [ackno |-> cumulative_ack', measured |-> measured]
    OBVIOUS
  <2>2. a \in Acks(cumulative_ack')
    BY <1>9, <2>1 DEF Acks
  <2>3. rev \in Seq(Acks(cumulative_ack'))
    BY <1>7, <1>9, AcksGrow DEF FlowInv
  <2> QED
    BY <1>2, <2>1, <2>2, <2>3
<1>16. state # "IDLE" /\ ~deleted /\ deleted' = deleted /\ state \in States
  BY <1>2 DEF FlowInv, PhaseOk, SourceOk, SourceType, Now
<1>17. PhaseOk'
  BY <1>7, <1>9, <1>13, <1>16, PacedAssumption DEF FlowInv, PhaseOk
<1>18. last_acked' <= cumulative_ack'
  <2>1. last_acked \in Nat /\ last_acked <= cumulative_ack
    BY EdgeFacts DEF FlowInv, SourceOk, SourceType, Now
  <2> QED
    BY <1>7, <1>9, <1>13, <2>1
<1>19. FlowInv'
  BY <1>11, <1>14, <1>15, <1>17, <1>18 DEF FlowInv
<1>20. [Promise!Next]_(Promise!vars)
  <2>1. Phase \in {"active", "finished"} /\ Phase' = Phase
    BY <1>13, <1>16 DEF Phase, States, Running
  <2>2. CASE cumulative_ack' = cumulative_ack
    BY <1>2, <1>13, <2>1, <2>2 DEF Promise!vars
  <2>3. CASE cumulative_ack' # cumulative_ack
    <3>1. cumulative_ack < cumulative_ack'
      BY <1>7, <1>9, <2>3
    <3> QED
      BY <1>2, <1>12, <1>13, <2>1, <3>1 DEF Promise!Deliver, Promise!Next
  <2> QED
    BY <2>2, <2>3
<1>21. Sink!Receiver!Next
  BY <1>7, ReceiverIs
<1> QED
  BY <1>19, <1>20, <1>21 DEF Implements

----------------------------------------------------------------------------
(* The two transports' common operators *)

\* Timely's copies of the operators of PacedSource are those.
LEMMA TimelyIsPaced ==
    /\ Timely!Now = Now /\ Timely!Running = Running
    /\ Timely!RoutesEmpty <=> RoutesEmpty
    /\ Timely!TimerExpires <=> TimerExpires
    /\ Timely!Lose <=> Lose
    /\ \A m : Timely!Deliver(m) <=> Deliver(m)
    /\ \A s : /\ Timely!Become(s) <=> Become(s)
              /\ Timely!Expire(s) = Expire(s)
              /\ \A f : Timely!SendNew(s, f) = SendNew(s, f)
              /\ \A c : Timely!ProcessAck(s, c) = ProcessAck(s, c)
    /\ \A c : /\ Timely!IgnoredAck(c) <=> IgnoredAck(c)
              /\ Timely!FinishFlow(c) <=> FinishFlow(c)
              /\ Timely!CountedAck(c) <=> CountedAck(c)
<1>1. \A s : /\ Timely!Become(s) <=> Become(s)
             /\ \A f : Timely!SendNew(s, f) = SendNew(s, f)
             /\ Timely!RetransmitPacket(s) = RetransmitPacket(s)
  BY DEF Timely!Become, Become, Timely!SendNew, SendNew, Timely!Send, Send,
         Timely!Higher, Higher, Timely!RetransmitPacket, RetransmitPacket
<1>2. Timely!Now = Now
  BY DEF Timely!Now, Now
<1>3. Timely!Running = Running
  BY DEF Timely!Running, Running
<1>4. Timely!RoutesEmpty <=> RoutesEmpty
  BY DEF Timely!RoutesEmpty, RoutesEmpty
<1>5. Timely!TimerExpires <=> TimerExpires
  BY DEF Timely!TimerExpires, TimerExpires, Timely!CountsEarly, CountsEarly,
         Timely!FaultsLeft, FaultsLeft, Timely!RoutesEmpty, RoutesEmpty
<1>6. Timely!Lose <=> Lose
  BY DEF Timely!Lose, Lose, Timely!FaultsLeft, FaultsLeft, Timely!source, source, Timely!sink, sink,
         Timely!RemoveAt, RemoveAt
<1>7. ASSUME NEW m PROVE Timely!Deliver(m) <=> Deliver(m)
  BY DEF Timely!Deliver, Deliver, Timely!source, source,
         Timely!Sink!ProcessDataPacket, Sink!ProcessDataPacket, Timely!Sink!Pops,
         Sink!Pops, Timely!Sink!Place, Sink!Place, Timely!Sink!Inserted,
         Sink!Inserted, Timely!Sink!InsertAt, Sink!InsertAt, Timely!Sink!vars,
         Sink!vars
<1>8. \A s : Timely!Expire(s) = Expire(s)
  BY DEF Timely!Expire, Expire, Timely!RetransmitPacket, RetransmitPacket,
         Timely!Send, Send, Timely!Higher, Higher
<1>9. \A s, c : Timely!ProcessAck(s, c) = ProcessAck(s, c)
  BY DEF Timely!ProcessAck, ProcessAck, Timely!NewAck, NewAck, Timely!DupAck, DupAck,
         Timely!TimerAfterAck, TimerAfterAck,
         Timely!RetransmitPacket, RetransmitPacket,
         Timely!Send, Send, Timely!Higher, Higher
<1>10. \A c : /\ Timely!IgnoredAck(c) <=> IgnoredAck(c)
              /\ Timely!FinishFlow(c) <=> FinishFlow(c)
              /\ Timely!CountedAck(c) <=> CountedAck(c)
  BY DEF Timely!IgnoredAck, IgnoredAck, Timely!FinishFlow, FinishFlow,
         Timely!CountedAck, CountedAck, Timely!Completes, Completes,
         Timely!Become, Become, Timely!Now, Now
<1> QED
  BY <1>1, <1>2, <1>3, <1>4, <1>5, <1>6, <1>7, <1>8, <1>9, <1>10, Zenon

\* Packet pair's copies of the operators of PacedSource are those.
LEMMA PairIsPaced ==
    /\ Pair!Now = Now /\ Pair!Running = Running
    /\ Pair!RoutesEmpty <=> RoutesEmpty
    /\ Pair!TimerExpires <=> TimerExpires
    /\ Pair!Lose <=> Lose
    /\ \A m : Pair!Deliver(m) <=> Deliver(m)
    /\ \A s : /\ Pair!Become(s) <=> Become(s)
              /\ Pair!Expire(s) = Expire(s)
              /\ \A f : Pair!SendNew(s, f) = SendNew(s, f)
              /\ \A c : Pair!ProcessAck(s, c) = ProcessAck(s, c)
    /\ \A c : /\ Pair!IgnoredAck(c) <=> IgnoredAck(c)
              /\ Pair!FinishFlow(c) <=> FinishFlow(c)
              /\ Pair!CountedAck(c) <=> CountedAck(c)
<1>1. \A s : /\ Pair!Become(s) <=> Become(s)
             /\ \A f : Pair!SendNew(s, f) = SendNew(s, f)
             /\ Pair!RetransmitPacket(s) = RetransmitPacket(s)
  BY DEF Pair!Become, Become, Pair!SendNew, SendNew, Pair!Send, Send,
         Pair!Higher, Higher, Pair!RetransmitPacket, RetransmitPacket
<1>2. Pair!Now = Now
  BY DEF Pair!Now, Now
<1>3. Pair!Running = Running
  BY DEF Pair!Running, Running
<1>4. Pair!RoutesEmpty <=> RoutesEmpty
  BY DEF Pair!RoutesEmpty, RoutesEmpty
<1>5. Pair!TimerExpires <=> TimerExpires
  BY DEF Pair!TimerExpires, TimerExpires, Pair!CountsEarly, CountsEarly,
         Pair!FaultsLeft, FaultsLeft, Pair!RoutesEmpty, RoutesEmpty
<1>6. Pair!Lose <=> Lose
  BY DEF Pair!Lose, Lose, Pair!FaultsLeft, FaultsLeft, Pair!source, source, Pair!sink, sink,
         Pair!RemoveAt, RemoveAt
<1>7. ASSUME NEW m PROVE Pair!Deliver(m) <=> Deliver(m)
  BY DEF Pair!Deliver, Deliver, Pair!source, source,
         Pair!Sink!ProcessDataPacket, Sink!ProcessDataPacket, Pair!Sink!Pops,
         Sink!Pops, Pair!Sink!Place, Sink!Place, Pair!Sink!Inserted,
         Sink!Inserted, Pair!Sink!InsertAt, Sink!InsertAt, Pair!Sink!vars,
         Sink!vars
<1>8. \A s : Pair!Expire(s) = Expire(s)
  BY DEF Pair!Expire, Expire, Pair!RetransmitPacket, RetransmitPacket,
         Pair!Send, Send, Pair!Higher, Higher
<1>9. \A s, c : Pair!ProcessAck(s, c) = ProcessAck(s, c)
  BY DEF Pair!ProcessAck, ProcessAck, Pair!NewAck, NewAck, Pair!DupAck, DupAck,
         Pair!TimerAfterAck, TimerAfterAck,
         Pair!RetransmitPacket, RetransmitPacket,
         Pair!Send, Send, Pair!Higher, Higher
<1>10. \A c : /\ Pair!IgnoredAck(c) <=> IgnoredAck(c)
              /\ Pair!FinishFlow(c) <=> FinishFlow(c)
              /\ Pair!CountedAck(c) <=> CountedAck(c)
  BY DEF Pair!IgnoredAck, IgnoredAck, Pair!FinishFlow, FinishFlow,
         Pair!CountedAck, CountedAck, Pair!Completes, Completes,
         Pair!Become, Become, Pair!Now, Now
<1> QED
  BY <1>1, <1>2, <1>3, <1>4, <1>5, <1>6, <1>7, <1>8, <1>9, <1>10, Zenon

----------------------------------------------------------------------------
(* Steps of either source *)

\* A source that is sent nothing stays as it is.
LEMMA SendsNothing ==
    ASSUME NEW s, SourceOk(s)
    PROVE  Sends(s, s)
  BY SourceNumbers DEF Sends

\* Sending twice is sending.
LEMMA SendsTwice ==
    ASSUME NEW s, NEW f, NEW t, s.max_sent \in Nat, Sends(s, f), Sends(f, t)
    PROVE  Sends(s, t)
<1>1. f.max_sent \in Nat /\ t.max_sent \in Nat
  BY SourceNumbers DEF Sends
<1> QED
  BY <1>1 DEF Sends

\* A source that has sent, whatever made it send.
LEMMA SendStep ==
    ASSUME FlowInv, NEW s, SourceOk(s), Armed(s), s.state \in Running,
           max_sent <= s.max_sent, s.last_acked <= cumulative_ack,
           transport = "timely" => last_acked <= s.last_acked,
           NEW t, Sends(s, t), Become(t), state # "FINISH",
           UNCHANGED <<rev, deleted, sink, transport>>
    PROVE  FlowInv' /\ Implements
<1>1. SourceOk(t) /\ Armed(t) /\ t.state \in Running /\ t.last_acked = s.last_acked
      /\ s.max_sent <= t.max_sent
  BY DEF Sends
<1>2. max_sent \in Nat /\ s.max_sent \in Nat /\ t.max_sent \in Nat
  <2>1. max_sent \in Nat
    BY DEF FlowInv, SourceOk, SourceType, Now
  <2> QED
    BY <1>1, <2>1, SourceNumbers
<1>3. max_sent <= t.max_sent
  BY <1>1, <1>2
<1>4. rev' \in Seq(Acks(cumulative_ack))
  BY DEF FlowInv
<1> QED
  BY <1>1, <1>3, <1>4, SourceStep

\* Sending from the state as it is.
LEMMA SendFromHere ==
    ASSUME FlowInv, state \in Running,
           NEW t, Sends(Now, t), Become(t),
           UNCHANGED <<rev, deleted, sink, transport>>
    PROVE  FlowInv' /\ Implements
<1>1. PICK s : s = Now
  OBVIOUS
<1>2. /\ SourceOk(s) /\ Armed(s) /\ s.state = state
      /\ s.max_sent = max_sent /\ s.last_acked = last_acked
  BY <1>1 DEF FlowInv, Now
<1>3. max_sent <= s.max_sent /\ last_acked <= s.last_acked
  BY <1>2, SourceNumbers
<1>4. s.last_acked <= cumulative_ack
  BY <1>2 DEF FlowInv
<1>5. state # "FINISH"
  BY DEF Running
<1> QED
  BY <1>1, <1>2, <1>3, <1>4, <1>5, SendStep

\* A timeout, and what is sent after it.
LEMMA ExpireStep ==
    ASSUME FlowInv, state # "FINISH",
           NEW e, e = Expire(Now), NEW t, Sends(e, t), Become(t),
           UNCHANGED <<rev, deleted, sink, transport>>
    PROVE  FlowInv' /\ Implements
<1>1. PICK s : s = Now
  OBVIOUS
<1>2. /\ SourceOk(s) /\ s.max_sent = max_sent /\ s.last_acked = last_acked
  BY <1>1 DEF FlowInv, Now
<1>3. /\ SourceOk(e) /\ e.rto_timeout /\ e.state = "NORMAL"
      /\ e.last_acked = s.last_acked /\ s.max_sent <= e.max_sent
  BY <1>1, <1>2, ExpireOk
<1>4. Armed(e) /\ e.state \in Running
  BY <1>3 DEF Armed, Running
<1>5. max_sent <= e.max_sent
  BY <1>2, <1>3
<1>6. e.last_acked <= cumulative_ack /\ last_acked <= e.last_acked
  BY <1>2, <1>3, SourceNumbers DEF FlowInv
<1> QED
  BY <1>3, <1>4, <1>5, <1>6, SendStep

\* A source that handles an event and keeps its state.
LEMMA IdleStep ==
    ASSUME FlowInv, Become(Now), UNCHANGED <<deleted, sink, transport>>,
           rev' \in Seq(Acks(cumulative_ack)), rev = <<>> => rev' = <<>>,
           state # "IDLE"
    PROVE  FlowInv' /\ Implements
<1>1. UNCHANGED <<source, max_sent>> /\ fwd' = fwd
  BY DEF Become, Now, source
<1>2. fwd' \in Seq(SentBy(max_sent))
  BY <1>1 DEF FlowInv, SourceOk, Now
<1> QED
  BY <1>1, <1>2, RoutesStep

\* The first ack on its way to the source.
LEMMA AckHead ==
    ASSUME FlowInv, rev # <<>>, NEW c, c = Head(rev).ackno
    PROVE  /\ c \in Edges /\ c \in Nat /\ c <= cumulative_ack
           /\ Tail(rev) \in Seq(Acks(cumulative_ack))
           /\ state # "IDLE" /\ ~deleted
<1>1. rev \in Seq(Acks(cumulative_ack))
  BY DEF FlowInv
<1>2. Head(rev) \in Acks(cumulative_ack) /\ Tail(rev) \in Seq(Acks(cumulative_ack))
  BY <1>1
<1>3. Edges \subseteq Nat
  BY EdgeFacts
<1> QED
  BY <1>2, <1>3 DEF Acks, FlowInv, PhaseOk

\* An ack that counts, with what was done to the source before it is applied.
LEMMA AckStep ==
    ASSUME FlowInv, NEW s, SourceOk(s), Armed(s), s.state \in Running,
           max_sent <= s.max_sent, s.last_acked = last_acked,
           NEW c \in Edges, c < FlowSize, c <= cumulative_ack,
           NEW t, t = ProcessAck(s, c), Become(t), state # "FINISH",
           rev' \in Seq(Acks(cumulative_ack)), UNCHANGED <<deleted, sink, transport>>
    PROVE  FlowInv' /\ Implements
<1>1. Acked(s, c, t)
  BY ProcessAckOk
<1>2. /\ SourceOk(t) /\ Armed(t) /\ t.state \in Running /\ s.max_sent <= t.max_sent
      /\ t.last_acked = IF c > s.last_acked THEN c ELSE s.last_acked
  BY <1>1 DEF Acked
<1>3. max_sent \in Nat /\ s.max_sent \in Nat /\ t.max_sent \in Nat /\ s.last_acked \in Nat
  <2>1. max_sent \in Nat
    BY DEF FlowInv, SourceOk, SourceType, Now
  <2> QED
    BY <1>2, <2>1, SourceNumbers
<1>4. c \in Nat
  BY EdgeFacts
<1>5. last_acked <= t.last_acked /\ t.last_acked <= cumulative_ack
  BY <1>2, <1>3, <1>4 DEF FlowInv
<1>6. max_sent <= t.max_sent
  BY <1>2, <1>3
<1> QED
  BY <1>2, <1>5, <1>6, SourceStep

\* A packet or an ack is lost.
LEMMA LoseStep ==
    ASSUME FlowInv, Lose, UNCHANGED <<transport, paced, first_rto>>
    PROVE  FlowInv' /\ Implements
<1>1. /\ UNCHANGED <<source, max_sent, deleted, sink, transport>>
      /\ \/ /\ \E i \in 1 .. Len(fwd) : fwd' = RemoveAt(fwd, i)
            /\ rev' = rev
         \/ /\ \E i \in 1 .. Len(rev) : rev' = RemoveAt(rev, i)
            /\ fwd' = fwd
  BY DEF Lose
<1>2. fwd \in Seq(SentBy(max_sent)) /\ rev \in Seq(Acks(cumulative_ack))
  BY DEF FlowInv, SourceOk, Now
<1>3. ASSUME NEW S, NEW q \in Seq(S), NEW i \in 1 .. Len(q)
      PROVE  RemoveAt(q, i) \in Seq(S)
  <2>1. PICK a, b : a = SubSeq(q, 1, i - 1) /\ b = SubSeq(q, i + 1, Len(q))
    OBVIOUS
  <2>2. a \in Seq(S) /\ b \in Seq(S)
    BY <1>3, <2>1
  <2>3. RemoveAt(q, i) = a \o b
    BY <2>1 DEF RemoveAt
  <2> QED
    BY <2>2, <2>3
<1>4. CASE \E i \in 1 .. Len(fwd) : fwd' = RemoveAt(fwd, i) /\ rev' = rev
  <2>1. fwd' \in Seq(SentBy(max_sent)) /\ fwd # <<>> /\ rev' = rev
    BY <1>2, <1>3, <1>4
  <2> QED
    BY <1>1, <1>2, <2>1, RoutesStep
<1>5. CASE \E i \in 1 .. Len(rev) : rev' = RemoveAt(rev, i) /\ fwd' = fwd
  <2>1. rev' \in Seq(Acks(cumulative_ack)) /\ rev # <<>> /\ fwd' = fwd
    BY <1>2, <1>3, <1>5
  <2> QED
    BY <1>1, <1>2, <2>1, RoutesStep
<1> QED
  BY <1>1, <1>4, <1>5

----------------------------------------------------------------------------
(* A flow that ignores an ack, or is completed by it *)

\* The first two branches of both handlers of acks.
LEMMA AckEndsOrIsIgnored ==
    ASSUME FlowInv, rev # <<>>, rev' = Tail(rev), NEW c, c = Head(rev).ackno,
           IgnoredAck(c) \/ FinishFlow(c), UNCHANGED <<deleted, sink, transport>>
    PROVE  FlowInv' /\ Implements
<1>1. /\ c \in Nat /\ c <= cumulative_ack /\ state # "IDLE"
      /\ rev' \in Seq(Acks(cumulative_ack))
  BY AckHead
<1>2. CASE IgnoredAck(c)
  <2>1. Become(Now)
    BY <1>2 DEF IgnoredAck
  <2> QED
    BY <1>1, <2>1, IdleStep
<1>3. CASE FinishFlow(c)
  BY <1>1, <1>3, FinishStep
<1> QED
  BY <1>2, <1>3

----------------------------------------------------------------------------
(* Timely *)

\* sendPackets sends at most one packet.
LEMMA SendPacketsOk ==
    ASSUME NEW s, SourceOk(s), NEW t, t = Timely!SendPackets(s)
    PROVE  Sends(s, t)
<1>1. \/ t = s
      \/ s.highest_sent < FlowSize /\ t = SendNew(s, FALSE)
  BY TimelyIsPaced DEF Timely!SendPackets, Timely!CanSend
<1>2. PICK f \in BOOLEAN : f = FALSE
  OBVIOUS
<1>3. CASE t = s
  BY <1>3, SendsNothing
<1>4. CASE s.highest_sent < FlowSize /\ t = SendNew(s, f)
  BY <1>4, SendNewOk
<1> QED
  BY <1>1, <1>2, <1>3, <1>4

\* The flow starts.
LEMMA TimelyStart ==
    ASSUME FlowInv, TimelyIs(Timely!Start)
    PROVE  FlowInv' /\ Implements
<1>1. PICK s : s = [Now EXCEPT !.highest_sent = 0, !.last_acked = 0,
                               !.bdp = FirstEstimate, !.state = "NORMAL"]
  OBVIOUS
<1>2. PICK t : t = Timely!SendPackets(s)
  OBVIOUS
<1>3. /\ Become(t) /\ state = "IDLE" /\ last_acked = 0
      /\ UNCHANGED <<rev, deleted, sink, transport>>
  BY <1>1, <1>2, TimelyIsPaced
     DEF TimelyIs, Timely!Start, FlowInv, PhaseOk, Timely!sink, sink
<1>4. 0 \in Edges /\ 0 < FlowSize /\ FirstEstimate \in Nat
  BY EdgeFacts, PacedAssumption, EstimateAssumption
<1>5. "NORMAL" \in Running /\ "NORMAL" \in States
  BY DEF Running, States
<1>6. /\ SourceOk(s) /\ Armed(s) /\ s.state \in Running /\ s.max_sent = max_sent
      /\ s.last_acked = 0
  BY <1>1, <1>4, <1>5 DEF FlowInv, SourceOk, SourceType, Armed, Now
<1>7. Sends(s, t)
  BY <1>2, <1>6, SendPacketsOk
<1>8. max_sent <= s.max_sent /\ s.last_acked <= cumulative_ack
      /\ last_acked <= s.last_acked
  BY <1>3, <1>6, AckIsEdge, SourceNumbers DEF FlowInv, SinkOk
<1> QED
  BY <1>3, <1>6, <1>7, <1>8, SendStep

\* A poll that sends.
LEMMA TimelyPoll ==
    ASSUME FlowInv, TimelyIs(Timely!Poll)
    PROVE  FlowInv' /\ Implements
<1>1. PICK t : t = Timely!SendPackets(Now)
  OBVIOUS
<1>2. /\ Become(t) /\ state \in Running
      /\ UNCHANGED <<rev, deleted, sink, transport>>
  BY <1>1, TimelyIsPaced DEF TimelyIs, Timely!Poll, Timely!sink, sink
<1>3. Sends(Now, t)
  BY <1>1, SendPacketsOk DEF FlowInv
<1> QED
  BY <1>2, <1>3, SendFromHere

\* A poll that finds the timer expired.
LEMMA TimelyTimeout ==
    ASSUME FlowInv, TimelyIs(Timely!Timeout)
    PROVE  FlowInv' /\ Implements
<1>1. PICK s, e : s = Now /\ e = Expire(s)
  OBVIOUS
<1>2. PICK t : t = Timely!SendPackets(e)
  OBVIOUS
<1>3. /\ Become(t) /\ state \in Running
      /\ UNCHANGED <<rev, deleted, sink, transport>>
  BY <1>1, <1>2, TimelyIsPaced DEF TimelyIs, Timely!Timeout, Timely!sink, sink
<1>4. SourceOk(e)
  BY <1>1, ExpireOk DEF FlowInv
<1>5. Sends(e, t)
  BY <1>2, <1>4, SendPacketsOk
<1>6. state # "FINISH"
  BY <1>3 DEF Running
<1> QED
  BY <1>1, <1>3, <1>5, <1>6, ExpireStep

\* A finished flow is deleted.
LEMMA TimelyCleanup ==
    ASSUME FlowInv, TimelyIs(Timely!Cleanup)
    PROVE  FlowInv' /\ Implements
<1>1. /\ state = "FINISH" /\ ~deleted /\ RoutesEmpty /\ deleted' = TRUE
      /\ UNCHANGED <<source, sink, fwd, rev, max_sent, transport>>
  BY TimelyIsPaced
     DEF TimelyIs, Timely!Cleanup, Timely!source, source, Timely!sink, sink
<1> QED
  BY <1>1, CleanupStep

\* An ack reaches the source.
LEMMA TimelyReceiveAck ==
    ASSUME FlowInv, TimelyIs(Timely!ReceiveAck)
    PROVE  FlowInv' /\ Implements
<1>1. PICK c : c = Head(rev).ackno
  OBVIOUS
<1>2. /\ rev # <<>> /\ rev' = Tail(rev) /\ UNCHANGED <<deleted, sink, transport>>
      /\ \/ IgnoredAck(c) \/ FinishFlow(c)
         \/ /\ CountedAck(c)
            /\ \E b \in IF Timely!EstimateIsOld THEN Estimates ELSE {bdp_estimate} :
                  Become(ProcessAck([Now EXCEPT !.bdp = b], c))
  BY <1>1, TimelyIsPaced DEF TimelyIs, Timely!ReceiveAck, Timely!sink, sink
<1>3. CASE IgnoredAck(c) \/ FinishFlow(c)
  BY <1>1, <1>2, <1>3, AckEndsOrIsIgnored
<1>4. CASE CountedAck(c) /\
           \E b \in IF Timely!EstimateIsOld THEN Estimates ELSE {bdp_estimate} :
               Become(ProcessAck([Now EXCEPT !.bdp = b], c))
  <2>1. PICK b \in IF Timely!EstimateIsOld THEN Estimates ELSE {bdp_estimate} :
               Become(ProcessAck([Now EXCEPT !.bdp = b], c))
    BY <1>4
  <2>2. PICK s, t : s = [Now EXCEPT !.bdp = b] /\ t = ProcessAck(s, c)
    OBVIOUS
  <2>3. b \in Nat
    BY PacedAssumption DEF FlowInv, SourceOk, SourceType, Now
  <2>4. /\ c \in Edges /\ c \in Nat /\ c <= cumulative_ack /\ state # "IDLE"
        /\ rev' \in Seq(Acks(cumulative_ack))
    BY <1>1, <1>2, AckHead
  <2>5. state # "FINISH" /\ c < FlowSize
    BY <1>4, <2>4, PacedAssumption DEF CountedAck, Completes
  <2>6. state \in Running
    BY <2>4, <2>5 DEF FlowInv, SourceOk, SourceType, Now, States
  <2>7. /\ SourceOk(s) /\ Armed(s) /\ s.state \in Running /\ s.max_sent = max_sent
        /\ s.last_acked = last_acked
    BY <2>2, <2>3, <2>6 DEF FlowInv, SourceOk, SourceType, Armed, Now
  <2>8. max_sent <= s.max_sent
    BY <2>7, SourceNumbers
  <2>9. Become(t)
    BY <2>1, <2>2
  <2> QED
    BY <1>2, <2>2, <2>4, <2>5, <2>7, <2>8, <2>9, AckStep
<1> QED
  BY <1>2, <1>3, <1>4

\* Every step of a timely flow.
LEMMA TimelyKeeps ==
    ASSUME FlowInv, TimelyStep
    PROVE  FlowInv' /\ Implements
<1>1. \/ TimelyIs(Timely!Start) \/ TimelyIs(Timely!Poll) \/ TimelyIs(Timely!Timeout)
      \/ TimelyIs(Timely!Cleanup) \/ TimelyIs(Timely!ReceiveAck)
      \/ TimelyIs(Timely!ReceiveData) \/ TimelyIs(Timely!LosePacket)
  BY DEF TimelyStep, TimelyIs, Timely!Next, Timely!Event
<1>2. CASE TimelyIs(Timely!ReceiveData)
  <2>1. PICK m \in BOOLEAN : m = FALSE
    OBVIOUS
  <2>2. Deliver(m) /\ UNCHANGED <<transport, paced, first_rto>>
    BY <1>2, <2>1, TimelyIsPaced DEF TimelyIs, Timely!ReceiveData, pairOnly
  <2> QED
    BY <2>2, DeliverStep
<1>3. CASE TimelyIs(Timely!LosePacket)
  <2>1. Lose /\ UNCHANGED <<transport, paced, first_rto>>
    BY <1>3, TimelyIsPaced DEF TimelyIs, Timely!LosePacket, pairOnly
  <2> QED
    BY <2>1, LoseStep
<1> QED
  BY <1>1, <1>2, <1>3, TimelyStart, TimelyPoll, TimelyTimeout, TimelyCleanup,
     TimelyReceiveAck

----------------------------------------------------------------------------
(* Packet pair *)

\* transmitPacketPair sends nothing, the last packet, or a pair.
LEMMA TransmitOk ==
    ASSUME NEW s, SourceOk(s), NEW t, t = Pair!TransmitPacketPair(s)
    PROVE  Sends(s, t)
<1>1. PICK yes \in BOOLEAN : yes = TRUE
  OBVIOUS
<1>2. PICK no \in BOOLEAN : no = FALSE
  OBVIOUS
<1>3. PICK f, g : f = SendNew(s, yes) /\ g = SendNew(f, no)
  OBVIOUS
<1>4. CASE ~Pair!CanSend(s)
  <2>1. t = s
    BY <1>4 DEF Pair!TransmitPacketPair
  <2> QED
    BY <2>1, SendsNothing
<1>5. CASE Pair!CanSend(s)
  <2>1. ~(s.highest_sent >= FlowSize)
        /\ t = IF f.highest_sent >= FlowSize THEN f ELSE g
    BY <1>1, <1>2, <1>3, <1>5, PairIsPaced
       DEF Pair!TransmitPacketPair, Pair!CanSend, Pair!EndOfFlow
  <2>2. s.highest_sent \in Nat /\ s.max_sent \in Nat /\ FlowSize \in Nat
    BY SourceNumbers, PacedAssumption
  <2>3. s.highest_sent < FlowSize
    BY <2>1, <2>2
  <2>4. Sends(s, f) /\ SourceOk(f)
    BY <1>3, <2>3, SendNewOk
  <2>5. CASE f.highest_sent >= FlowSize
    BY <2>1, <2>4, <2>5
  <2>6. CASE ~(f.highest_sent >= FlowSize)
    <3>1. f.highest_sent \in Nat
      BY <2>4, SourceNumbers
    <3>2. f.highest_sent < FlowSize
      BY <2>2, <2>6, <3>1
    <3>3. Sends(f, g)
      BY <1>3, <2>4, <3>2, SendNewOk
    <3> QED
      BY <2>1, <2>2, <2>4, <2>6, <3>3, SendsTwice
  <2> QED
    BY <2>5, <2>6
<1> QED
  BY <1>4, <1>5

\* A flow that has received no ack of its first pair starts from byte 0.
LEMMA StartPairStep ==
    ASSUME FlowInv, Pair!StartPair, state # "FINISH", transport = "pktpair",
           UNCHANGED <<rev, deleted, sink, transport>>
    PROVE  FlowInv' /\ Implements
<1>1. PICK s : s = [Now EXCEPT !.highest_sent = 0, !.last_acked = 0, !.bdp = 2 * MSS]
  OBVIOUS
<1>2. PICK u : u = Pair!TransmitPacketPair(s)
  OBVIOUS
<1>3. PICK t : t = [u EXCEPT !.state = "STARTUP"]
  OBVIOUS
<1>4. Become(t)
  BY <1>1, <1>2, <1>3, PairIsPaced DEF Pair!StartPair
<1>5. 0 \in Edges /\ 0 < FlowSize /\ 2 * MSS \in Nat
  BY EdgeFacts, PacedAssumption
<1>6. SourceOk(s) /\ Armed(s) /\ s.max_sent = max_sent /\ s.last_acked = 0
  BY <1>1, <1>5 DEF FlowInv, SourceOk, SourceType, Armed, Now
<1>7. Sends(s, u)
  BY <1>2, <1>6, TransmitOk
<1>8. /\ SourceOk(u) /\ Armed(u) /\ u.last_acked = 0 /\ max_sent <= u.max_sent
  BY <1>6, <1>7 DEF Sends
<1>9. "STARTUP" \in Running /\ "STARTUP" \in States
  BY DEF Running, States
<1>10. /\ SourceOk(t) /\ Armed(t) /\ t.state \in Running /\ t.last_acked = 0
       /\ max_sent <= t.max_sent
  BY <1>3, <1>8, <1>9 DEF SourceOk, SourceType, Armed
<1>11. t.last_acked <= cumulative_ack /\ rev' \in Seq(Acks(cumulative_ack))
  BY <1>10, AckIsEdge DEF FlowInv, SinkOk
<1> QED
  BY <1>4, <1>10, <1>11, SourceStep

\* The flow starts.
LEMMA PairStart ==
    ASSUME FlowInv, PairIs(Pair!Start)
    PROVE  FlowInv' /\ Implements
<1>1. /\ Pair!StartPair /\ state # "FINISH" /\ transport = "pktpair"
      /\ UNCHANGED <<rev, deleted, sink, transport>>
  BY DEF PairIs, Pair!Start, Pair!sink, sink
<1> QED
  BY <1>1, StartPairStep

\* Nothing has come back at _first_rto.
LEMMA PairRestart ==
    ASSUME FlowInv, PairIs(Pair!Restart)
    PROVE  FlowInv' /\ Implements
<1>1. /\ Pair!StartPair /\ state # "FINISH" /\ transport = "pktpair"
      /\ UNCHANGED <<rev, deleted, sink, transport>>
  BY DEF PairIs, Pair!Restart, Pair!sink, sink
<1> QED
  BY <1>1, StartPairStep

\* An event that at most finds the timer expired.
LEMMA ExpiresOrNot ==
    ASSUME FlowInv, UNCHANGED <<rev, deleted, sink, transport>>, state # "IDLE",
           Become(Now) \/ (state # "FINISH" /\ Become(Expire(Now)))
    PROVE  FlowInv' /\ Implements
<1>1. CASE Become(Now)
  <2>1. rev' \in Seq(Acks(cumulative_ack))
    BY DEF FlowInv
  <2> QED
    BY <1>1, <2>1, IdleStep
<1>2. CASE state # "FINISH" /\ Become(Expire(Now))
  <2>1. PICK s, e : s = Now /\ e = Expire(s)
    OBVIOUS
  <2>2. SourceOk(e)
    BY <2>1, ExpireOk DEF FlowInv
  <2>3. Sends(e, e)
    BY <2>2, SendsNothing
  <2> QED
    BY <1>2, <2>1, <2>3, ExpireStep
<1> QED
  BY <1>1, <1>2

\* The events of a flow that has not started are not pending.
LEMMA EventsOfStarted ==
    ASSUME FlowInv, paced \/ first_rto # "unset"
    PROVE  /\ state # "IDLE"
           /\ state # "FINISH" => state \in Running
  BY DEF FlowInv, PhaseOk, SourceOk, SourceType, Now, States

\* The event at _first_rto after a measurement.
LEMMA PairFirstRto ==
    ASSUME FlowInv, PairIs(Pair!FirstRto)
    PROVE  FlowInv' /\ Implements
<1>1. /\ UNCHANGED <<rev, deleted, sink, transport>> /\ first_rto # "unset"
      /\ \/ Become(Now)
         \/ state # "FINISH" /\ Become(Expire(Now))
  BY PairIsPaced DEF PairIs, Pair!FirstRto, Pair!sink, sink
<1>2. state # "IDLE"
  BY <1>1, EventsOfStarted
<1> QED
  BY <1>1, <1>2, ExpiresOrNot

\* A paced event at _first_rto.
LEMMA PairPollAtFirstRto ==
    ASSUME FlowInv, PairIs(Pair!PollAtFirstRto)
    PROVE  FlowInv' /\ Implements
<1>1. /\ UNCHANGED <<rev, deleted, sink, transport>> /\ paced
      /\ \/ Become(Now)
         \/ state # "FINISH" /\ Become(Expire(Now))
  BY PairIsPaced
     DEF PairIs, Pair!PollAtFirstRto, Pair!PacedEvent, Pair!sink, sink
<1>2. state # "IDLE"
  BY <1>1, EventsOfStarted
<1> QED
  BY <1>1, <1>2, ExpiresOrNot

\* A paced event that sends.
LEMMA PairPoll ==
    ASSUME FlowInv, PairIs(Pair!Poll)
    PROVE  FlowInv' /\ Implements
<1>1. PICK t : t = Pair!TransmitPacketPair(Now)
  OBVIOUS
<1>2. /\ Become(t) /\ paced /\ state # "FINISH"
      /\ UNCHANGED <<rev, deleted, sink, transport>>
  BY <1>1, PairIsPaced DEF PairIs, Pair!Poll, Pair!PacedEvent, Pair!sink, sink
<1>3. Sends(Now, t)
  BY <1>1, TransmitOk DEF FlowInv
<1>4. state \in Running
  BY <1>2, EventsOfStarted
<1> QED
  BY <1>2, <1>3, <1>4, SendFromHere

\* A paced event that finds the timer expired.
LEMMA PairTimeout ==
    ASSUME FlowInv, PairIs(Pair!Timeout)
    PROVE  FlowInv' /\ Implements
<1>1. PICK s, e : s = Now /\ e = Expire(s)
  OBVIOUS
<1>2. PICK t : t = Pair!TransmitPacketPair(e)
  OBVIOUS
<1>3. /\ Become(t) /\ state # "FINISH"
      /\ UNCHANGED <<rev, deleted, sink, transport>>
  BY <1>1, <1>2, PairIsPaced DEF PairIs, Pair!Timeout, Pair!sink, sink
<1>4. SourceOk(e)
  BY <1>1, ExpireOk DEF FlowInv
<1>5. Sends(e, t)
  BY <1>2, <1>4, TransmitOk
<1> QED
  BY <1>1, <1>3, <1>5, ExpireStep

\* A finished flow is deleted.
LEMMA PairCleanup ==
    ASSUME FlowInv, PairIs(Pair!Cleanup)
    PROVE  FlowInv' /\ Implements
<1>1. /\ state = "FINISH" /\ RoutesEmpty /\ deleted' = TRUE
      /\ UNCHANGED <<source, sink, fwd, rev, max_sent, transport>>
  BY PairIsPaced
     DEF PairIs, Pair!Cleanup, Pair!source, source, Pair!sink, sink
<1>2. CASE ~deleted
  BY <1>1, <1>2, CleanupStep
<1>3. CASE deleted
  <2>1. deleted' = deleted
    BY <1>1, <1>3 DEF FlowInv, PhaseOk
  <2>2. fwd' \in Seq(SentBy(max_sent)) /\ rev' \in Seq(Acks(cumulative_ack))
    BY <1>1 DEF FlowInv, SourceOk, Now
  <2> QED
    BY <1>1, <2>1, <2>2, RoutesStep
<1> QED
  BY <1>2, <1>3

\* What a measurement makes of a running source.
LEMMA MeasurePairOk ==
    ASSUME NEW s, SourceOk(s), Armed(s), s.state \in Running, NEW b \in Nat,
           NEW t, t = Pair!MeasurePair(s, b)
    PROVE  /\ SourceOk(t) /\ Armed(t) /\ t.state \in Running
           /\ t.last_acked = s.last_acked /\ s.max_sent <= t.max_sent
<1>1. PICK d : d = Pair!Higher(b, 2 * MSS)
  OBVIOUS
<1>2. PICK m : m = [s EXCEPT !.bdp = d]
  OBVIOUS
<1>3. d \in Nat
  BY <1>1, PacedAssumption DEF Pair!Higher
<1>4. /\ SourceOk(m) /\ Armed(m) /\ m.state = s.state /\ m.max_sent = s.max_sent
      /\ m.last_acked = s.last_acked
  BY <1>2, <1>3 DEF SourceOk, SourceType, Armed
<1>5. CASE s.state = "STARTUP"
  <2>1. PICK n : n = [m EXCEPT !.state = "NORMAL"]
    OBVIOUS
  <2>2. "NORMAL" \in Running /\ "NORMAL" \in States
    BY DEF Running, States
  <2>3. /\ SourceOk(n) /\ Armed(n) /\ n.state \in Running /\ n.max_sent = s.max_sent
        /\ n.last_acked = s.last_acked
    BY <1>4, <2>1, <2>2 DEF SourceOk, SourceType, Armed
  <2>4. t = Pair!TransmitPacketPair(n)
    BY <1>1, <1>2, <1>5, <2>1 DEF Pair!MeasurePair
  <2>5. Sends(n, t)
    BY <2>3, <2>4, TransmitOk
  <2> QED
    BY <2>3, <2>5 DEF Sends
<1>6. CASE s.state # "STARTUP"
  <2>1. t = m
    BY <1>1, <1>2, <1>6 DEF Pair!MeasurePair
  <2> QED
    BY <1>4, <2>1, SourceNumbers
<1> QED
  BY <1>5, <1>6

\* An ack reaches the source.
LEMMA PairReceiveAck ==
    ASSUME FlowInv, PairIs(Pair!ReceiveAck)
    PROVE  FlowInv' /\ Implements
<1>1. PICK c : c = Head(rev).ackno
  OBVIOUS
<1>2. /\ rev # <<>> /\ rev' = Tail(rev) /\ UNCHANGED <<deleted, sink, transport>>
      /\ \/ IgnoredAck(c) \/ FinishFlow(c)
         \/ CountedAck(c) /\ Become(ProcessAck(Now, c))
         \/ CountedAck(c) /\ \E b \in Estimates :
                                  Become(ProcessAck(Pair!MeasurePair(Now, b), c))
  BY <1>1, PairIsPaced DEF PairIs, Pair!ReceiveAck, Pair!sink, sink
<1>3. CASE IgnoredAck(c) \/ FinishFlow(c)
  BY <1>1, <1>2, <1>3, AckEndsOrIsIgnored
<1>4. ASSUME CountedAck(c), NEW s, SourceOk(s), Armed(s), s.state \in Running,
             s.last_acked = last_acked, max_sent <= s.max_sent,
             Become(ProcessAck(s, c))
      PROVE  FlowInv' /\ Implements
  <2>1. /\ c \in Edges /\ c \in Nat /\ c <= cumulative_ack
        /\ rev' \in Seq(Acks(cumulative_ack))
    BY <1>1, <1>2, AckHead
  <2>2. state # "FINISH" /\ c < FlowSize
    BY <1>4, <2>1, PacedAssumption DEF CountedAck, Completes
  <2>3. PICK t : t = ProcessAck(s, c)
    OBVIOUS
  <2> QED
    BY <1>2, <1>4, <2>1, <2>2, <2>3, AckStep
<1>5. CASE CountedAck(c)
  <2>1. PICK s : s = Now
    OBVIOUS
  <2>2. state # "IDLE" /\ state # "FINISH"
    BY <1>1, <1>2, <1>5, AckHead DEF CountedAck
  <2>3. /\ SourceOk(s) /\ Armed(s) /\ s.state \in Running /\ s.max_sent = max_sent
        /\ s.last_acked = last_acked
    BY <2>1, <2>2 DEF FlowInv, SourceOk, SourceType, Armed, Now, States
  <2>4. max_sent <= s.max_sent
    BY <2>3, SourceNumbers
  <2>5. CASE Become(ProcessAck(Now, c))
    BY <1>4, <1>5, <2>1, <2>3, <2>4, <2>5
  <2>6. ASSUME NEW b \in Estimates, Become(ProcessAck(Pair!MeasurePair(Now, b), c))
        PROVE  FlowInv' /\ Implements
    <3>1. PICK m : m = Pair!MeasurePair(s, b)
      OBVIOUS
    <3>2. b \in Nat
      BY PacedAssumption
    <3>3. /\ SourceOk(m) /\ Armed(m) /\ m.state \in Running
          /\ m.last_acked = s.last_acked /\ s.max_sent <= m.max_sent
      BY <2>3, <3>1, <3>2, MeasurePairOk
    <3> QED
      BY <1>4, <1>5, <2>1, <2>3, <2>6, <3>1, <3>3
  <2> QED
    BY <1>2, <1>3, <2>5, <2>6
<1> QED
  BY <1>2, <1>3, <1>5

\* Every step of a packet-pair flow.
LEMMA PairKeeps ==
    ASSUME FlowInv, PairStep
    PROVE  FlowInv' /\ Implements
<1>1. \/ PairIs(Pair!Start) \/ PairIs(Pair!Restart) \/ PairIs(Pair!FirstRto)
      \/ PairIs(Pair!PollAtFirstRto) \/ PairIs(Pair!Poll) \/ PairIs(Pair!Timeout)
      \/ PairIs(Pair!Cleanup) \/ PairIs(Pair!ReceiveAck)
      \/ PairIs(Pair!ReceiveData) \/ PairIs(Pair!LosePacket)
  BY DEF PairStep, PairIs, Pair!Next, Pair!Event
<1>2. CASE PairIs(Pair!ReceiveData)
  <2>1. PICK m : m = (~Head(fwd).first /\ first_pair_seqno = Head(fwd).seqno - MSS)
    OBVIOUS
  <2>2. m \in BOOLEAN
    BY <2>1
  <2>3. Deliver(m) /\ UNCHANGED <<transport, paced, first_rto>>
    BY <1>2, <2>1, PairIsPaced DEF PairIs, Pair!ReceiveData, Pair!events
  <2> QED
    BY <2>2, <2>3, DeliverStep
<1>3. CASE PairIs(Pair!LosePacket)
  <2>1. Lose /\ UNCHANGED <<transport, paced, first_rto>>
    BY <1>3, PairIsPaced DEF PairIs, Pair!LosePacket, Pair!events
  <2> QED
    BY <2>1, LoseStep
<1> QED
  BY <1>1, <1>2, <1>3, PairStart, PairRestart, PairFirstRto, PairPollAtFirstRto,
     PairPoll, PairTimeout, PairCleanup, PairReceiveAck

----------------------------------------------------------------------------
(* Every behaviour *)

\* The first state of a flow.
LEMMA InitStep ==
    ASSUME Init
    PROVE  FlowInv /\ Promise!Init /\ Sink!Receiver!Init
<1>1. /\ state = "IDLE" /\ bdp_estimate = 0 /\ recover_seq = 0 /\ dupacks = 0
      /\ rto_timeout = FALSE /\ highest_sent = 0 /\ last_acked = 0
      /\ deleted = FALSE /\ fwd = <<>> /\ rev = <<>> /\ max_sent = 0
      /\ first_rto = "unset" /\ paced = FALSE
  BY DEF Init, Timely!Init, Timely!PacedInit, Pair!Init
<1>2. cumulative_ack = 0 /\ received = <<>>
  BY DEF Init, Timely!Init, Timely!PacedInit, Timely!Sink!Init
<1>3. SinkProofs!SinkInv /\ SinkProofs!Receiver!Init
  <2>1. SinkProofs!SinkAssumption
    BY PacedSinkAssumption DEF Sink!SinkAssumption, SinkProofs!SinkAssumption
  <2>2. SinkProofs!Init
    BY <1>2 DEF SinkProofs!Init
  <2> QED
    BY <2>1, <2>2, SinkProofs!InitSound
<1>4. SinkOk
  <2>1. SinkProofs!Held = {}
    BY <1>3 DEF SinkProofs!Receiver!Init
  <2> QED
    BY <1>3, <2>1 DEF SinkOk
<1>5. SourceOk(Now) /\ Armed(Now)
  <2>1. 0 \in Edges /\ 0 < FlowSize
    BY EdgeFacts, PacedAssumption
  <2>2. \A S : fwd \in Seq(S)
    BY <1>1
  <2>3. PICK s : s = Now
    OBVIOUS
  <2>4. s \in SourceType
    BY <1>1, <2>1, <2>2, <2>3 DEF SourceType, Now, States
  <2>5. s.last_acked = 0 /\ s.highest_sent = 0 /\ s.fwd = fwd
    BY <1>1, <2>3 DEF Now
  <2>6. SourceOk(s) /\ Armed(s)
    BY <2>1, <2>2, <2>4, <2>5 DEF SourceOk, Armed
  <2> QED
    BY <2>3, <2>6
<1>6. PhaseOk
  BY <1>1 DEF PhaseOk
<1>7. FlowInv
  BY <1>1, <1>2, <1>4, <1>5, <1>6 DEF FlowInv
<1>8. Promise!Init
  BY <1>1, <1>2 DEF Promise!Init, Phase, Running
<1> QED
  BY <1>3, <1>7, <1>8, ReceiverIs

\* A step that changes nothing.
LEMMA StutterStep ==
    ASSUME FlowInv, UNCHANGED vars
    PROVE  FlowInv' /\ Implements
<1>1. /\ UNCHANGED <<source, max_sent, deleted, sink, transport>>
      /\ fwd' = fwd /\ rev' = rev /\ UNCHANGED <<paced, first_rto>>
  BY DEF vars, pacedVars, pairOnly
<1>2. fwd' \in Seq(SentBy(max_sent)) /\ rev' \in Seq(Acks(cumulative_ack))
  BY <1>1 DEF FlowInv, SourceOk, Now
<1> QED
  BY <1>1, <1>2, RoutesStep

\* Under both transports the positions of the source are ends of segments, what
\* is in flight was sent, what it takes for acknowledged the sink has received,
\* and its timer is off only when nothing is outstanding.
THEOREM PacedFlowIsSound == Spec => []FlowInv
<1>1. Init => FlowInv
  BY InitStep
<1>2. FlowInv /\ [Next]_vars => FlowInv'
  BY TimelyKeeps, PairKeeps, StutterStep DEF Next
<1> QED
  BY <1>1, <1>2, PTL DEF Spec

\* With the timer off, nothing is in flight, and the gate is open.
LEMMA OpenGate ==
    ASSUME FlowInv, state \in Running, ~rto_timeout
    PROVE  Timely!CanSend(Timely!Now) /\ Pair!CanSend(Pair!Now)
<1>1. PICK s : s = Now
  OBVIOUS
<1>2. /\ SourceOk(s) /\ s.highest_sent = s.last_acked /\ s.last_acked < FlowSize
  BY <1>1 DEF FlowInv, SourceOk, Armed, Now
<1>3. /\ s.highest_sent \in Nat /\ s.dupacks \in Nat /\ s.bdp \in Nat
      /\ MSS \in Nat /\ FlowSize \in Nat
  BY <1>2, SourceNumbers, PacedAssumption
<1>4. s.dupacks * MSS \in Nat
  BY <1>3
<1>5. PICK d \in Nat : d = s.dupacks * MSS
  BY <1>4
<1>6. s.bdp # 0 => s.bdp + s.bdp \div 2 + d > 0
  <2>1. PICK b \in Nat : b = s.bdp
    BY <1>3
  <2>2. b \div 2 \in Nat
    BY WholeNumber
  <2>3. PICK h \in Nat : h = b \div 2
    BY <2>2
  <2>4. b # 0 => b + h + d > 0
    OBVIOUS
  <2> QED
    BY <2>1, <2>3, <2>4
<1>7. /\ s.highest_sent >= s.last_acked /\ s.highest_sent - s.last_acked = 0
  BY <1>2, <1>3
<1>8. Timely!CanSend(s)
  BY <1>2, <1>3, <1>5, <1>6, <1>7
     DEF Timely!CanSend, Timely!GateOpen, Timely!Limit
<1>9. Pair!CanSend(s)
  BY <1>2, <1>3, <1>5, <1>6, <1>7
     DEF Pair!CanSend, Pair!GateOpen, Pair!Limit, Pair!EndOfFlow
<1> QED
  BY <1>1, <1>8, <1>9, TimelyIsPaced, PairIsPaced

\* A running flow, of a packet-pair source one whose paced chain runs, has a
\* packet to send at its next poll or a timer that will make it send one, also
\* when the unsigned flight size of the gate has wrapped around
\* (timely.cpp:244, 310; packetpair.cpp:287, 366).
THEOREM NeverGetsStuck == Spec => []NeverStuck
<1>1. FlowInv => NeverStuck
  BY OpenGate, TimelyIsPaced, PairIsPaced
     DEF NeverStuck, Timely!NeverStuck, Pair!NeverStuck
<1> QED
  BY <1>1, PacedFlowIsSound, PTL

\* Under both transports the flow sends, delivers in order, finishes when the
\* sink has every byte and is deleted once after that (timely.cpp:129-157,
\* 184-199; packetpair.cpp:110-131, 197-209).
THEOREM PacedFlowIsReliable == Spec => ImplementsReliableTransfer
<1>1. Init => FlowInv /\ Promise!Init
  BY InitStep
<1>2. FlowInv /\ [Next]_vars => FlowInv' /\ [Promise!Next]_(Promise!vars)
  BY TimelyKeeps, PairKeeps, StutterStep DEF Next, Implements
<1> QED
  BY <1>1, <1>2, PTL DEF Spec, ImplementsReliableTransfer, Promise!Spec

\* The sink of either transport, over routes that lose packets, acknowledges the
\* longest received prefix (datasink.cpp:17-59).
THEOREM SinkIsAPrefixReceiver == Spec => ImplementsPrefixReceiver
<1>1. Init => FlowInv /\ Sink!Receiver!Init
  BY InitStep
<1>2. FlowInv /\ [Next]_vars => FlowInv' /\ [Sink!Receiver!Next]_(Sink!Receiver!vars)
  BY TimelyKeeps, PairKeeps, StutterStep DEF Next, Implements
<1> QED
  BY <1>1, <1>2, PTL
     DEF Spec, ImplementsPrefixReceiver, Sink!ImplementsPrefixReceiver,
         Sink!Receiver!Spec
=============================================================================
