--------------------------- MODULE TcpFlowProofs ---------------------------
(***************************************************************************)
(* Proofs about TcpFlow for every segment size, flow size, bound and       *)
(* option.  IInv is the inductive invariant: the properties of TcpFlow and *)
(* what they need, chiefly that every sequence number is a multiple of MSS *)
(* and that a collapsed window only occurs in CONG_AVOID.                  *)
(***************************************************************************)
EXTENDS TcpFlow, TLAPS

----------------------------------------------------------------------------
(* Sequence numbers *)

Aligned(x) == \E k \in Int : x = k * MSS

\* Data packets on a route: first bytes of segments that end by byte top.
Segments(route, top) ==
    /\ route \in Seq(Nat)
    /\ \A i \in 1 .. Len(route) :
          Aligned(route[i] - 1) /\ route[i] + MSS - 1 <= top

\* Acks on a route: multiples of MSS up to top.
Acks(route, top) ==
    /\ route \in Seq(Nat)
    /\ \A i \in 1 .. Len(route) : Aligned(route[i]) /\ route[i] <= top

\* One product is below another when a factor is.
LEMMA MulMono ==
    ASSUME NEW k \in Nat, NEW n \in Nat, k <= n
    PROVE  k * MSS \in Nat /\ k * MSS <= n * MSS
  BY SizeAssumption, SMT

\* The next multiple of MSS is MSS away.
LEMMA AlignedGap ==
    ASSUME NEW x \in Int, NEW y \in Int, Aligned(x), Aligned(y), x < y
    PROVE  x + MSS <= y
  <1>1. PICK k \in Int : x = k * MSS
    BY DEF Aligned
  <1>2. PICK m \in Int : y = m * MSS
    BY DEF Aligned
  <1>3. k + 1 <= m
    <2> SUFFICES ASSUME m <= k PROVE FALSE
      OBVIOUS
    <2>1. k - m \in Nat
      OBVIOUS
    <2>2. (k - m) * MSS \in Nat
      BY <2>1, MulMono
    <2>3. (k - m) * MSS = x - y
      BY <1>1, <1>2, SizeAssumption, SMT
    <2>4. QED
      BY <2>2, <2>3
  <1>4. (m - k - 1) * MSS \in Nat
    BY <1>3, MulMono
  <1>5. (m - k - 1) * MSS = y - x - MSS
    BY <1>1, <1>2, SizeAssumption, SMT
  <1>6. QED
    BY <1>4, <1>5, SizeAssumption

\* Adding whole segments keeps a sequence number aligned.
LEMMA AlignedAdd ==
    ASSUME NEW x \in Int, NEW n \in Int, Aligned(x)
    PROVE  Aligned(x + n * MSS) /\ Aligned(x + MSS) /\ Aligned(0)
  <1>1. PICK k \in Int : x = k * MSS
    BY DEF Aligned
  <1>2. /\ x + n * MSS = (k + n) * MSS
        /\ x + MSS = (k + 1) * MSS
        /\ 0 = 0 * MSS
    BY <1>1, SizeAssumption, SMT
  <1>3. QED
    BY <1>2 DEF Aligned

\* The quotient by MSS of a non-negative number.
LEMMA Quotient ==
    ASSUME NEW a \in Nat
    PROVE  /\ a \div MSS \in Nat
           /\ (a \div MSS) * MSS <= a
           /\ a < (a \div MSS) * MSS + MSS
  BY SizeAssumption, SMT

----------------------------------------------------------------------------
(* What the sending loop computes *)

\* sendPackets stops within one segment of the end of the flow, catches up
\* with what has been acknowledged, and sends at least one segment when all
\* that was sent is acknowledged and the window holds a segment.
LEMMA SendingLoop ==
    ASSUME NEW la \in Nat, NEW w \in Nat, NEW hs \in Nat,
           la < FlowSize, hs < FlowSize + MSS
    PROVE  LET n == NumToSend(la, w, hs)
               top == hs + n * MSS
           IN  /\ n \in Nat
               /\ top \in Nat /\ hs <= top /\ top < FlowSize + MSS
               /\ w >= MSS => la <= top
               /\ w >= MSS /\ la = hs => n # 0
               /\ w = 0 /\ la = hs + MSS => top = la /\ n # 0
               /\ w = 0 /\ la <= hs => n = 0
  <1> DEFINE n == NumToSend(la, w, hs)
             a == (la + w - hs) \div MSS
             b == (FlowSize - hs + MSS - 1) \div MSS
  <1>1. CASE hs >= FlowSize
    <2>1. n = 0
      BY <1>1 DEF NumToSend
    <2>2. QED
      BY <2>1, <1>1, SizeAssumption, SMT
  <1>2. CASE hs < FlowSize /\ la + w < hs + MSS
    <2>1. n = 0
      BY <1>2 DEF NumToSend
    <2>2. QED
      BY <2>1, <1>2, SizeAssumption, SMT
  <1>3. CASE hs < FlowSize /\ la + w >= hs + MSS
    <2>1. n = Lower(a, b)
      BY <1>3, SizeAssumption, SMT DEF NumToSend
    <2>2. /\ a \in Nat /\ a * MSS <= la + w - hs
          /\ la + w - hs < a * MSS + MSS
      BY <1>3, SizeAssumption, Quotient
    <2>3. /\ b \in Nat /\ b * MSS <= FlowSize - hs + MSS - 1
          /\ FlowSize - hs + MSS - 1 < b * MSS + MSS
      BY <1>3, SizeAssumption, Quotient
    <2>4. a >= 1 /\ b >= 1
      BY <2>2, <2>3, <1>3, SizeAssumption, SMT
    <2>5. n \in Nat /\ n >= 1 /\ n <= b /\ (n = a \/ n = b)
      BY <2>1, <2>2, <2>3, <2>4 DEF Lower
    <2> HIDE DEF n, a, b
    <2>6. n * MSS \in Nat /\ n * MSS <= b * MSS
      BY <2>5, <2>3, MulMono
    <2>7. hs + n * MSS < FlowSize + MSS
      BY <2>6, <2>3, SizeAssumption
    <2>8. w >= MSS => la <= hs + n * MSS
      <3>1. CASE n = a
        BY <3>1, <2>2, SizeAssumption
      <3>2. CASE n = b
        BY <3>2, <2>3, SizeAssumption
      <3>3. QED
        BY <3>1, <3>2, <2>5
    <2>9. w = 0 /\ la = hs + MSS => hs + n * MSS = la
      <3> SUFFICES ASSUME w = 0, la = hs + MSS PROVE hs + n * MSS = la
        OBVIOUS
      <3>1. a < 2
        BY <2>2, SizeAssumption, SMT
      <3>2. a = 1
        BY <3>1, <2>4, <2>2
      <3>3. n = 1
        BY <3>2, <2>1, <2>4, <2>3 DEF Lower
      <3>4. QED
        BY <3>3, SizeAssumption
    <2>10. ~(w = 0 /\ la <= hs)
      BY <1>3, SizeAssumption
    <2>11. QED
      BY <2>5, <2>6, <2>7, <2>8, <2>9, <2>10 DEF n
  <1>4. QED
    BY <1>1, <1>2, <1>3, SizeAssumption

----------------------------------------------------------------------------
(* Routes *)

\* Losing or delivering one data packet leaves whole segments on the route.
LEMMA WithoutSegment ==
    ASSUME NEW route, NEW top \in Nat, Segments(route, top),
           NEW i \in 1 .. Len(route)
    PROVE  Segments(Without(route, i), top) /\ Len(Without(route, i)) = Len(route) - 1
  <1>1. /\ Without(route, i) \in Seq(Nat)
        /\ Len(Without(route, i)) = Len(route) - 1
    BY DEF Segments, Without
  <1>2. ASSUME NEW j \in 1 .. Len(route) - 1
        PROVE  \E m \in 1 .. Len(route) : Without(route, i)[j] = route[m]
    BY <1>2 DEF Without, Segments
  <1>3. QED
    BY <1>1, <1>2 DEF Segments

\* Losing or delivering one ack leaves acks the sink has sent on the route.
LEMMA WithoutAck ==
    ASSUME NEW route, NEW top \in Nat, Acks(route, top),
           NEW i \in 1 .. Len(route)
    PROVE  Acks(Without(route, i), top)
  <1>1. /\ Without(route, i) \in Seq(Nat)
        /\ Len(Without(route, i)) = Len(route) - 1
    BY DEF Acks, Without
  <1>2. ASSUME NEW j \in 1 .. Len(route) - 1
        PROVE  \E m \in 1 .. Len(route) : Without(route, i)[j] = route[m]
    BY <1>2 DEF Without, Acks
  <1>3. QED
    BY <1>1, <1>2 DEF Acks

\* Appending a burst to a route of whole segments keeps it one.
LEMMA SegmentsJoin ==
    ASSUME NEW r, NEW s, NEW top \in Nat, Segments(r, top), Segments(s, top)
    PROVE  Segments(r \o s, top) /\ Len(r \o s) = Len(r) + Len(s)
  <1>1. /\ r \o s \in Seq(Nat)
        /\ Len(r \o s) = Len(r) + Len(s)
    BY DEF Segments
  <1>2. ASSUME NEW j \in 1 .. Len(r \o s)
        PROVE  \/ \E m \in 1 .. Len(r) : (r \o s)[j] = r[m]
               \/ \E m \in 1 .. Len(s) : (r \o s)[j] = s[m]
    <2>1. CASE j <= Len(r)
      BY <2>1 DEF Segments
    <2>2. CASE j > Len(r)
      <3>1. j - Len(r) \in 1 .. Len(s) /\ (r \o s)[j] = s[j - Len(r)]
        BY <2>2, <1>1 DEF Segments
      <3>2. QED
        BY <3>1
    <2>3. QED
      BY <2>1, <2>2, <1>1 DEF Segments
  <1>3. QED
    BY <1>1, <1>2 DEF Segments

\* A higher history of what was sent admits the same segments.
LEMMA SegmentsGrow ==
    ASSUME NEW r, NEW t1 \in Nat, NEW t2 \in Nat, t1 <= t2, Segments(r, t1)
    PROVE  Segments(r, t2)
  BY SizeAssumption DEF Segments

\* The ack the sink appends (tcp.cpp:481-487) is one it has sent.
LEMMA AckAppended ==
    ASSUME NEW r, NEW t1 \in Nat, NEW t2 \in Nat, t1 <= t2, Acks(r, t1),
           Aligned(t2)
    PROVE  Acks(Append(r, t2), t2)
  BY DEF Acks

\* A retransmitted segment (tcp.cpp:435) is a whole segment.
LEMMA OneSegment ==
    ASSUME NEW la \in Nat, Aligned(la), NEW top \in Nat, la + MSS <= top
    PROVE  Segments(Retransmission(la), top) /\ Retransmission(la) # <<>>
  BY SizeAssumption DEF Segments, Retransmission

\* The burst of a sending loop is made of whole segments it has room for.
LEMMA BurstSegments ==
    ASSUME NEW hs \in Nat, Aligned(hs), NEW n \in Nat
    PROVE  /\ Segments(Burst(hs, n), hs + n * MSS)
           /\ n # 0 => Burst(hs, n) # <<>>
           /\ n = 0 => Burst(hs, n) = <<>>
  <1>1. \A k \in 1 .. n : /\ hs + (k - 1) * MSS + 1 \in Nat
                          /\ Aligned(hs + (k - 1) * MSS)
                          /\ hs + (k - 1) * MSS + MSS <= hs + n * MSS
    <2> SUFFICES ASSUME NEW k \in 1 .. n
                 PROVE  /\ hs + (k - 1) * MSS + 1 \in Nat
                        /\ Aligned(hs + (k - 1) * MSS)
                        /\ hs + (k - 1) * MSS + MSS <= hs + n * MSS
      OBVIOUS
    <2>1. k - 1 \in Nat /\ k \in Nat
      OBVIOUS
    <2>2. (k - 1) * MSS \in Nat /\ k * MSS <= n * MSS
      BY <2>1, MulMono
    <2>3. (k - 1) * MSS + MSS = k * MSS
      BY SizeAssumption, SMT
    <2>4. Aligned(hs + (k - 1) * MSS)
      BY <2>1, AlignedAdd
    <2>5. QED
      BY <2>1, <2>2, <2>3, <2>4, SizeAssumption
  <1>2. Burst(hs, n) \in Seq(Nat) /\ Len(Burst(hs, n)) = n
    BY <1>1 DEF Burst
  <1>3. ASSUME NEW i \in 1 .. Len(Burst(hs, n))
        PROVE  /\ Aligned(Burst(hs, n)[i] - 1)
               /\ Burst(hs, n)[i] + MSS - 1 <= hs + n * MSS
    <2>1. i \in 1 .. n /\ Burst(hs, n)[i] = hs + (i - 1) * MSS + 1
      BY <1>2, <1>3 DEF Burst
    <2>2. Burst(hs, n)[i] - 1 = hs + (i - 1) * MSS
      BY <2>1, <1>1, SizeAssumption
    <2>3. QED
      BY <2>1, <2>2, <1>1, SizeAssumption
  <1>4. QED
    BY <1>2, <1>3 DEF Segments

----------------------------------------------------------------------------
(* The inductive invariant *)

\* Sequence numbers are whole segments, routes carry what was sent.
SequenceInv ==
    /\ Aligned(highest_sent) /\ Aligned(last_acked) /\ Aligned(cumulative_ack)
    /\ \A s \in received : Aligned(s - 1) /\ s + MSS - 1 <= max_sent
    /\ Segments(fwd, max_sent) /\ Acks(rev, cumulative_ack)
    /\ last_acked <= cumulative_ack /\ cumulative_ack <= max_sent

\* A flow that has not started has nothing on its routes.
IdleInv == state = "IDLE" => fwd = <<>> /\ rev = <<>> /\ ~deleted
                             /\ last_acked = 0 /\ highest_sent = 0

\* A collapsed window is 0, covers no outstanding byte and is not in slow
\* start, where an ECN echo would copy it to _ssthresh.
WindowInv ==
    /\ ssthresh >= MSS
    /\ state \in Active /\ cwnd < MSS =>
          cwnd = 0 /\ last_acked = highest_sent /\ state = "CONG_AVOID"

IInv ==
    /\ TypeOK
    /\ SequenceInv
    /\ IdleInv
    /\ WindowInv
    /\ TimerArmed
    /\ SentCoversAcked
    /\ RecoveryWindow
    /\ NoSegmentLeftBehind
    /\ FinishedIsDelivered

\* The constructor (tcp.cpp:18-40) establishes the invariant.
LEMMA InitIInv == Init => IInv
  <1> SUFFICES ASSUME Init PROVE IInv
    OBVIOUS
  <1>1. Aligned(0)
    BY SizeAssumption, SMT DEF Aligned
  <1>2. TypeOK
    <2>1. /\ Word - 1 \in Nat /\ 0 \in 0 .. FlowSize + MSS - 1
          /\ 0 \in 0 .. FlowSize - 1 /\ 0 \in 0 .. 4
          /\ 0 \in 0 .. MaxDrops /\ 0 \in 0 .. MaxSpurious
      BY SizeAssumption, BoundAssumption
    <2>2. <<>> \in Seq(Nat) /\ {} \in SUBSET Nat /\ 0 \in Nat
      OBVIOUS
    <2>3. state \in States /\ rto_timeout \in BOOLEAN /\ deleted \in BOOLEAN
      BY DEF Init, States
    <2>4. QED
      BY <2>1, <2>2, <2>3 DEF Init, TypeOK, DupackCap
  <1>3. SequenceInv
    BY <1>1 DEF Init, SequenceInv, Segments, Acks
  <1>4. IdleInv /\ WindowInv /\ TimerArmed /\ SentCoversAcked
    BY SizeAssumption
    DEF Init, IdleInv, WindowInv, TimerArmed, SentCoversAcked, Active
  <1>5. RecoveryWindow /\ NoSegmentLeftBehind /\ FinishedIsDelivered
    BY DEF Init, RecoveryWindow, NoSegmentLeftBehind, FinishedIsDelivered
  <1>6. QED
    BY <1>2, <1>3, <1>4, <1>5 DEF IInv

\* What Transmit does to the sender's variables and the forward route, for a
\* window of a segment or more, or a collapsed one.
LEMMA TransmitStep ==
    ASSUME TypeOK, Aligned(highest_sent), Segments(fwd, max_sent),
           NEW la \in Nat, Aligned(la), la < FlowSize,
           NEW w \in Nat, NEW armed \in BOOLEAN, NEW retx,
           retx = <<>> \/ retx = Retransmission(la),
           Transmit(la, w, highest_sent, retx, armed)
    PROVE  /\ highest_sent' \in 0 .. FlowSize + MSS - 1
           /\ Aligned(highest_sent') /\ highest_sent <= highest_sent'
           /\ max_sent' \in Nat /\ max_sent <= max_sent'
           /\ fwd' \in Seq(Nat) /\ Segments(fwd', max_sent')
           /\ rto_timeout' \in BOOLEAN
           /\ armed \/ retx # <<>> => rto_timeout'
           /\ w >= MSS => la <= highest_sent'
           /\ w >= MSS /\ la = highest_sent => rto_timeout'
           /\ w = 0 /\ la = highest_sent + MSS =>
                 highest_sent' = la /\ rto_timeout'
           /\ w = 0 /\ la <= highest_sent => highest_sent' = highest_sent
  <1> DEFINE hs  == highest_sent
             n   == NumToSend(la, w, hs)
             top == hs + n * MSS
  <1>1. hs \in Nat /\ hs < FlowSize + MSS /\ max_sent \in Nat
    BY SizeAssumption DEF TypeOK
  <1>2. /\ n \in Nat
        /\ top \in Nat /\ hs <= top /\ top < FlowSize + MSS
        /\ w >= MSS => la <= top
        /\ w >= MSS /\ la = hs => n # 0
        /\ w = 0 /\ la = hs + MSS => top = la /\ n # 0
        /\ w = 0 /\ la <= hs => n = 0
    BY <1>1, SendingLoop
  <1>3. /\ highest_sent' = top
        /\ fwd' = fwd \o (retx \o Burst(hs, n))
        /\ rto_timeout' = (armed \/ retx \o Burst(hs, n) # <<>>)
        /\ max_sent' = Higher(Higher(max_sent, top),
                              IF retx = <<>> THEN 0 ELSE la + MSS)
    BY DEF Transmit, TimerAfterSending
  <1> HIDE DEF n
  <1>4. Aligned(top)
    BY <1>1, <1>2, AlignedAdd
  <1>5. /\ max_sent' \in Nat /\ max_sent <= max_sent' /\ top <= max_sent'
        /\ retx # <<>> => la + MSS <= max_sent'
    BY <1>1, <1>2, <1>3, SizeAssumption DEF Higher
  <1>6. /\ Segments(Burst(hs, n), top)
        /\ n # 0 => Burst(hs, n) # <<>>
        /\ n = 0 => Burst(hs, n) = <<>>
    BY <1>1, <1>2, BurstSegments
  <1>7. Segments(Burst(hs, n), max_sent') /\ Segments(fwd, max_sent')
    BY <1>1, <1>2, <1>5, <1>6, SegmentsGrow
  <1>8. Segments(retx, max_sent')
    <2>1. CASE retx = <<>>
      BY <2>1 DEF Segments
    <2>2. CASE retx # <<>>
      BY <2>2, <1>5, OneSegment
    <2>3. QED
      BY <2>1, <2>2
  <1>9. /\ Segments(retx \o Burst(hs, n), max_sent')
        /\ Len(retx \o Burst(hs, n)) = Len(retx) + Len(Burst(hs, n))
    BY <1>5, <1>7, <1>8, SegmentsJoin
  <1>10. Segments(fwd', max_sent')
    BY <1>3, <1>5, <1>7, <1>9, SegmentsJoin
  <1>11. n # 0 \/ retx # <<>> => retx \o Burst(hs, n) # <<>>
    BY <1>6, <1>7, <1>8, <1>9 DEF Segments
  <1>12. w = 0 /\ la <= hs => top = hs
    BY <1>1, <1>2, SizeAssumption
  <1>13. /\ rto_timeout' \in BOOLEAN
         /\ armed \/ retx # <<>> \/ n # 0 => rto_timeout'
    BY <1>3, <1>11
  <1>14. /\ highest_sent' \in 0 .. FlowSize + MSS - 1
         /\ highest_sent <= highest_sent' /\ fwd' \in Seq(Nat)
    BY <1>1, <1>2, <1>3, <1>10, SizeAssumption DEF Segments
  <1>15. QED
    BY <1>2, <1>3, <1>4, <1>5, <1>10, <1>12, <1>13, <1>14

----------------------------------------------------------------------------
(* Windows *)

\* Integer division of naturals by a positive number is a natural.
LEMMA QuotientNat ==
    ASSUME NEW a \in Nat, NEW b \in Nat \ {0}
    PROVE  a \div b \in Nat
  BY SMT

\* uint32_t arithmetic on numbers less than one Word away from its range.
LEMMA WordArithmetic ==
    ASSUME NEW x \in Int
    PROVE  /\ 0 <= x /\ x < Word => U32(x) = x
           /\ x < 0 /\ -Word <= x => U32(x) = x + Word
           /\ x = Word => U32(x) = 0
  <1>1. Word \in Nat /\ Word > 0
    BY SizeAssumption
  <1>2. 0 <= x /\ x < Word => U32(x) = x
    BY <1>1, SMT DEF U32
  <1>3. x < 0 /\ -Word <= x => U32(x) = x + Word
    BY <1>1, SMT DEF U32
  <1>4. x = Word => U32(x) = 0
    BY <1>1, SMT DEF U32
  <1>5. QED
    BY <1>2, <1>3, <1>4

\* What recovery leaves of the window: at least a segment, or 0 when the ack
\* is one segment beyond what the sender remembers having sent.
LEMMA DeflatedWindow ==
    ASSUME TypeOK, Aligned(highest_sent),
           NEW thresh \in Nat, thresh >= MSS,
           NEW acked \in Nat, acked < FlowSize, Aligned(acked)
    PROVE  /\ Deflated(thresh, acked) \in Nat
           /\ \/ Deflated(thresh, acked) >= MSS
              \/ Deflated(thresh, acked) = 0 /\ acked = highest_sent + MSS
  <1> DEFINE d == highest_sent - acked
             f == U32(d)
             g == U32(f + MSS)
  <1>1. highest_sent \in Nat /\ highest_sent < FlowSize + MSS
    BY SizeAssumption DEF TypeOK
  <1>2. d \in Int /\ d < FlowSize + MSS /\ -FlowSize < d
    BY <1>1, SizeAssumption
  <1>3. g \in Nat /\ (g >= MSS \/ (g = 0 /\ d = -MSS))
    <2>1. CASE d >= 0
      <3>1. f = d
        BY <2>1, <1>2, WordArithmetic, SizeAssumption
      <3>2. d + MSS \in Int /\ 0 <= d + MSS /\ d + MSS < Word
        BY <2>1, <1>2, SizeAssumption
      <3>3. g = d + MSS
        BY <3>1, <3>2, WordArithmetic
      <3>4. QED
        BY <3>3, <2>1, <1>2, SizeAssumption
    <2>2. CASE d < 0
      <3>1. f = d + Word
        BY <2>2, <1>2, WordArithmetic, SizeAssumption
      <3>2. d <= -MSS
        BY <2>2, <1>1, AlignedGap, SizeAssumption
      <3>3. CASE d = -MSS
        <4>1. f + MSS = Word
          BY <3>1, <3>3, SizeAssumption
        <4>2. g = 0
          BY <4>1, WordArithmetic, SizeAssumption
        <4>3. QED
          BY <4>2, <3>3
      <3>4. CASE d < -MSS
        <4>1. /\ f + MSS \in Int /\ f + MSS = d + Word + MSS
              /\ MSS <= f + MSS /\ f + MSS < Word
          BY <3>1, <3>4, <1>2, SizeAssumption
        <4>2. g = f + MSS
          BY <4>1, WordArithmetic, SizeAssumption
        <4>3. QED
          BY <4>1, <4>2, SizeAssumption
      <3>5. QED
        BY <3>2, <3>3, <3>4, <1>2, SizeAssumption
    <2>3. QED
      BY <2>1, <2>2, <1>2
  <1> HIDE DEF g
  <1>4. Deflated(thresh, acked) = Lower(thresh, g)
    BY DEF Deflated, g
  <1>5. QED
    BY <1>1, <1>3, <1>4, SizeAssumption DEF Lower

\* What an ack handler may rely on after the DCTCP reaction.
GoodOutcome(c) ==
    /\ c.state \in Active
    /\ c.cwnd \in Nat /\ c.ssthresh \in Nat /\ c.ssthresh >= MSS
    /\ c.state = "FAST_RECOV" <=> state = "FAST_RECOV"
    /\ c.cwnd < MSS =>
          c.cwnd = 0 /\ last_acked = highest_sent /\ c.state = "CONG_AVOID"

\* Leaving slow start on a marked ack (tcp.cpp:209-213) is a good outcome.
LEMMA EcnOutcome ==
    ASSUME NEW c \in [state : States, cwnd : Nat, ssthresh : Nat],
           GoodOutcome(c)
    PROVE  GoodOutcome(EcnEcho(c))
           /\ EcnEcho(c) \in [state : States, cwnd : Nat, ssthresh : Nat]
  <1>1. CASE c.state = "SLOW_START" /\ c.ssthresh > c.cwnd
    <2>1. EcnEcho(c) = [state |-> "CONG_AVOID", cwnd |-> c.cwnd,
                        ssthresh |-> c.cwnd]
      BY <1>1 DEF EcnEcho
    <2>2. c.cwnd >= MSS
      BY <1>1, SizeAssumption DEF GoodOutcome
    <2>3. QED
      BY <1>1, <2>1, <2>2, SizeAssumption DEF GoodOutcome, Active, States
  <1>2. CASE ~(c.state = "SLOW_START" /\ c.ssthresh > c.cwnd)
    BY <1>2 DEF EcnEcho
  <1>3. QED
    BY <1>1, <1>2

\* A DCTCP cut (tcp.cpp:224-230) is a good outcome.
LEMMA CutOutcome ==
    ASSUME NEW c \in [state : States, cwnd : Nat, ssthresh : Nat],
           GoodOutcome(c), NEW d \in AlphaCuts(c)
    PROVE  GoodOutcome(d)
  <1>1. PICK w \in c.cwnd \div 2 .. c.cwnd :
           d = [c EXCEPT !.cwnd = Higher(w, MSS), !.ssthresh = Higher(w, MSS)]
    BY DEF AlphaCuts
  <1>2. w \in Int /\ MSS \in Nat /\ MSS > 0
    BY SizeAssumption
  <1>3. Higher(w, MSS) \in Nat /\ Higher(w, MSS) >= MSS
    BY <1>2 DEF Higher
  <1>4. d = [state |-> c.state, cwnd |-> Higher(w, MSS),
             ssthresh |-> Higher(w, MSS)]
    BY <1>1
  <1>5. QED
    BY <1>2, <1>3, <1>4 DEF GoodOutcome

\* Whatever the DCTCP code does to window and state is a good outcome.
LEMMA DctcpOutcome ==
    ASSUME IInv, state \in Active,
           NEW c \in DctcpOutcomes([state |-> state, cwnd |-> cwnd,
                                    ssthresh |-> ssthresh])
    PROVE  GoodOutcome(c)
  <1> DEFINE c0 == [state |-> state, cwnd |-> cwnd, ssthresh |-> ssthresh]
  <1>1. c0 \in [state : States, cwnd : Nat, ssthresh : Nat]
    BY DEF IInv, TypeOK
  <1>2. GoodOutcome(c0)
    BY DEF IInv, TypeOK, WindowInv, GoodOutcome
  <1> HIDE DEF c0
  <1>3. c \in {c0, EcnEcho(c0)} \cup AlphaCuts(c0) \cup AlphaCuts(EcnEcho(c0))
    BY DEF DctcpOutcomes, c0
  <1>4. QED
    BY <1>1, <1>2, <1>3, EcnOutcome, CutOutcome

\* Inflation never shrinks a window and opens a collapsed one.
LEMMA InflatedWindow ==
    ASSUME TypeOK, Aligned(last_acked), NEW c, GoodOutcome(c),
           NEW ackno \in Nat, Aligned(ackno), ackno > last_acked
    PROVE  Inflated(c, ackno) \in Nat /\ Inflated(c, ackno) >= MSS
  <1> DEFINE m == Lower(ackno + c.cwnd - highest_sent, MSS)
  <1>1. /\ highest_sent \in Nat /\ last_acked \in Nat /\ MSS \in Nat /\ MSS > 0
        /\ c.cwnd \in Nat /\ c.ssthresh \in Nat
    BY SizeAssumption DEF TypeOK, GoodOutcome
  <1>2. m \in Int
    BY <1>1 DEF Lower
  <1>3. CASE c.cwnd < MSS
    <2>1. c.cwnd = 0 /\ last_acked = highest_sent /\ c.ssthresh >= MSS
      BY <1>3 DEF GoodOutcome
    <2>2. last_acked + MSS <= ackno
      BY <1>1, AlignedGap
    <2>3. m = MSS
      BY <1>1, <2>1, <2>2 DEF Lower
    <2>4. Inflated(c, ackno) = c.cwnd + Lower(c.ssthresh - c.cwnd, MSS)
      BY <1>1, <2>1, <2>3 DEF Inflated
    <2>5. QED
      BY <1>1, <2>1, <2>4 DEF Lower
  <1>4. CASE c.cwnd >= MSS
    <2>1. CASE m < 0
      BY <1>1, <1>4, <2>1 DEF Inflated
    <2>2. CASE m >= 0 /\ c.cwnd < c.ssthresh
      <3>1. Inflated(c, ackno) = c.cwnd + Lower(c.ssthresh - c.cwnd, m)
        BY <1>2, <2>2 DEF Inflated
      <3> HIDE DEF m
      <3>2. QED
        BY <1>1, <1>2, <1>4, <2>2, <3>1 DEF Lower
    <2>3. CASE m >= 0 /\ ~(c.cwnd < c.ssthresh)
      <3>1. Inflated(c, ackno) = c.cwnd + Higher((m * MSS) \div c.cwnd, 1)
        BY <1>2, <2>3 DEF Inflated
      <3> HIDE DEF m
      <3>2. m * MSS \in Nat
        BY <1>2, <2>3, MulMono
      <3>3. (m * MSS) \div c.cwnd \in Nat
        BY <1>1, <1>4, <3>2, QuotientNat
      <3>4. QED
        BY <1>1, <1>4, <3>1, <3>3 DEF Higher
    <2>4. QED
      BY <1>1, <1>2, <2>1, <2>2, <2>3
  <1>5. QED
    BY <1>1, <1>3, <1>4

----------------------------------------------------------------------------
(* The invariant is preserved by the event handler *)

\* The first event of a flow (tcp.cpp:71-76) preserves the invariant.
LEMMA StartStep == IInv /\ Start => IInv'
  <1> SUFFICES ASSUME IInv, Start PROVE IInv'
    OBVIOUS
  <1>1. /\ last_acked = 0 /\ highest_sent = 0 /\ 2 * MSS \in Nat
        /\ 2 * MSS >= MSS /\ last_acked < FlowSize /\ ~deleted
    BY SizeAssumption DEF IInv, IdleInv, Start
  <1>2. Transmit(last_acked, 2 * MSS, highest_sent, <<>>, rto_timeout)
    BY DEF Start
  <1>3. /\ highest_sent' \in 0 .. FlowSize + MSS - 1
        /\ Aligned(highest_sent') /\ highest_sent <= highest_sent'
        /\ max_sent' \in Nat /\ max_sent <= max_sent'
        /\ fwd' \in Seq(Nat) /\ Segments(fwd', max_sent')
        /\ rto_timeout' \in BOOLEAN /\ rto_timeout'
        /\ last_acked <= highest_sent'
    <2>1. last_acked \in Nat /\ rto_timeout \in BOOLEAN
      BY <1>1 DEF IInv, TypeOK
    <2>2. QED
      BY <1>1, <1>2, <2>1, TransmitStep DEF IInv, SequenceInv
  <1>4. TypeOK'
    BY <1>1, <1>3 DEF IInv, TypeOK, Start, States, Active, sink, budget
  <1>5. SequenceInv'
    BY <1>3, SizeAssumption
    DEF IInv, TypeOK, SequenceInv, Start, sink, budget
  <1>6. WindowInv' /\ IdleInv'
    BY <1>1, SizeAssumption DEF IInv, WindowInv, IdleInv, Start
  <1>7. TimerArmed' /\ SentCoversAcked'
    BY <1>3 DEF TimerArmed, SentCoversAcked, Start
  <1>8. RecoveryWindow' /\ NoSegmentLeftBehind' /\ FinishedIsDelivered'
    BY DEF IInv, RecoveryWindow, NoSegmentLeftBehind, FinishedIsDelivered,
           Start, sink
  <1>9. QED
    BY <1>4, <1>5, <1>6, <1>7, <1>8 DEF IInv

\* A retransmission timeout (tcp.cpp:92-123) preserves the invariant.
LEMMA TimeoutStep == IInv /\ Timeout => IInv'
  <1> SUFFICES ASSUME IInv, Timeout PROVE IInv'
    OBVIOUS
  <1> DEFINE w == IF state = "FAST_RECOV" THEN Deflated(ssthresh, last_acked)
                  ELSE cwnd
  <1>1. /\ last_acked \in Nat /\ last_acked < FlowSize /\ Aligned(last_acked)
        /\ highest_sent \in 0 .. FlowSize + MSS - 1
        /\ max_sent \in Nat /\ MSS \in Nat /\ MSS > 0
        /\ ssthresh \in Nat /\ ssthresh >= MSS
    BY SizeAssumption DEF IInv, TypeOK, SequenceInv, WindowInv
  <1>2. w \in Nat
    BY <1>1, DeflatedWindow DEF IInv, TypeOK, SequenceInv
  <1>3. ssthresh' = Higher(w \div 2, 2 * MSS)
    BY DEF Timeout
  <1>4. ssthresh' \in Nat /\ ssthresh' >= MSS
    <2>1. w \div 2 \in Nat
      BY <1>2, QuotientNat
    <2>2. QED
      BY <1>1, <1>3, <2>1 DEF Higher
  <1>5. /\ cwnd' = MSS /\ state' = "SLOW_START" /\ recover_seq' = highest_sent
        /\ highest_sent' = last_acked + MSS /\ dupacks' = 0 /\ rto_timeout'
        /\ rto_timeout' \in BOOLEAN
        /\ fwd' = fwd \o Retransmission(last_acked)
        /\ max_sent' = Higher(max_sent, last_acked + MSS)
        /\ unrecovered' = max_sent
        /\ UNCHANGED <<last_acked, deleted, cumulative_ack, received, rev, losses>>
    BY DEF Timeout, RecoveryPoint, sink
  <1>6. spurious' \in 0 .. MaxSpurious
    BY BoundAssumption DEF Timeout, IInv, TypeOK
  <1>7. /\ max_sent' \in Nat /\ max_sent <= max_sent'
        /\ last_acked + MSS <= max_sent'
    BY <1>1, <1>5 DEF Higher
  <1>8. Segments(fwd', max_sent')
    <2>1. Segments(fwd, max_sent')
      BY <1>1, <1>7, SegmentsGrow DEF IInv, SequenceInv
    <2>2. Segments(Retransmission(last_acked), max_sent')
      BY <1>1, <1>7, OneSegment
    <2>3. QED
      BY <1>5, <1>7, <2>1, <2>2, SegmentsJoin
  <1>9. TypeOK'
    <2>1. fwd' \in Seq(Nat) /\ rev' \in Seq(Nat)
      BY <1>5, <1>8 DEF Segments, IInv, TypeOK
    <2>2. /\ highest_sent' \in 0 .. FlowSize + MSS - 1
          /\ recover_seq' \in 0 .. FlowSize + MSS - 1
      BY <1>1, <1>5, SizeAssumption
    <2>3. QED
      BY <1>1, <1>4, <1>5, <1>6, <1>7, <2>1, <2>2
      DEF IInv, TypeOK, States, Active, DupackCap
  <1>10. SequenceInv'
    <2>1. Aligned(last_acked + MSS)
      BY <1>1, AlignedAdd
    <2>2. \A s \in received : Aligned(s - 1) /\ s + MSS - 1 <= max_sent'
      BY <1>1, <1>7 DEF IInv, TypeOK, SequenceInv
    <2>3. cumulative_ack <= max_sent'
      BY <1>1, <1>7 DEF IInv, TypeOK, SequenceInv
    <2>4. QED
      BY <1>5, <1>8, <2>1, <2>2, <2>3 DEF IInv, SequenceInv
  <1>11. IdleInv' /\ WindowInv' /\ TimerArmed' /\ SentCoversAcked'
    BY <1>1, <1>4, <1>5
    DEF IdleInv, WindowInv, TimerArmed, SentCoversAcked
  <1>12. RecoveryWindow' /\ NoSegmentLeftBehind' /\ FinishedIsDelivered'
    BY <1>5
    DEF IInv, RecoveryWindow, NoSegmentLeftBehind, FinishedIsDelivered
  <1>13. QED
    BY <1>9, <1>10, <1>11, <1>12 DEF IInv

\* Deleting a finished flow (tcp.cpp:79-89) preserves the invariant.
LEMMA CleanupStep == IInv /\ Cleanup => IInv'
  <1> SUFFICES ASSUME IInv, Cleanup PROVE IInv'
    OBVIOUS
  <1>1. deleted' = TRUE /\ state = "FINISH" /\ UNCHANGED <<state, cwnd,
           ssthresh, recover_seq, dupacks, rto_timeout, highest_sent,
           last_acked, cumulative_ack, received, fwd, rev, max_sent,
           unrecovered, losses, spurious>>
    BY DEF Cleanup, window, sink, budget
  <1>2. QED
    BY <1>1 DEF IInv, TypeOK, SequenceInv, IdleInv, WindowInv, TimerArmed,
       SentCoversAcked, RecoveryWindow, NoSegmentLeftBehind,
       FinishedIsDelivered, Active

----------------------------------------------------------------------------
(* The routes and the sink *)

\* A packet lost by a route preserves the invariant.
LEMMA LossStep == IInv /\ (LoseData \/ LoseAck) => IInv'
  <1> SUFFICES ASSUME IInv, LoseData \/ LoseAck PROVE IInv'
    OBVIOUS
  <1>1. /\ Segments(fwd', max_sent) /\ Acks(rev', cumulative_ack)
        /\ losses' \in 0 .. MaxDrops
        /\ fwd # <<>> \/ rev # <<>>
        /\ UNCHANGED <<state, cwnd, ssthresh, recover_seq, dupacks,
                       rto_timeout, highest_sent, last_acked, deleted,
                       cumulative_ack, received, max_sent, unrecovered,
                       spurious>>
    <2>1. CASE LoseData
      <3>1. PICK i \in 1 .. Len(fwd) : fwd' = Without(fwd, i)
        BY <2>1 DEF LoseData
      <3>2. Segments(fwd', max_sent)
        BY <3>1, WithoutSegment DEF IInv, TypeOK, SequenceInv
      <3>3. fwd # <<>>
        BY <3>1
      <3>4. QED
        BY <2>1, <3>2, <3>3, BoundAssumption
        DEF LoseData, sender, window, sink, IInv, TypeOK, SequenceInv
    <2>2. CASE LoseAck
      <3>1. PICK i \in 1 .. Len(rev) : rev' = Without(rev, i)
        BY <2>2 DEF LoseAck
      <3>2. Acks(rev', cumulative_ack)
        BY <3>1, WithoutAck DEF IInv, TypeOK, SequenceInv
      <3>3. rev # <<>>
        BY <3>1
      <3>4. QED
        BY <2>2, <3>2, <3>3, BoundAssumption
        DEF LoseAck, sender, window, sink, IInv, TypeOK, SequenceInv
    <2>3. QED
      BY <2>1, <2>2
  <1>2. TypeOK' /\ SequenceInv'
    BY <1>1 DEF IInv, TypeOK, SequenceInv, Segments, Acks
  <1>3. IdleInv'
    BY <1>1 DEF IInv, IdleInv
  <1>4. QED
    BY <1>1, <1>2, <1>3 DEF IInv, WindowInv, TimerArmed, SentCoversAcked,
       RecoveryWindow, NoSegmentLeftBehind, FinishedIsDelivered

\* The sink's prefix grows by whole segments it holds, and the segments that
\* stay in its list do not extend the prefix.
LEMMA SinkStep ==
    ASSUME IInv, NEW seqno \in Nat, Aligned(seqno - 1),
           seqno + MSS - 1 <= max_sent, ProcessDataPacket(seqno)
    PROVE  /\ cumulative_ack' \in Nat /\ cumulative_ack <= cumulative_ack'
           /\ cumulative_ack' <= max_sent /\ Aligned(cumulative_ack')
           /\ received' \in SUBSET Nat
           /\ \A s \in received' : /\ Aligned(s - 1) /\ s + MSS - 1 <= max_sent
                                   /\ s > cumulative_ack' + 1
  <1>1. /\ cumulative_ack \in Nat /\ max_sent \in Nat /\ received \in SUBSET Nat
        /\ MSS \in Nat /\ MSS > 0
        /\ cumulative_ack <= max_sent /\ Aligned(cumulative_ack)
        /\ \A s \in received : /\ Aligned(s - 1) /\ s + MSS - 1 <= max_sent
                               /\ s > cumulative_ack + 1
    BY SizeAssumption DEF IInv, TypeOK, SequenceInv, NoSegmentLeftBehind
  <1>2. CASE IsNext(seqno) /\ ~(seqno <= cumulative_ack)
    <2> DEFINE c == seqno + MSS - 1
    <2>1. PICK e \in {c} \cup {s + MSS - 1 : s \in received} :
             /\ c <= e /\ StopsAt(c, received, e)
             /\ cumulative_ack' = e
             /\ received' = {s \in received : s > e}
      BY <1>1, <1>2 DEF ProcessDataPacket, IsNext
    <2>2. \A s \in Nat : Aligned(s - 1) => Aligned(s + MSS - 1)
      <3> SUFFICES ASSUME NEW s \in Nat, Aligned(s - 1)
                   PROVE  Aligned(s + MSS - 1)
        OBVIOUS
      <3>1. Aligned((s - 1) + MSS)
        BY AlignedAdd
      <3>2. (s - 1) + MSS = s + MSS - 1
        BY <1>1
      <3>3. QED
        BY <3>1, <3>2
    <2>3. e \in Nat /\ e <= max_sent /\ Aligned(e)
      BY <1>1, <2>1, <2>2
    <2>4. cumulative_ack <= e
      BY <1>1, <1>2, <2>1, <2>3 DEF IsNext
    <2>5. (e + 1) \notin received
      BY <2>1 DEF StopsAt
    <2>6. \A s \in received' : s \in received /\ s > e + 1
      BY <1>1, <2>1, <2>3, <2>5
    <2>7. QED
      BY <1>1, <2>1, <2>3, <2>4, <2>6
  <1>3. CASE seqno <= cumulative_ack
    <2>1. UNCHANGED sink
      BY <1>1, <1>3 DEF ProcessDataPacket, IsNext
    <2>2. QED
      BY <1>1, <2>1 DEF sink
  <1>4. CASE seqno > cumulative_ack + 1
    <2>1. received' = received \cup {seqno} /\ cumulative_ack' = cumulative_ack
      BY <1>1, <1>4 DEF ProcessDataPacket, IsNext
    <2>2. QED
      BY <1>1, <1>4, <2>1
  <1>5. QED
    BY <1>1, <1>2, <1>3, <1>4 DEF IsNext

\* The sink's handler (tcp.cpp:461-488) preserves the invariant.
LEMMA ReceiveDataStep == IInv /\ ReceiveData => IInv'
  <1> SUFFICES ASSUME IInv, ReceiveData PROVE IInv'
    OBVIOUS
  <1>1. PICK i \in 1 .. Len(fwd) :
           ProcessDataPacket(fwd[i]) /\ fwd' = Without(fwd, i)
    BY DEF ReceiveData, Deliverable
  <1>2. /\ fwd[i] \in Nat /\ Aligned(fwd[i] - 1)
        /\ fwd[i] + MSS - 1 <= max_sent
    BY DEF IInv, SequenceInv, Segments
  <1>3. /\ cumulative_ack' \in Nat /\ cumulative_ack <= cumulative_ack'
        /\ cumulative_ack' <= max_sent /\ Aligned(cumulative_ack')
        /\ received' \in SUBSET Nat
        /\ \A s \in received' : /\ Aligned(s - 1) /\ s + MSS - 1 <= max_sent
                                /\ s > cumulative_ack' + 1
    BY <1>1, <1>2, SinkStep
  <1>4. /\ rev' = Append(rev, cumulative_ack')
        /\ UNCHANGED <<state, cwnd, ssthresh, recover_seq, dupacks,
                       rto_timeout, highest_sent, last_acked, deleted,
                       max_sent, unrecovered, losses, spurious>>
    BY DEF ReceiveData, sender, window, budget
  <1>5. Segments(fwd', max_sent)
    BY <1>1, WithoutSegment DEF IInv, TypeOK, SequenceInv
  <1>6. Acks(rev', cumulative_ack')
    BY <1>3, <1>4, AckAppended DEF IInv, TypeOK, SequenceInv
  <1>7. TypeOK'
    BY <1>3, <1>4, <1>5, <1>6 DEF IInv, TypeOK, Segments, Acks
  <1>8. SequenceInv'
    <2>1. last_acked <= cumulative_ack'
      BY <1>3 DEF IInv, TypeOK, SequenceInv
    <2>2. QED
      BY <1>3, <1>4, <1>5, <1>6, <2>1 DEF IInv, SequenceInv
  <1>9. IdleInv'
    <2>1. fwd # <<>>
      BY <1>1
    <2>2. QED
      BY <1>4, <2>1 DEF IInv, IdleInv
  <1>10. WindowInv' /\ TimerArmed' /\ SentCoversAcked' /\ RecoveryWindow'
    BY <1>4
    DEF IInv, WindowInv, TimerArmed, SentCoversAcked, RecoveryWindow
  <1>11. NoSegmentLeftBehind'
    BY <1>3 DEF NoSegmentLeftBehind
  <1>12. FinishedIsDelivered'
    BY <1>3, <1>4, SizeAssumption DEF IInv, TypeOK, FinishedIsDelivered
  <1>13. QED
    BY <1>7, <1>8, <1>9, <1>10, <1>11, <1>12 DEF IInv

----------------------------------------------------------------------------
(* The ack handler *)

\* What every branch of the ack handler starts from.
AckContext(ackno, c) ==
    /\ IInv /\ state \in Active /\ GoodOutcome(c)
    /\ ackno \in Nat /\ Aligned(ackno) /\ ackno <= cumulative_ack
    /\ last_acked <= ackno /\ ackno < FlowSize
    /\ Acks(rev', cumulative_ack) /\ UNCHANGED <<sink, budget, deleted>>

\* What a branch has to establish, for the acknowledged byte it leaves.
AckResult ==
    /\ state' \in Active /\ cwnd' \in Nat
    /\ ssthresh' \in Nat /\ ssthresh' >= MSS
    /\ recover_seq' \in 0 .. FlowSize + MSS - 1
    /\ dupacks' \in 0 .. DupackCap
    /\ rto_timeout' \in BOOLEAN /\ rto_timeout'
    /\ highest_sent' \in 0 .. FlowSize + MSS - 1 /\ Aligned(highest_sent')
    /\ last_acked' \in Nat /\ last_acked' < FlowSize /\ Aligned(last_acked')
    /\ last_acked' <= cumulative_ack /\ last_acked' <= highest_sent'
    /\ fwd' \in Seq(Nat) /\ Segments(fwd', max_sent')
    /\ max_sent' \in Nat /\ max_sent <= max_sent'
    /\ unrecovered' = unrecovered
    /\ cwnd' < MSS => /\ cwnd' = 0 /\ last_acked' = highest_sent'
                      /\ state' = "CONG_AVOID"
    /\ state' = "FAST_RECOV" =>
          last_acked' <= recover_seq' /\ recover_seq' <= highest_sent'

\* An ack processed with a good result preserves the invariant.
LEMMA AckInv ==
    ASSUME NEW ackno, NEW c, AckContext(ackno, c), AckResult
    PROVE  IInv'
  <1>1. /\ UNCHANGED <<cumulative_ack, received, losses, spurious, deleted>>
        /\ Acks(rev', cumulative_ack)
    BY DEF AckContext, sink, budget
  <1>2. TypeOK'
    <2>1. last_acked' \in 0 .. FlowSize - 1
      BY SizeAssumption DEF AckResult
    <2>2. QED
      BY <1>1, <2>1 DEF AckContext, AckResult, IInv, TypeOK, States, Acks
  <1>3. SequenceInv'
    <2>1. \A s \in received : Aligned(s - 1) /\ s + MSS - 1 <= max_sent'
      BY SizeAssumption DEF AckContext, AckResult, IInv, TypeOK, SequenceInv
    <2>2. cumulative_ack <= max_sent'
      BY DEF AckContext, AckResult, IInv, TypeOK, SequenceInv
    <2>3. Aligned(cumulative_ack)
      BY DEF AckContext, IInv, SequenceInv
    <2>4. QED
      BY <1>1, <2>1, <2>2, <2>3 DEF AckResult, SequenceInv
  <1>4. IdleInv' /\ FinishedIsDelivered'
    BY DEF AckResult, IdleInv, FinishedIsDelivered, Active
  <1>5. WindowInv'
    BY DEF AckResult, WindowInv
  <1>6. TimerArmed' /\ SentCoversAcked' /\ RecoveryWindow'
    BY DEF AckResult, TimerArmed, SentCoversAcked, RecoveryWindow
  <1>7. NoSegmentLeftBehind'
    BY <1>1 DEF AckContext, IInv, NoSegmentLeftBehind
  <1>8. QED
    BY <1>2, <1>3, <1>4, <1>5, <1>6, <1>7 DEF IInv

\* What the context gives, spelt out.
AckKnown(ackno, c) ==
    /\ TypeOK /\ Segments(fwd, max_sent) /\ fwd \in Seq(Nat)
    /\ Aligned(highest_sent) /\ Aligned(last_acked)
    /\ MSS \in Nat /\ MSS > 0 /\ last_acked \in Nat
    /\ highest_sent \in 0 .. FlowSize + MSS - 1 /\ highest_sent \in Nat
    /\ recover_seq \in 0 .. FlowSize + MSS - 1
    /\ last_acked < FlowSize /\ last_acked <= highest_sent
    /\ rto_timeout = TRUE /\ max_sent \in Nat
    /\ dupacks \in 0 .. DupackCap
    /\ state = "FAST_RECOV" =>
          last_acked <= recover_seq /\ recover_seq <= highest_sent
    /\ c.cwnd \in Nat /\ c.ssthresh \in Nat /\ c.ssthresh >= MSS
    /\ c.state \in Active /\ (c.state = "FAST_RECOV" <=> state = "FAST_RECOV")
    /\ c.cwnd < MSS => /\ c.cwnd = 0 /\ last_acked = highest_sent
                       /\ c.state = "CONG_AVOID"
    /\ ackno \in Nat /\ Aligned(ackno) /\ ackno < FlowSize
    /\ last_acked <= ackno /\ ackno <= cumulative_ack

\* What the invariant says when an ack is taken from the route.
LEMMA AckFacts ==
    ASSUME NEW ackno, NEW c, AckContext(ackno, c)
    PROVE  AckKnown(ackno, c)
  BY SizeAssumption
  DEF AckContext, IInv, TypeOK, SequenceInv, TimerArmed, SentCoversAcked,
      RecoveryWindow, GoodOutcome, AckKnown

\* A new ack outside recovery (tcp.cpp:241-260) has a good result.
LEMMA NewAckStep ==
    ASSUME NEW ackno, NEW c, AckContext(ackno, c), NewAck(ackno, c)
    PROVE  AckResult
  <1>0. AckKnown(ackno, c)
    BY AckFacts
  <1> DEFINE w == Inflated(c, ackno)
  <1>1. w \in Nat /\ w >= MSS
    BY <1>0, InflatedWindow DEF AckKnown, AckContext, NewAck
  <1>2. Transmit(ackno, w, highest_sent, <<>>, ackno # highest_sent)
    BY DEF NewAck
  <1>3. (ackno # highest_sent) \in BOOLEAN
    OBVIOUS
  <1> HIDE DEF w
  <1>4. /\ highest_sent' \in 0 .. FlowSize + MSS - 1
        /\ Aligned(highest_sent') /\ highest_sent <= highest_sent'
        /\ max_sent' \in Nat /\ max_sent <= max_sent'
        /\ fwd' \in Seq(Nat) /\ Segments(fwd', max_sent')
        /\ rto_timeout' \in BOOLEAN /\ rto_timeout'
        /\ ackno <= highest_sent'
    BY <1>1, <1>2, <1>3, <1>0, TransmitStep DEF AckKnown
  <1>5. /\ last_acked' = ackno /\ dupacks' = 0 /\ state' = c.state
        /\ c.state # "FAST_RECOV" /\ ssthresh' = c.ssthresh /\ cwnd' = w
        /\ UNCHANGED <<recover_seq, unrecovered>>
    BY DEF NewAck, w
  <1>6. dupacks' \in 0 .. DupackCap /\ ~(w < MSS)
    BY <1>1, <1>5, SizeAssumption DEF DupackCap
  <1>7. QED
    BY <1>1, <1>4, <1>5, <1>6, <1>0 DEF AckKnown, AckResult

\* The ack that ends a recovery (tcp.cpp:264-275) has a good result.
LEMMA FullAckStep ==
    ASSUME NEW ackno, NEW c, AckContext(ackno, c), FullAck(ackno, c)
    PROVE  AckResult
  <1>0. AckKnown(ackno, c)
    BY AckFacts
  <1> DEFINE w == Deflated(c.ssthresh, ackno)
  <1>1. w \in Nat /\ (w >= MSS \/ (w = 0 /\ ackno = highest_sent + MSS))
    BY <1>0, DeflatedWindow DEF AckKnown
  <1>2. Transmit(ackno, w, highest_sent, <<>>, ackno # highest_sent)
    BY DEF FullAck
  <1>3. (ackno # highest_sent) \in BOOLEAN
    OBVIOUS
  <1> HIDE DEF w
  <1>4. /\ highest_sent' \in 0 .. FlowSize + MSS - 1
        /\ Aligned(highest_sent') /\ highest_sent <= highest_sent'
        /\ max_sent' \in Nat /\ max_sent <= max_sent'
        /\ fwd' \in Seq(Nat) /\ Segments(fwd', max_sent')
        /\ rto_timeout' \in BOOLEAN /\ rto_timeout'
        /\ w >= MSS => ackno <= highest_sent'
        /\ w = 0 /\ ackno = highest_sent + MSS => highest_sent' = ackno
    BY <1>1, <1>2, <1>3, <1>0, TransmitStep DEF AckKnown
  <1>5. /\ last_acked' = ackno /\ dupacks' = 0 /\ state' = "CONG_AVOID"
        /\ ssthresh' = c.ssthresh /\ cwnd' = w
        /\ UNCHANGED <<recover_seq, unrecovered>>
    BY DEF FullAck, w
  <1>6. /\ dupacks' \in 0 .. DupackCap /\ state' \in Active
        /\ w < MSS => w = 0 /\ highest_sent' = ackno
        /\ ackno <= highest_sent'
    BY <1>1, <1>4, <1>5, SizeAssumption DEF DupackCap, Active
  <1>7. QED
    BY <1>1, <1>4, <1>5, <1>6, <1>0 DEF AckKnown, AckResult

\* A partial ack in recovery (tcp.cpp:280-294) has a good result.
LEMMA PartialAckStep ==
    ASSUME NEW ackno, NEW c, AckContext(ackno, c), PartialAck(ackno, c)
    PROVE  AckResult
  <1>0. AckKnown(ackno, c)
    BY AckFacts
  <1> DEFINE w == AfterPartial(c.cwnd, ackno - last_acked)
  <1>1. w \in Nat /\ w >= MSS
    <2>1. /\ c.cwnd \in Nat /\ ackno \in Nat /\ last_acked \in Nat
          /\ MSS \in Nat
      BY <1>0 DEF AckKnown
    <2>2. Higher(c.cwnd - (ackno - last_acked), 0) \in Nat
      BY <2>1 DEF Higher
    <2>3. QED
      BY <2>1, <2>2 DEF AfterPartial
  <1>2. /\ Transmit(ackno, w, highest_sent, Retransmission(ackno),
                    ackno # highest_sent)
        /\ Retransmission(ackno) # <<>>
    BY DEF PartialAck, Retransmission
  <1>3. (ackno # highest_sent) \in BOOLEAN
    OBVIOUS
  <1> HIDE DEF w
  <1>4. /\ highest_sent' \in 0 .. FlowSize + MSS - 1
        /\ Aligned(highest_sent') /\ highest_sent <= highest_sent'
        /\ max_sent' \in Nat /\ max_sent <= max_sent'
        /\ fwd' \in Seq(Nat) /\ Segments(fwd', max_sent')
        /\ rto_timeout' \in BOOLEAN /\ rto_timeout'
        /\ ackno <= highest_sent'
    BY <1>1, <1>2, <1>3, <1>0, TransmitStep DEF AckKnown
  <1>5. /\ last_acked' = ackno /\ state' = c.state /\ ssthresh' = c.ssthresh
        /\ cwnd' = w /\ UNCHANGED <<recover_seq, dupacks, unrecovered>>
        /\ ackno < recover_seq /\ c.state = "FAST_RECOV"
    BY DEF PartialAck, w
  <1>6. /\ ackno <= recover_seq /\ recover_seq <= highest_sent' /\ ~(w < MSS)
    <2>1. /\ recover_seq \in Nat /\ highest_sent \in Nat /\ MSS \in Nat
          /\ ackno \in Nat /\ (c.state = "FAST_RECOV" => state = "FAST_RECOV")
          /\ (state = "FAST_RECOV" => recover_seq <= highest_sent)
      BY <1>0 DEF AckKnown
    <2>2. QED
      BY <1>1, <1>4, <1>5, <2>1
  <1>7. QED
    BY <1>1, <1>4, <1>5, <1>6, <1>0 DEF AckKnown, AckResult

\* A duplicate ack in recovery (tcp.cpp:298-305) has a good result.
LEMMA DupAckInRecoveryStep ==
    ASSUME NEW ackno, NEW c, AckContext(ackno, c), DupAckInRecovery(ackno, c)
    PROVE  AckResult
  <1>0. AckKnown(ackno, c)
    BY AckFacts
  <1> DEFINE w == c.cwnd + MSS
  <1>1. w \in Nat /\ w >= MSS
    BY <1>0 DEF AckKnown
  <1>2. Transmit(ackno, w, highest_sent, <<>>, rto_timeout)
    BY DEF DupAckInRecovery
  <1>3. rto_timeout \in BOOLEAN /\ rto_timeout
    BY <1>0 DEF AckKnown
  <1> HIDE DEF w
  <1>4. /\ highest_sent' \in 0 .. FlowSize + MSS - 1
        /\ Aligned(highest_sent') /\ highest_sent <= highest_sent'
        /\ max_sent' \in Nat /\ max_sent <= max_sent'
        /\ fwd' \in Seq(Nat) /\ Segments(fwd', max_sent')
        /\ rto_timeout' \in BOOLEAN /\ rto_timeout'
        /\ ackno <= highest_sent'
    BY <1>1, <1>2, <1>3, <1>0, TransmitStep DEF AckKnown
  <1>5. /\ last_acked' = ackno /\ state' = c.state /\ ssthresh' = c.ssthresh
        /\ cwnd' = w /\ UNCHANGED <<recover_seq, dupacks, unrecovered>>
        /\ ackno = last_acked
    BY DEF DupAckInRecovery, w
  <1>6. /\ state' = "FAST_RECOV" =>
              ackno <= recover_seq /\ recover_seq <= highest_sent'
        /\ ~(w < MSS)
    <2>1. /\ recover_seq \in Nat /\ highest_sent \in Nat /\ MSS \in Nat
          /\ ackno \in Nat /\ (c.state = "FAST_RECOV" => state = "FAST_RECOV")
          /\ state = "FAST_RECOV" =>
                last_acked <= recover_seq /\ recover_seq <= highest_sent
      BY <1>0 DEF AckKnown
    <2>2. QED
      BY <1>1, <1>4, <1>5, <2>1
  <1>7. QED
    BY <1>1, <1>4, <1>5, <1>6, <1>0 DEF AckKnown, AckResult

\* A first, second or late duplicate ack (tcp.cpp:308-314) has a good result.
LEMMA DupAckStep ==
    ASSUME NEW ackno, NEW c, AckContext(ackno, c), DupAck(ackno, c)
    PROVE  AckResult
  <1>0. AckKnown(ackno, c)
    BY AckFacts
  <1>1. /\ c.cwnd \in Nat /\ MSS \in Nat /\ MSS > 0 /\ last_acked \in Nat
        /\ c.cwnd >= MSS \/ (c.cwnd = 0 /\ last_acked = highest_sent)
    BY <1>0 DEF AckKnown
  <1>2. Transmit(ackno, c.cwnd, highest_sent, <<>>, rto_timeout)
    BY DEF DupAck
  <1>3. rto_timeout \in BOOLEAN /\ rto_timeout
    BY <1>0 DEF AckKnown
  <1>4. /\ last_acked' = last_acked /\ state' = c.state /\ ackno = last_acked
        /\ ssthresh' = c.ssthresh /\ cwnd' = c.cwnd
        /\ dupacks' = Lower(dupacks + 1, DupackCap)
        /\ c.state # "FAST_RECOV" /\ UNCHANGED <<recover_seq, unrecovered>>
    BY DEF DupAck
  <1>5. /\ highest_sent' \in 0 .. FlowSize + MSS - 1
        /\ Aligned(highest_sent') /\ highest_sent <= highest_sent'
        /\ max_sent' \in Nat /\ max_sent <= max_sent'
        /\ fwd' \in Seq(Nat) /\ Segments(fwd', max_sent')
        /\ rto_timeout' \in BOOLEAN /\ rto_timeout'
        /\ c.cwnd >= MSS => ackno <= highest_sent'
        /\ c.cwnd = 0 /\ ackno <= highest_sent => highest_sent' = highest_sent
    BY <1>1, <1>2, <1>3, <1>0, TransmitStep DEF AckKnown
  <1>6. /\ last_acked <= highest_sent'
        /\ c.cwnd < MSS => highest_sent' = last_acked
    BY <1>1, <1>4, <1>5
  <1>7. dupacks' \in 0 .. DupackCap
    BY <1>4, <1>0 DEF AckKnown, Lower, DupackCap
  <1>8. QED
    BY <1>4, <1>5, <1>6, <1>7, <1>0 DEF AckKnown, AckResult

\* A third duplicate ack below the recovery point (tcp.cpp:317-321) has a good
\* result.
LEMMA ThirdDupStep ==
    ASSUME NEW ackno, NEW c, AckContext(ackno, c), ThirdDupNoRecovery(ackno, c)
    PROVE  AckResult
  <1>0. AckKnown(ackno, c)
    BY AckFacts
  <1>1. /\ state' = c.state /\ ssthresh' = c.ssthresh /\ cwnd' = c.cwnd
        /\ dupacks' = 3 /\ c.state # "FAST_RECOV"
        /\ UNCHANGED <<recover_seq, last_acked, unrecovered, rto_timeout,
                       highest_sent, fwd, max_sent>>
    BY DEF ThirdDupNoRecovery
  <1>2. dupacks' \in 0 .. DupackCap /\ last_acked <= cumulative_ack
    BY <1>1 DEF DupackCap, AckContext, IInv, SequenceInv
  <1>3. max_sent <= max_sent'
    BY <1>1, <1>0 DEF AckKnown
  <1>4. QED
    BY <1>1, <1>2, <1>3, <1>0 DEF AckKnown, AckResult

\* Entering fast recovery (tcp.cpp:324-334) has a good result.
LEMMA FastRetransmitStep ==
    ASSUME NEW ackno, NEW c, AckContext(ackno, c), FastRetransmit(ackno, c)
    PROVE  AckResult
  <1>0. AckKnown(ackno, c)
    BY AckFacts
  <1>1. /\ c.cwnd \in Nat /\ MSS \in Nat /\ MSS > 0 /\ ackno \in Nat
        /\ max_sent \in Nat /\ Aligned(ackno) /\ Segments(fwd, max_sent)
        /\ last_acked <= highest_sent /\ highest_sent \in Nat
        /\ highest_sent \in 0 .. FlowSize + MSS - 1
    BY <1>0 DEF AckKnown
  <1>2. /\ ackno = last_acked /\ state' = "FAST_RECOV" /\ dupacks' = 3
        /\ ssthresh' = Higher(c.cwnd \div 2, 2 * MSS)
        /\ cwnd' = ssthresh' + 3 * MSS
        /\ recover_seq' = highest_sent /\ rto_timeout' = TRUE
        /\ fwd' = fwd \o Retransmission(ackno)
        /\ max_sent' = Higher(max_sent, ackno + MSS)
        /\ UNCHANGED <<highest_sent, last_acked, unrecovered>>
    BY DEF FastRetransmit, RecoveryPoint
  <1>3. ssthresh' \in Nat /\ ssthresh' >= MSS
    <2>1. c.cwnd \div 2 \in Nat
      BY <1>1, QuotientNat
    <2>2. QED
      BY <1>1, <1>2, <2>1 DEF Higher
  <1>4. cwnd' \in Nat /\ ~(cwnd' < MSS)
    BY <1>1, <1>2, <1>3
  <1>5. /\ max_sent' \in Nat /\ max_sent <= max_sent'
        /\ ackno + MSS <= max_sent'
    BY <1>1, <1>2 DEF Higher
  <1>6. Segments(fwd', max_sent')
    <2>1. Segments(fwd, max_sent')
      BY <1>1, <1>5, SegmentsGrow
    <2>2. Segments(Retransmission(ackno), max_sent')
      BY <1>1, <1>5, OneSegment
    <2>3. QED
      BY <1>2, <1>5, <2>1, <2>2, SegmentsJoin
  <1>7. fwd' \in Seq(Nat)
    BY <1>6 DEF Segments
  <1>8. /\ dupacks' \in 0 .. DupackCap /\ state' \in Active
        /\ last_acked <= cumulative_ack
    BY <1>2 DEF DupackCap, Active, AckContext, IInv, SequenceInv
  <1>9. QED
    BY <1>1, <1>2, <1>3, <1>4, <1>5, <1>6, <1>7, <1>8, <1>0 DEF AckKnown, AckResult

\* The sender's ack handler (tcp.cpp:134-335) preserves the invariant.
LEMMA ReceiveAckStep == IInv /\ ReceiveAck => IInv'
  <1> SUFFICES ASSUME IInv, ReceiveAck PROVE IInv'
    OBVIOUS
  <1>1. PICK i \in 1 .. Len(rev) :
           /\ rev' = Without(rev, i)
           /\ IgnoredAck(rev[i]) \/ FinishFlow(rev[i]) \/ ProcessAck(rev[i])
    BY DEF ReceiveAck, Deliverable
  <1>2. /\ rev[i] \in Nat /\ Aligned(rev[i]) /\ rev[i] <= cumulative_ack
        /\ rev # <<>> /\ state # "IDLE"
    BY DEF IInv, SequenceInv, Acks, IdleInv
  <1>3. Acks(rev', cumulative_ack) /\ rev' \in Seq(Nat)
    BY <1>1, WithoutAck DEF IInv, TypeOK, SequenceInv, Acks
  <1>4. UNCHANGED <<sink, budget>>
    BY DEF ReceiveAck
  <1>5. CASE IgnoredAck(rev[i])
    <2>1. UNCHANGED <<state, cwnd, ssthresh, recover_seq, dupacks, rto_timeout,
             highest_sent, last_acked, deleted, cumulative_ack, received, fwd,
             max_sent, unrecovered, losses, spurious>>
      BY <1>4, <1>5 DEF IgnoredAck, sender, window, sink, budget
    <2>2. QED
      BY <1>2, <1>3, <2>1 DEF IInv, TypeOK, SequenceInv, IdleInv, WindowInv,
         TimerArmed, SentCoversAcked, RecoveryWindow, NoSegmentLeftBehind,
         FinishedIsDelivered
  <1>6. CASE FinishFlow(rev[i])
    <2>1. /\ state' = "FINISH" /\ (rev[i] >= FlowSize \/ Timed)
          /\ UNCHANGED <<cwnd, ssthresh, recover_seq, dupacks, rto_timeout,
             highest_sent, last_acked, deleted, cumulative_ack, received, fwd,
             max_sent, unrecovered, losses, spurious>>
      BY <1>4, <1>6 DEF FinishFlow, Completes, sink, budget
    <2>2. FinishedIsDelivered'
      BY <1>2, <2>1, SizeAssumption DEF IInv, TypeOK, FinishedIsDelivered
    <2>3. QED
      BY <1>3, <2>1, <2>2 DEF IInv, TypeOK, SequenceInv, IdleInv, WindowInv,
         TimerArmed, SentCoversAcked, RecoveryWindow, NoSegmentLeftBehind,
         Active, States
  <1>7. CASE ProcessAck(rev[i])
    <2>1. PICK c \in DctcpOutcomes([state |-> state, cwnd |-> cwnd,
                                    ssthresh |-> ssthresh]) :
             \/ NewAck(rev[i], c)
             \/ FullAck(rev[i], c)
             \/ PartialAck(rev[i], c)
             \/ DupAckInRecovery(rev[i], c)
             \/ DupAck(rev[i], c)
             \/ ThirdDupNoRecovery(rev[i], c)
             \/ FastRetransmit(rev[i], c)
      BY <1>7 DEF ProcessAck
    <2>2. state \in Active /\ rev[i] < FlowSize /\ UNCHANGED deleted
      BY <1>2, <1>7, SizeAssumption
      DEF ProcessAck, Completes, IInv, TypeOK, States
    <2>3. GoodOutcome(c)
      BY <2>2, DctcpOutcome
    <2>4. last_acked <= rev[i]
      BY <1>2, <2>1 DEF NewAck, FullAck, PartialAck, DupAckInRecovery, DupAck,
         ThirdDupNoRecovery, FastRetransmit, IInv, TypeOK
    <2>5. AckContext(rev[i], c)
      BY <1>2, <1>3, <1>4, <2>2, <2>3, <2>4 DEF AckContext
    <2>6. AckResult
      BY <2>1, <2>5, NewAckStep, FullAckStep, PartialAckStep,
         DupAckInRecoveryStep, DupAckStep, ThirdDupStep, FastRetransmitStep
    <2>7. QED
      BY <2>5, <2>6, AckInv
  <1>8. QED
    BY <1>1, <1>5, <1>6, <1>7

\* Every step of the flow preserves the invariant.
LEMMA NextIInv == IInv /\ [Next]_vars => IInv'
  <1> SUFFICES ASSUME IInv, [Next]_vars PROVE IInv'
    OBVIOUS
  <1>1. CASE Next
    BY <1>1, StartStep, TimeoutStep, CleanupStep, ReceiveDataStep,
       ReceiveAckStep, LossStep DEF Next
  <1>2. CASE UNCHANGED vars
    BY <1>2 DEF vars, sender, window, sink, budget, IInv, TypeOK, SequenceInv,
       IdleInv, WindowInv, TimerArmed, SentCoversAcked, RecoveryWindow,
       NoSegmentLeftBehind, FinishedIsDelivered
  <1>3. QED
    BY <1>1, <1>2

\* The inductive invariant holds throughout every behaviour of the flow.
THEOREM InductiveInvariant == Spec => []IInv
  <1>1. Init => IInv
    BY InitIInv
  <1>2. IInv /\ [Next]_vars => IInv'
    BY NextIInv
  <1>3. QED
    BY <1>1, <1>2, PTL DEF Spec

----------------------------------------------------------------------------
(* The theorems *)

\* Every variable keeps its type and its range, a flow never sends past the
\* segment that holds its last byte (tcp.cpp:370, 422), and every position is a
\* boundary of segments: what the sender has sent and has acknowledged, what
\* the sink has and acknowledges and what the routes carry.  A flow moves by
\* whole segments (tcp.cpp:115, 413-424), so no ack falls inside of one.
THEOREM TypeCorrect == Spec => [](TypeOK /\ SequenceInv)
  <1>1. IInv => TypeOK /\ SequenceInv
    BY DEF IInv
  <1>2. QED
    BY <1>1, InductiveInvariant, PTL

\* A started, unfinished flow always has its retransmission timer armed, for
\* every flow and window size and whatever the routes lose or reorder
\* (tcp.cpp:244-249, 418, 452).
THEOREM NoStall == Spec => []TimerArmed
  <1>1. IInv => TimerArmed
    BY DEF IInv
  <1>2. QED
    BY <1>1, InductiveInvariant, PTL

\* Between two events the sender has never forgotten sending what it knows to
\* be acknowledged, so its unsigned flight size does not wrap there
\* (tcp.cpp:106, 115).
THEOREM FlightSizeIsSound == Spec => []SentCoversAcked
  <1>1. IInv => SentCoversAcked
    BY DEF IInv
  <1>2. QED
    BY <1>1, InductiveInvariant, PTL

\* The window collapses to 0 only with nothing outstanding (tcp.cpp:266-273).
THEOREM CollapseIsHarmless == Spec => []CollapsedWindowIsIdle
  <1>1. IInv => CollapsedWindowIsIdle
    BY DEF IInv, WindowInv, CollapsedWindowIsIdle
  <1>2. QED
    BY <1>1, InductiveInvariant, PTL

\* The recovery point stays inside the window being recovered (tcp.cpp:264,
\* 331).
THEOREM RecoveryIsBounded == Spec => []RecoveryWindow
  <1>1. IInv => RecoveryWindow
    BY DEF IInv
  <1>2. QED
    BY <1>1, InductiveInvariant, PTL

\* Acks are for bytes the sink holds, and the sink holds bytes that were sent
\* (tcp.cpp:460-488, datasink.cpp:17-59).
THEOREM AcksAreSound == Spec => []AcksAreHonest
  <1>1. IInv => AcksAreHonest
    BY DEF IInv, SequenceInv, Segments, Acks, AcksAreHonest
  <1>2. QED
    BY <1>1, InductiveInvariant, PTL

\* The sink acknowledges every contiguous byte it holds (datasink.cpp:28-37).
THEOREM SinkIsPrompt == Spec => []NoSegmentLeftBehind
  <1>1. IInv => NoSegmentLeftBehind
    BY DEF IInv
  <1>2. QED
    BY <1>1, InductiveInvariant, PTL

\* A finished flow without a time limit has been delivered (tcp.cpp:148-154).
THEOREM FinishIsHonest == Spec => []FinishedIsDelivered
  <1>1. IInv => FinishedIsDelivered
    BY DEF IInv
  <1>2. QED
    BY <1>1, InductiveInvariant, PTL

----------------------------------------------------------------------------
(* The refinement *)

\* A deleted flow has finished and has nothing on its routes: no event finds it
\* (tcp.cpp:79-89).
DeletedInv == deleted => state = "FINISH" /\ fwd = <<>> /\ rev = <<>>

RInv == IInv /\ DeletedInv

\* No step of a deleted flow but stuttering.
LEMMA DeletedStep == RInv /\ [Next]_vars => DeletedInv'
  <1> SUFFICES ASSUME RInv, [Next]_vars PROVE DeletedInv'
    OBVIOUS
  <1>1. CASE Start
    BY <1>1 DEF Start, RInv, DeletedInv
  <1>2. CASE Timeout
    BY <1>2 DEF Timeout, RInv, DeletedInv, Active
  <1>3. CASE Cleanup
    BY <1>3 DEF Cleanup, RoutesEmpty, window, DeletedInv
  <1>4. CASE ReceiveData
    <2>1. fwd # <<>> /\ deleted' = deleted
      BY <1>4 DEF ReceiveData, Deliverable, sender
    <2>2. QED
      BY <2>1 DEF RInv, DeletedInv
  <1>5. CASE ReceiveAck
    <2>1. rev # <<>>
      BY <1>5 DEF ReceiveAck, Deliverable
    <2>2. deleted' = deleted
      BY <1>5 DEF ReceiveAck, IgnoredAck, FinishFlow, ProcessAck, sender
    <2>3. QED
      BY <2>1, <2>2 DEF RInv, DeletedInv
  <1>6. CASE LoseData \/ LoseAck
    <2>1. (fwd # <<>> \/ rev # <<>>) /\ deleted' = deleted
      BY <1>6 DEF LoseData, LoseAck, sender
    <2>2. QED
      BY <2>1 DEF RInv, DeletedInv
  <1>7. CASE UNCHANGED vars
    BY <1>7 DEF vars, sender, window, RInv, DeletedInv
  <1>8. QED
    BY <1>1, <1>2, <1>3, <1>4, <1>5, <1>6, <1>7 DEF Next

\* What the phase is in each state.
LEMMA PhaseIs ==
    ASSUME RInv
    PROVE  /\ state \in Active => Phase = "active" /\ ~deleted
           /\ state = "IDLE" => Phase = "idle" /\ ~deleted
           /\ state = "FINISH" /\ ~deleted => Phase = "finished"
           /\ deleted => Phase = "deleted"
           /\ state \in Active \cup {"IDLE", "FINISH"}
  <1>1. /\ state \in Active \cup {"IDLE", "FINISH"}
        /\ deleted => state = "FINISH"
        /\ "IDLE" \notin Active /\ "FINISH" \notin Active
    BY DEF Active, States, RInv, DeletedInv, IInv, TypeOK
  <1>2. CASE deleted
    <2>1. deleted = TRUE /\ ~(state \in Active) /\ state # "IDLE"
      BY <1>1, <1>2 DEF RInv, IInv, TypeOK
    <2>2. Phase = "deleted"
      BY <2>1 DEF Phase
    <2>3. QED
      BY <1>1, <1>2, <2>2
  <1>3. CASE ~deleted
    <2>1. state \in Active => Phase = "active"
      BY <1>1, <1>3 DEF Phase
    <2>2. state = "IDLE" => Phase = "idle"
      BY <1>1, <1>3 DEF Phase
    <2>3. state = "FINISH" => Phase = "finished"
      BY <1>1, <1>3 DEF Phase
    <2>4. QED
      BY <1>1, <1>3, <2>1, <2>2, <2>3
  <1>4. QED
    BY <1>2, <1>3

\* The first segments, and the retransmission of a timeout, are steps of the
\* sender.
LEMMA SendingStep ==
    ASSUME RInv, RInv', Start \/ Timeout
    PROVE  Promise!SenderStep
  <1>1. /\ last_acked \in Nat /\ cumulative_ack \in Nat /\ max_sent \in Nat
        /\ last_acked <= cumulative_ack /\ max_sent' \in Nat
        /\ MSS \in Nat /\ last_acked < FlowSize
    BY SizeAssumption DEF RInv, IInv, TypeOK, SequenceInv
  <1>2. /\ max_sent <= max_sent'
        /\ UNCHANGED <<last_acked, cumulative_ack>>
        /\ state' \in Active /\ state \in Active \cup {"IDLE"}
    <2>1. CASE Start
      <3>1. /\ Transmit(last_acked, 2 * MSS, highest_sent, <<>>, rto_timeout)
            /\ UNCHANGED <<last_acked, sink>> /\ state' = "SLOW_START"
            /\ state = "IDLE"
        BY <2>1 DEF Start
      <3>2. TypeOK /\ Aligned(highest_sent) /\ Segments(fwd, max_sent)
            /\ Aligned(last_acked) /\ rto_timeout \in BOOLEAN /\ 2 * MSS \in Nat
        BY <1>1 DEF RInv, IInv, TypeOK, SequenceInv
      <3>3. max_sent <= max_sent'
        BY <1>1, <3>1, <3>2, TransmitStep
      <3>4. QED
        BY <3>1, <3>3 DEF sink, Active
    <2>2. CASE Timeout
      BY <1>1, <2>2 DEF Timeout, Higher, sink, Active
    <2>3. QED
      BY <2>1, <2>2
  <1>3. Phase \in {"idle", "active"} /\ Phase' = "active"
    <2>1. Phase \in {"idle", "active"}
      BY <1>2, PhaseIs
    <2>2. ~deleted' /\ state' # "FINISH" /\ state' \in Active
      BY <1>2 DEF RInv, DeletedInv, Active
    <2>3. QED
      BY <2>1, <2>2 DEF Phase
  <1>4. QED
    BY <1>1, <1>2, <1>3 DEF Promise!SenderStep

\* An ack is ignored, finishes a delivered flow, or is a step of the sender.
LEMMA AckedStep ==
    ASSUME RInv, RInv', ReceiveAck
    PROVE  Promise!SenderStep \/ Promise!Finish \/ UNCHANGED Promise!vars
  <1>0. IInv /\ DeletedInv
    BY DEF RInv
  <1>1. PICK i \in 1 .. Len(rev) :
           /\ rev' = Without(rev, i)
           /\ IgnoredAck(rev[i]) \/ FinishFlow(rev[i]) \/ ProcessAck(rev[i])
    BY DEF ReceiveAck, Deliverable
  <1>2. /\ rev[i] \in Nat /\ Aligned(rev[i]) /\ rev[i] <= cumulative_ack
        /\ rev # <<>> /\ state # "IDLE" /\ ~deleted
        /\ FlowSize \in Nat /\ cumulative_ack \in Nat
    <2>1. /\ rev[i] \in Nat /\ Aligned(rev[i]) /\ rev[i] <= cumulative_ack
          /\ rev # <<>> /\ state # "IDLE"
      BY <1>0 DEF IInv, SequenceInv, Acks, IdleInv
    <2>2. ~deleted
      BY <1>0, <2>1 DEF DeletedInv
    <2>3. QED
      BY <1>0, <2>1, <2>2, SizeAssumption DEF IInv, TypeOK
  <1>3. UNCHANGED <<cumulative_ack, received, losses, spurious>>
    BY DEF ReceiveAck, sink, budget
  <1>4. CASE IgnoredAck(rev[i])
    <2>1. UNCHANGED <<state, deleted, max_sent, last_acked>>
      BY <1>4 DEF IgnoredAck, sender, window
    <2>2. UNCHANGED Phase
      BY <2>1 DEF Phase
    <2>3. QED
      BY <1>3, <2>1, <2>2 DEF Promise!vars
  <1>5. CASE FinishFlow(rev[i])
    <2>1. /\ state # "FINISH" /\ state' = "FINISH"
          /\ rev[i] >= FlowSize \/ Timed
          /\ UNCHANGED <<deleted, max_sent, last_acked>>
      BY <1>5 DEF FinishFlow, Completes
    <2>2. Phase = "active" /\ Phase' = "finished"
      <3>1. Phase = "active"
        BY <1>2, <2>1, PhaseIs
      <3>2. ~deleted' /\ state' = "FINISH" /\ state' \notin Active
        BY <1>2, <2>1 DEF Active
      <3>3. Phase' = "finished"
        BY <3>2 DEF Phase
      <3>4. QED
        BY <3>1, <3>3
    <2>3. cumulative_ack >= FlowSize \/ Timed
      BY <1>2, <2>1
    <2>4. QED
      BY <1>3, <2>1, <2>2, <2>3 DEF Promise!Finish
  <1>6. CASE ProcessAck(rev[i])
    <2>1. PICK c \in DctcpOutcomes([state |-> state, cwnd |-> cwnd,
                                    ssthresh |-> ssthresh]) :
             \/ NewAck(rev[i], c)
             \/ FullAck(rev[i], c)
             \/ PartialAck(rev[i], c)
             \/ DupAckInRecovery(rev[i], c)
             \/ DupAck(rev[i], c)
             \/ ThirdDupNoRecovery(rev[i], c)
             \/ FastRetransmit(rev[i], c)
      BY <1>6 DEF ProcessAck
    <2>2. state \in Active /\ rev[i] < FlowSize /\ UNCHANGED deleted
      BY <1>0, <1>2, <1>6, SizeAssumption
      DEF ProcessAck, Completes, IInv, TypeOK, States
    <2>3. GoodOutcome(c)
      BY <2>2, DctcpOutcome DEF RInv
    <2>4. last_acked <= rev[i] /\ last_acked' = rev[i]
      <3>1. last_acked \in Nat
        BY <1>0 DEF IInv, TypeOK
      <3>2. /\ rev[i] > last_acked \/ rev[i] = last_acked
            /\ rev[i] > last_acked => last_acked' = rev[i]
            /\ rev[i] = last_acked => last_acked' = last_acked
        BY <2>1 DEF NewAck, FullAck, PartialAck, DupAckInRecovery, DupAck,
           ThirdDupNoRecovery, FastRetransmit
      <3>3. QED
        BY <1>2, <3>1, <3>2
    <2>5. Acks(rev', cumulative_ack)
      BY <1>1, WithoutAck DEF RInv, IInv, TypeOK, SequenceInv
    <2>6. AckContext(rev[i], c)
      BY <1>2, <1>3, <2>2, <2>3, <2>4, <2>5 DEF AckContext, RInv, sink, budget
    <2>7. AckResult
      BY <2>1, <2>6, NewAckStep, FullAckStep, PartialAckStep,
         DupAckInRecoveryStep, DupAckStep, ThirdDupStep, FastRetransmitStep
    <2>8. Phase = "active" /\ Phase' = "active"
      BY <1>2, <2>2, <2>7 DEF Phase, AckResult, Active
    <2>9. QED
      BY <1>2, <1>3, <2>4, <2>7, <2>8 DEF AckResult, Promise!SenderStep
  <1>7. QED
    BY <1>1, <1>4, <1>5, <1>6

\* A data packet extends the prefix or changes nothing the user sees.
LEMMA DeliveryStep ==
    ASSUME RInv, RInv', ReceiveData
    PROVE  Promise!Deliver \/ UNCHANGED Promise!vars
  <1>1. PICK i \in 1 .. Len(fwd) : ProcessDataPacket(fwd[i])
    BY DEF ReceiveData, Deliverable
  <1>2. /\ fwd[i] \in Nat /\ Aligned(fwd[i] - 1)
        /\ fwd[i] + MSS - 1 <= max_sent /\ fwd # <<>>
    BY DEF RInv, IInv, SequenceInv, Segments
  <1>3. /\ cumulative_ack <= cumulative_ack' /\ cumulative_ack' <= max_sent
        /\ cumulative_ack \in Nat /\ cumulative_ack' \in Nat
    BY <1>1, <1>2, SinkStep DEF RInv, IInv, TypeOK
  <1>4. UNCHANGED <<state, deleted, max_sent, last_acked>>
    BY DEF ReceiveData, sender, window
  <1>5. Phase \in {"active", "finished"} /\ UNCHANGED Phase
    <2>1. state # "IDLE" /\ ~deleted
      BY <1>2 DEF RInv, IInv, IdleInv, DeletedInv
    <2>2. Phase \in {"active", "finished"}
      BY <2>1, PhaseIs
    <2>3. QED
      BY <2>2, <1>4 DEF Phase
  <1>6. QED
    BY <1>3, <1>4, <1>5 DEF Promise!Deliver, Promise!vars

\* The flow implements ReliableTransfer: whatever the routes lose, duplicate
\* through retransmissions or reorder, the sender only learns of bytes that
\* were delivered in order, finishes when all were, and is deleted once, after
\* that (tcp.cpp:65-130, 134-360, 460-488).
THEOREM FlowIsReliable == Spec => ImplementsReliableTransfer
  <1>1. Init => RInv
    BY InitIInv DEF Init, RInv, DeletedInv
  <1>2. RInv /\ [Next]_vars => RInv'
    BY NextIInv, DeletedStep DEF RInv
  <1>3. Init => Promise!Init
    BY DEF Init, Promise!Init, Phase, Active
  <1>4. RInv /\ RInv' /\ [Next]_vars => [Promise!Next]_(Promise!vars)
    <2> SUFFICES ASSUME RInv, RInv', [Next]_vars
                 PROVE  Promise!Next \/ UNCHANGED Promise!vars
      OBVIOUS
    <2>1. CASE Start \/ Timeout
      BY <2>1, SendingStep DEF Promise!Next
    <2>2. CASE Cleanup
      <3>1. /\ state = "FINISH" /\ ~deleted /\ deleted'
            /\ UNCHANGED <<max_sent, cumulative_ack, last_acked>>
        BY <2>2 DEF Cleanup, sink
      <3>2. Phase = "finished" /\ Phase' = "deleted"
        <4>1. Phase = "finished"
          BY <3>1, PhaseIs
        <4>2. Phase' = "deleted"
          BY <3>1 DEF Phase
        <4>3. QED
          BY <4>1, <4>2
      <3>3. QED
        BY <3>1, <3>2 DEF Promise!Next, Promise!Reclaim
    <2>3. CASE ReceiveData
      BY <2>3, DeliveryStep DEF Promise!Next
    <2>4. CASE ReceiveAck
      BY <2>4, AckedStep DEF Promise!Next
    <2>5. CASE LoseData \/ LoseAck \/ UNCHANGED vars
      <3>1. UNCHANGED <<state, deleted, max_sent, cumulative_ack, last_acked>>
        BY <2>5 DEF LoseData, LoseAck, vars, sender, window, sink
      <3>2. UNCHANGED Phase
        BY <3>1 DEF Phase
      <3>3. QED
        BY <3>1, <3>2 DEF Promise!vars
    <2>6. QED
      BY <2>1, <2>2, <2>3, <2>4, <2>5 DEF Next
  <1>5. QED
    BY <1>1, <1>2, <1>3, <1>4, PTL
    DEF Spec, ImplementsReliableTransfer, Promise!Spec
=============================================================================
